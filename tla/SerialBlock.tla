----------------------------- MODULE SerialBlock -----------------------------
(***************************************************************************)
(* What executing a block promises: the serial result reaches the caller's *)
(* storage as a whole, or, if the execution is given up, not at all.       *)
(***************************************************************************)
EXTENDS SerialSemantics

VARIABLES storage,   \* the caller's MultiStore
          result     \* "running", then what ExecuteBlock returns: "ok" or "cancelled"

Init == storage = InitStorage /\ result = "running"

Commit ==
  /\ result = "running"
  /\ result' = "ok"
  /\ storage' = SerialState[BlockSize]

GiveUp ==
  /\ result = "running"
  /\ result' = "cancelled"
  /\ UNCHANGED storage

Next == Commit \/ GiveUp

Spec == Init /\ [][Next]_<<storage, result>>
=============================================================================
