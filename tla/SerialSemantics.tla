--------------------------- MODULE SerialSemantics ---------------------------
(***************************************************************************)
(* What a block computes: the transactions run one after the other in      *)
(* block order.                                                            *)
(*                                                                         *)
(* A transaction is a deterministic program: from the values its reads     *)
(* have returned so far it asks for the next key, and when it asks for     *)
(* none it has determined its writes.                                      *)
(***************************************************************************)
EXTENDS Integers, Sequences

CONSTANTS BlockSize,
          Keys,
          InitStorage,      \* key -> value before the block; Nil when absent
          Nil,              \* no value: an absent or a deleted key
          NoKey,            \* the program has read all it needs
          NextRead(_, _),   \* transaction, values read |-> next key or NoKey
          WriteSet(_, _)    \* transaction, values read |-> key -> value, on the keys written

\* The values that transaction t reads when it runs alone on state s.
SerialReads(t, s) ==
  LET read[vals \in Seq(UNION {{s[k]} : k \in Keys})] ==
        IF NextRead(t, vals) \in Keys THEN read[Append(vals, s[NextRead(t, vals)])]
        ELSE vals
  IN read[<<>>]

ApplyWrites(s, ws) == [k \in Keys |-> IF k \in DOMAIN ws THEN ws[k] ELSE s[k]]

\* The state after the first n transactions, one after the other.
SerialState ==
  LET after[n \in 0 .. BlockSize] ==
        IF n = 0 THEN InitStorage
        ELSE ApplyWrites(after[n - 1], WriteSet(n - 1, SerialReads(n - 1, after[n - 1])))
  IN after
=============================================================================
