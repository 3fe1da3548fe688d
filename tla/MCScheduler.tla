----------------------------- MODULE MCScheduler -----------------------------
(* The scheduler with an arbitrary memory behind it: every transaction may *)
(* wait for every lower one, write a new location or not, and be aborted   *)
(* until its incarnation reaches MaxIncarnation.                           *)
EXTENDS SchedulerInv

CONSTANT MaxIncarnation

MCNext == SchedNext /\ \A w \in Workers : pc'[w] = "tryAbort" => inc[w] < MaxIncarnation

\* Only when all goroutines have returned may the system stop.
MCStopped == AllStopped /\ UNCHANGED schedVars

MCSpec == SchedInit /\ [][MCNext \/ MCStopped]_schedVars
=============================================================================
