------------------------------- MODULE RunLedger --------------------------------
(***************************************************************************)
(* What the rows of collection_runs tell somebody who reads them and knows *)
(* nothing of locks, processes and queues.  Runs are numbered in the order *)
(* in which they began.  One is open at a time; when the next one begins,  *)
(* whatever was still open is given up.  An ending is final.               *)
(***************************************************************************)
EXTENDS Naturals

CONSTANT MaxRuns       \* bound: runs ever begun

VARIABLE state         \* of each run: "none", "open" or how it ended

Ids     == 1 .. MaxRuns
Endings == {"success", "partial", "failed"}

GivenUp(r) == IF state[r] = "open" THEN "aborted" ELSE state[r]

Init == state = [r \in Ids |-> "none"]

Begin(r) ==
  /\ state[r] = "none" /\ \A s \in 1 .. r - 1 : state[s] # "none"
  /\ state' = [s \in Ids |-> IF s = r THEN "open" ELSE GivenUp(s)]

Close(r) ==
  /\ state[r] = "open"
  /\ \E how \in Endings : state' = [state EXCEPT ![r] = how]

\* The dead are cleared away, and the next run has not begun yet.
GiveUp == state' = [r \in Ids |-> GivenUp(r)]

Next == GiveUp \/ \E r \in Ids : Begin(r) \/ Close(r)

Spec == Init /\ [][Next]_state
=============================================================================
