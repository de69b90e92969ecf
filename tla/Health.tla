-------------------------------- MODULE Health ---------------------------------
(***************************************************************************)
(* What "rowanjobs health" makes of the archive and of the journal of      *)
(* startup failures (ops/health.py, ops/failures.py, ops/cpstatus.py), as  *)
(* far as its exit code goes: the release tool takes exit 0 and exit 2 for *)
(* a release that works.  A summary of the evidence is enough for that:    *)
(*   last      the newest scheduled run: its row is open, it ended well    *)
(*             (success, or partial, which costs exit 0) or failed         *)
(*   today     whether today's slot had a failed activation, and whether a *)
(*             run of that slot answers it                                 *)
(*   earlier   an earlier slot had a failed activation that no run of that *)
(*             slot answered                                               *)
(*   lag       days since the last slot with a qualified scan              *)
(***************************************************************************)
EXTENDS Integers

StaleAfter == 2        \* days without a qualified scan

RunStates  == {"open", "good", "failed"}
SlotStates == {"clear", "failed", "answered"}
Evidence   == [last : RunStates, today : SlotStates, earlier : BOOLEAN,
               lag : 0 .. StaleAfter]

\* An open row is taken for a run in progress, before anything else is looked at.
CollectionState(e) ==
  IF e.last = "open" THEN "RUNNING"
  ELSE IF e.lag = StaleAfter THEN "STALE"
  ELSE IF e.last = "failed" THEN "FAILED"
  ELSE "HEALTHY or DEGRADED"

\* assess: a failure stands until a run of its own slot answers it.
Unresolved(e) == e.today = "failed" \/ e.earlier

\* The components of the status document that can be worse than degraded.
DailyCollectionFailed(e) == CollectionState(e) \in {"FAILED", "STALE"}
StartupFailed(e)         == Unresolved(e)

\* The worst component decides.
OverallFailed(e) == DailyCollectionFailed(e) \/ StartupFailed(e)

\* What cmd_health exits with; the rest of the evidence tells 0 from 2.
ExitCodes(e) == IF OverallFailed(e) THEN {1} ELSE {0, 2}

-----------------------------------------------------------------------------
(* How the evidence changes.                                               *)

\* onfailure.py records a failed activation for the day it runs on.
ActivationFailed(e) == [e EXCEPT !.today = IF @ = "answered" THEN @ ELSE "failed"]

RunOpened(e) == [e EXCEPT !.last = "open"]

\* A run that did not fail answers its slot, also for failures recorded later.
RunClosed(e, outcome, qualified) ==
  [e EXCEPT !.last  = IF outcome = "failed" THEN "failed" ELSE "good",
            !.today = IF outcome = "failed" THEN @ ELSE "answered",
            !.lag   = IF qualified THEN 0 ELSE @]

NextDay(e) ==
  [e EXCEPT !.today   = "clear",
            !.earlier = @ \/ e.today = "failed",
            !.lag     = IF @ < StaleAfter THEN @ + 1 ELSE @]
=============================================================================
