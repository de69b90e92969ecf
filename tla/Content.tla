------------------------------ MODULE Content -------------------------------
(***************************************************************************)
(* How the history of one advertisement's content is told.                 *)
(*                                                                         *)
(* A collection run retrieves the advertisement's page, decides whether    *)
(* what came back is its content, and links the observation to a content   *)
(* version.  A version belongs to the parser that read it: the content     *)
(* fingerprint covers the lineage (parser, comparison contract and text    *)
(* contract versions), so posting_versions is at most one row for each     *)
(* lineage and content, and a version is written <<lineage, content>>      *)
(* here.  At its end the run compares every observation it made with the   *)
(* latest earlier one of the same lineage, and writes content_changed      *)
(* events.  Reprocessing with --relink moves observations to the lineage   *)
(* of the installed software, whether or not a run is in progress.         *)
(*                                                                         *)
(* Observations are numbered in the order of observed_at_utc: it has a     *)
(* precision of one second, and requests are paced further apart.          *)
(***************************************************************************)
EXTENDS Integers, Sequences

CONSTANTS
  Contents,        \* what the employer may publish
  Lineages,        \* comparison lineages of the releases that get installed
  MaxRuns,         \* bound: collection runs
  MaxObservations  \* bound: captures of content

ASSUME BoundsAssumption ==
  /\ Contents # {} /\ Lineages # {} /\ MaxRuns \in Nat /\ MaxObservations \in Nat

VARIABLES
  page,            \* the source: what it shows, and whether with the job number
  lineage,         \* comparison_lineage() of the installed release
  obs,             \* posting_observations that captured content
  changes,         \* content_changed events, by the observations they compare
  run, pc, todo    \* the run in progress, and what it has still to compare

vars == <<page, lineage, obs, changes, run, pc, todo>>

Page        == [content : Contents, numbered : BOOLEAN]
Observation == [run : 1 .. MaxRuns, content : Contents, lineage : Lineages,
                match : BOOLEAN,     \* identity_state = "match"
                moved : BOOLEAN]     \* relinked since it was recorded
Indices     == 1 .. MaxObservations
Change      == [first : Indices, second : Indices]

Version(i) == <<obs[i].lineage, obs[i].content>>

-----------------------------------------------------------------------------
Init ==
  /\ page \in Page /\ lineage \in Lineages
  /\ obs = <<>> /\ changes = {}
  /\ run = 0 /\ pc = "idle" /\ todo = {}

\* The employer edits the advertisement, or the template stops showing its number.
Edit ==
  /\ page' \in Page \ {page}
  /\ UNCHANGED <<lineage, obs, changes, run, pc, todo>>

\* A release is installed, or rolled back.
Install ==
  /\ pc = "idle"
  /\ lineage' \in Lineages \ {lineage}
  /\ UNCHANGED <<page, obs, changes, run, pc, todo>>

StartRun ==
  /\ pc = "idle" /\ run < MaxRuns
  /\ run' = run + 1 /\ pc' = "collect"
  /\ UNCHANGED <<page, lineage, obs, changes, todo>>

\* What may come back instead of the page: a challenge, no usable response, the
\* listing, another job, the page without a description.
Answers == [challenge : BOOLEAN, ok : BOOLEAN, toListing : BOOLEAN, id : {"none", "own", "other"},
            described : BOOLEAN]

\* DetailCollector.collect.  A notice of closure beside a description is noted as
\* a conflict, and the content captured all the same.
Captures(answer) ==
  /\ ~answer.challenge /\ answer.ok
  /\ ~answer.toListing /\ answer.id # "other" /\ answer.described

OwnPage(answer) == answer.id = IF page.numbered THEN "own" ELSE "none"

\* A capture as run r files it: under the version, new or there already, of its
\* content in the lineage of the installed release.
Recorded(r, answer) == [run |-> r, content |-> page.content, lineage |-> lineage,
                        match |-> answer.id = "own", moved |-> FALSE]

\* An item that is retrieved again, after an exception, is observed again.
Observe ==
  /\ pc = "collect" /\ Len(obs) < MaxObservations
  /\ \E answer \in Answers :
       /\ Captures(answer) /\ OwnPage(answer)
       /\ obs' = Append(obs, Recorded(run, answer))
  /\ UNCHANGED <<page, lineage, changes, run, pc, todo>>

-----------------------------------------------------------------------------
(* _record_content_events, at the end of a run.                            *)

StartDerive ==
  /\ pc = "collect"
  /\ pc' = "derive"
  /\ todo' = {i \in DOMAIN obs : obs[i].run = run /\ obs[i].match}
  /\ UNCHANGED <<page, lineage, obs, changes, run>>

\* Slips: for ChangesAreEdits, the lineage is not part of the comparison; for
\* EditsReportedOnce, the earliest observation is compared instead of the latest.
Comparable_AnyLineage(i, j) == j < i
Previous_Earliest(i, j)     == /\ j < i /\ obs[j].lineage = lineage
                               /\ \A k \in 1 .. j - 1 : obs[k].lineage # lineage

\* An earlier observation with content of the lineage the release reads, whatever
\* its identity state.
Comparable(i, j) == j < i /\ obs[j].lineage = lineage

Previous(i, j) == /\ Comparable(i, j)
                  /\ \A k \in j + 1 .. i - 1 : ~Comparable(i, k)

Derive(i) ==
  /\ pc = "derive" /\ i \in todo /\ \A j \in todo : i <= j
  /\ changes' = changes \cup
       {[first |-> j, second |-> i] :
          j \in {j \in DOMAIN obs : Previous(i, j) /\ Version(j) # Version(i)}}
  /\ todo' = todo \ {i}
  /\ UNCHANGED <<page, lineage, obs, run, pc>>

EndRun ==
  /\ pc = "derive" /\ todo = {}
  /\ pc' = "idle"
  /\ UNCHANGED <<page, lineage, obs, changes, run, todo>>

\* The run fails or its process dies, with events written or not.
Die ==
  /\ pc # "idle"
  /\ pc' = "idle" /\ todo' = {}
  /\ UNCHANGED <<page, lineage, obs, changes, run>>

\* The version an observation is linked to is not of the installed release.
Outdated(i) == obs[i].lineage # lineage

\* reprocess_details with relink, one observation.  It may stop after any of them,
\* and skips those whose artifact is damaged or yields no description any more.
Relink(i) ==
  /\ obs[i].match /\ Outdated(i)
  /\ obs' = [obs EXCEPT ![i].lineage = lineage, ![i].moved = TRUE]
  /\ UNCHANGED <<page, lineage, changes, run, pc, todo>>

Next == \/ Edit \/ Install \/ StartRun \/ Observe \/ StartDerive \/ EndRun \/ Die
        \/ \E i \in DOMAIN obs : Derive(i) \/ Relink(i)

Spec == Init /\ [][Next]_vars

-----------------------------------------------------------------------------
(* Properties.                                                             *)

TypeOK ==
  /\ page \in Page /\ lineage \in Lineages
  /\ obs \in Seq(Observation) /\ Len(obs) <= MaxObservations
  /\ changes \subseteq Change
  /\ run \in 0 .. MaxRuns /\ pc \in {"idle", "collect", "derive"}
  /\ todo \subseteq DOMAIN obs

\* A content_changed event is about an edit of the advertisement: the source showed
\* different content at the two ends of its interval, and no release, rollback or
\* relinking is ever told as one (the comment in _record_content_events, "must
\* never look like the employer edited the advertisement").
ChangesAreEdits ==
  \A c \in changes : c.first < c.second /\ obs[c.first].content # obs[c.second].content

\* Observations that nobody relinked.
Untouched(c) == ~obs[c.first].moved /\ ~obs[c.second].moved

\* One edit is told once: among observations of one lineage that were not
\* relinked, the intervals of two events do not overlap, whichever runs died
\* between their observations and their events (OBSERVATION_SEMANTICS section 5).
EditsReportedOnce ==
  \A c, d \in changes :
    /\ c # d /\ Untouched(c) /\ Untouched(d)
    /\ obs[c.second].lineage = obs[d.second].lineage
    => c.second <= d.first \/ d.second <= c.first

\* Two observations that show the advertisement under its own number, with none
\* like that between them.
Consecutive(i, j) ==
  /\ i < j /\ obs[i].match /\ obs[j].match
  /\ obs[i].lineage = obs[j].lineage /\ ~obs[i].moved /\ ~obs[j].moved
  /\ \A k \in i + 1 .. j - 1 : ~obs[k].match

\* OBSERVATION_SEMANTICS section 5: a posting that reads A, B and A again has "two
\* content_changed presence events: A->B, then B->A".  At the end of a run, what it
\* saw changed since the observation before is told by an event in between.
EditsAreReported ==
  pc = "derive" /\ todo = {} =>
    \A i, j \in DOMAIN obs :
      Consecutive(i, j) /\ obs[j].run = run /\ obs[i].content # obs[j].content
        => \E c \in changes : i <= c.first /\ c.second = j
=============================================================================
