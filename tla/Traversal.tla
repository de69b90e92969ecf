------------------------------ MODULE Traversal -----------------------------
(***************************************************************************)
(* One traversal of the paginated listing, and the verdict on it.          *)
(*                                                                         *)
(* ListingScanner.scan follows the source's own "more" link page by page   *)
(* while the employer edits the listing underneath it, so a row can move   *)
(* from a page not yet read to one already read.  qualify.assess decides   *)
(* from the facts gathered on the way whether the traversal may support a  *)
(* claim that an advertisement is absent.                                  *)
(*                                                                         *)
(* The source is external: it serves consecutive windows of the current    *)
(* listing, says on each how many rows follow it, and may fail, challenge, *)
(* redirect, or serve a page that the parser does not recognise, or whose  *)
(* more link it cannot read.                                               *)
(***************************************************************************)
EXTENDS Integers, Sequences, FiniteSets, SequencesExt

CONSTANTS
  Jobs,          \* job ids the source may list
  PageItems,     \* collection.page_items
  MaxPages,      \* collection.max_listing_pages
  MaxChanges     \* bound: edits of the listing during the traversal

ASSUME SizesAssumption ==
  /\ PageItems \in Nat \ {0} /\ MaxPages \in Nat \ {0} /\ MaxChanges \in Nat

VARIABLES
  listing,       \* the source: rows in display order
  changes,       \* edits made so far
  inserted,      \* since the first page was read, a row came in (history),
  removed,       \* or was taken out, for good or to another place
  always, ever,  \* jobs listed at every moment, at some moment, so far
  pc,            \* "walk", "assess", "done"
  page,          \* pages requested so far, plus one
  window,        \* the page of the listing that the URL to fetch names
  seen,          \* ids of authoritative rows
  facts,         \* ScanFacts
  signatures,    \* page signatures, in order
  cut,           \* a page that rows followed named no next one (history)
  termination,   \* termination_reason
  qualified      \* the verdict

source  == <<listing, changes, inserted, removed, always, ever>>
scanner == <<pc, page, window, seen, facts, signatures, cut, termination,
             qualified>>
vars    == <<source, scanner>>

\* Answers that matter to the verdict; every other answer is one of these.
Answers == {"complete", "failed", "challenged", "redirected", "unrecognized",
            "unresolved", "repeated"}

\* Facts that disqualify on their own, one per check of assess.
Faults == {"pages_failed", "access_control", "redirect", "structure", "unresolved"}

Terminations == {"none", "max_pages", "fetch_failure", "structure_unrecognized",
                 "loop_detected", "empty_validated_page", "no_more_link"}

LEGITIMATE_TERMINATION == {"no_more_link", "empty_validated_page"}

-----------------------------------------------------------------------------
(* The pages the source would serve now.                                   *)

Rows(n)      == SubSeq(listing, (n - 1) * PageItems + 1,
                       IF n * PageItems < Len(listing) THEN n * PageItems ELSE Len(listing))
Remaining(n) == IF n * PageItems < Len(listing) THEN Len(listing) - n * PageItems ELSE 0
HasMore(n)   == Remaining(n) > 0

\* The signature covers the rows and the next page that the more link names, if any.
Signature(rows, n, named) == <<rows, IF named THEN n + 1 ELSE 0>>

-----------------------------------------------------------------------------
Init ==
  /\ listing \in {s \in UNION {[1 .. n -> Jobs] : n \in 0 .. Cardinality(Jobs)} :
                    \A i, j \in DOMAIN s : s[i] = s[j] => i = j}
  /\ changes = 0 /\ inserted = FALSE /\ removed = FALSE
  /\ always = Range(listing) /\ ever = Range(listing)
  /\ pc = "walk" /\ page = 1 /\ window = 1 /\ seen = {}
  /\ facts = [faults |-> {}, requested |-> 0, total |-> -1, empty |-> FALSE]
  /\ signatures = <<>> /\ cut = FALSE /\ termination = "none" /\ qualified = FALSE

(* The employer's edits.                                                   *)
Edit(next) ==
  /\ pc = "walk" /\ changes < MaxChanges
  /\ listing' = next
  /\ changes' = changes + 1
  /\ always' = always \cap Range(next)
  /\ ever' = ever \cup Range(next)
  /\ UNCHANGED scanner

Insert == \E j \in Jobs \ Range(listing), i \in 1 .. Len(listing) + 1 :
  /\ inserted' = (inserted \/ page > 1) /\ UNCHANGED removed
  /\ Edit(InsertAt(listing, i, j))

Delete == \E i \in DOMAIN listing :
  /\ Edit(RemoveAt(listing, i))
  /\ removed' = (removed \/ page > 1) /\ UNCHANGED inserted

Move == \E i \in DOMAIN listing : \E k \in 1 .. Len(listing) :
  /\ i # k
  /\ Edit(InsertAt(RemoveAt(listing, i), k, listing[i]))
  /\ removed' = (removed \/ page > 1) /\ UNCHANGED inserted

-----------------------------------------------------------------------------
(* The scanner.                                                            *)

Stop(why) == /\ termination' = why /\ pc' = "assess"

HitBound ==
  /\ pc = "walk" /\ page > MaxPages
  /\ Stop("max_pages")
  /\ UNCHANGED <<source, page, window, seen, facts, signatures, cut, qualified>>

\* The page's facts, whatever becomes of it.
Requested(faults) ==
  [facts EXCEPT !.requested = @ + 1, !.faults = @ \cup faults]

\* No usable body: the walk ends here.
PageLost(answer) ==
  /\ answer \in {"failed", "challenged"}
  /\ facts' = Requested({"pages_failed"} \cup
                        (IF answer = "challenged" THEN {"access_control"} ELSE {}))
  /\ Stop("fetch_failure")
  /\ UNCHANGED <<page, window, seen, signatures, cut>>

PageUnrecognized(answer) ==
  /\ answer = "unrecognized"
  /\ facts' = Requested({"structure"})
  /\ Stop("structure_unrecognized")
  /\ UNCHANGED <<page, window, seen, signatures, cut>>

\* What _parse_more_link makes of page n: the link names the next page, and says how
\* many rows follow, if there are any; but it may lack its address, or its count.
MoreLinks(n) == IF HasMore(n) THEN [named : BOOLEAN, counted : BOOLEAN]
                ELSE {[named |-> FALSE, counted |-> FALSE]}

\* Only the first page tells how many rows there are, and only if it can be read.
Total(n, ids, more) == IF page = 1 /\ more.counted THEN Remaining(n) + Cardinality(ids)
                       ELSE facts.total

\* Page n of the listing was read; ids are its rows with a usable job id.
PageRead(answer, n, ids) == \E more \in MoreLinks(n), emptyTemplate \in BOOLEAN :
  LET rows      == Rows(n)
      signature == Signature(rows, n, more.named)
      faults    == (IF answer = "redirected" THEN {"redirect"} ELSE {}) \cup
                   (IF ids # Range(rows) THEN {"unresolved"} ELSE {})
      looped    == signature \in Range(signatures)
  IN  /\ signatures' = Append(signatures, signature)
      /\ cut' = (cut \/ (HasMore(n) /\ ~more.named))
      /\ \/ /\ looped                                    \* its rows are not read
            /\ facts' = Requested(faults \ {"unresolved"})
            /\ Stop("loop_detected")
            /\ UNCHANGED <<page, window, seen>>
         \/ /\ ~looped
            /\ seen' = seen \cup ids
            /\ facts' = [Requested(faults) EXCEPT
                           !.total = Total(n, ids, more),
                           !.empty = ids = {} /\ ~more.named /\ emptyTemplate]
            /\ \/ /\ more.named
                  /\ page' = page + 1 /\ window' = n + 1
                  /\ UNCHANGED <<pc, termination>>
               \/ /\ ~more.named
                  /\ Stop(IF ids # {} THEN "no_more_link"
                          ELSE IF emptyTemplate THEN "empty_validated_page"
                          ELSE "structure_unrecognized")
                  /\ UNCHANGED <<page, window>>

\* "unresolved": some rows carry no usable job id.  "repeated": the source
\* serves the page before the one asked for, whose more link leads back here.
FetchPage ==
  /\ pc = "walk" /\ page <= MaxPages
  /\ \E answer \in Answers :
       \/ PageLost(answer)
       \/ PageUnrecognized(answer)
       \/ /\ answer \in {"complete", "redirected"}
          /\ PageRead(answer, window, Range(Rows(window)))
       \/ /\ answer = "unresolved"
          /\ \E ids \in SUBSET Range(Rows(window)) : PageRead(answer, window, ids)
       \/ /\ answer = "repeated" /\ window > 1
          /\ PageRead(answer, window - 1, Range(Rows(window - 1)))
  /\ UNCHANGED <<source, qualified>>

\* Slip for KeepsContract: the announced count is not compared.
Qualifies_WithoutCount ==
  /\ facts.faults = {}
  /\ termination \in LEGITIMATE_TERMINATION
  /\ facts.requested < MaxPages
  /\ seen = {} => facts.empty

\* qualify.assess: qualified only if no check fails.  The start URL is always
\* the configured one, so scope_unfiltered cannot fail here.
Qualifies ==
  /\ facts.faults = {}
  /\ termination \in LEGITIMATE_TERMINATION
  /\ facts.requested < MaxPages
  /\ \A i, j \in DOMAIN signatures : signatures[i] = signatures[j] => i = j
  /\ facts.total # -1 => facts.total = Cardinality(seen)
  /\ seen = {} => facts.empty

\* Slip for Terminates: only a traversal that qualifies gets a verdict.
Assess_OnlyQualified ==
  /\ pc = "assess" /\ Qualifies
  /\ qualified' = TRUE
  /\ pc' = "done"
  /\ UNCHANGED <<source, page, window, seen, facts, signatures, cut, termination>>

Assess ==
  /\ pc = "assess"
  /\ qualified' = Qualifies
  /\ pc' = "done"
  /\ UNCHANGED <<source, page, window, seen, facts, signatures, cut, termination>>

Next == Insert \/ Delete \/ Move \/ HitBound \/ FetchPage \/ Assess

Spec == Init /\ [][Next]_vars /\ WF_vars(HitBound \/ FetchPage \/ Assess)

-----------------------------------------------------------------------------
(* Properties.                                                             *)

\* Rows can slip past a reader when they move towards pages already read, or when a
\* page that they follow names no next one.  The announced count tells, unless there
\* is none, or a row was inserted and makes up for one that slipped.
Misled == cut \/ removed
Masked == Misled /\ (inserted \/ facts.total = -1)

\* What Presence relies on: a traversal reports only what was listed meanwhile,
\* and a qualified one every advertisement that stayed listed while it ran,
\* although rows moved between pages already read and pages still to come (scan
\* and assess together: it is the count of the first page that notices).  Only what
\* is masked escapes it.
KeepsContract ==
  /\ seen \subseteq ever
  /\ qualified /\ ~Masked => always \subseteq seen

\* Whatever the source answers, more links that lead nowhere or around in
\* circles included, the traversal ends with a verdict.
Terminates == <>(pc = "done")
=============================================================================
