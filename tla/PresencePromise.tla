-------------------------- MODULE PresencePromise ---------------------------
(***************************************************************************)
(* What the presence events promise to somebody who reads the archive and  *)
(* knows nothing of traversals, qualification or reconciliation.           *)
(*                                                                         *)
(* A check (a collection run) reads the listing, more than once.  on and   *)
(* off collect the advertisements that were on show, and that were not, at *)
(* some moment while the latest check did.  A claim is made about the      *)
(* latest check only, and only if that check could have seen it.           *)
(***************************************************************************)
EXTENDS Integers

CONSTANT Postings

VARIABLES check, on, off, claims

vars == <<check, on, off, claims>>

Claim(kind, p) == [kind |-> kind, posting |-> p, run |-> check]

\* The latest of the two settled claims about p, listed or absent, is absent.
LastClaimedAbsent(p) ==
  \E a \in claims :
    /\ a.kind = "absent_qualified" /\ a.posting = p
    /\ \A c \in claims :
         c.posting = p /\ c.kind \in {"listed", "absent_qualified"} => c.run <= a.run

Init ==
  /\ check = 0
  /\ claims = {}
  /\ on = {} /\ off = {}

\* A new check begins; or the check reads the listing, while an advertisement is on
\* show, or not, or comes and goes.
Watch ==
  /\ UNCHANGED claims
  /\ \/ /\ check' = check + 1
        /\ on' = {} /\ off' = {}
     \/ /\ check' = check
        /\ \E shown, hidden \in SUBSET Postings :
             /\ shown \cup hidden = Postings
             /\ on' = on \cup shown /\ off' = off \cup hidden

\* An advertisement is never claimed listed and absent by the same check, is
\* claimed listed only if it was on show, and absent only if it was not.
ClaimListed(p) ==
  /\ p \in on
  /\ Claim("absent_qualified", p) \notin claims
  /\ claims' = claims \cup {Claim("listed", p)}

ClaimAbsent(p) ==
  /\ p \in off
  /\ Claim("listed", p) \notin claims
  /\ claims' = claims \cup {Claim("absent_qualified", p)}

\* An advertisement is new at most once, and never after any other claim.
ClaimNew(p) ==
  /\ p \in on
  /\ \A c \in claims : c.posting # p
  /\ claims' = claims \cup {Claim("first_observed", p)}

ClaimReturn(p) ==
  /\ p \in on
  /\ LastClaimedAbsent(p)
  /\ claims' = claims \cup {Claim("reappeared", p)}

Next ==
  \/ Watch
  \/ \E p \in Postings :
       /\ ClaimListed(p) \/ ClaimAbsent(p) \/ ClaimNew(p) \/ ClaimReturn(p)
       /\ UNCHANGED <<check, on, off>>

Spec == Init /\ [][Next]_vars
=============================================================================
