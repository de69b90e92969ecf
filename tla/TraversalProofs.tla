--------------------------- MODULE TraversalProofs ---------------------------
(***************************************************************************)
(* Proofs about Traversal, for any jobs, page size and bounds, and for any *)
(* edits of the listing in between; and about the pacing of the client     *)
(* that fetches its pages.                                                 *)
(***************************************************************************)
EXTENDS Traversal, Fetch, SequenceTheorems, FiniteSetTheorems, TLAPS

Facts == [faults : SUBSET Faults, requested : Nat, total : Int, empty : BOOLEAN]

TypeOK ==
  /\ listing \in Seq(Jobs) /\ changes \in Nat
  /\ inserted \in BOOLEAN /\ removed \in BOOLEAN /\ cut \in BOOLEAN
  /\ pc \in {"walk", "assess", "done"} /\ page \in Nat \ {0} /\ window \in Nat \ {0}
  /\ facts \in Facts /\ termination \in Terminations /\ qualified \in BOOLEAN

Distinct(s) == \A i, j \in DOMAIN s : s[i] = s[j] => i = j

\* What is listed now is between what always was and what ever was.
Listed == /\ Distinct(listing) /\ seen \subseteq ever
          /\ always \subseteq Range(listing) /\ Range(listing) \subseteq ever

\* Before the first page nothing is announced, and a walk that was cut short is over.
FirstPage == pc = "walk" =>
  /\ termination = "none" /\ ~cut
  /\ page = 1 => window = 1 /\ seen = {} /\ facts.total = -1

\* While nothing is inserted, whatever is listed and whatever was seen is among the
\* rows that were announced.
Announced == ~inserted /\ facts.faults = {} /\ facts.total # -1 =>
  \E S : /\ IsFiniteSet(S) /\ Cardinality(S) = facts.total
         /\ seen \subseteq S /\ Range(listing) \subseteq S

\* An insertion moves rows only away from the pages already read, so that as long as
\* none is taken out, what was not read yet lies ahead ...
Ahead == pc = "walk" /\ ~removed /\ facts.faults = {} =>
  \A i \in DOMAIN listing :
    listing[i] \in always => listing[i] \in seen \/ i > (window - 1) * PageItems

\* ... and nothing of it is left at the end, unless a page named no next one.
AllRead == termination \in LEGITIMATE_TERMINATION /\ facts.faults = {} /\ ~Misled
             => always \subseteq seen

Verdict == qualified => Qualifies /\ pc = "done"

IInv == TypeOK /\ Listed /\ FirstPage /\ Announced /\ Ahead /\ AllRead /\ Verdict

-----------------------------------------------------------------------------
(* Sequences of different rows.                                              *)

LEMMA Inserting ==
  ASSUME NEW s \in Seq(Jobs), NEW i \in 1 .. Len(s) + 1, NEW j \in Jobs
  PROVE  /\ InsertAt(s, i, j) \in Seq(Jobs) /\ Len(InsertAt(s, i, j)) = Len(s) + 1
         /\ \A k \in 1 .. Len(s) + 1 :
              InsertAt(s, i, j)[k] = IF k < i THEN s[k] ELSE IF k = i THEN j ELSE s[k - 1]
<1> DEFINE a == SubSeq(s, 1, i - 1)
           b == SubSeq(s, i, Len(s))
<1>1. Len(s) \in Nat /\ \A k \in 1 .. Len(s) : s[k] \in Jobs
  BY LenProperties, ElementOfSeq
<1>2. /\ a \in Seq(Jobs) /\ Len(a) = i - 1
      /\ \A k \in 1 .. i - 1 : a[k] = s[k]
  <2>1. \A k \in 1 .. i - 1 : s[k] \in Jobs
    BY <1>1
  <2>2. /\ a \in Seq(Jobs) /\ Len(a) = (IF 1 <= i - 1 THEN (i - 1) - 1 + 1 ELSE 0)
        /\ \A k \in 1 .. (i - 1) - 1 + 1 : a[k] = s[1 + k - 1]
    <3> HIDE DEF a
    <3> QED
      BY <1>1, <2>1, SubSeqProperties DEF a
  <2> HIDE DEF a
  <2> QED
    BY <1>1, <2>2
<1>3. /\ b \in Seq(Jobs) /\ Len(b) = Len(s) - i + 1
      /\ \A k \in 1 .. Len(s) - i + 1 : b[k] = s[i + k - 1]
  <2>1. \A k \in i .. Len(s) : s[k] \in Jobs
    BY <1>1
  <2>2. /\ b \in Seq(Jobs) /\ Len(b) = (IF i <= Len(s) THEN Len(s) - i + 1 ELSE 0)
        /\ \A k \in 1 .. Len(s) - i + 1 : b[k] = s[i + k - 1]
    BY <1>1, <2>1, SubSeqProperties
  <2> HIDE DEF b
  <2> QED
    BY <1>1, <2>2
<1> HIDE DEF a, b
<1>4. /\ a \o <<j>> \in Seq(Jobs) /\ Len(a \o <<j>>) = i
      /\ \A k \in 1 .. i : (a \o <<j>>)[k] = IF k < i THEN s[k] ELSE j
  <2>1. <<j>> \in Seq(Jobs) /\ Len(<<j>>) = 1 /\ <<j>>[1] = j
    OBVIOUS
  <2>2. /\ a \o <<j>> \in Seq(Jobs) /\ Len(a \o <<j>>) = Len(a) + 1
        /\ \A k \in 1 .. Len(a) + 1 : (a \o <<j>>)[k] = IF k <= Len(a) THEN a[k] ELSE <<j>>[k - Len(a)]
    BY <1>2, <2>1, ConcatProperties
  <2> QED
    BY <1>1, <1>2, <2>1, <2>2
<1>5. /\ (a \o <<j>>) \o b \in Seq(Jobs) /\ Len((a \o <<j>>) \o b) = i + Len(b)
      /\ \A k \in 1 .. i + Len(b) :
           ((a \o <<j>>) \o b)[k] = IF k <= i THEN (a \o <<j>>)[k] ELSE b[k - i]
  <2> DEFINE c == a \o <<j>>
  <2>1. c \in Seq(Jobs) /\ Len(c) = i
    BY <1>4
  <2> HIDE DEF c
  <2>2. /\ c \o b \in Seq(Jobs) /\ Len(c \o b) = Len(c) + Len(b)
        /\ \A k \in 1 .. Len(c) + Len(b) : (c \o b)[k] = IF k <= Len(c) THEN c[k] ELSE b[k - Len(c)]
    BY <1>3, <2>1, ConcatProperties
  <2>3. /\ c \o b \in Seq(Jobs) /\ Len(c \o b) = i + Len(b)
        /\ \A k \in 1 .. i + Len(b) : (c \o b)[k] = IF k <= i THEN c[k] ELSE b[k - i]
    BY <2>1, <2>2
  <2> QED
    BY <2>3 DEF c
<1>6. InsertAt(s, i, j) = (a \o <<j>>) \o b
  BY DEF InsertAt, a, b
<1>7. i \in Nat /\ i + Len(b) = Len(s) + 1
  BY <1>1, <1>3
<1>8. ASSUME NEW k \in 1 .. Len(s) + 1
      PROVE  InsertAt(s, i, j)[k] = IF k < i THEN s[k] ELSE IF k = i THEN j ELSE s[k - 1]
  <2>1. CASE k <= i
    BY <1>4, <1>5, <1>6, <1>7, <2>1
  <2>2. CASE k > i
    <3>1. k - i \in 1 .. Len(s) - i + 1 /\ i + (k - i) - 1 = k - 1
      BY <1>1, <1>7, <2>2
    <3> QED
      BY <1>3, <1>5, <1>6, <1>7, <2>2, <3>1
  <2> QED
    BY <1>7, <2>1, <2>2
<1> QED
  BY <1>5, <1>6, <1>7, <1>8

LEMMA Removing ==
  ASSUME NEW s \in Seq(Jobs), NEW i \in 1 .. Len(s)
  PROVE  /\ RemoveAt(s, i) \in Seq(Jobs) /\ Len(RemoveAt(s, i)) = Len(s) - 1
         /\ \A k \in 1 .. Len(s) - 1 : RemoveAt(s, i)[k] = IF k < i THEN s[k] ELSE s[k + 1]
<1> DEFINE a == SubSeq(s, 1, i - 1)
           b == SubSeq(s, i + 1, Len(s))
<1>1. Len(s) \in Nat /\ \A k \in 1 .. Len(s) : s[k] \in Jobs
  BY LenProperties, ElementOfSeq
<1>2. /\ a \in Seq(Jobs) /\ Len(a) = i - 1
      /\ \A k \in 1 .. i - 1 : a[k] = s[k]
  <2>1. \A k \in 1 .. i - 1 : s[k] \in Jobs
    BY <1>1
  <2>2. /\ a \in Seq(Jobs) /\ Len(a) = (IF 1 <= i - 1 THEN (i - 1) - 1 + 1 ELSE 0)
        /\ \A k \in 1 .. (i - 1) - 1 + 1 : a[k] = s[1 + k - 1]
    <3> HIDE DEF a
    <3> QED
      BY <1>1, <2>1, SubSeqProperties DEF a
  <2> HIDE DEF a
  <2> QED
    BY <1>1, <2>2
<1>3. /\ b \in Seq(Jobs) /\ Len(b) = Len(s) - i
      /\ \A k \in 1 .. Len(s) - i : b[k] = s[i + k]
  <2>1. \A k \in i + 1 .. Len(s) : s[k] \in Jobs
    BY <1>1
  <2>2. /\ b \in Seq(Jobs) /\ Len(b) = (IF i + 1 <= Len(s) THEN Len(s) - (i + 1) + 1 ELSE 0)
        /\ \A k \in 1 .. Len(s) - (i + 1) + 1 : b[k] = s[(i + 1) + k - 1]
    <3> HIDE DEF b
    <3> QED
      BY <1>1, <2>1, SubSeqProperties DEF b
  <2> HIDE DEF b
  <2> QED
    BY <1>1, <2>2
<1> HIDE DEF a, b
<1>4. /\ a \o b \in Seq(Jobs) /\ Len(a \o b) = Len(a) + Len(b)
      /\ \A k \in 1 .. Len(a) + Len(b) : (a \o b)[k] = IF k <= Len(a) THEN a[k] ELSE b[k - Len(a)]
  BY <1>2, <1>3, ConcatProperties
<1>5. RemoveAt(s, i) = a \o b
  BY DEF RemoveAt, a, b
<1>6. i \in Nat /\ Len(a) + Len(b) = Len(s) - 1
  BY <1>1, <1>2, <1>3
<1>7. ASSUME NEW k \in 1 .. Len(s) - 1
      PROVE  RemoveAt(s, i)[k] = IF k < i THEN s[k] ELSE s[k + 1]
  <2>1. CASE k < i
    BY <1>2, <1>4, <1>5, <1>6, <2>1
  <2>2. CASE k >= i
    <3>1. k - (i - 1) \in 1 .. Len(s) - i /\ i + (k - (i - 1)) = k + 1
      BY <1>1, <1>6, <2>2
    <3> QED
      <4>1. k \in 1 .. Len(a) + Len(b) /\ ~(k <= Len(a)) /\ k - Len(a) = k - (i - 1)
        BY <1>2, <1>6, <2>2
      <4>2. (a \o b)[k] = b[k - (i - 1)]
        BY <1>4, <4>1
      <4>3. b[k - (i - 1)] = s[k + 1]
        BY <1>3, <3>1
      <4> QED
        BY <1>5, <1>6, <2>2, <4>2, <4>3
  <2> QED
    BY <1>6, <2>1, <2>2
<1> QED
  BY <1>4, <1>5, <1>6, <1>7

LEMMA RowsOfSeq ==
  ASSUME NEW s \in Seq(Jobs)
  PROVE  /\ Len(s) \in Nat /\ DOMAIN s = 1 .. Len(s)
         /\ Range(s) = {s[k] : k \in 1 .. Len(s)} /\ Range(s) \subseteq Jobs
BY LenProperties, ElementOfSeq DEF Range

LEMMA InsertKeeps ==
  ASSUME NEW s \in Seq(Jobs), Distinct(s), NEW i \in 1 .. Len(s) + 1, NEW j \in Jobs \ Range(s)
  PROVE  /\ InsertAt(s, i, j) \in Seq(Jobs) /\ Distinct(InsertAt(s, i, j))
         /\ Range(InsertAt(s, i, j)) = Range(s) \cup {j}
<1> DEFINE t == InsertAt(s, i, j)
<1>1. /\ Len(s) \in Nat /\ DOMAIN s = 1 .. Len(s)
      /\ Range(s) = {s[k] : k \in 1 .. Len(s)}
  BY RowsOfSeq
<1>2. /\ t \in Seq(Jobs) /\ Len(t) = Len(s) + 1
      /\ \A k \in 1 .. Len(s) + 1 : t[k] = IF k < i THEN s[k] ELSE IF k = i THEN j ELSE s[k - 1]
  <2>1. j \in Jobs
    OBVIOUS
  <2> QED
    BY <2>1, Inserting
<1> HIDE DEF t
<1>3. DOMAIN t = 1 .. Len(s) + 1 /\ Range(t) = {t[k] : k \in 1 .. Len(s) + 1}
  BY <1>2, RowsOfSeq
<1>4. Range(t) = Range(s) \cup {j}
  <2>1. ASSUME NEW k \in 1 .. Len(s) + 1 PROVE t[k] \in Range(s) \cup {j}
    <3>1. CASE k < i
      BY <1>1, <1>2, <3>1
    <3>2. CASE k = i
      BY <1>2, <3>2
    <3>3. CASE k > i
      <4>1. k - 1 \in 1 .. Len(s)
        BY <1>1, <3>3
      <4> QED
        BY <1>1, <1>2, <3>3, <4>1
    <3> QED
      BY <1>1, <3>1, <3>2, <3>3
  <2>2. ASSUME NEW k \in 1 .. Len(s) PROVE s[k] \in Range(t)
    <3>1. CASE k < i
      BY <1>1, <1>2, <1>3, <3>1
    <3>2. CASE k >= i
      <4>1. k + 1 \in 1 .. Len(s) + 1 /\ ~(k + 1 < i) /\ k + 1 # i /\ (k + 1) - 1 = k
        BY <1>1, <3>2
      <4>2. t[k + 1] = s[k]
        BY <1>2, <4>1
      <4> QED
        BY <1>3, <4>1, <4>2
    <3> QED
      BY <1>1, <3>1, <3>2
  <2>3. j \in Range(t)
    BY <1>1, <1>2, <1>3
  <2> QED
    BY <1>1, <1>3, <2>1, <2>2, <2>3
<1>5. Distinct(t)
  <2> SUFFICES ASSUME NEW k \in 1 .. Len(s) + 1, NEW l \in 1 .. Len(s) + 1, t[k] = t[l]
               PROVE  k = l
    BY <1>3 DEF Distinct
  <2> DEFINE Old(m) == IF m < i THEN m ELSE m - 1
  <2>1. \A m \in 1 .. Len(s) + 1 : m # i => Old(m) \in 1 .. Len(s) /\ t[m] = s[Old(m)]
    BY <1>1, <1>2
  <2>2. \A m \in 1 .. Len(s) + 1 : t[m] = j <=> m = i
    BY <1>1, <1>2, <2>1
  <2>3. CASE k # i /\ l # i
    <3>1. s[Old(k)] = s[Old(l)] /\ Old(k) \in 1 .. Len(s) /\ Old(l) \in 1 .. Len(s)
      BY <2>1, <2>3
    <3>2. Old(k) = Old(l)
      <4> HIDE DEF Old
      <4> QED
        BY <1>1, <3>1 DEF Distinct
    <3> QED
      BY <1>1, <2>3, <3>2
  <2> QED
    BY <2>2, <2>3
<1> QED
  BY <1>2, <1>4, <1>5 DEF t

LEMMA RemoveKeeps ==
  ASSUME NEW s \in Seq(Jobs), Distinct(s), NEW i \in 1 .. Len(s)
  PROVE  /\ RemoveAt(s, i) \in Seq(Jobs) /\ Distinct(RemoveAt(s, i))
         /\ Range(RemoveAt(s, i)) \subseteq Range(s) /\ s[i] \notin Range(RemoveAt(s, i))
         /\ Len(RemoveAt(s, i)) = Len(s) - 1
<1> DEFINE t == RemoveAt(s, i)
           Old(m) == IF m < i THEN m ELSE m + 1
<1>1. /\ Len(s) \in Nat /\ DOMAIN s = 1 .. Len(s)
      /\ Range(s) = {s[k] : k \in 1 .. Len(s)}
  BY RowsOfSeq
<1>2. /\ t \in Seq(Jobs) /\ Len(t) = Len(s) - 1
      /\ \A k \in 1 .. Len(s) - 1 : t[k] = s[Old(k)]
  BY Removing
<1> HIDE DEF t
<1>3. DOMAIN t = 1 .. Len(s) - 1 /\ Range(t) = {t[k] : k \in 1 .. Len(s) - 1}
  BY <1>2, RowsOfSeq
<1>4. \A m \in 1 .. Len(s) - 1 : Old(m) \in 1 .. Len(s) /\ Old(m) # i
  BY <1>1
<1>5. \A m, n \in 1 .. Len(s) - 1 : Old(m) = Old(n) => m = n
  BY <1>1
<1> HIDE DEF Old
<1>6. Distinct(t)
  <2> SUFFICES ASSUME NEW m \in 1 .. Len(s) - 1, NEW n \in 1 .. Len(s) - 1, t[m] = t[n]
               PROVE  m = n
    BY <1>3 DEF Distinct
  <2>1. s[Old(m)] = s[Old(n)] /\ Old(m) \in DOMAIN s /\ Old(n) \in DOMAIN s
    BY <1>1, <1>2, <1>4
  <2>2. Old(m) = Old(n)
    BY <2>1 DEF Distinct
  <2> QED
    BY <1>5, <2>2
<1>7. Range(t) \subseteq Range(s) /\ s[i] \notin Range(t)
  BY <1>1, <1>2, <1>3, <1>4 DEF Distinct
<1> QED
  BY <1>2, <1>6, <1>7 DEF t

\* A sequence of different rows has as many rows as it is long.
LEMMA AsManyAsLong ==
  ASSUME NEW s \in Seq(Jobs), Distinct(s)
  PROVE  IsFiniteSet(Range(s)) /\ Cardinality(Range(s)) = Len(s)
<1>1. Len(s) \in Nat /\ DOMAIN s = 1 .. Len(s) /\ Range(s) = {s[k] : k \in 1 .. Len(s)}
  BY RowsOfSeq
<1>2. IsFiniteSet(1 .. Len(s)) /\ Cardinality(1 .. Len(s)) = Len(s)
  BY <1>1, FS_Interval
<1>3. s \in [1 .. Len(s) -> Range(s)]
  BY <1>1, LenProperties
<1>4. s \in Surjection(1 .. Len(s), Range(s)) /\ s \in Injection(1 .. Len(s), Range(s))
  BY <1>1, <1>3 DEF Surjection, Injection, IsInjective, Distinct
<1> QED
  BY <1>2, <1>4, FS_Surjection

-----------------------------------------------------------------------------
(* The pages of a listing.                                                   *)

\* Where page n begins and ends.
LEMMA Bounds ==
  ASSUME NEW n \in Nat \ {0}
  PROVE  /\ (n - 1) * PageItems \in Nat /\ n * PageItems \in Nat
         /\ n * PageItems = (n - 1) * PageItems + PageItems /\ PageItems \in Nat \ {0}
<1>1. PageItems \in Nat \ {0} /\ n - 1 \in Nat
  BY SizesAssumption
<1>2. \A a, b \in Nat : a * b \in Nat /\ (a + 1) * b = a * b + b
  OBVIOUS
<1> QED
  BY <1>1, <1>2

LEMMA PageOf ==
  ASSUME listing \in Seq(Jobs), NEW n \in Nat \ {0}
  PROVE  /\ Rows(n) \in Seq(Jobs)
         /\ Len(Rows(n)) = IF HasMore(n) THEN PageItems
                           ELSE IF (n - 1) * PageItems < Len(listing)
                                THEN Len(listing) - (n - 1) * PageItems ELSE 0
         /\ \A k \in 1 .. Len(Rows(n)) : /\ (n - 1) * PageItems + k \in 1 .. Len(listing)
                                         /\ Rows(n)[k] = listing[(n - 1) * PageItems + k]
<1> DEFINE a == (n - 1) * PageItems
           z == n * PageItems
           e == IF z < Len(listing) THEN z ELSE Len(listing)
<1>1. /\ a \in Nat /\ z \in Nat /\ z = a + PageItems /\ PageItems \in Nat \ {0}
      /\ Len(listing) \in Nat
  BY Bounds, RowsOfSeq
<1>2. Rows(n) = SubSeq(listing, a + 1, e) /\ (HasMore(n) <=> z < Len(listing))
  BY <1>1 DEF Rows, HasMore, Remaining
<1> HIDE DEF a, z
<1>3. e \in Nat /\ e <= Len(listing) /\ a + 1 \in Int
  BY <1>1
<1> HIDE DEF e
<1>4. \A i \in a + 1 .. e : listing[i] \in Jobs
  <2>1. \A i \in a + 1 .. e : i \in 1 .. Len(listing)
    BY <1>1, <1>3
  <2> QED
    BY <2>1, ElementOfSeq
<1>5. /\ Rows(n) \in Seq(Jobs)
      /\ Len(Rows(n)) = (IF a + 1 <= e THEN e - (a + 1) + 1 ELSE 0)
      /\ \A k \in 1 .. e - (a + 1) + 1 : Rows(n)[k] = listing[(a + 1) + k - 1]
  BY <1>2, <1>3, <1>4, SubSeqProperties
<1>6. Len(Rows(n)) = IF HasMore(n) THEN PageItems
                     ELSE IF a < Len(listing) THEN Len(listing) - a ELSE 0
  BY <1>1, <1>2, <1>5 DEF e
<1>7. \A k \in 1 .. Len(Rows(n)) :
        /\ k \in 1 .. e - (a + 1) + 1 /\ (a + 1) + k - 1 = a + k /\ a + k \in 1 .. Len(listing)
  BY <1>1, <1>3, <1>5
<1>8. \A k \in 1 .. Len(Rows(n)) : a + k \in 1 .. Len(listing) /\ Rows(n)[k] = listing[a + k]
  BY <1>5, <1>7
<1> QED
  BY <1>5, <1>6, <1>8 DEF a

\* A page shows rows of the listing, among them those from its first to its last.
LEMMA PageRange ==
  ASSUME listing \in Seq(Jobs), NEW n \in Nat \ {0}
  PROVE  /\ Range(Rows(n)) \subseteq Range(listing)
         /\ \A i \in 1 .. Len(listing) :
              (n - 1) * PageItems < i /\ (i <= n * PageItems \/ ~HasMore(n))
                => listing[i] \in Range(Rows(n))
<1> DEFINE a == (n - 1) * PageItems
<1>1. /\ a \in Nat /\ n * PageItems = a + PageItems /\ PageItems \in Nat \ {0}
      /\ Len(listing) \in Nat
  BY Bounds, RowsOfSeq
<1>2. /\ Rows(n) \in Seq(Jobs)
      /\ Len(Rows(n)) = IF HasMore(n) THEN PageItems
                        ELSE IF a < Len(listing) THEN Len(listing) - a ELSE 0
      /\ \A k \in 1 .. Len(Rows(n)) : a + k \in 1 .. Len(listing) /\ Rows(n)[k] = listing[a + k]
  BY PageOf
<1> HIDE DEF a
<1>3. Range(Rows(n)) = {Rows(n)[k] : k \in 1 .. Len(Rows(n))}
  BY <1>2, RowsOfSeq
<1>4. Range(listing) = {listing[k] : k \in 1 .. Len(listing)}
  BY RowsOfSeq
<1>5. Range(Rows(n)) \subseteq Range(listing)
  BY <1>2, <1>3, <1>4
<1>6. ASSUME NEW i \in 1 .. Len(listing), a < i, i <= a + PageItems \/ ~HasMore(n)
      PROVE  listing[i] \in Range(Rows(n))
  <2>1. i - a \in 1 .. Len(Rows(n)) /\ a + (i - a) = i
    BY <1>1, <1>2, <1>6
  <2> QED
    BY <1>2, <1>3, <2>1
<1> QED
  BY <1>1, <1>5, <1>6 DEF a

\* The rows of the first page and those it announces are all there are.
LEMMA FirstPageCounts ==
  ASSUME listing \in Seq(Jobs), Distinct(listing), HasMore(1)
  PROVE  Remaining(1) + Cardinality(Range(Rows(1))) = Cardinality(Range(listing))
<1>1. /\ (1 - 1) * PageItems = 0 /\ 1 * PageItems = PageItems /\ PageItems \in Nat \ {0}
      /\ Len(listing) \in Nat /\ DOMAIN listing = 1 .. Len(listing)
  BY Bounds, RowsOfSeq, SizesAssumption
<1>2. PageItems < Len(listing) /\ Remaining(1) = Len(listing) - PageItems
  <2>1. /\ 1 * PageItems < Len(listing)
        /\ Remaining(1) = Len(listing) - 1 * PageItems
    <3> DEFINE e == 1 * PageItems
    <3>1. e \in Int
      BY <1>1
    <3>2. /\ HasMore(1) <=> (IF e < Len(listing) THEN Len(listing) - e ELSE 0) > 0
          /\ Remaining(1) = IF e < Len(listing) THEN Len(listing) - e ELSE 0
      BY DEF HasMore, Remaining
    <3> HIDE DEF e
    <3>3. e < Len(listing) /\ Remaining(1) = Len(listing) - e
      BY <1>1, <3>1, <3>2
    <3> QED
      BY <3>3 DEF e
  <2> QED
    BY <1>1, <2>1
<1>3. /\ Rows(1) \in Seq(Jobs) /\ Len(Rows(1)) = PageItems
      /\ \A k \in 1 .. PageItems : Rows(1)[k] = listing[k]
  <2>1. /\ Rows(1) \in Seq(Jobs) /\ Len(Rows(1)) = PageItems
        /\ \A k \in 1 .. Len(Rows(1)) : Rows(1)[k] = listing[(1 - 1) * PageItems + k]
    BY PageOf
  <2> QED
    BY <1>1, <2>1
<1>4. Distinct(Rows(1))
  <2>1. DOMAIN Rows(1) = 1 .. PageItems
    BY <1>3, RowsOfSeq
  <2>2. \A k \in 1 .. PageItems : k \in DOMAIN listing
    BY <1>1, <1>2
  <2> QED
    BY <1>3, <2>1, <2>2 DEF Distinct
<1>5. Cardinality(Range(Rows(1))) = PageItems /\ Cardinality(Range(listing)) = Len(listing)
  BY <1>3, <1>4, AsManyAsLong
<1> QED
  BY <1>1, <1>2, <1>5

-----------------------------------------------------------------------------
(* The steps of the employer.                                                *)

LEMMA EditKeeps ==
  ASSUME IInv, NEW next, Edit(next), next \in Seq(Jobs), Distinct(next),
         inserted' \in BOOLEAN, inserted => inserted', removed' \in BOOLEAN, removed => removed',
         page = 1 \/ inserted' \/ Range(next) \subseteq Range(listing),
         page = 1 \/ removed' \/ \A k \in DOMAIN next : next[k] \in always =>
                                   \E i \in DOMAIN listing : i <= k /\ listing[i] = next[k]
  PROVE  IInv'
<1>1. /\ pc = "walk" /\ listing' = next /\ changes' = changes + 1
      /\ always' = always \cap Range(next) /\ ever' = ever \cup Range(next)
      /\ UNCHANGED <<pc, page, window, seen, facts, signatures, cut, termination, qualified>>
  BY DEF Edit, scanner
<1>2. TypeOK'
  <2>1. listing' \in Seq(Jobs) /\ changes' \in Nat
    BY <1>1 DEF IInv, TypeOK
  <2> QED
    BY <1>1, <2>1 DEF IInv, TypeOK
<1>3. Listed'
  BY <1>1 DEF IInv, TypeOK, Listed
<1>4. FirstPage' /\ Verdict'
  BY <1>1 DEF IInv, FirstPage, Verdict
<1>5. Announced'
  <2>1. page = 1 => facts.total = -1
    BY <1>1 DEF IInv, FirstPage
  <2> QED
    BY <1>1, <2>1 DEF IInv, Announced
<1>6. Ahead'
  <2> SUFFICES ASSUME ~removed', facts.faults = {}, NEW k \in DOMAIN next, next[k] \in always
               PROVE  next[k] \in seen \/ k > (window - 1) * PageItems
    BY <1>1 DEF Ahead
  <2>1. k \in Nat \ {0} /\ window \in Nat \ {0} /\ (window - 1) * PageItems \in Nat
    <3>1. window \in Nat \ {0} /\ DOMAIN next \subseteq Nat \ {0}
      BY RowsOfSeq DEF IInv, TypeOK
    <3> QED
      BY <3>1, Bounds
  <2>2. CASE page = 1
    <3>1. window = 1 /\ (1 - 1) * PageItems = 0
      BY <1>1, <2>2, SizesAssumption DEF IInv, FirstPage
    <3> QED
      BY <2>1, <3>1
  <2>3. CASE page # 1
    <3>1. PICK i \in DOMAIN listing : i <= k /\ listing[i] = next[k]
      BY <2>3
    <3>2. next[k] \in seen \/ i > (window - 1) * PageItems
      BY <1>1, <3>1 DEF IInv, Ahead
    <3>3. i \in Nat
      BY RowsOfSeq DEF IInv, TypeOK
    <3> QED
      BY <2>1, <3>1, <3>2, <3>3
  <2> QED
    BY <2>2, <2>3
<1>7. AllRead'
  BY <1>1 DEF IInv, AllRead, FirstPage, LEGITIMATE_TERMINATION
<1> QED
  BY <1>2, <1>3, <1>4, <1>5, <1>6, <1>7 DEF IInv

LEMMA EmployerStep ==
  ASSUME IInv, Insert \/ Delete \/ Move
  PROVE  IInv'
<1>0. /\ inserted \in BOOLEAN /\ removed \in BOOLEAN /\ (page > 1) \in BOOLEAN
      /\ page = 1 \/ page > 1
  BY DEF IInv, TypeOK
<1>1. /\ listing \in Seq(Jobs) /\ Distinct(listing) /\ always \subseteq Range(listing)
      /\ Len(listing) \in Nat /\ DOMAIN listing = 1 .. Len(listing)
      /\ Range(listing) = {listing[k] : k \in 1 .. Len(listing)} /\ Range(listing) \subseteq Jobs
  BY RowsOfSeq DEF IInv, TypeOK, Listed
<1>2. CASE Insert
  <2>1. PICK j \in Jobs \ Range(listing), i \in 1 .. Len(listing) + 1 :
          /\ inserted' = (inserted \/ page > 1) /\ UNCHANGED removed
          /\ Edit(InsertAt(listing, i, j))
    BY <1>2 DEF Insert
  <2> DEFINE next == InsertAt(listing, i, j)
  <2>2. next \in Seq(Jobs) /\ Distinct(next)
    BY <1>1, InsertKeeps
  <2>3. j \in Jobs /\ j \notin always
    BY <1>1
  <2>4. /\ Len(next) = Len(listing) + 1
        /\ \A k \in 1 .. Len(listing) + 1 :
             next[k] = IF k < i THEN listing[k] ELSE IF k = i THEN j ELSE listing[k - 1]
    BY <1>1, <2>3, Inserting
  <2>5. Edit(next)
    BY <2>1
  <2> HIDE DEF next
  <2>6. ASSUME NEW k \in DOMAIN next, next[k] \in always
        PROVE  \E m \in DOMAIN listing : m <= k /\ listing[m] = next[k]
    <3>1. k \in 1 .. Len(listing) + 1
      BY <2>2, <2>4, RowsOfSeq
    <3>2. CASE k < i
      BY <1>1, <2>4, <3>1, <3>2
    <3>3. CASE k > i
      <4>1. k - 1 \in 1 .. Len(listing) /\ next[k] = listing[k - 1] /\ k - 1 <= k
        BY <1>1, <2>4, <3>1, <3>3
      <4> QED
        BY <1>1, <4>1
    <3>4. k # i
      BY <2>3, <2>4, <2>6, <3>1
    <3> QED
      BY <1>1, <3>1, <3>2, <3>3, <3>4
  <2> QED
    BY <1>0, <2>1, <2>2, <2>5, <2>6, EditKeeps
<1>3. CASE Delete
  <2>1. PICK i \in 1 .. Len(listing) :
          /\ removed' = (removed \/ page > 1) /\ UNCHANGED inserted
          /\ Edit(RemoveAt(listing, i))
    BY <1>1, <1>3 DEF Delete
  <2>2. /\ RemoveAt(listing, i) \in Seq(Jobs) /\ Distinct(RemoveAt(listing, i))
        /\ Range(RemoveAt(listing, i)) \subseteq Range(listing)
    BY <1>1, RemoveKeeps
  <2> QED
    BY <1>0, <2>1, <2>2, EditKeeps
<1>4. CASE Move
  <2>1. PICK i \in 1 .. Len(listing), k \in 1 .. Len(listing) :
          /\ removed' = (removed \/ page > 1) /\ UNCHANGED inserted
          /\ Edit(InsertAt(RemoveAt(listing, i), k, listing[i]))
    BY <1>1, <1>4 DEF Move
  <2> DEFINE rest == RemoveAt(listing, i)
             next == InsertAt(rest, k, listing[i])
  <2>2. /\ rest \in Seq(Jobs) /\ Distinct(rest) /\ Range(rest) \subseteq Range(listing)
        /\ listing[i] \notin Range(rest) /\ Len(rest) = Len(listing) - 1
    BY <1>1, RemoveKeeps
  <2>3. Edit(next)
    BY <2>1
  <2> HIDE DEF rest
  <2>4. listing[i] \in Jobs \ Range(rest) /\ listing[i] \in Range(listing) /\ k \in 1 .. Len(rest) + 1
    BY <1>1, <2>2
  <2>5. next \in Seq(Jobs) /\ Distinct(next) /\ Range(next) = Range(rest) \cup {listing[i]}
    BY <2>2, <2>4, InsertKeeps
  <2> HIDE DEF next
  <2> QED
    BY <1>0, <2>1, <2>2, <2>3, <2>4, <2>5, EditKeeps
<1> QED
  BY <1>2, <1>3, <1>4

-----------------------------------------------------------------------------
(* The steps of the scanner.                                                 *)

\* What reading a page does, whether its rows are taken or it closes a loop.
LEMMA Reading ==
  ASSUME TypeOK, Distinct(listing), NEW answer, NEW n \in Nat \ {0}, NEW ids,
         ids \subseteq Range(Rows(n)), PageRead(answer, n, ids)
  PROVE  /\ facts' \in Facts /\ facts.faults \subseteq facts'.faults /\ cut' \in BOOLEAN
         /\ \/ /\ UNCHANGED <<page, window, seen>> /\ facts'.total = facts.total
               /\ pc' = "assess" /\ termination' = "loop_detected"
            \/ /\ seen' = seen \cup ids
               /\ facts'.faults = {} => ids = Range(Rows(n))
               /\ \/ page = 1 /\ HasMore(n) /\ facts'.total = Remaining(n) + Cardinality(ids)
                  \/ facts'.total = facts.total
               /\ \/ /\ HasMore(n) /\ page' = page + 1 /\ window' = n + 1
                     /\ UNCHANGED <<pc, cut, termination>>
                  \/ /\ ~HasMore(n) \/ cut'
                     /\ UNCHANGED <<page, window>>
                     /\ pc' = "assess" /\ termination' \in Terminations
<1>1. facts \in Facts /\ listing \in Seq(Jobs) /\ facts.requested + 1 \in Nat /\ cut \in BOOLEAN
  BY DEF TypeOK, Facts
<1> DEFINE rows == Rows(n)
           faults == (IF answer = "redirected" THEN {"redirect"} ELSE {}) \cup
                     (IF ids # Range(rows) THEN {"unresolved"} ELSE {})
<1>2. /\ faults \subseteq Faults
      /\ \A fs \in SUBSET Faults :
           /\ Requested(fs) \in Facts /\ Requested(fs).total = facts.total
           /\ Requested(fs).faults = facts.faults \cup fs
  BY <1>1 DEF Faults, Facts, Requested
<1>3. PICK more \in MoreLinks(n), empty \in BOOLEAN :
        /\ cut' = (cut \/ (HasMore(n) /\ ~more.named))
        /\ \/ /\ facts' = Requested(faults \ {"unresolved"})
              /\ Stop("loop_detected")
              /\ UNCHANGED <<page, window, seen>>
           \/ /\ seen' = seen \cup ids
              /\ facts' = [Requested(faults) EXCEPT !.total = Total(n, ids, more),
                                                    !.empty = ids = {} /\ ~more.named /\ empty]
              /\ \/ /\ more.named
                    /\ page' = page + 1 /\ window' = n + 1
                    /\ UNCHANGED <<pc, termination>>
                 \/ /\ ~more.named
                    /\ Stop(IF ids # {} THEN "no_more_link"
                            ELSE IF empty THEN "empty_validated_page"
                            ELSE "structure_unrecognized")
                    /\ UNCHANGED <<page, window>>
  BY DEF PageRead
<1>4. /\ more.named \in BOOLEAN /\ more.counted \in BOOLEAN /\ HasMore(n) \in BOOLEAN
      /\ more.named => HasMore(n)
      /\ more.counted => HasMore(n)
  <2>1. CASE HasMore(n)
    BY <1>3, <2>1 DEF MoreLinks, HasMore
  <2>2. CASE ~HasMore(n)
    <3>1. more = [named |-> FALSE, counted |-> FALSE]
      BY <1>3, <2>2 DEF MoreLinks
    <3> QED
      BY <2>2, <3>1 DEF HasMore
  <2> QED
    BY <2>1, <2>2
<1>5. cut' \in BOOLEAN /\ (more.named => cut' = cut) /\ (~more.named => ~HasMore(n) \/ cut')
  BY <1>1, <1>3, <1>4
<1>6. CASE /\ facts' = Requested(faults \ {"unresolved"})
           /\ Stop("loop_detected")
           /\ UNCHANGED <<page, window, seen>>
  <2>1. faults \ {"unresolved"} \in SUBSET Faults
    BY <1>2
  <2> HIDE DEF faults
  <2>2. pc' = "assess" /\ termination' = "loop_detected"
    BY <1>6 DEF Stop
  <2> QED
    BY <1>2, <1>5, <1>6, <2>1, <2>2
<1>7. CASE /\ seen' = seen \cup ids
           /\ facts' = [Requested(faults) EXCEPT !.total = Total(n, ids, more),
                                                 !.empty = ids = {} /\ ~more.named /\ empty]
           /\ \/ /\ more.named
                 /\ page' = page + 1 /\ window' = n + 1
                 /\ UNCHANGED <<pc, termination>>
              \/ /\ ~more.named
                 /\ Stop(IF ids # {} THEN "no_more_link"
                         ELSE IF empty THEN "empty_validated_page"
                         ELSE "structure_unrecognized")
                 /\ UNCHANGED <<page, window>>
  <2>1. /\ Total(n, ids, more) \in Int
        /\ \/ page = 1 /\ HasMore(n) /\ Total(n, ids, more) = Remaining(n) + Cardinality(ids)
           \/ Total(n, ids, more) = facts.total
    <3>1. IsFiniteSet(Range(listing)) /\ Range(Rows(n)) \subseteq Range(listing)
      BY <1>1, AsManyAsLong, PageRange
    <3>2. Cardinality(ids) \in Nat
      BY <3>1, FS_Subset, FS_CardinalityType
    <3>3. Remaining(n) \in Int
      BY <1>1, RowsOfSeq, Bounds DEF Remaining
    <3> QED
      BY <1>1, <1>4, <3>2, <3>3 DEF Total, Facts
  <2>2. /\ facts' \in Facts /\ facts'.total = Total(n, ids, more)
        /\ facts'.faults = facts.faults \cup faults
    <3>1. Requested(faults) \in Facts /\ Requested(faults).faults = facts.faults \cup faults
      <4> HIDE DEF faults
      <4> QED
        BY <1>2
    <3>2. (ids = {} /\ ~more.named /\ empty) \in BOOLEAN
      BY <1>4
    <3> HIDE DEF faults
    <3> QED
      BY <1>7, <2>1, <3>1, <3>2 DEF Facts
  <2>3. faults = {} => ids = Range(Rows(n))
    OBVIOUS
  <2> HIDE DEF faults
  <2>4. facts'.faults = {} => ids = Range(Rows(n))
    BY <2>2, <2>3
  <2>5. ~more.named => pc' = "assess" /\ termination' \in Terminations
    BY <1>7 DEF Stop, Terminations
  <2> QED
    BY <1>4, <1>5, <1>7, <2>1, <2>2, <2>4, <2>5
<1> QED
  BY <1>3, <1>6, <1>7

\* It is never a page further than the one that was asked for.
LEMMA ReadStep ==
  ASSUME IInv, pc = "walk", NEW answer, NEW n \in Nat \ {0}, n = window \/ n = window - 1,
         NEW ids, ids \subseteq Range(Rows(n)), PageRead(answer, n, ids),
         UNCHANGED <<source, qualified>>
  PROVE  IInv'
<1>1. /\ TypeOK /\ listing \in Seq(Jobs) /\ Distinct(listing) /\ always \subseteq Range(listing)
      /\ page \in Nat \ {0} /\ window \in Nat \ {0}
      /\ Len(listing) \in Nat /\ DOMAIN listing = 1 .. Len(listing)
      /\ Range(listing) = {listing[k] : k \in 1 .. Len(listing)}
  BY RowsOfSeq DEF IInv, TypeOK, Listed
<1>2. UNCHANGED <<listing, changes, inserted, removed, always, ever, qualified>> /\ qualified = FALSE
  BY DEF source, IInv, TypeOK, Verdict
<1>3. ids \subseteq Range(listing)
  BY <1>1, PageRange
<1>4. /\ facts' \in Facts /\ facts.faults \subseteq facts'.faults /\ cut' \in BOOLEAN
      /\ \/ /\ UNCHANGED <<page, window, seen>> /\ facts'.total = facts.total
            /\ pc' = "assess" /\ termination' = "loop_detected"
         \/ /\ seen' = seen \cup ids
            /\ facts'.faults = {} => ids = Range(Rows(n))
            /\ \/ page = 1 /\ HasMore(n) /\ facts'.total = Remaining(n) + Cardinality(ids)
               \/ facts'.total = facts.total
            /\ \/ /\ HasMore(n) /\ page' = page + 1 /\ window' = n + 1
                  /\ UNCHANGED <<pc, cut, termination>>
               \/ /\ ~HasMore(n) \/ cut'
                  /\ UNCHANGED <<page, window>>
                  /\ pc' = "assess" /\ termination' \in Terminations
  BY <1>1, Reading
<1>5. /\ page = 1 => n = 1 /\ seen = {} /\ facts.total = -1
      /\ termination = "none" /\ ~cut
  BY <1>1 DEF IInv, FirstPage
<1>6. TypeOK'
  BY <1>1, <1>2, <1>4 DEF TypeOK, Terminations
<1>7. Listed' /\ Verdict'
  BY <1>2, <1>3, <1>4 DEF IInv, Listed, Verdict
<1>8. page = 1 /\ HasMore(n) /\ ids = Range(Rows(n)) =>
        Remaining(1) + Cardinality(ids) = Cardinality(Range(listing))
  BY <1>1, <1>5, FirstPageCounts
<1>10. FirstPage'
  BY <1>1, <1>4, <1>5 DEF FirstPage
<1>11. Announced'
  <2> SUFFICES ASSUME ~inserted, facts'.faults = {}, facts'.total # -1
               PROVE  \E S : /\ IsFiniteSet(S) /\ Cardinality(S) = facts'.total
                             /\ seen' \subseteq S /\ Range(listing) \subseteq S
    BY <1>2 DEF Announced
  <2>1. facts.faults = {} /\ seen' \subseteq seen \cup ids
    BY <1>4
  <2>2. CASE facts'.total = facts.total
    <3>1. PICK S : /\ IsFiniteSet(S) /\ Cardinality(S) = facts.total
                   /\ seen \subseteq S /\ Range(listing) \subseteq S
      BY <2>1, <2>2 DEF IInv, Announced
    <3> QED
      BY <1>3, <2>1, <2>2, <3>1
  <2>3. CASE facts'.total # facts.total
    <3>1. page = 1 /\ HasMore(n) /\ ids = Range(Rows(n))
            /\ facts'.total = Remaining(n) + Cardinality(ids)
      BY <1>4, <2>3
    <3>2. IsFiniteSet(Range(listing))
      BY <1>1, AsManyAsLong
    <3> QED
      BY <1>3, <1>5, <1>8, <2>1, <3>1, <3>2
  <2> QED
    BY <2>2, <2>3
<1>12. ASSUME facts'.faults = {}, seen' = seen \cup ids, ids = Range(Rows(n)), ~removed,
              NEW i \in 1 .. Len(listing), listing[i] \in always,
              i <= n * PageItems \/ ~HasMore(n)
       PROVE  listing[i] \in seen'
  <2>1. facts.faults = {}
    BY <1>4, <1>12
  <2>2. listing[i] \in seen \/ i > (window - 1) * PageItems
    BY <1>1, <1>12, <2>1 DEF IInv, Ahead
  <2>3. (n - 1) * PageItems <= (window - 1) * PageItems
    <3>1. CASE n = window
      BY <1>1, <3>1, Bounds
    <3>2. CASE n = window - 1
      <4>1. /\ n * PageItems = (n - 1) * PageItems + PageItems
            /\ (n - 1) * PageItems \in Nat /\ PageItems \in Nat
        BY Bounds
      <4> QED
        BY <3>2, <4>1
    <3> QED
      BY <3>1, <3>2
  <2>4. (n - 1) * PageItems \in Nat /\ (window - 1) * PageItems \in Nat
    BY <1>1, Bounds
  <2>5. CASE i > (window - 1) * PageItems
    <3>1. (n - 1) * PageItems < i
      BY <1>1, <2>3, <2>4, <2>5
    <3> QED
      BY <1>1, <1>12, <3>1, PageRange
  <2> QED
    BY <1>12, <2>2, <2>5
<1>13. Ahead'
  <2> SUFFICES ASSUME pc' = "walk", ~removed, facts'.faults = {},
                      NEW i \in 1 .. Len(listing), listing[i] \in always,
                      ~(i > (window' - 1) * PageItems)
               PROVE  listing[i] \in seen'
    BY <1>1, <1>2 DEF Ahead
  <2>1. /\ seen' = seen \cup ids /\ ids = Range(Rows(n)) /\ window' = n + 1
    BY <1>4
  <2>2. i <= n * PageItems
    <3>1. (n + 1) - 1 = n /\ n * PageItems \in Nat /\ i \in Nat
      BY <1>1, Bounds
    <3>2. ~(i > n * PageItems)
      BY <2>1, <3>1
    <3> QED
      BY <3>1, <3>2
  <2> QED
    BY <1>12, <2>1, <2>2
<1>14. AllRead'
  <2> SUFFICES ASSUME termination' \in LEGITIMATE_TERMINATION, facts'.faults = {},
                      ~cut', ~removed, NEW x \in always
               PROVE  x \in seen'
    BY <1>2 DEF AllRead, Misled
  <2>1. ~HasMore(n) /\ seen' = seen \cup ids /\ ids = Range(Rows(n))
    BY <1>4, <1>5 DEF LEGITIMATE_TERMINATION
  <2>2. PICK i \in 1 .. Len(listing) : x = listing[i]
    BY <1>1
  <2> QED
    BY <1>12, <2>1, <2>2
<1> QED
  BY <1>6, <1>7, <1>10, <1>11, <1>13, <1>14 DEF IInv

LEMMA ScannerStep ==
  ASSUME IInv, HitBound \/ FetchPage \/ Assess
  PROVE  IInv'
<1>1. CASE HitBound
  <2>1. /\ pc = "walk" /\ pc' = "assess" /\ termination' = "max_pages"
        /\ UNCHANGED <<listing, changes, inserted, removed, always, ever, page, window, seen,
                       facts, signatures, cut, qualified>>
    BY <1>1 DEF HitBound, Stop, source
  <2>2. TypeOK' /\ Listed' /\ FirstPage' /\ Ahead'
    BY <2>1 DEF IInv, TypeOK, Terminations, Listed, FirstPage, Ahead
  <2>3. Announced' /\ AllRead' /\ Verdict'
    BY <2>1 DEF IInv, Announced, AllRead, LEGITIMATE_TERMINATION, Verdict
  <2> QED
    BY <2>2, <2>3 DEF IInv
<1>2. CASE Assess
  <2>1. /\ pc' = "done" /\ qualified' = Qualifies
        /\ UNCHANGED <<listing, changes, inserted, removed, always, ever, page, window, seen,
                       facts, signatures, cut, termination>>
    BY <1>2 DEF Assess, source
  <2>2. Qualifies \in BOOLEAN /\ (Qualifies' <=> Qualifies)
    BY <2>1 DEF Qualifies
  <2>3. TypeOK' /\ Listed' /\ FirstPage' /\ Ahead'
    BY <2>1, <2>2 DEF IInv, TypeOK, Listed, FirstPage, Ahead
  <2>4. Announced' /\ AllRead' /\ Verdict'
    BY <2>1, <2>2 DEF IInv, Announced, AllRead, Misled, Verdict
  <2> QED
    BY <2>3, <2>4 DEF IInv
<1>3. CASE FetchPage
  <2>1. pc = "walk" /\ UNCHANGED <<source, qualified>>
    BY <1>3 DEF FetchPage
  <2>2. window \in Nat \ {0}
    BY DEF IInv, TypeOK
  <2>3. ASSUME NEW answer, PageLost(answer) \/ PageUnrecognized(answer)
        PROVE  IInv'
    <3>1. PICK fs \in SUBSET Faults : fs # {} /\ facts' = Requested(fs)
      BY <2>3 DEF PageLost, PageUnrecognized, Faults
    <3>2. facts' \in Facts /\ facts'.faults # {}
      <4>1. facts \in Facts /\ facts.requested + 1 \in Nat /\ facts.faults \cup fs \in SUBSET Faults
        BY DEF IInv, TypeOK, Facts
      <4>2. facts' = [facts EXCEPT !.requested = facts.requested + 1, !.faults = facts.faults \cup fs]
        BY <3>1 DEF Requested
      <4>3. facts' \in Facts /\ facts'.faults = facts.faults \cup fs
        BY <4>1, <4>2 DEF Facts
      <4> QED
        BY <3>1, <4>3
    <3>3. /\ pc' = "assess" /\ termination' \in Terminations
          /\ UNCHANGED <<listing, changes, inserted, removed, always, ever, page, window, seen,
                         cut, qualified>>
      BY <2>1, <2>3 DEF PageLost, PageUnrecognized, Stop, source, Terminations
    <3>4. TypeOK' /\ Listed' /\ FirstPage' /\ Ahead'
      BY <3>2, <3>3 DEF IInv, TypeOK, Listed, FirstPage, Ahead
    <3>5. Announced' /\ AllRead' /\ Verdict'
      BY <2>1, <3>2, <3>3 DEF IInv, Announced, AllRead, Verdict
    <3> QED
      BY <3>4, <3>5 DEF IInv
  <2>4. PICK answer \in Answers :
          \/ PageLost(answer)
          \/ PageUnrecognized(answer)
          \/ PageRead(answer, window, Range(Rows(window)))
          \/ \E ids \in SUBSET Range(Rows(window)) : PageRead(answer, window, ids)
          \/ window > 1 /\ PageRead(answer, window - 1, Range(Rows(window - 1)))
    BY <1>3 DEF FetchPage
  <2>5. CASE \E ids \in SUBSET Range(Rows(window)) : PageRead(answer, window, ids)
    BY <2>1, <2>2, <2>5, ReadStep
  <2>6. CASE window > 1 /\ PageRead(answer, window - 1, Range(Rows(window - 1)))
    <3>1. window - 1 \in Nat \ {0}
      BY <2>2, <2>6
    <3> QED
      BY <2>1, <2>6, <3>1, ReadStep
  <2> QED
    BY <2>3, <2>4, <2>5, <2>6
<1> QED
  BY <1>1, <1>2, <1>3

-----------------------------------------------------------------------------
(* The results.                                                              *)

LEMMA InitInvariant == Init => IInv
<1> SUFFICES ASSUME Init PROVE IInv
  OBVIOUS
<1>1. PICK n \in 0 .. Cardinality(Jobs) : listing \in [1 .. n -> Jobs]
  BY DEF Init
<1>2. listing \in Seq(Jobs) /\ Distinct(listing)
  <2>1. Distinct(listing)
    BY DEF Init, Distinct
  <2>2. listing \in Seq(Jobs)
    BY <1>1
  <2> QED
    BY <2>1, <2>2
<1>3. TypeOK
  <2>1. [faults |-> {}, requested |-> 0, total |-> -1, empty |-> FALSE] \in Facts
    BY DEF Facts
  <2>2. facts \in Facts
    BY <2>1 DEF Init
  <2>3. /\ changes = 0 /\ inserted = FALSE /\ removed = FALSE /\ cut = FALSE /\ pc = "walk" /\ page = 1 /\ window = 1
        /\ termination = "none" /\ qualified = FALSE
    BY DEF Init
  <2>4. changes \in Nat /\ page \in Nat \ {0} /\ window \in Nat \ {0}
    BY <2>3
  <2>5. inserted \in BOOLEAN /\ removed \in BOOLEAN /\ cut \in BOOLEAN /\ qualified \in BOOLEAN
    BY <2>3
  <2>6. pc \in {"walk", "assess", "done"} /\ termination \in Terminations
    BY <2>3 DEF Terminations
  <2> QED
    BY <1>2, <2>2, <2>4, <2>5, <2>6 DEF TypeOK
<1>4. Listed /\ FirstPage /\ Announced /\ Verdict
  BY <1>2 DEF Init, Listed, FirstPage, Announced, Verdict
<1>5. Ahead
  <2>1. DOMAIN listing \subseteq Nat \ {0} /\ (1 - 1) * PageItems = 0
    BY <1>2, RowsOfSeq, SizesAssumption
  <2> QED
    BY <2>1 DEF Init, Ahead
<1>6. AllRead
  BY DEF Init, AllRead, LEGITIMATE_TERMINATION
<1> QED
  BY <1>3, <1>4, <1>5, <1>6 DEF IInv

\* What was announced bounds what can be seen, as long as nothing is inserted; and
\* what was not read yet lies ahead, as long as nothing else happens.
THEOREM Invariance == Spec => []IInv
<1>1. IInv /\ [Next]_vars => IInv'
  <2>1. IInv /\ UNCHANGED vars => IInv'
    <3> SUFFICES ASSUME IInv, UNCHANGED vars PROVE IInv'
      OBVIOUS
    <3> USE DEF vars, source, scanner
    <3>1. TypeOK' /\ Listed' /\ FirstPage'
      BY DEF IInv, TypeOK, Listed, FirstPage
    <3>2. Announced' /\ Ahead' /\ AllRead'
      BY DEF IInv, Announced, Ahead, AllRead, Misled
    <3>3. Verdict'
      BY DEF IInv, Verdict, Qualifies
    <3> QED
      BY <3>1, <3>2, <3>3 DEF IInv
  <2> QED
    BY <2>1, EmployerStep, ScannerStep DEF Next
<1> QED
  BY <1>1, InitInvariant, PTL DEF Spec

\* What Presence relies on, for any listing, page size and edits: a traversal reports
\* only what was listed while it ran, and a qualified one every advertisement that
\* stayed listed; unless it was misled, and there was no count of the first page to
\* tell, or an insertion made up for what slipped (scan and assess together).
THEOREM ContractKept == Spec => []KeepsContract
<1>1. IInv => KeepsContract
  <2> SUFFICES ASSUME IInv, qualified, ~Masked PROVE always \subseteq seen
    BY DEF KeepsContract, IInv, Listed
  <2>1. /\ facts.faults = {} /\ termination \in LEGITIMATE_TERMINATION
        /\ facts.total # -1 => facts.total = Cardinality(seen)
    BY DEF IInv, Verdict, Qualifies
  <2>2. CASE ~Misled
    BY <2>1, <2>2 DEF IInv, AllRead
  <2>3. CASE ~inserted /\ facts.total # -1
    <3>1. PICK S : /\ IsFiniteSet(S) /\ Cardinality(S) = facts.total
                   /\ seen \subseteq S /\ Range(listing) \subseteq S
      BY <2>1, <2>3 DEF IInv, Announced
    <3>2. seen = S
      BY <2>1, <2>3, <3>1, FS_Subset
    <3> QED
      BY <3>1, <3>2 DEF IInv, Listed
  <2> QED
    BY <2>2, <2>3 DEF Masked
<1> QED
  BY <1>1, Invariance, PTL

-----------------------------------------------------------------------------
(* A traversal as Presence has it: one step, that says what was listed       *)
(* throughout, at some moment, and what was seen of it.                      *)

CONSTANTS MaxRuns, ReconciliationScan
VARIABLES discovered, events, gaps, run, stage, scans, todo, greeted, slipped

Check == INSTANCE Presence WITH Postings <- Jobs, pc <- stage

\* The step that stands for a traversal in Presence allows what a traversal of any
\* length does: whatever the listing and the edits, masked ones included, the result
\* is one that TraversalResult names (ListingScanner.scan and assess, and how
\* runner.py uses them).
THEOREM ResultAllowed ==
  Spec => []Check!TraversalResult(always, ever, seen, qualified, Masked)
<1>1. IInv /\ KeepsContract => Check!TraversalResult(always, ever, seen, qualified, Masked)
  BY DEF IInv, Listed, KeepsContract, Check!TraversalResult
<1> QED
  BY <1>1, Invariance, ContractKept, PTL

-----------------------------------------------------------------------------
(* Every page is asked for through SourceClient, which Fetch is about.       *)

\* The next turn is an interval after the latest request, and after whatever the
\* source asked to wait for.
Paced ==
  /\ requests \in Nat /\ minInterval \in Nat /\ interval \in Nat /\ nextAllowed \in Nat
  /\ now \in Nat /\ lastAt \in Nat /\ askedUntil \in Nat
  /\ interval >= Floor /\ lastAt <= now
  /\ requests > 0 => nextAllowed >= lastAt + Floor
  /\ nextAllowed >= askedUntil

LEMMA Acquired ==
  ASSUME Paced, Acquire
  PROVE  /\ Paced' /\ lastAt' >= askedUntil
         /\ requests > 0 => lastAt' - lastAt >= Floor
<1>1. PICK j \in 0 .. Jitter : nextAllowed' = now' + interval + j
  BY DEF Acquire
<1>2. /\ now' = (IF now > nextAllowed THEN now ELSE nextAllowed) /\ lastAt' = now'
      /\ requests' = requests + 1 /\ UNCHANGED <<minInterval, interval, challenged, askedUntil>>
  BY DEF Acquire, Larger
<1>3. Jitter \in Nat /\ j \in Nat /\ Floor \in Nat /\ Floor' = Floor
  BY <1>1, <1>2, FetchAssumption DEF Paced, Floor, Smaller
<1> QED
  BY <1>1, <1>2, <1>3 DEF Paced

\* A response that asks for patience only puts the next turn off.
LEMMA Responded ==
  ASSUME Paced, Response
  PROVE  Paced' /\ requests' = requests
<1>1. UNCHANGED <<requests, minInterval, interval, challenged, now, lastAt>>
  BY DEF Response
<1>2. Floor \in Nat /\ Floor' = Floor
  BY <1>1, FetchAssumption DEF Paced, Floor, Smaller
<1>3. CASE UNCHANGED <<nextAllowed, askedUntil>>
  BY <1>1, <1>2, <1>3 DEF Paced
<1>4. ASSUME NEW seconds \in Patience, HonourRetryAfter(seconds),
             askedUntil' = Larger(askedUntil, now + seconds)
      PROVE  Paced'
  <2>1. /\ nextAllowed' = (IF nextAllowed > now + seconds THEN nextAllowed ELSE now + seconds)
        /\ askedUntil' = (IF askedUntil > now + seconds THEN askedUntil ELSE now + seconds)
        /\ seconds \in Nat
    BY <1>4, FetchAssumption DEF HonourRetryAfter, Larger
  <2> QED
    BY <1>1, <1>2, <2>1 DEF Paced
<1> QED
  BY <1>1, <1>3, <1>4 DEF Response

\* A challenge makes the interval longer, or max_interval.
LEMMA SlowedDown ==
  ASSUME Paced, RecordChallenge,
         UNCHANGED clock \/ Backoff
  PROVE  Paced' /\ requests' = requests
<1>1. MaxInterval \in Nat
  BY FetchAssumption
<1>2. /\ interval' = (IF 2 * interval < MaxInterval THEN 2 * interval ELSE MaxInterval)
      /\ challenged' = TRUE
      /\ UNCHANGED <<requests, minInterval, nextAllowed, lastAt, askedUntil>>
      /\ now' = now \/ now' = now + 1
  BY DEF RecordChallenge, Smaller, clock, Backoff
<1>3. /\ Floor \in Nat /\ Floor' \in Nat /\ Floor' <= Floor
      /\ Floor' <= MaxInterval
  BY <1>1, <1>2 DEF Paced, Floor, Smaller
<1>4. interval' \in Nat /\ interval' >= Floor'
  BY <1>1, <1>2, <1>3 DEF Paced
<1>5. /\ lastAt \in Nat /\ nextAllowed \in Nat
      /\ requests > 0 => nextAllowed >= lastAt + Floor
  BY DEF Paced
<1>6. ASSUME requests' > 0
      PROVE  nextAllowed' >= lastAt' + Floor'
  <2>1. requests > 0
    BY <1>2, <1>6
  <2>2. nextAllowed >= lastAt + Floor
    BY <1>5, <2>1
  <2>3. \A low, high \in Nat : low <= high /\ nextAllowed >= lastAt + high
                              => nextAllowed >= lastAt + low
    BY <1>5
  <2>4. nextAllowed >= lastAt + Floor'
    BY <1>3, <2>2, <2>3
  <2> QED
    BY <1>2, <2>4
<1>7. /\ requests' \in Nat /\ minInterval' \in Nat /\ nextAllowed' \in Nat /\ now' \in Nat
      /\ lastAt' \in Nat /\ askedUntil' \in Nat /\ lastAt' <= now'
      /\ nextAllowed' >= askedUntil' /\ requests' = requests
  BY <1>2 DEF Paced
<1> QED
  BY <1>4, <1>6, <1>7 DEF Paced

\* What every step keeps, and what those that send a request give.
LEMMA PacedKept ==
  ASSUME Paced, [FetchNext]_fetchVars
  PROVE  /\ Paced'
         /\ Sending => /\ lastAt' >= askedUntil
                       /\ requests > 0 => lastAt' - lastAt >= Floor
<1> DEFINE Idle == UNCHANGED <<requests, minInterval, interval, nextAllowed, challenged, lastAt, askedUntil>>
                     /\ (now' = now \/ now' = now + 1)
<1>1. CASE Acquire
  BY <1>1, Acquired
<1>2. CASE Response
  BY <1>2, Responded DEF Sending, Paced
<1>3. CASE Idle
  <2>1. Floor' = Floor
    BY <1>3 DEF Floor
  <2> QED
    BY <1>3, <2>1 DEF Sending, Paced
<1>4. CASE RecordChallenge /\ (UNCHANGED clock \/ Backoff)
  BY <1>4, SlowedDown DEF Sending, Paced
<1>5. CASE Prime \/ Send \/ Solve
  BY <1>1, <1>5 DEF Prime, Send, Solve
<1>6. CASE Answer \/ Redirect \/ Challenge
  BY <1>2, <1>6 DEF Answer, Redirect, Challenge
<1>7. CASE Refuse \/ Fail
  BY <1>2, <1>3, <1>7 DEF Refuse, Fail, NoResponse, clock
<1>8. CASE \/ Begin \/ Blocked \/ Exhausted \/ GiveUp
           \/ RetryFailed \/ BackoffUnsolved \/ UNCHANGED fetchVars
  BY <1>3, <1>8 DEF Begin, Blocked, Exhausted, GiveUp,
    RetryFailed, BackoffUnsolved, Backoff, budget, clock,
    fetchVars
<1>9. CASE StopAtChallenge \/ ContinueAfterChallenge
  BY <1>4, <1>9 DEF StopAtChallenge, ContinueAfterChallenge, clock
<1>10. CASE SolveFailed
  BY <1>1, <1>3, <1>10 DEF SolveFailed, Backoff, budget
<1> QED
  BY <1>5, <1>6, <1>7, <1>8, <1>9, <1>10 DEF FetchNext, Progress

LEMMA PacedAtFirst == ASSUME FetchInit PROVE Paced
<1>1. minInterval \in Nat
  BY FetchAssumption DEF FetchInit
<1>2. Floor = minInterval
  BY DEF FetchInit, Floor
<1>3. /\ requests = 0 /\ interval = minInterval /\ nextAllowed = 0
      /\ now = 0 /\ lastAt = 0 /\ askedUntil = 0
  BY DEF FetchInit
<1> QED
  BY <1>1, <1>2, <1>3 DEF Paced

\* However many pages, hops, retries and visits of the browser there are, and
\* however often the run was challenged, two requests are the configured interval
\* apart, or max_interval if that is less and a challenge came (acquire).
THEOREM Spaced == FetchSpec => RequestsSpaced
<1>1. FetchInit => Paced
  BY PacedAtFirst
<1>2. Paced /\ [FetchNext]_fetchVars => Paced'
  BY PacedKept
<1>3. Paced /\ [FetchNext]_fetchVars
        => [Sending /\ requests > 0 => lastAt' - lastAt >= Floor]_fetchVars
  BY PacedKept DEF Sending
<1> QED
  BY <1>1, <1>2, <1>3, PTL DEF FetchSpec, RequestsSpaced

\* However many seconds of patience the source asked for, with whichever response,
\* nothing is sent before they are over (honour_retry_after and acquire).
THEOREM Patient == FetchSpec => RetryAfterHonoured
<1>1. FetchInit => Paced
  BY PacedAtFirst
<1>2. Paced /\ [FetchNext]_fetchVars => Paced'
  BY PacedKept
<1>3. Paced /\ [FetchNext]_fetchVars => [Sending => lastAt' >= askedUntil]_fetchVars
  BY PacedKept DEF Sending
<1> QED
  BY <1>1, <1>2, <1>3, PTL DEF FetchSpec, RetryAfterHonoured

\* Where a fetch can be, and how often it tried.
Within ==
  /\ phase \in {"ready"} \cup DOMAIN StepsLeft
  /\ attempt \in Nat /\ hop \in Nat /\ attempt <= MaxRetries + 2
  /\ phase \in {"solve", "solved_nothing"} => attempt <= MaxRetries + 1

LEMMA LastTries == MaxRetries \in Nat /\ MaxRedirects \in Nat
BY FetchAssumption

\* One step of a fetch, or its beginning.
LEMMA StepCounts ==
  ASSUME Within, [FetchNext]_fetchVars
  PROVE  Within' /\ (phase # "ready" => phase' = "ready" \/ Further \/ UNCHANGED fetchVars)
<1> USE LastTries DEF Within, StepsLeft, Further
<1>1. CASE Begin
  BY <1>1 DEF Begin
<1>2. CASE Prime \/ UNCHANGED fetchVars
  BY <1>2 DEF Prime, call, fetchVars
<1>3. CASE Blocked \/ Exhausted \/ GiveUp \/ Answer \/ Refuse \/ StopAtChallenge
  BY <1>3 DEF Blocked, Exhausted, GiveUp, Answer, Refuse, StopAtChallenge, Return
<1>4. CASE Send \/ Redirect
  BY <1>4 DEF Send, Redirect
<1>5. CASE Challenge \/ Fail
  BY <1>5 DEF Challenge, Fail
<1>6. CASE RetryFailed \/ ContinueAfterChallenge
  BY <1>6 DEF RetryFailed, ContinueAfterChallenge, Again
<1>7. CASE Solve \/ SolveFailed \/ BackoffUnsolved
  BY <1>7 DEF Solve, SolveFailed, BackoffUnsolved, Again
<1> QED
  BY <1>1, <1>2, <1>3, <1>4, <1>5, <1>6, <1>7 DEF FetchNext, Progress

\* For any limits and whatever the source answers, a fetch cannot go on without
\* using up what it was given: attempts, hops of each, and the steps of a hop (fetch,
\* _attempt and _handle_challenge).
THEOREM StepsCount == FetchSpec => EveryStepCounts
<1>1. FetchInit => Within
  BY LastTries DEF FetchInit, Within
<1>2. Within /\ [FetchNext]_fetchVars => Within'
  BY StepCounts
<1>3. Within /\ [FetchNext]_fetchVars
        => [phase # "ready" => phase' = "ready" \/ Further]_fetchVars
  BY StepCounts
<1> QED
  BY <1>1, <1>2, <1>3, PTL DEF FetchSpec, EveryStepCounts
=============================================================================
