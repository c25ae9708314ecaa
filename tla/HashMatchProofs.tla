---------------------------- MODULE HashMatchProofs ----------------------------
(***************************************************************************)
(* The signature list for lists of any length: the binary search finds the *)
(* first entry of a size, and with it a lookup in the sorted list answers  *)
(* what a search through the lines of the file would.                      *)
(***************************************************************************)
EXTENDS HashMatch, FiniteSetTheorems, WellFoundedInduction, TLAPS

\* The order of the natural numbers, as a relation.
Less == {ij \in Nat \X Nat : ij[1] < ij[2]}

\* Among natural numbers there is a least one.
LEMMA LeastExists ==
  ASSUME NEW T \in SUBSET Nat, T # {}
  PROVE  \E i \in T : \A j \in T : i <= j
<1>1. IsWellFoundedOn(Less, Nat)
  BY NatLessThanWellFounded, Zenon DEF OpToRel, Less
<1>2. PICK i \in T : \A j \in T : ~ (<<j, i>> \in Less)
  BY <1>1, WFMin
<1>3. \A j \in T : ~ (j < i)
  BY <1>2 DEF Less
<1> QED BY <1>3

-----------------------------------------------------------------------------
(* The binary search.                                                      *)

Bounds(s) == 1..(Len(s) + 1)

\* One step of the search, given the rest of it.
Step(s, x, rest) ==
  [range \in Bounds(s) \X Bounds(s) |->
     LET lo  == range[1]
         hi  == range[2]
         mid == lo + (hi - lo) \div 2
     IN  IF lo >= hi THEN lo
         ELSE IF s[mid][1] < x THEN rest[<<mid + 1, hi>>] ELSE rest[<<lo, mid>>]]

Search(s, x) == CHOOSE f : f = Step(s, x, f)

LEMMA LowerBoundIs ==
  ASSUME NEW s, NEW x
  PROVE  LowerBound(s, x) = Search(s, x)[<<1, Len(s) + 1>>]
BY DEF LowerBound, Search, Step, Bounds

\* What a step says of a range.
LEMMA StepOf ==
  ASSUME NEW s, NEW x, NEW rest, NEW lo \in Bounds(s), NEW hi \in Bounds(s),
         NEW mid, mid = lo + (hi - lo) \div 2
  PROVE  Step(s, x, rest)[<<lo, hi>>] =
           IF lo >= hi THEN lo
           ELSE IF s[mid][1] < x THEN rest[<<mid + 1, hi>>] ELSE rest[<<lo, mid>>]
BY DEF Step

\* Of a sorted list the step has a solution: the first position from lo on that
\* is hi or has an entry not below x.
LEMMA SearchExists ==
  ASSUME NEW s \in Seq(Nat \X Digests), SortedBySize(s), NEW x \in Nat
  PROVE  Search(s, x) = Step(s, x, Search(s, x))
<1> DEFINE hits(lo, hi) == {i \in lo..hi : i = hi \/ s[i][1] >= x}
           least(lo, hi) == CHOOSE i \in hits(lo, hi) : \A j \in hits(lo, hi) : i <= j
           f == [range \in Bounds(s) \X Bounds(s) |->
                   IF range[1] >= range[2] THEN range[1] ELSE least(range[1], range[2])]
<1>1. \A i \in 1..Len(s) : s[i][1] \in Nat
  OBVIOUS
<1>2. ASSUME NEW lo \in Nat, NEW hi \in Nat, lo <= hi
      PROVE  least(lo, hi) \in hits(lo, hi) /\ \A j \in hits(lo, hi) : least(lo, hi) <= j
  <2>1. hits(lo, hi) \in SUBSET Nat /\ hi \in hits(lo, hi)
    BY <1>2
  <2> QED BY <2>1, LeastExists
<1>3. ASSUME NEW lo \in Nat, NEW hi \in Nat, lo <= hi,
             NEW i \in hits(lo, hi), \A j \in hits(lo, hi) : i <= j
      PROVE  i = least(lo, hi)
  <2>1. hits(lo, hi) \in SUBSET Nat
    OBVIOUS
  <2> QED BY <1>2, <1>3, <2>1, SMTT(30)
<1>4. \A n \in Nat : least(n, n) = n
  BY <1>2
<1> HIDE DEF least
<1>5. ASSUME NEW lo \in Bounds(s), NEW hi \in Bounds(s), lo < hi,
             NEW mid, mid = lo + (hi - lo) \div 2
      PROVE  least(lo, hi) = IF s[mid][1] < x THEN least(mid + 1, hi) ELSE least(lo, mid)
  <2>1. mid \in lo..(hi - 1) /\ mid \in 1..Len(s)
    BY <1>5 DEF Bounds
  <2>2. CASE s[mid][1] < x
    <3> DEFINE i == least(mid + 1, hi)
    <3>1. i \in hits(mid + 1, hi) /\ \A j \in hits(mid + 1, hi) : i <= j
      <4>1. mid + 1 \in Nat /\ hi \in Nat /\ mid + 1 <= hi
        BY <2>1 DEF Bounds
      <4> HIDE DEF hits
      <4> QED BY <1>2, <4>1
    <3>2. \A j \in lo..mid : s[j][1] < x /\ j # hi
      <4>1. \A j \in lo..mid : j \in 1..Len(s) /\ (j < mid \/ j = mid)
        BY <2>1 DEF Bounds
      <4>2. \A j \in lo..mid : s[j][1] <= s[mid][1]
        BY <1>1, <2>1, <4>1 DEF SortedBySize
      <4>3. \A j \in lo..mid : s[j][1] < x
        BY <1>1, <2>1, <2>2, <4>1, <4>2
      <4> QED BY <2>1, <4>1, <4>3
    <3>3. \A j \in hits(lo, hi) : j \in hits(mid + 1, hi)
      <4> SUFFICES ASSUME NEW j \in lo..hi, j = hi \/ s[j][1] >= x
                   PROVE  j \in (mid + 1)..hi
        OBVIOUS
      <4>1. j \notin lo..mid
        <5>1. SUFFICES ASSUME j \in lo..mid PROVE FALSE
          OBVIOUS
        <5>2. j # hi /\ s[j][1] < x /\ j \in 1..Len(s)
          BY <3>2, <5>1, <2>1 DEF Bounds
        <5> QED BY <1>1, <5>2
      <4> QED BY <2>1, <4>1 DEF Bounds
    <3>4. i \in hits(lo, hi)
      BY <2>1, <3>1 DEF Bounds
    <3>5. lo \in Nat /\ hi \in Nat /\ lo <= hi
      BY <1>5 DEF Bounds
    <3> HIDE DEF i
    <3> QED BY <1>3, <2>2, <3>1, <3>3, <3>4, <3>5 DEF i
  <2>3. CASE ~ (s[mid][1] < x)
    <3> DEFINE i == least(lo, mid)
    <3>1. i \in hits(lo, mid) /\ \A j \in hits(lo, mid) : i <= j
      <4>1. lo \in Nat /\ mid \in Nat /\ lo <= mid
        BY <2>1 DEF Bounds
      <4> HIDE DEF hits
      <4> QED BY <1>2, <4>1
    <3>2. s[mid][1] >= x
      BY <1>1, <2>1, <2>3
    <3>3. i \in hits(lo, hi)
      BY <2>1, <3>1, <3>2, SMTT(30) DEF Bounds
    <3>4. ASSUME NEW j \in hits(lo, hi) PROVE i <= j
      <4>1. CASE j <= mid
        BY <2>1, <3>1, <3>2, <4>1 DEF Bounds
      <4>2. CASE ~ (j <= mid)
        BY <2>1, <3>1, <4>2 DEF Bounds
      <4> QED BY <4>1, <4>2
    <3>5. lo \in Nat /\ hi \in Nat /\ lo <= hi
      BY <1>5 DEF Bounds
    <3> HIDE DEF i
    <3> QED BY <1>3, <2>3, <3>3, <3>4, <3>5 DEF i
  <2> QED BY <2>2, <2>3
<1>6. \A lo, hi \in Bounds(s) : f[<<lo, hi>>] = IF lo >= hi THEN lo ELSE least(lo, hi)
  OBVIOUS
<1>0. f = [range \in Bounds(s) \X Bounds(s) |-> f[range]]
  OBVIOUS
<1> HIDE DEF f
<1>7. ASSUME NEW lo \in Bounds(s), NEW hi \in Bounds(s)
      PROVE  f[<<lo, hi>>] = Step(s, x, f)[<<lo, hi>>]
  <2> DEFINE mid == lo + (hi - lo) \div 2
  <2>1. Step(s, x, f)[<<lo, hi>>] =
          IF lo >= hi THEN lo
          ELSE IF s[mid][1] < x THEN f[<<mid + 1, hi>>] ELSE f[<<lo, mid>>]
    BY StepOf
  <2>2. CASE lo >= hi
    BY <1>6, <2>1, <2>2
  <2>3. CASE lo < hi
    <3>1. mid \in lo..(hi - 1) /\ mid + 1 \in lo..hi /\ lo \in Nat /\ hi \in Nat
      BY <2>3 DEF Bounds
    <3>2. mid + 1 \in Bounds(s) /\ mid \in Bounds(s) /\ mid \in Nat
      BY <3>1 DEF Bounds
    <3>3. mid = lo + (hi - lo) \div 2
      OBVIOUS
    <3> HIDE DEF mid
    <3>4. f[<<mid + 1, hi>>] = least(mid + 1, hi)
      BY <1>4, <1>6, <3>1, <3>2
    <3>5. f[<<lo, mid>>] = least(lo, mid)
      BY <1>4, <1>6, <3>1, <3>2
    <3>6. f[<<lo, hi>>] = least(lo, hi)
      BY <1>6, <2>3, <3>1
    <3>7. least(lo, hi) = IF s[mid][1] < x THEN least(mid + 1, hi) ELSE least(lo, mid)
      BY <1>5, <2>3, <3>3
    <3> QED BY <2>1, <2>3, <3>1, <3>4, <3>5, <3>6, <3>7
  <2>4. lo \in Nat /\ hi \in Nat
    BY DEF Bounds
  <2> QED BY <2>2, <2>3, <2>4
<1>8. f = Step(s, x, f)
  <2>1. \A range \in Bounds(s) \X Bounds(s) : f[range] = Step(s, x, f)[range]
    BY <1>7
  <2>2. Step(s, x, f) = [range \in Bounds(s) \X Bounds(s) |-> Step(s, x, f)[range]]
    BY DEF Step
  <2> QED BY <1>0, <2>1, <2>2
<1> QED BY <1>8, Zenon DEF Search

\* r is the first position of the range that is its end or has an entry not
\* below x.
First(r, s, x, lo, hi) ==
  /\ r \in lo..hi
  /\ \A i \in lo..(r - 1) : s[i][1] < x
  /\ r < hi => s[r][1] >= x

LEMMA SortedOrder ==
  ASSUME NEW s \in Seq(Nat \X Digests), SortedBySize(s),
         NEW i \in 1..Len(s), NEW j \in 1..Len(s), i <= j
  PROVE  s[i][1] \in Nat /\ s[j][1] \in Nat /\ s[i][1] <= s[j][1]
<1>1. s[i][1] \in Nat /\ s[j][1] \in Nat
  OBVIOUS
<1>2. DOMAIN s = 1..Len(s)
  OBVIOUS
<1>3. \A a, b \in 1..Len(s) : a < b => s[a][1] <= s[b][1]
  BY <1>2 DEF SortedBySize
<1>4. CASE i = j
  BY <1>1, <1>4
<1>5. CASE i < j
  BY <1>1, <1>3, <1>5
<1> QED BY <1>4, <1>5

\* What is first in a half is first in the whole.
LEMMA FirstInHalf ==
  ASSUME NEW s \in Seq(Nat \X Digests), SortedBySize(s), NEW x \in Nat,
         NEW lo \in 1..Len(s), NEW hi \in 1..(Len(s) + 1), NEW mid \in lo..(hi - 1), NEW r
  PROVE  /\ s[mid][1] < x /\ First(r, s, x, mid + 1, hi) => First(r, s, x, lo, hi)
         /\ ~ (s[mid][1] < x) /\ First(r, s, x, lo, mid) => First(r, s, x, lo, hi)
<1>1. mid \in 1..Len(s) /\ s[mid][1] \in Nat
  OBVIOUS
<1>2. ASSUME s[mid][1] < x, NEW j \in lo..mid PROVE s[j][1] < x
  <2>1. j \in 1..Len(s) /\ j <= mid
    OBVIOUS
  <2>2. s[j][1] \in Nat /\ s[j][1] <= s[mid][1]
    BY <1>1, <2>1, SortedOrder
  <2> QED BY <1>1, <1>2, <2>2
<1>3. ASSUME s[mid][1] < x, First(r, s, x, mid + 1, hi) PROVE First(r, s, x, lo, hi)
  <2>1. r \in lo..hi /\ (r < hi => s[r][1] >= x)
    BY <1>3 DEF First
  <2>2. ASSUME NEW j \in lo..(r - 1) PROVE s[j][1] < x
    <3>1. j \in lo..mid \/ j \in (mid + 1)..(r - 1)
      BY <2>1
    <3> QED BY <1>2, <1>3, <3>1 DEF First
  <2> QED BY <2>1, <2>2 DEF First
<1>4. ASSUME ~ (s[mid][1] < x), First(r, s, x, lo, mid) PROVE First(r, s, x, lo, hi)
  BY <1>1, <1>4 DEF First
<1> QED BY <1>3, <1>4

\* One step of the search finds what the steps on the halves find ...
LEMMA StepFinds ==
  ASSUME NEW s \in Seq(Nat \X Digests), SortedBySize(s), NEW x \in Nat,
         NEW f, f = Step(s, x, f),
         NEW lo \in Bounds(s), NEW hi \in Bounds(s), lo <= hi,
         \A l, h \in Bounds(s) : l <= h /\ h - l < hi - lo => First(f[<<l, h>>], s, x, l, h)
  PROVE  First(f[<<lo, hi>>], s, x, lo, hi)
<1> DEFINE mid == lo + (hi - lo) \div 2
<1>1. f[<<lo, hi>>] = IF lo >= hi THEN lo
                      ELSE IF s[mid][1] < x THEN f[<<mid + 1, hi>>] ELSE f[<<lo, mid>>]
  BY StepOf
<1>2. CASE lo = hi
  BY <1>1, <1>2 DEF Bounds, First
<1>3. CASE lo < hi
  <2>1. /\ mid \in lo..(hi - 1) /\ lo \in 1..Len(s) /\ hi \in 1..(Len(s) + 1)
        /\ mid + 1 \in Bounds(s) /\ mid \in Bounds(s)
        /\ ~ (lo >= hi) /\ mid + 1 <= hi /\ lo <= mid
        /\ hi - (mid + 1) < hi - lo /\ mid - lo < hi - lo
    BY <1>3 DEF Bounds
  <2> HIDE DEF mid
  <2>2. First(f[<<mid + 1, hi>>], s, x, mid + 1, hi)
    BY <2>1
  <2>3. First(f[<<lo, mid>>], s, x, lo, mid)
    BY <2>1
  <2>4. CASE s[mid][1] < x
    <3>1. f[<<lo, hi>>] = f[<<mid + 1, hi>>]
      BY <1>1, <2>1, <2>4
    <3> QED BY <2>1, <2>2, <2>4, <3>1, FirstInHalf
  <2>5. CASE ~ (s[mid][1] < x)
    <3>1. f[<<lo, hi>>] = f[<<lo, mid>>]
      BY <1>1, <2>1, <2>5
    <3> QED BY <2>1, <2>3, <2>5, <3>1, FirstInHalf
  <2> QED BY <2>4, <2>5
<1> QED BY <1>2, <1>3 DEF Bounds

\* ... so there is no shortest range for which it fails.
LEMMA SearchFinds ==
  ASSUME NEW s \in Seq(Nat \X Digests), SortedBySize(s), NEW x \in Nat,
         NEW f, f = Step(s, x, f)
  PROVE  \A lo, hi \in Bounds(s) : lo <= hi => First(f[<<lo, hi>>], s, x, lo, hi)
<1> SUFFICES ASSUME NEW l \in Bounds(s), NEW h \in Bounds(s), l <= h, ~First(f[<<l, h>>], s, x, l, h)
             PROVE  FALSE
  OBVIOUS
<1> DEFINE bad == {n \in Nat : \E lo, hi \in Bounds(s) :
                     lo <= hi /\ n = hi - lo /\ ~First(f[<<lo, hi>>], s, x, lo, hi)}
<1>0. h - l \in Nat
  BY DEF Bounds
<1>1. bad \in SUBSET Nat /\ h - l \in bad
  BY <1>0
<1>2. PICK n \in bad : \A k \in bad : n <= k
  BY <1>1, LeastExists
<1>3. PICK lo \in Bounds(s), hi \in Bounds(s) :
        lo <= hi /\ n = hi - lo /\ ~First(f[<<lo, hi>>], s, x, lo, hi)
  BY <1>2
<1>4. ASSUME NEW a \in Bounds(s), NEW b \in Bounds(s), a <= b, b - a < hi - lo
      PROVE  First(f[<<a, b>>], s, x, a, b)
  <2>1. b - a \in Nat /\ ~ (n <= b - a)
    BY <1>3, <1>4, SMTT(30) DEF Bounds
  <2>2. b - a \notin bad
    BY <1>2, <2>1
  <2> QED BY <1>4, <2>1, <2>2
<1>5. \A a, b \in Bounds(s) : a <= b /\ b - a < hi - lo => First(f[<<a, b>>], s, x, a, b)
  BY <1>4
<1>6. First(f[<<lo, hi>>], s, x, lo, hi)
  BY <1>3, <1>5, StepFinds, Zenon
<1> QED BY <1>3, <1>6

\* lower_bound_by_size: the entries before it are below x, those from it on are
\* not.
LEMMA LowerBoundExact ==
  ASSUME NEW s \in Seq(Nat \X Digests), SortedBySize(s), NEW x \in Nat
  PROVE  /\ LowerBound(s, x) \in 1..(Len(s) + 1)
         /\ \A i \in 1..(LowerBound(s, x) - 1) : s[i][1] < x
         /\ \A i \in LowerBound(s, x)..Len(s) : s[i][1] >= x
<1> DEFINE lb == LowerBound(s, x)
<1>1. /\ lb \in 1..(Len(s) + 1)
      /\ \A i \in 1..(lb - 1) : s[i][1] < x
      /\ lb < Len(s) + 1 => s[lb][1] >= x
  <2>1. lb = Search(s, x)[<<1, Len(s) + 1>>]
    BY LowerBoundIs
  <2>2. 1 \in Bounds(s) /\ Len(s) + 1 \in Bounds(s) /\ 1 <= Len(s) + 1
    BY DEF Bounds
  <2>3. First(Search(s, x)[<<1, Len(s) + 1>>], s, x, 1, Len(s) + 1)
    BY <2>2, SearchExists, SearchFinds
  <2> HIDE DEF lb
  <2> QED BY <2>1, <2>3 DEF First
<1> HIDE DEF lb
<1>2. ASSUME NEW i \in lb..Len(s) PROVE s[i][1] >= x
  <2>1. i \in 1..Len(s) /\ lb \in 1..Len(s) /\ s[lb][1] >= x /\ lb <= i
    BY <1>1
  <2>2. s[lb][1] \in Nat /\ s[i][1] \in Nat /\ s[lb][1] <= s[i][1]
    BY <2>1, SortedOrder
  <2> QED BY <2>1, <2>2
<1> QED BY <1>1, <1>2 DEF lb

-----------------------------------------------------------------------------
(* What the lookups answer.                                                *)

\* usbs_signature_list_has_size: some entry has the size.
LEMMA HasSizeExact ==
  ASSUME NEW s \in Seq(Nat \X Digests), SortedBySize(s), NEW x \in Nat
  PROVE  HasSize(s, x) <=> \E i \in 1..Len(s) : s[i][1] = x
<1> DEFINE lb == LowerBound(s, x)
<1>1. /\ lb \in 1..(Len(s) + 1)
      /\ \A i \in 1..(lb - 1) : s[i][1] < x
      /\ \A i \in lb..Len(s) : s[i][1] >= x
  BY LowerBoundExact
<1>2. HasSize(s, x) <=> lb <= Len(s) /\ s[lb][1] = x
  BY DEF HasSize
<1> HIDE DEF lb
<1>3. ASSUME NEW i \in 1..Len(s), s[i][1] = x PROVE lb <= Len(s) /\ s[lb][1] = x
  <2>1. ~ (s[i][1] < x)
    BY <1>3
  <2>2. i \in lb..Len(s) /\ lb \in 1..Len(s)
    BY <1>1, <2>1
  <2>3. s[lb][1] >= x /\ s[lb][1] \in Nat
    BY <1>1, <2>2
  <2>4. s[lb][1] <= s[i][1]
    BY <2>2, SortedOrder, SMTT(30)
  <2> QED BY <1>3, <2>2, <2>3, <2>4
<1> QED BY <1>1, <1>2, <1>3

\* usbs_signature_list_lookup: some entry has the size and the digest.
LEMMA LookupExact ==
  ASSUME NEW s \in Seq(Nat \X Digests), SortedBySize(s), NEW x \in Nat, NEW d
  PROVE  Lookup(s, x, d) <=> \E i \in 1..Len(s) : s[i] = <<x, d>>
<1> DEFINE lb == LowerBound(s, x)
<1>1. /\ lb \in 1..(Len(s) + 1)
      /\ \A i \in 1..(lb - 1) : s[i][1] < x
      /\ \A i \in lb..Len(s) : s[i][1] >= x
  BY LowerBoundExact
<1>2. Lookup(s, x, d) <=> \E i \in lb..Len(s) : /\ \A j \in lb..i : s[j][1] = x
                                               /\ s[i][2] = d
  BY DEF Lookup
<1> HIDE DEF lb
<1>3. ASSUME NEW i \in lb..Len(s), s[i][1] = x, s[i][2] = d
      PROVE  \E k \in 1..Len(s) : s[k] = <<x, d>>
  <2>1. i \in 1..Len(s) /\ s[i] \in Nat \X Digests
    BY <1>1
  <2>2. s[i] = <<x, d>>
    BY <1>3, <2>1
  <2> QED BY <2>1, <2>2
<1>4. ASSUME NEW i \in 1..Len(s), s[i] = <<x, d>>
      PROVE  i \in lb..Len(s) /\ s[i][2] = d /\ \A j \in lb..i : s[j][1] = x
  <2>1. s[i][1] = x /\ s[i][2] = d
    BY <1>4
  <2>2. ~ (s[i][1] < x)
    BY <2>1
  <2>3. i \in lb..Len(s)
    BY <1>1, <2>2
  <2>4. ASSUME NEW j \in lb..i PROVE s[j][1] = x
    <3>1. j \in 1..Len(s) /\ j \in lb..Len(s) /\ j <= i
      BY <1>1
    <3>2. s[j][1] \in Nat /\ s[j][1] <= s[i][1]
      BY <3>1, SortedOrder
    <3> QED BY <1>1, <2>1, <3>1, <3>2
  <2> QED BY <2>1, <2>3, <2>4
<1>5. ASSUME NEW i \in lb..Len(s), \A j \in lb..i : s[j][1] = x, s[i][2] = d
      PROVE  s[i][1] = x
  BY <1>1, <1>5
<1> QED BY <1>2, <1>3, <1>4, <1>5

\* qsort: the entries in another order are the same entries.
LEMMA SortedSame ==
  ASSUME NEW s \in Seq(Signatures), NEW t \in Sorted(s)
  PROVE  t \in Seq(Signatures) /\ ToSet(t) = ToSet(s) /\ SortedBySize(t)
<1> DEFINE D == 1..Len(s)
<1>1. PICK p \in [D -> D] : /\ \A i, j \in D : p[i] = p[j] => i = j
                            /\ t = [i \in D |-> s[p[i]]]
  <2>1. DOMAIN s = D
    OBVIOUS
  <2> QED BY <2>1 DEF Sorted, Permuted
<1>2. t \in Seq(Signatures) /\ DOMAIN t = D /\ DOMAIN s = D
  BY <1>1
<1>3. \A k \in D : \E i \in D : p[i] = k
  <2>1. p \in Injection(D, D)
    BY <1>1 DEF Injection, IsInjective
  <2>2. IsFiniteSet(D)
    BY FS_Interval
  <2>3. p \in Surjection(D, D)
    BY <2>1, <2>2, FS_Injection
  <2> QED BY <2>3 DEF Surjection
<1>4. ToSet(t) = ToSet(s)
  <2>1. \A i \in D : t[i] = s[p[i]] /\ p[i] \in D
    BY <1>1
  <2>2. ToSet(t) = {t[i] : i \in D} /\ ToSet(s) = {s[i] : i \in D}
    BY <1>2 DEF ToSet
  <2>3. ASSUME NEW k \in D PROVE s[k] \in ToSet(t)
    <3>1. PICK i \in D : p[i] = k
      BY <1>3
    <3> QED BY <2>1, <2>2, <3>1
  <2>4. ASSUME NEW i \in D PROVE t[i] \in ToSet(s)
    BY <2>1, <2>2
  <2> QED BY <2>2, <2>3, <2>4
<1> QED BY <1>2, <1>4 DEF Sorted

-----------------------------------------------------------------------------
(* The signature file.                                                     *)

\* The reading loop: what has been kept after n lines, given what was before.
Reading(lines, rest) ==
  [n \in 0..Len(lines) |->
     IF n = 0 THEN <<>>
     ELSE IF lines[n] = Malformed THEN rest[n - 1]
     ELSE Append(rest[n - 1], lines[n])]

ReadingOf(lines) == CHOOSE f : f = Reading(lines, f)

LEMMA ValidIs ==
  ASSUME NEW lines
  PROVE  Valid(lines) = ReadingOf(lines)[Len(lines)]
BY Zenon DEF Valid, ReadingOf, Reading

\* f answers for the first n lines.
ReadsUpTo(lines, n, f) ==
  /\ f \in [0..n -> Seq(Signatures)]
  /\ f[0] = <<>>
  /\ \A k \in 1..n : f[k] = IF lines[k] = Malformed THEN f[k - 1] ELSE Append(f[k - 1], lines[k])

\* Each line can be read after the ones before it ...
LEMMA ReadsOneMore ==
  ASSUME NEW lines \in Seq(Lines), NEW n \in 1..Len(lines), NEW f,
         ReadsUpTo(lines, n - 1, f)
  PROVE  \E g : ReadsUpTo(lines, n, g)
<1> DEFINE last == IF lines[n] = Malformed THEN f[n - 1] ELSE Append(f[n - 1], lines[n])
           g == [k \in 0..n |-> IF k = n THEN last ELSE f[k]]
<1>1. f \in [0..(n - 1) -> Seq(Signatures)] /\ n - 1 \in 0..(n - 1) /\ f[0] = <<>>
  BY DEF ReadsUpTo
<1>2. lines[n] \in Signatures \/ lines[n] = Malformed
  BY DEF Lines
<1>3. last \in Seq(Signatures)
  BY <1>1, <1>2
<1> HIDE DEF last
<1>4. g \in [0..n -> Seq(Signatures)]
  BY <1>1, <1>3
<1>5. g[0] = <<>> /\ g[n] = last /\ \A k \in 0..(n - 1) : g[k] = f[k]
  BY <1>1
<1> HIDE DEF g
<1>6. ASSUME NEW k \in 1..n
      PROVE  g[k] = IF lines[k] = Malformed THEN g[k - 1] ELSE Append(g[k - 1], lines[k])
  <2>1. CASE k = n
    BY <1>5, <2>1 DEF last
  <2>2. CASE k # n
    <3>1. k \in 1..(n - 1) /\ k - 1 \in 0..(n - 1) /\ k \in 0..(n - 1)
      BY <2>2
    <3>2. f[k] = IF lines[k] = Malformed THEN f[k - 1] ELSE Append(f[k - 1], lines[k])
      BY <3>1 DEF ReadsUpTo
    <3> QED BY <1>5, <3>1, <3>2
  <2> QED BY <2>1, <2>2
<1> QED BY <1>4, <1>5, <1>6 DEF ReadsUpTo

\* ... so all of them can.
LEMMA ReadsAll ==
  ASSUME NEW lines \in Seq(Lines)
  PROVE  \E f : ReadsUpTo(lines, Len(lines), f)
<1> SUFFICES ASSUME ~ \E f : ReadsUpTo(lines, Len(lines), f) PROVE FALSE
  OBVIOUS
<1> DEFINE bad == {n \in 0..Len(lines) : ~ \E f : ReadsUpTo(lines, n, f)}
<1>1. bad \in SUBSET Nat /\ Len(lines) \in bad
  OBVIOUS
<1>2. PICK n \in bad : \A k \in bad : n <= k
  BY <1>1, LeastExists
<1>3. ReadsUpTo(lines, 0, [k \in 0..0 |-> <<>>])
  BY DEF ReadsUpTo
<1>4. n \in 1..Len(lines) /\ n - 1 \in 0..Len(lines) /\ ~ (n <= n - 1)
  BY <1>2, <1>3
<1>5. n - 1 \notin bad
  BY <1>2, <1>4
<1> QED BY <1>2, <1>4, <1>5, ReadsOneMore

\* What is kept of the file are signatures.
LEMMA ValidType ==
  ASSUME NEW lines \in Seq(Lines)
  PROVE  Valid(lines) \in Seq(Signatures)
<1>1. PICK f : ReadsUpTo(lines, Len(lines), f)
  BY ReadsAll
<1>2. f = Reading(lines, f)
  <2>1. f \in [0..Len(lines) -> Seq(Signatures)]
    BY <1>1 DEF ReadsUpTo
  <2>2. ASSUME NEW n \in 0..Len(lines) PROVE f[n] = Reading(lines, f)[n]
    <3>1. Reading(lines, f)[n] = IF n = 0 THEN <<>>
                                 ELSE IF lines[n] = Malformed THEN f[n - 1]
                                 ELSE Append(f[n - 1], lines[n])
      BY DEF Reading
    <3>2. f[0] = <<>> /\ (n # 0 => n \in 1..Len(lines))
      BY <1>1 DEF ReadsUpTo
    <3>3. n # 0 => f[n] = IF lines[n] = Malformed THEN f[n - 1] ELSE Append(f[n - 1], lines[n])
      BY <1>1, <3>2 DEF ReadsUpTo
    <3> QED BY <3>1, <3>2, <3>3
  <2>3. Reading(lines, f) = [n \in 0..Len(lines) |-> Reading(lines, f)[n]]
    BY DEF Reading
  <2>4. f = [n \in 0..Len(lines) |-> f[n]]
    BY <2>1
  <2> QED BY <2>2, <2>3, <2>4
<1>3. ReadingOf(lines) = Reading(lines, ReadingOf(lines))
  BY <1>2, Zenon DEF ReadingOf
<1> DEFINE g == ReadingOf(lines)
<1>4. \A n \in 0..Len(lines) :
        g[n] = IF n = 0 THEN <<>>
               ELSE IF lines[n] = Malformed THEN g[n - 1] ELSE Append(g[n - 1], lines[n])
  <2> HIDE DEF g
  <2>1. \A n \in 0..Len(lines) :
          Reading(lines, g)[n] = IF n = 0 THEN <<>>
                                 ELSE IF lines[n] = Malformed THEN g[n - 1]
                                 ELSE Append(g[n - 1], lines[n])
    BY DEF Reading
  <2>2. g = Reading(lines, g)
    BY <1>3 DEF g
  <2> QED BY <2>1, <2>2
<1>5. Valid(lines) = g[Len(lines)]
  BY ValidIs
<1> HIDE DEF g
<1> SUFFICES ASSUME g[Len(lines)] \notin Seq(Signatures) PROVE FALSE
  BY <1>5
<1> DEFINE bad == {n \in 0..Len(lines) : g[n] \notin Seq(Signatures)}
<1>6. bad \in SUBSET Nat /\ Len(lines) \in bad
  OBVIOUS
<1>7. PICK n \in bad : \A k \in bad : n <= k
  BY <1>6, LeastExists
<1>8. g[0] = <<>> /\ <<>> \in Seq(Signatures)
  BY <1>4
<1>9. n \in 1..Len(lines) /\ n - 1 \in 0..Len(lines) /\ ~ (n <= n - 1)
  <2>1. n \in 0..Len(lines) /\ n # 0
    BY <1>7, <1>8
  <2> QED BY <2>1
<1>10. g[n - 1] \in Seq(Signatures)
  BY <1>7, <1>9
<1>11. lines[n] \in Signatures \/ lines[n] = Malformed
  BY <1>9 DEF Lines
<1>12. g[n] = IF lines[n] = Malformed THEN g[n - 1] ELSE Append(g[n - 1], lines[n])
  BY <1>4, <1>9
<1>13. g[n] \in Seq(Signatures)
  BY <1>10, <1>11, <1>12
<1> QED BY <1>7, <1>13

-----------------------------------------------------------------------------
(* The detector.                                                           *)

SourceType == source.lines \in Seq(Lines)

\* The list is the kept lines in the order of their sizes, once it has been
\* loaded; before that there is nothing of it, and no file at hand.
ListInv ==
  /\ kept \in Seq(Signatures)
  /\ entries \in Seq(Signatures) /\ SortedBySize(entries)
  /\ ToSet(entries) = ToSet(kept)
  /\ loaded <=> kept # <<>>
  /\ attempted \/ (kept = <<>> /\ pc = "idle" /\ findings = {})

\* A finding is something wanted, and a file at hand was listed.
FindingsInv ==
  /\ \A f \in findings : f \in Wanted
  /\ pc \in {"sized", "hashed"} => size \in Sizes

MatchInv == SourceType /\ ListInv /\ FindingsInv

LEMMA InitMatch == ASSUME Init PROVE MatchInv
<1>1. \A lines \in BoundedSeq(Lines, MaxLines) : lines \in Seq(Lines)
  BY DEF BoundedSeq, SeqOf
<1>2. SourceType
  <2>1. \A state : NoFile(state).lines \in Seq(Lines)
    BY DEF NoFile
  <2>2. \A lines \in BoundedSeq(Lines, MaxLines) : File(lines).lines \in Seq(Lines)
    BY <1>1 DEF File
  <2> QED BY <2>1, <2>2 DEF Init, SourceType
<1>3. ListInv
  <2>1. SortedBySize(<<>>) /\ <<>> \in Seq(Signatures)
    BY DEF SortedBySize
  <2>2. entries = <<>> /\ kept = <<>> /\ loaded = FALSE /\ pc = "idle" /\ findings = {}
    BY DEF Init
  <2> QED BY <2>1, <2>2 DEF ListInv
<1> QED BY <1>2, <1>3 DEF Init, MatchInv, FindingsInv

LEMMA LoadStep ==
  ASSUME MatchInv, pc = "idle", ~attempted, Load
  PROVE  /\ kept' \in Seq(Signatures)
         /\ entries' \in Seq(Signatures) /\ SortedBySize(entries')
         /\ ToSet(entries') = ToSet(kept')
         /\ loaded' <=> kept' # <<>>
         /\ attempted'
<1>1. attempted'
  BY DEF Load
<1>2. CASE UNCHANGED <<loaded, entries, kept>>
  BY <1>1, <1>2 DEF MatchInv, ListInv
<1>3. CASE \E n \in 0..Len(Valid(source.lines)) :
             /\ kept' = SubSeq(Valid(source.lines), 1, n)
             /\ entries' \in Sorted(kept')
             /\ loaded' = (n > 0)
  <2>1. Valid(source.lines) \in Seq(Signatures)
    BY ValidType DEF MatchInv, SourceType
  <2> DEFINE v == Valid(source.lines)
  <2> HIDE DEF v
  <2>2. PICK n \in 0..Len(v) :
          kept' = SubSeq(v, 1, n) /\ entries' \in Sorted(kept') /\ loaded' = (n > 0)
    BY <1>3 DEF v
  <2>3. v \in Seq(Signatures)
    BY <2>1 DEF v
  <2>4. kept' \in Seq(Signatures) /\ Len(kept') = n
    BY <2>2, <2>3
  <2>5. loaded' <=> kept' # <<>>
    <3>1. kept' = <<>> <=> n = 0
      BY <2>4
    <3>2. n = 0 <=> ~ (n > 0)
      OBVIOUS
    <3> QED BY <2>2, <3>1, <3>2, Zenon
  <2>6. \A s \in Seq(Signatures) : \A u \in Sorted(s) :
          u \in Seq(Signatures) /\ ToSet(u) = ToSet(s) /\ SortedBySize(u)
    BY SortedSame, Zenon
  <2>7. entries' \in Seq(Signatures) /\ ToSet(entries') = ToSet(kept') /\ SortedBySize(entries')
    BY <2>2, <2>4, <2>6, Zenon
  <2> QED BY <1>1, <2>4, <2>5, <2>7
<1> QED BY <1>2, <1>3 DEF Load

LEMMA SignatureTypes ==
  /\ Signatures \subseteq Nat \X Digests
  /\ \A s : s \in Seq(Signatures) => s \in Seq(Nat \X Digests)
  /\ \A x \in Sizes : x \in Nat
<1>1. Sizes \subseteq Nat
  BY HashMatchAssumption
<1>2. Signatures \subseteq Nat \X Digests
  BY <1>1 DEF Signatures
<1>3. ASSUME NEW s \in Seq(Signatures) PROVE s \in Seq(Nat \X Digests)
  BY <1>2
<1> QED BY <1>1, <1>2, <1>3

\* With that, a lookup in the list that was loaded or in the built-in one is
\* exact.
LEMMA LookupIsExact ==
  ASSUME MatchInv, pc \in {"sized", "hashed"}
  PROVE  /\ MayMatch <=> \E w \in Wanted : w[1] = size
         /\ Listed <=> <<size, digest>> \in Wanted
<1>1. size \in Nat /\ entries \in Seq(Nat \X Digests) /\ SortedBySize(entries)
  BY SignatureTypes DEF MatchInv, ListInv, FindingsInv
<1>2. CASE loaded
  <2>1. Wanted = ToSet(entries) /\ DOMAIN entries = 1..Len(entries)
    BY <1>1, <1>2 DEF Wanted, MatchInv, ListInv
  <2>2. \A w : w \in Wanted <=> \E i \in 1..Len(entries) : entries[i] = w
    BY <2>1 DEF ToSet
  <2>3. MayMatch <=> HasSize(entries, size)
    BY <1>2 DEF MayMatch
  <2>4. Listed <=> Lookup(entries, size, digest)
    BY <1>2 DEF Listed
  <2>5. HasSize(entries, size) <=> \E i \in 1..Len(entries) : entries[i][1] = size
    BY <1>1, HasSizeExact
  <2>6. Lookup(entries, size, digest) <=> \E i \in 1..Len(entries) : entries[i] = <<size, digest>>
    BY <1>1, LookupExact
  <2> HIDE DEF Wanted
  <2>7. MayMatch <=> \E w \in Wanted : w[1] = size
    BY <2>2, <2>3, <2>5
  <2>8. Listed <=> <<size, digest>> \in Wanted
    BY <2>2, <2>4, <2>6, Zenon
  <2> QED BY <2>7, <2>8
<1>3. CASE ~loaded
  <2>1. Wanted = {Fallback}
    BY <1>3 DEF Wanted, MatchInv, ListInv
  <2> QED BY <1>3, <2>1 DEF MayMatch, Listed
<1> QED BY <1>2, <1>3

LEMMA MatchStep == ASSUME MatchInv, [Next]_vars PROVE MatchInv'
<1> USE DEF MatchInv
<1>1. ASSUME UNCHANGED <<list, pc, size, digest, findings>>, SourceType'
      PROVE  MatchInv'
  BY <1>1 DEF list, ListInv, FindingsInv, Wanted
<1>2. CASE Edit
  <2>1. SourceType'
    <3>1. CASE source' = NoFile("missing")
      BY <3>1 DEF NoFile, SourceType
    <3>2. ASSUME NEW i \in DOMAIN source.lines, source' = File(RemoveAt(source.lines, i))
          PROVE  SourceType'
      BY <3>2, SMTT(30) DEF File, SourceType, RemoveAt
    <3>3. ASSUME NEW line \in Lines, source' = File(Append(source.lines, line))
          PROVE  SourceType'
      BY <3>3 DEF File, SourceType
    <3> QED BY <1>2, <3>1, <3>2, <3>3 DEF Edit
  <2> QED BY <1>1, <1>2, <2>1 DEF Edit
<1>3. CASE BeginScan
  BY <1>3 DEF BeginScan, list, SourceType, ListInv, FindingsInv, Wanted
<1>4. CASE OnFile
  <2>1. pc = "idle" /\ pc' = "sized" /\ size' \in Sizes /\ UNCHANGED <<source, digest, findings>>
    BY <1>4 DEF OnFile
  <2>2. CASE attempted
    BY <1>4, <2>1, <2>2 DEF OnFile, list, SourceType, ListInv, FindingsInv, Wanted
  <2>3. CASE ~attempted
    <3>1. Load
      BY <1>4, <2>3 DEF OnFile
    <3>2. ListInv'
      BY <2>1, <2>3, <3>1, LoadStep DEF ListInv
    <3>3. findings' = {}
      BY <2>1, <2>3 DEF ListInv
    <3> QED BY <2>1, <3>2, <3>3 DEF SourceType, FindingsInv
  <2> QED BY <2>2, <2>3
<1>5. CASE TooLarge \/ SizeUnknown \/ NotRead \/ NotHashed
  BY <1>5 DEF TooLarge, SizeUnknown, NotRead, NotHashed, Done, list, SourceType, ListInv,
              FindingsInv, Wanted
<1>6. CASE ReadFile
  BY <1>6 DEF ReadFile, list, SourceType, ListInv, FindingsInv, Wanted
<1>7. CASE Match
  <2>1. pc = "hashed" /\ pc' = "idle" /\ UNCHANGED <<source, list, size, digest, edits>>
    BY <1>7 DEF Match
  <2>2. Wanted' = Wanted /\ attempted
    BY <2>1 DEF Wanted, list, ListInv
  <2>3. SourceType' /\ ListInv'
    BY <2>1, <2>2 DEF list, SourceType, ListInv
  <2>4. Listed => <<size, digest>> \in Wanted
    BY <2>1, LookupIsExact
  <2>5. \A f \in findings' : f \in Wanted
    BY <1>7, <2>4 DEF Match, FindingsInv
  <2> QED BY <2>1, <2>2, <2>3, <2>5 DEF FindingsInv
<1>8. CASE UNCHANGED vars
  BY <1>1, <1>8 DEF vars, SourceType
<1> QED BY <1>2, <1>3, <1>4, <1>5, <1>6, <1>7, <1>8 DEF Next

\* A file is passed over for its size only if no signature has it, one that was
\* read is a finding exactly if it is listed, and every finding is wanted, for
\* signature files and lists of any length.
THEOREM LookupsAreExact == Spec => []MatchesExact
<1>1. Init => MatchInv
  BY InitMatch
<1>2. MatchInv /\ [Next]_vars => MatchInv'
  BY MatchStep
<1>3. MatchInv => MatchesExact
  <2> SUFFICES ASSUME MatchInv PROVE MatchesExact
    OBVIOUS
  <2>1. pc = "sized" => (MayMatch <=> \E w \in Wanted : w[1] = size)
    BY LookupIsExact
  <2>2. pc = "hashed" => (Listed <=> <<size, digest>> \in Wanted)
    BY LookupIsExact
  <2>3. \A f \in findings : f \in Wanted
    BY DEF MatchInv, FindingsInv
  <2> HIDE DEF Wanted, MayMatch, Listed
  <2> QED BY <2>1, <2>2, <2>3 DEF MatchesExact
<1> QED BY <1>1, <1>2, <1>3, PTL DEF Spec
===============================================================================
