-------------------------- MODULE TopicRanges_proofs --------------------------
(***************************************************************************)
(* The ranges of a chunk, for every chunk and every answer of the model:    *)
(* what each of the three repairs returns, and that together they make a    *)
(* partition.                                                              *)
(*                                                                         *)
(*  1. Least and greatest messages.                                        *)
(*  2. Ranges that fit the chunk.                                          *)
(*  3. Overlaps: the ranges left are apart.                                *)
(*  4. Stragglers: the ranges stay apart when they take them in.            *)
(*  5. The results.                                                        *)
(***************************************************************************)
EXTENDS TopicRanges, WellFoundedInduction, FiniteSetTheorems, TLAPS

-----------------------------------------------------------------------------
(* 1. Least and greatest messages.                                         *)

LEMMA LeastNat ==
  ASSUME NEW S \in SUBSET Nat, S # {}
  PROVE  \E m \in S : \A k \in S : m <= k
<1>1. PICK m \in S : \A k \in S : ~ (<<k, m>> \in OpToRel(<, Nat))
  BY WFMin, NatLessThanWellFounded, Zenon
<1>2. \A k \in S : ~ (k < m)
  BY <1>1 DEF OpToRel
<1>. QED BY <1>2

LEMMA LowestIs ==
  ASSUME NEW S \in SUBSET Nat, S # {}
  PROVE  Lowest(S) \in S /\ \A k \in S : Lowest(S) <= k
<1>1. \E m \in S : \A k \in S : m <= k
  BY LeastNat
<1>. QED BY <1>1, Zenon DEF Lowest

LEMMA HighestIs ==
  ASSUME NEW n \in Nat, NEW S \in SUBSET (0 .. n), S # {}
  PROVE  Highest(S) \in S /\ \A k \in S : k <= Highest(S)
<1> DEFINE U == {u \in Nat : \A k \in S : k <= u}
<1>1. U \in SUBSET Nat /\ n \in U
  OBVIOUS
<1>2. PICK u \in U : \A v \in U : u <= v
  <2>. HIDE DEF U
  <2>. QED BY <1>1, LeastNat
<1>3. u \in S
  <2>1. SUFFICES ASSUME u \notin S PROVE FALSE
    OBVIOUS
  <2>2. PICK k \in S : TRUE
    OBVIOUS
  <2>3. \A j \in S : j <= u /\ j # u /\ j \in Nat
    BY <1>2, <2>1
  <2>4. u \in Nat /\ 0 < u
    BY <1>2, <2>2, <2>3
  <2>5. u - 1 \in U
    BY <2>3, <2>4
  <2>6. u <= u - 1
    <3>. HIDE DEF U
    <3>. QED BY <1>2, <2>5
  <2>. QED BY <2>4, <2>6
<1>4. \E m \in S : \A k \in S : k <= m
  BY <1>2, <1>3
<1>. QED BY <1>4, Zenon DEF Highest


-----------------------------------------------------------------------------
(* 2. Ranges that fit the chunk.                                           *)

(* A range whose bounds are messages of the chunk.                         *)

Fits(chunk, r) == r.from \in chunk /\ r.to \in chunk /\ r.from <= r.to

LEMMA FitsNat ==
  ASSUME NEW n \in Nat, NEW chunk \in SUBSET (0 .. n), NEW r, Fits(chunk, r)
  PROVE  r.from \in Nat /\ r.to \in Nat /\ r.from <= r.to
<1>1. \A m \in chunk : m \in Nat
  OBVIOUS
<1>. QED BY <1>1 DEF Fits

(* The ranges share no message.                                            *)
Apart(R) == \A r, s \in R : r # s => r.to < s.from \/ s.to < r.from

LEMMA HullFits ==
  ASSUME NEW n \in Nat, NEW chunk \in SUBSET (0 .. n),
         NEW S \in SUBSET chunk, S # {}
  PROVE  /\ Fits(chunk, Hull(S)) /\ Hull(S).from \in S /\ Hull(S).to \in S
         /\ \A m \in S : Hull(S).from <= m /\ m <= Hull(S).to
<1>1. S \in SUBSET (0 .. n) /\ S \in SUBSET Nat
  OBVIOUS
<1>2. Lowest(S) \in S /\ \A k \in S : Lowest(S) <= k
  BY <1>1, LowestIs
<1>3. Highest(S) \in S /\ \A k \in S : k <= Highest(S)
  BY <1>1, HighestIs
<1>4. Hull(S).from = Lowest(S) /\ Hull(S).to = Highest(S)
  BY DEF Hull
<1>. QED BY <1>2, <1>3, <1>4 DEF Fits

LEMMA FittedFits ==
  ASSUME NEW n \in Nat, NEW chunk \in SUBSET (0 .. n), NEW answer
  PROVE  \A r \in Fitted(chunk, answer) : Fits(chunk, r)
<1>1. ASSUME NEW a \in answer, Inside(chunk, a) # {}
      PROVE  Fits(chunk, Hull(Inside(chunk, a)))
  <2>1. Inside(chunk, a) \in SUBSET chunk
    BY DEF Inside
  <2>. QED BY <1>1, <2>1, HullFits
<1>. QED BY <1>1, Zenon DEF Fitted

-----------------------------------------------------------------------------
(* 3. Overlaps.                                                            *)

(* Of two topics that are kept, neither in the other, one is further on.    *)
LEMMA OuterOrdered ==
  ASSUME NEW n \in Nat, NEW chunk \in SUBSET (0 .. n), NEW F,
         \A r \in F : Fits(chunk, r),
         NEW r \in Outer(F), NEW s \in Outer(F), r # s
  PROVE  \/ r.from < s.from /\ r.to < s.to
         \/ s.from < r.from /\ s.to < r.to
<1>1. /\ ~ (s.from <= r.from /\ r.to <= s.to)
      /\ ~ (r.from <= s.from /\ s.to <= r.to)
  BY DEF Outer
<1>2. r \in F /\ s \in F
  BY DEF Outer
<1>3. /\ r.from \in chunk /\ r.to \in chunk
      /\ s.from \in chunk /\ s.to \in chunk
  BY <1>2 DEF Fits
<1>4. \A m \in chunk : m \in Nat
  OBVIOUS
<1>5. /\ r.from \in Nat /\ r.to \in Nat
      /\ s.from \in Nat /\ s.to \in Nat
  BY <1>3, <1>4
<1>. QED BY <1>1, <1>5

(* What a kept topic keeps of its range.                                   *)
Kept(chunk, R, r) == {m \in Inside(chunk, r) : \A s \in R : s.to < r.to => s.to < m}

LEMMA TrimmedRange ==
  ASSUME NEW n \in Nat, NEW chunk \in SUBSET (0 .. n), NEW R,
         \A r \in R : Fits(chunk, r), NEW r \in R
  PROVE  LET t == Hull(Kept(chunk, R, r)) IN
         /\ Fits(chunk, t) /\ t.to = r.to
         /\ \A s \in R : s.to < r.to => s.to < t.from
<1> DEFINE K == Kept(chunk, R, r)
<1>0. /\ r.from \in chunk /\ r.to \in chunk /\ r.from <= r.to
      /\ \A m \in chunk : m \in Nat
  BY DEF Fits
<1>1. /\ K \in SUBSET chunk /\ r.to \in K
      /\ \A m \in K : m <= r.to
      /\ \A m \in K : \A s \in R : s.to < r.to => s.to < m
  <2>0. r.from \in Nat /\ r.to \in Nat
    BY FitsNat
  <2>1. r.to <= r.to
    BY <2>0
  <2>2. r.to \in Inside(chunk, r)
    BY <1>0, <2>1 DEF Inside
  <2>3. r.to \in K
    BY <2>2 DEF Kept
  <2>. QED BY <2>3 DEF Kept, Inside
<1>. HIDE DEF K
<1>2. /\ Fits(chunk, Hull(K)) /\ Hull(K).from \in K /\ Hull(K).to \in K
      /\ \A m \in K : Hull(K).from <= m /\ m <= Hull(K).to
  BY <1>1, HullFits
<1>3. Hull(K).to <= r.to /\ r.to <= Hull(K).to /\ r.to \in Nat /\ Hull(K).to \in Nat
  <2>1. Hull(K).to \in chunk
    BY <1>2 DEF Fits
  <2>. QED BY <1>0, <1>1, <1>2, <2>1
<1>4. Hull(K).to = r.to
  BY <1>3
<1>. QED BY <1>1, <1>2, <1>4 DEF K

LEMMA DisjointApart ==
  ASSUME NEW n \in Nat, NEW chunk \in SUBSET (0 .. n), NEW answer
  PROVE  /\ \A x \in Disjoint(chunk, answer) : Fits(chunk, x)
         /\ Apart(Disjoint(chunk, answer))
<1> DEFINE F == Fitted(chunk, answer)
           R == Outer(F)
           T(r) == Hull(Kept(chunk, R, r))
<1>1. \A r \in F : Fits(chunk, r)
  BY FittedFits
<1>2. \A r \in R : Fits(chunk, r)
  BY <1>1 DEF Outer
<1>3. \A r, s \in R : r # s =>
        \/ r.from < s.from /\ r.to < s.to
        \/ s.from < r.from /\ s.to < r.to
  <2>. HIDE DEF F
  <2>. QED BY <1>1, OuterOrdered
<1>4. Disjoint(chunk, answer) = {T(r) : r \in R}
  BY DEF Disjoint, Trimmed, Kept
<1>5. \A r \in R : /\ Fits(chunk, T(r)) /\ T(r).to = r.to
                   /\ \A s \in R : s.to < r.to => s.to < T(r).from
  <2>. HIDE DEF R
  <2>. QED BY <1>2, TrimmedRange
<1>. HIDE DEF T, R, F
<1>6. ASSUME NEW r \in R, NEW s \in R, T(r) # T(s)
      PROVE  T(r).to < T(s).from \/ T(s).to < T(r).from
  <2>1. r # s
    BY <1>6
  <2>2. CASE r.to < s.to
    <3>1. r.to < T(s).from
      BY <1>5, <2>2
    <3>. QED BY <1>5, <3>1
  <2>3. CASE s.to < r.to
    <3>1. s.to < T(r).from
      BY <1>5, <2>3
    <3>. QED BY <1>5, <3>1
  <2>. QED BY <1>3, <2>1, <2>2, <2>3
<1>. QED BY <1>4, <1>5, <1>6, Zenon DEF Apart

-----------------------------------------------------------------------------
(* 4. Stragglers join their nearest range.                                 *)

LEMMA NearestIs ==
  ASSUME NEW n \in Nat, NEW chunk \in SUBSET (0 .. n), NEW R, R # {},
         \A r \in R : Fits(chunk, r), NEW m \in chunk
  PROVE  /\ Nearest(R, m) \in R
         /\ \A s \in R : \/ Distance(Nearest(R, m), m) < Distance(s, m)
                         \/ /\ Distance(Nearest(R, m), m) = Distance(s, m)
                            /\ Nearest(R, m).from <= s.from
<1> DEFINE All == {Distance(r, m) : r \in R}
<1>1. \A r \in R : r.from \in Nat /\ r.to \in Nat /\ r.from <= r.to
  BY FitsNat
<1>2. m \in Nat
  OBVIOUS
<1>3. \A r \in R : Distance(r, m) \in Nat
  BY <1>1, <1>2 DEF Distance
<1>. HIDE DEF Distance
<1>4. All \in SUBSET Nat /\ All # {}
  BY <1>3
<1>5. PICK d \in All : \A e \in All : d <= e
  <2>. HIDE DEF All
  <2>. QED BY <1>4, LeastNat
<1> DEFINE Starts == {r.from : r \in {s \in R : Distance(s, m) = d}}
<1>6. Starts \in SUBSET Nat /\ Starts # {}
  BY <1>1, <1>5
<1>7. PICK f \in Starts : \A g \in Starts : f <= g
  <2>. HIDE DEF Starts
  <2>. QED BY <1>6, LeastNat
<1>8. PICK r \in R : Distance(r, m) = d /\ r.from = f
  BY <1>7
<1>9. \A s \in R : \/ Distance(r, m) < Distance(s, m)
                   \/ Distance(r, m) = Distance(s, m) /\ r.from <= s.from
  <2>1. SUFFICES ASSUME NEW s \in R
                 PROVE  \/ Distance(r, m) < Distance(s, m)
                        \/ Distance(r, m) = Distance(s, m) /\ r.from <= s.from
    OBVIOUS
  <2>2. d <= Distance(s, m) /\ d \in Nat /\ Distance(s, m) \in Nat
    BY <1>3, <1>5
  <2>3. Distance(s, m) = d => f <= s.from
    BY <1>7
  <2>. QED BY <1>8, <2>2, <2>3
<1>. QED BY <1>9, Zenon DEF Nearest

(* What a range of the answer holds in the end.                            *)
Joined(chunk, R, r) == Inside(chunk, r) \cup {m \in Stragglers(chunk, R) : Nearest(R, m) = r}

LEMMA JoinedNonempty ==
  ASSUME NEW n \in Nat, NEW chunk \in SUBSET (0 .. n), NEW R,
         \A r \in R : Fits(chunk, r), NEW x \in R
  PROVE  Joined(chunk, R, x) \in SUBSET chunk /\ Joined(chunk, R, x) # {}
<1>1. x.from \in chunk /\ x.to \in chunk /\ x.from <= x.to
  BY DEF Fits
<1>2. x.from \in Nat
  BY FitsNat
<1>3. x.from \in Inside(chunk, x)
  BY <1>1, <1>2 DEF Inside
<1>. QED BY <1>3 DEF Joined, Inside, Stragglers

LEMMA JoinedOrdered ==
  ASSUME NEW n \in Nat, NEW chunk \in SUBSET (0 .. n), NEW R,
         \A r \in R : Fits(chunk, r),
         NEW x \in R, NEW y \in R, x.to < y.from,
         NEW a \in Joined(chunk, R, x), NEW b \in Joined(chunk, R, y)
  PROVE  a < b
<1>0. R # {}
  OBVIOUS
<1>1. /\ x.from \in Nat /\ x.to \in Nat /\ x.from <= x.to
      /\ y.from \in Nat /\ y.to \in Nat /\ y.from <= y.to
  BY FitsNat
<1>2. a \in chunk /\ b \in chunk
  BY DEF Joined, Inside, Stragglers
<1>3. a \in Nat /\ b \in Nat
  BY <1>2
<1>4. \/ x.from <= a /\ a <= x.to
      \/ /\ ~ (y.from <= a /\ a <= y.to) /\ ~ (x.from <= a /\ a <= x.to)
         /\ \/ Distance(x, a) < Distance(y, a)
            \/ Distance(x, a) = Distance(y, a)
  <2>1. CASE a \in Inside(chunk, x)
    BY <2>1 DEF Inside
  <2>2. CASE a \in Stragglers(chunk, R) /\ Nearest(R, a) = x
    <3>1. \/ Distance(x, a) < Distance(y, a)
          \/ Distance(x, a) = Distance(y, a)
      BY <1>0, <1>2, <2>2, NearestIs
    <3>. QED BY <1>2, <2>2, <3>1 DEF Stragglers, Inside
  <2>. QED BY <2>1, <2>2 DEF Joined
<1>5. \/ y.from <= b /\ b <= y.to
      \/ /\ ~ (y.from <= b /\ b <= y.to) /\ ~ (x.from <= b /\ b <= x.to)
         /\ Distance(y, b) < Distance(x, b)
  <2>1. CASE b \in Inside(chunk, y)
    BY <2>1 DEF Inside
  <2>2. CASE b \in Stragglers(chunk, R) /\ Nearest(R, b) = y
    <3>1. \/ Distance(y, b) < Distance(x, b)
          \/ Distance(y, b) = Distance(x, b) /\ y.from <= x.from
      BY <1>0, <1>2, <2>2, NearestIs
    <3>2. ~ (y.from <= x.from)
      BY <1>1
    <3>. QED BY <1>2, <2>2, <3>1, <3>2 DEF Stragglers, Inside
  <2>. QED BY <2>1, <2>2 DEF Joined
<1>. QED BY <1>1, <1>3, <1>4, <1>5 DEF Distance

-----------------------------------------------------------------------------
(* 5. The results.                                                         *)

(* resolveStragglers: ranges that are apart become a partition of the      *)
(* chunk once every message outside of them joined its nearest one.        *)
(*                                                                         *)
THEOREM SalvagedPartition ==
  ASSUME NEW n \in Nat, NEW chunk \in SUBSET (0 .. n), NEW R, R # {},
         \A r \in R : Fits(chunk, r), Apart(R)
  PROVE  Partition(chunk, Salvaged(chunk, R))
<1> DEFINE S(x) == Hull(Joined(chunk, R, x))
<1>1. Salvaged(chunk, R) = {S(x) : x \in R}
  BY DEF Salvaged, Joined
<1>2. \A x \in R : Joined(chunk, R, x) \in SUBSET chunk /\ Joined(chunk, R, x) # {}
  BY JoinedNonempty
<1>3. \A x \in R :
        /\ Fits(chunk, S(x)) /\ S(x).from \in Joined(chunk, R, x)
        /\ S(x).to \in Joined(chunk, R, x)
        /\ \A m \in Joined(chunk, R, x) : S(x).from <= m /\ m <= S(x).to
  BY <1>2, HullFits
<1>. HIDE DEF S
<1>4. \A x, y \in R : x # y => S(x).to < S(y).from \/ S(y).to < S(x).from
  BY <1>3, JoinedOrdered DEF Apart
<1>5. ASSUME NEW m \in chunk PROVE \E x \in R : m \in Inside(chunk, S(x))
  <2>1. \E x \in R : m \in Joined(chunk, R, x)
    <3>1. CASE \E x \in R : m \in Inside(chunk, x)
      BY <3>1 DEF Joined
    <3>2. CASE m \in Stragglers(chunk, R)
      BY <3>2, NearestIs DEF Joined
    <3>. QED BY <3>1, <3>2 DEF Stragglers
  <2>. QED BY <1>3, <2>1 DEF Inside
<1>6. \A x \in R : Inside(chunk, S(x)) # {}
  <2>1. ASSUME NEW x \in R PROVE S(x).from \in Inside(chunk, S(x))
    <3>1. S(x).from \in chunk /\ S(x).from <= S(x).to
      BY <1>3 DEF Fits
    <3>2. S(x).from \in Nat
      BY <1>3, FitsNat
    <3>. QED BY <3>1, <3>2 DEF Inside
  <2>. QED BY <2>1
<1>7. \A x, y \in R : S(x) # S(y) => S(x).to < S(y).from \/ S(y).to < S(x).from
  BY <1>4
<1>. QED BY <1>1, <1>5, <1>6, <1>7, Zenon DEF Partition

(* resolveOverlaps and resolveStragglers: whatever the model answers, if it*)
(* covers half of the chunk, the topics share no message, leave none out   *)
(* and none of them is empty.                                              *)
THEOREM TopicsPartition ==
  ASSUME NEW n \in Nat, NEW chunk \in SUBSET (0 .. n), NEW answer,
         Usable(chunk, Disjoint(chunk, answer))
  PROVE  Partition(chunk, Topics(chunk, answer))
<1>1. Disjoint(chunk, answer) # {}
  BY DEF Usable
<1>. QED BY <1>1, DisjointApart, SalvagedPartition DEF Topics

(* The topics of a chunk start and end at messages of it.                  *)
LEMMA TopicsFit ==
  ASSUME NEW n \in Nat, NEW chunk \in SUBSET (0 .. n), NEW answer,
         Usable(chunk, Disjoint(chunk, answer))
  PROVE  Topics(chunk, answer) \in SUBSET Ranges(chunk)
<1> DEFINE R == Disjoint(chunk, answer)
<1>1. \A r \in R : Fits(chunk, r)
  BY DisjointApart
<1>. HIDE DEF R
<1>2. Salvaged(chunk, R) = {Hull(Joined(chunk, R, x)) : x \in R}
  BY DEF Salvaged, Joined
<1>3. ASSUME NEW x \in R PROVE Hull(Joined(chunk, R, x)) \in Ranges(chunk)
  <2>1. Joined(chunk, R, x) \in SUBSET chunk /\ Joined(chunk, R, x) # {}
    BY <1>1, JoinedNonempty
  <2>2. Fits(chunk, Hull(Joined(chunk, R, x)))
    BY <2>1, HullFits
  <2>. QED BY <2>2 DEF Fits, Hull, Ranges
<1>. QED BY <1>2, <1>3 DEF Topics, R
==============================================================================
