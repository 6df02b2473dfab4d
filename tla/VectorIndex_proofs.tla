-------------------------- MODULE VectorIndex_proofs --------------------------
(***************************************************************************)
(* What holds of the vector index for any number of loads, users and rows.  *)
(*                                                                         *)
(*  1. Greatest elements.                                                  *)
(*  2. Types.                                                              *)
(*  3. The store: ids are listed once and the watermark is exact.           *)
(*  4. Topics are never hidden.                                            *)
(*  5. Artifacts are not hidden when four things do not happen.            *)
(***************************************************************************)
EXTENDS VectorIndex, FiniteSetTheorems, WellFoundedInduction, TLAPS

-----------------------------------------------------------------------------
(* 1. Greatest elements.                                                   *)

LEMMA Least ==
  ASSUME NEW T \in SUBSET Nat, T # {}
  PROVE  \E x \in T : \A y \in T : x <= y
<1> DEFINE R == OpToRel(<, Nat)
<1>1. IsWellFoundedOn(R, Nat)
  BY NatLessThanWellFounded
<1>2. PICK x \in T : \A y \in T : ~(<<y, x>> \in R)
  <2> HIDE DEF R
  <2> QED BY <1>1, WFMin
<1>3. ASSUME NEW y \in T PROVE x <= y
  <2>1. ~(<<y, x>> \in R)
    BY <1>2
  <2>2. ~(y < x)
    BY <2>1, Zenon DEF OpToRel
  <2> HIDE DEF R
  <2> QED BY <2>2
<1> HIDE DEF R
<1> QED BY <1>3

(* A non-empty set of numbers up to N has a greatest element.               *)
LEMMA Greatest ==
  ASSUME NEW N \in Nat, NEW S \in SUBSET (0 .. N), S # {}
  PROVE  \E x \in S : \A y \in S : y <= x
<1> DEFINE T == {N - x : x \in S}
<1>1. T \in SUBSET Nat
  <2> SUFFICES ASSUME NEW x \in S PROVE N - x \in Nat
    OBVIOUS
  <2>1. x \in 0 .. N
    OBVIOUS
  <2> QED BY <2>1
<1>2. T # {}
  OBVIOUS
<1>3. PICK t \in T : \A y \in T : t <= y
  <2> HIDE DEF T
  <2> QED BY <1>1, <1>2, Least
<1>4. PICK x \in S : t = N - x
  OBVIOUS
<1>5. ASSUME NEW y \in S PROVE y <= x
  <2>1. x \in 0 .. N /\ y \in 0 .. N /\ N - y \in T
    OBVIOUS
  <2>2. N - x <= N - y
    BY <1>3, <1>4, <2>1
  <2> QED BY <2>1, <2>2
<1> QED BY <1>4, <1>5

LEMMA MaxIsGreatest ==
  ASSUME NEW N \in Nat, NEW S \in SUBSET (0 .. N), S # {}
  PROVE  Max(S) \in S /\ \A y \in S : y <= Max(S)
<1>1. \E x \in S : \A y \in S : x >= y
  BY Greatest
<1> QED BY <1>1 DEF Max

LEMMA MaxOfIds ==
  ASSUME NEW ids \in SUBSET Ids, NEW n \in 0 .. MaxRows
  PROVE  /\ Max(ids \cup {n}) \in 0 .. MaxRows
         /\ Max(ids \cup {n}) \in ids \cup {n}
         /\ \A i \in ids \cup {n} : i <= Max(ids \cup {n})
<1>1. MaxRows \in Nat
  BY BoundsAssumption
<1>2. ids \cup {n} \in SUBSET (0 .. MaxRows) /\ ids \cup {n} # {}
  BY <1>1 DEF Ids
<1> QED BY <1>1, <1>2, MaxIsGreatest

-----------------------------------------------------------------------------
(* 2. Types.                                                               *)

LEMMA LoadTypes ==
  ASSUME NEW step \in LoadStep
  PROVE  At(step) \in Load /\ Idle \in Load
BY BoundsAssumption DEF At, Idle, Load, LoadStep

(* ReplaceAll, as the rest of the proofs sees it.                          *)
LEMMA Replaced ==
  ASSUME TypeOK, NEW k \in Kinds, NEW ids \in SUBSET Ids, ReplaceAll(k, ids)
  PROVE  /\ entries' \in [Kinds -> [Ids -> Nat]] /\ maxIDs' \in [Kinds -> 0 .. MaxRows]
         /\ \A j \in Kinds : j # k => entries'[j] = entries[j] /\ maxIDs'[j] = maxIDs[j]
         /\ \A i \in Ids : entries'[k][i] = IF i \in ids THEN 1 ELSE 0
         /\ maxIDs'[k] \in ids \cup {0}
         /\ \A i \in ids : i <= maxIDs'[k]
<1>1. /\ entries' = [entries EXCEPT ![k] = [i \in Ids |-> IF i \in ids THEN 1 ELSE 0]]
      /\ maxIDs' = [maxIDs EXCEPT ![k] = Max(ids \cup {0})]
  BY DEF ReplaceAll, ReplacedWatermark
<1>2. /\ Max(ids \cup {0}) \in 0 .. MaxRows
      /\ Max(ids \cup {0}) \in ids \cup {0}
      /\ \A i \in ids : i <= Max(ids \cup {0})
  BY MaxOfIds, BoundsAssumption
<1>3. entries \in [Kinds -> [Ids -> Nat]] /\ maxIDs \in [Kinds -> 0 .. MaxRows]
  BY DEF TypeOK
<1> QED BY <1>1, <1>2, <1>3

(* AppendSince: a stale batch leaves the store alone.                      *)
LEMMA Appended ==
  ASSUME TypeOK, NEW k \in Kinds, NEW since, NEW ids \in SUBSET Ids,
         AppendSince(k, since, ids)
  PROVE  \/ UNCHANGED index
         \/ /\ maxIDs[k] = since
            /\ entries' \in [Kinds -> [Ids -> Nat]] /\ maxIDs' \in [Kinds -> 0 .. MaxRows]
            /\ \A j \in Kinds : j # k => entries'[j] = entries[j] /\ maxIDs'[j] = maxIDs[j]
            /\ \A i \in Ids :
                 entries'[k][i] = IF i \in ids THEN entries[k][i] + 1 ELSE entries[k][i]
            /\ maxIDs'[k] \in ids \cup {since}
            /\ \A i \in ids \cup {since} : i <= maxIDs'[k]
<1>1. CASE maxIDs[k] # since
  BY <1>1 DEF AppendSince, Fresh
<1>2. CASE maxIDs[k] = since
  <2>1. /\ entries' = [entries EXCEPT ![k] =
             [i \in Ids |-> IF i \in ids THEN entries[k][i] + 1 ELSE entries[k][i]]]
        /\ maxIDs' = [maxIDs EXCEPT ![k] = Max(ids \cup {maxIDs[k]})]
    BY <1>2 DEF AppendSince, Fresh, TypeOK
  <2>2. entries \in [Kinds -> [Ids -> Nat]] /\ maxIDs \in [Kinds -> 0 .. MaxRows]
    BY DEF TypeOK
  <2>3. /\ Max(ids \cup {maxIDs[k]}) \in 0 .. MaxRows
        /\ Max(ids \cup {maxIDs[k]}) \in ids \cup {maxIDs[k]}
        /\ \A i \in ids \cup {maxIDs[k]} : i <= Max(ids \cup {maxIDs[k]})
    BY <2>2, MaxOfIds
  <2>4. /\ entries' \in [Kinds -> [Ids -> Nat]]
        /\ \A j \in Kinds : j # k => entries'[j] = entries[j]
        /\ \A i \in Ids :
             entries'[k][i] = IF i \in ids THEN entries[k][i] + 1 ELSE entries[k][i]
    BY <2>1, <2>2
  <2>5. /\ maxIDs' \in [Kinds -> 0 .. MaxRows]
        /\ \A j \in Kinds : j # k => maxIDs'[j] = maxIDs[j]
        /\ maxIDs'[k] = Max(ids \cup {maxIDs[k]})
    BY <2>1, <2>2, <2>3
  <2> QED BY <1>2, <2>3, <2>4, <2>5
<1> QED BY <1>1, <1>2

(* The loads of a goroutine change, and nothing else.                       *)
LEMMA GotoType ==
  ASSUME TypeOK, NEW l \in Loaders, NEW next \in Load, Goto(l, next)
  PROVE  loads' \in [Loaders -> Load] /\ up' \in BOOLEAN
BY DEF Goto, TypeOK

LEMMA FinishType ==
  ASSUME TypeOK, NEW l \in Loaders, Finish(l)
  PROVE  loads' \in [Loaders -> Load] /\ up' \in BOOLEAN
BY LoadTypes DEF Finish, TypeOK, LoadStep

LEMMA TypeInit == Init => TypeOK
<1> SUFFICES ASSUME Init PROVE TypeOK
  OBVIOUS
<1>1. 0 \in 0 .. MaxRows
  BY BoundsAssumption
<1>2. At("fetch") \in Load /\ Idle \in Load
  BY LoadTypes DEF LoadStep
<1> QED BY <1>1, <1>2 DEF Init, TypeOK, NoEntries

LEMMA TypeStep == TypeOK /\ [Next]_vars => TypeOK'
<1> SUFFICES ASSUME TypeOK, [Next]_vars PROVE TypeOK'
  OBVIOUS
<1> USE DEF TypeOK
<1>0. /\ At("fetch") \in Load /\ At("replace") \in Load /\ At("reset") \in Load
      /\ At("sample") \in Load /\ At("fetchNew") \in Load /\ At("append") \in Load
      /\ At("sampleSummaries") \in Load /\ At("query") \in Load /\ Idle \in Load
  BY LoadTypes DEF LoadStep
<1>1. ASSUME NEW k \in Followed, Insert(k) PROVE TypeOK'
  <2>1. k \in Kinds
    BY DEF Followed, Kinds
  <2>2. NextId(k) \in Ids /\ NextId(k) \in 0 .. MaxRows
    BY <1>1, <2>1, BoundsAssumption DEF Insert, NextId, Ids
  <2>3. lastId' \in [Kinds -> 0 .. MaxRows] /\ stored' \in [Kinds -> SUBSET Ids]
    BY <1>1, <2>1, <2>2 DEF Insert
  <2>4. embedded' \in [Kinds -> SUBSET Ids]
    BY <1>1, <2>1, <2>2 DEF Insert
  <2> QED BY <1>1, <2>3, <2>4 DEF Insert, index
<1>2. ASSUME NEW k \in Followed, NEW id \in Ids, Embed(k, id) PROVE TypeOK'
  <2>1. k \in Kinds
    BY DEF Followed, Kinds
  <2>2. embedded' \in [Kinds -> SUBSET Ids]
    BY <1>2, <2>1 DEF Embed
  <2> QED BY <1>2, <2>2 DEF Embed, index
<1>3. ASSUME NEW id \in Ids, Delete(id) PROVE TypeOK'
  <2>1. records \in Kinds
    BY DEF Kinds
  <2>2. stored' \in [Kinds -> SUBSET Ids] /\ embedded' \in [Kinds -> SUBSET Ids]
    BY <1>3, <2>1 DEF Delete
  <2> QED BY <1>3, <2>2 DEF Delete, index
<1>4. ASSUME NEW l \in Loaders, NEW step \in LoadStep, Begin(l, step) PROVE TypeOK'
  BY <1>4, LoadTypes, GotoType DEF Begin, tables, index
<1>5. ASSUME NEW l \in Loaders, Fetch(l) PROVE TypeOK'
  <2>1. [At("replace") EXCEPT !.got = embedded[records]] \in Load
    BY <1>0 DEF Load, Kinds
  <2> QED BY <1>5, <2>1, GotoType DEF Fetch, tables, index
<1>6. ASSUME NEW l \in Loaders, FetchFails(l) PROVE TypeOK'
  <2>1. [loads[l] EXCEPT !.at = IF @ = "fetch" THEN "replace" ELSE "append"] \in Load
    BY DEF Load, LoadStep
  <2> QED BY <1>6, <2>1, GotoType, FinishType DEF FetchFails, tables, index
<1>7. ASSUME NEW l \in Loaders, Replace(l) PROVE TypeOK'
  <2>1. loads[l].got \in SUBSET Ids /\ records \in Kinds
    BY DEF Load, Kinds
  <2>2. entries' \in [Kinds -> [Ids -> Nat]] /\ maxIDs' \in [Kinds -> 0 .. MaxRows]
    BY <1>7, <2>1, Replaced DEF Replace
  <2> QED BY <1>0, <1>7, <2>2, GotoType DEF Replace, tables
<1>8. ASSUME NEW l \in Loaders, ResetArtifacts(l) PROVE TypeOK'
  <2>1. entries' \in [Kinds -> [Ids -> Nat]] /\ maxIDs' \in [Kinds -> 0 .. MaxRows]
    BY <1>8, Replaced DEF ResetArtifacts, Kinds
  <2> QED BY <1>0, <1>8, <2>1, GotoType DEF ResetArtifacts, tables
<1>9. ASSUME NEW l \in Loaders, Sample(l) PROVE TypeOK'
  <2>1. [At("fetchNew") EXCEPT !.since = maxIDs[records]] \in Load
    BY <1>0 DEF Load, Kinds
  <2> QED BY <1>9, <2>1, GotoType DEF Sample, tables, index
<1>10. ASSUME NEW l \in Loaders, FetchNew(l) PROVE TypeOK'
  <2> DEFINE newer == {i \in stored[records] : i > loads[l].since}
  <2>1. newer \cap embedded[records] \in SUBSET Ids
    BY DEF Kinds
  <2>2. [loads[l] EXCEPT !.at = "append", !.got = newer \cap embedded[records]] \in Load
    <3> HIDE DEF newer
    <3> QED BY <2>1 DEF Load, LoadStep
  <2> QED BY <1>10, <2>2, GotoType DEF FetchNew, tables, index
<1>11. ASSUME NEW l \in Loaders, NothingNew(l) PROVE TypeOK'
  BY <1>11, FinishType DEF NothingNew, tables, index
<1>12. ASSUME NEW l \in Loaders, AppendRecords(l) PROVE TypeOK'
  <2>1. loads[l].got \in SUBSET Ids /\ records \in Kinds
    BY DEF Load, Kinds
  <2>2. entries' \in [Kinds -> [Ids -> Nat]] /\ maxIDs' \in [Kinds -> 0 .. MaxRows]
    BY <1>12, <2>1, Appended DEF AppendRecords, index
  <2> QED BY <1>0, <1>12, <2>2, GotoType DEF AppendRecords, tables
<1>13. ASSUME NEW l \in Loaders, SampleSummaries(l) PROVE TypeOK'
  <2>1. [At("query") EXCEPT !.since = maxIDs["artifacts"], !.left = Users] \in Load
    BY <1>0 DEF Load, Kinds
  <2> QED BY <1>13, <2>1, GotoType DEF SampleSummaries, tables, index
<1>14. ASSUME NEW l \in Loaders, NEW u \in Users, QueryUser(l, u) PROVE TypeOK'
  <2>1. Unseen(l, u) \in SUBSET Ids
    BY DEF Unseen, NewestReady, Kinds
  <2>2. [loads[l] EXCEPT !.got = @ \cup Unseen(l, u), !.left = @ \ {u}] \in Load
    BY <2>1 DEF Load
  <2> QED BY <1>14, <2>2, GotoType DEF QueryUser, tables, index
<1>15. ASSUME NEW l \in Loaders, NEW u \in Users, SkipUser(l, u) PROVE TypeOK'
  <2>1. [loads[l] EXCEPT !.left = @ \ {u}] \in Load
    BY DEF Load
  <2> QED BY <1>15, <2>1, GotoType DEF SkipUser, tables, index
<1>16. ASSUME NEW l \in Loaders, AppendSummaries(l) PROVE TypeOK'
  <2>1. loads[l].got \in SUBSET Ids
    BY DEF Load
  <2>2. entries' \in [Kinds -> [Ids -> Nat]] /\ maxIDs' \in [Kinds -> 0 .. MaxRows]
    BY <1>16, <2>1, Appended DEF AppendSummaries, index, Kinds
  <2> QED BY <1>16, <2>2, FinishType DEF AppendSummaries, tables
<1>17. CASE Restart
  <2>1. 0 \in 0 .. MaxRows
    BY BoundsAssumption
  <2> QED BY <1>0, <1>17, <2>1 DEF Restart, NoEntries, tables
<1>18. CASE UNCHANGED vars
  BY <1>18 DEF vars, tables, index
<1> QED
  BY <1>1, <1>2, <1>3, <1>4, <1>5, <1>6, <1>7, <1>8, <1>9, <1>10, <1>11, <1>12,
     <1>13, <1>14, <1>15, <1>16, <1>17, <1>18
     DEF Next, Step, ReloadVectors, LoadNewVectors, LoadNewArtifactSummaries, LoadStep

(* Every id, batch and watermark stays within the rows that exist.          *)
THEOREM TypeCorrect == Spec => []TypeOK
BY TypeInit, TypeStep, PTL DEF Spec

-----------------------------------------------------------------------------
(* 3. The store: ids are listed once and the watermark is exact.            *)

(* One list: its ids are listed once, the watermark is the greatest.        *)
Listed(k) ==
  /\ \A i \in Ids : entries[k][i] <= 1 /\ (entries[k][i] > 0 => i <= maxIDs[k])
  /\ maxIDs[k] # 0 => entries[k][maxIDs[k]] > 0

(* What a goroutine is about to append lies above the watermark it sampled: *)
(* if that is still the watermark, none of it is listed yet.               *)
BatchAbove(l) ==
  /\ loads[l].at = "fetchNew" => loads[l].got = {}
  /\ loads[l].at \in {"append", "query"} => \A i \in loads[l].got : i > loads[l].since

StoreInv == (\A k \in Kinds : Listed(k)) /\ (\A l \in Loaders : BatchAbove(l))

LEMMA GotoOthers ==
  ASSUME TypeOK, NEW l \in Loaders, NEW next, Goto(l, next) \/ (Finish(l) /\ next = Idle)
  PROVE  loads'[l] = next /\ \A m \in Loaders : m # l => loads'[m] = loads[m]
BY DEF Goto, Finish, TypeOK

(* A goroutine that takes up a sound load, or ends its own, keeps them all   *)
(* sound.                                                                  *)
LEMMA BatchesKept ==
  ASSUME TypeOK, \A m \in Loaders : BatchAbove(m),
         NEW l \in Loaders, NEW next, Goto(l, next) \/ (Finish(l) /\ next = Idle),
         next.at = "fetchNew" => next.got = {},
         next.at \in {"append", "query"} => \A i \in next.got : i > next.since
  PROVE  \A m \in Loaders : BatchAbove(m)'
<1> SUFFICES ASSUME NEW m \in Loaders PROVE BatchAbove(m)'
  OBVIOUS
<1>1. CASE m = l
  BY <1>1, GotoOthers DEF BatchAbove
<1>2. CASE m # l
  <2>1. loads'[m] = loads[m]
    BY <1>2, GotoOthers
  <2> QED BY <2>1 DEF BatchAbove
<1> QED BY <1>1, <1>2

LEMMA BatchesFinished ==
  ASSUME TypeOK, \A m \in Loaders : BatchAbove(m), NEW l \in Loaders, Finish(l)
  PROVE  \A m \in Loaders : BatchAbove(m)'
<1>1. Idle.at = "idle"
  BY DEF Idle, At
<1>2. Idle.at \notin {"fetchNew", "append", "query"}
  BY <1>1
<1> QED BY <1>2, BatchesKept

LEMMA ListedSame ==
  ASSUME NEW k \in Kinds, Listed(k), entries'[k] = entries[k], maxIDs'[k] = maxIDs[k]
  PROVE  Listed(k)'
BY DEF Listed

LEMMA ListedReplaced ==
  ASSUME TypeOK, \A k \in Kinds : Listed(k),
         NEW k \in Kinds, NEW ids \in SUBSET Ids, ReplaceAll(k, ids)
  PROVE  \A j \in Kinds : Listed(j)'
<1>1. /\ \A j \in Kinds : j # k => entries'[j] = entries[j] /\ maxIDs'[j] = maxIDs[j]
      /\ \A i \in Ids : entries'[k][i] = IF i \in ids THEN 1 ELSE 0
      /\ maxIDs'[k] \in ids \cup {0}
      /\ \A i \in ids : i <= maxIDs'[k]
  BY Replaced
<1>2. Listed(k)'
  BY <1>1 DEF Listed
<1>3. ASSUME NEW j \in Kinds, j # k PROVE Listed(j)'
  BY <1>1, <1>3, ListedSame
<1> QED BY <1>2, <1>3

(* What is appended is not listed yet.                                     *)
LEMMA ListedAppended ==
  ASSUME TypeOK, \A k \in Kinds : Listed(k),
         NEW k \in Kinds, NEW since \in Nat, NEW ids \in SUBSET Ids,
         \A i \in ids : i > since, AppendSince(k, since, ids)
  PROVE  \A j \in Kinds : Listed(j)'
<1>1. CASE UNCHANGED index
  BY <1>1, ListedSame DEF index
<1>2. CASE ~ UNCHANGED index
  <2>1. /\ maxIDs[k] = since
        /\ entries' \in [Kinds -> [Ids -> Nat]] /\ maxIDs' \in [Kinds -> 0 .. MaxRows]
        /\ \A j \in Kinds : j # k => entries'[j] = entries[j] /\ maxIDs'[j] = maxIDs[j]
        /\ \A i \in Ids :
             entries'[k][i] = IF i \in ids THEN entries[k][i] + 1 ELSE entries[k][i]
        /\ maxIDs'[k] \in ids \cup {since}
        /\ \A i \in ids \cup {since} : i <= maxIDs'[k]
    BY <1>2, Appended
  <2>2. entries[k] \in [Ids -> Nat] /\ Listed(k)
    BY DEF TypeOK
  <2>3. \A i \in ids : entries[k][i] = 0
    <3> SUFFICES ASSUME NEW i \in ids PROVE entries[k][i] = 0
      OBVIOUS
    <3>1. i \in Ids /\ i \in Nat /\ i > since
      BY BoundsAssumption DEF Ids
    <3>2. ~(i <= maxIDs[k]) /\ entries[k][i] \in Nat
      BY <2>1, <2>2, <3>1
    <3> QED BY <2>2, <3>1, <3>2 DEF Listed
  <2>4. ASSUME NEW i \in Ids
        PROVE  entries'[k][i] <= 1 /\ (entries'[k][i] > 0 => i <= maxIDs'[k])
    <3>1. CASE i \in ids
      BY <2>1, <2>3, <3>1
    <3>2. CASE i \notin ids
      <4>1. entries'[k][i] = entries[k][i] /\ since <= maxIDs'[k] /\ maxIDs'[k] \in Nat
        BY <2>1, <3>2, BoundsAssumption
      <4>2. entries[k][i] <= 1 /\ (entries[k][i] > 0 => i <= since)
        BY <2>1, <2>2 DEF Listed
      <4> QED BY <4>1, <4>2 DEF Ids
    <3> QED BY <3>1, <3>2
  <2>5. maxIDs'[k] # 0 => entries'[k][maxIDs'[k]] > 0
    <3>1. CASE maxIDs'[k] \in ids
      BY <2>1, <2>3, <3>1
    <3>2. CASE maxIDs'[k] = since /\ since \notin ids
      <4>1. since # 0 => since \in Ids /\ entries[k][since] > 0
        BY <2>1, <2>2, BoundsAssumption DEF Listed, Ids, TypeOK
      <4> QED BY <2>1, <3>2, <4>1
    <3> QED BY <2>1, <3>1, <3>2
  <2>6. Listed(k)'
    BY <2>4, <2>5 DEF Listed
  <2>7. ASSUME NEW j \in Kinds, j # k PROVE Listed(j)'
    BY <2>1, <2>7, ListedSame
  <2> QED BY <2>6, <2>7
<1> QED BY <1>1, <1>2

LEMMA StoreInit == Init => StoreInv
<1> SUFFICES ASSUME Init PROVE StoreInv
  OBVIOUS
<1>1. ASSUME NEW k \in Kinds PROVE Listed(k)
  BY <1>1 DEF Init, Listed, NoEntries, Ids
<1>2. ASSUME NEW l \in Loaders PROVE BatchAbove(l)
  BY <1>2 DEF Init, BatchAbove, At, Idle
<1> QED BY <1>1, <1>2 DEF StoreInv

LEMMA StoreStep == TypeOK /\ StoreInv /\ [Next]_vars => StoreInv'
<1> SUFFICES ASSUME TypeOK, StoreInv, [Next]_vars PROVE StoreInv'
  OBVIOUS
<1>0. /\ \A k \in Kinds : Listed(k)
      /\ \A l \in Loaders : BatchAbove(l)
      /\ \A l \in Loaders : loads[l].got \in SUBSET Ids /\ loads[l].since \in Nat
      /\ records \in Kinds
  BY DEF StoreInv, TypeOK, Load, Kinds
<1>a. ASSUME UNCHANGED index PROVE \A k \in Kinds : Listed(k)'
  BY <1>a, <1>0, ListedSame DEF index
<1>b. ASSUME UNCHANGED loads PROVE \A l \in Loaders : BatchAbove(l)'
  BY <1>b, <1>0 DEF BatchAbove
<1>1. ASSUME NEW k \in Followed,
             Insert(k) \/ \E id \in Ids : Embed(k, id)
      PROVE  StoreInv'
  BY <1>1, <1>a, <1>b DEF Insert, Embed, index, StoreInv
<1>2. ASSUME NEW id \in Ids, Delete(id) PROVE StoreInv'
  BY <1>2, <1>a, <1>b DEF Delete, index, StoreInv
<1>3. ASSUME NEW l \in Loaders, NEW step \in {"fetch", "sample", "sampleSummaries"},
             Begin(l, step)
      PROVE  StoreInv'
  <2>1. \A m \in Loaders : BatchAbove(m)'
    BY <1>0, <1>3, BatchesKept DEF Begin, At
  <2> QED BY <1>3, <1>a, <2>1 DEF Begin, index, StoreInv
<1>4. ASSUME NEW l \in Loaders, Fetch(l) PROVE StoreInv'
  <2>1. \A m \in Loaders : BatchAbove(m)'
    BY <1>0, <1>4, BatchesKept DEF Fetch, At
  <2> QED BY <1>4, <1>a, <2>1 DEF Fetch, index, StoreInv
<1>5. ASSUME NEW l \in Loaders, FetchFails(l) PROVE StoreInv'
  <2> DEFINE next == [loads[l] EXCEPT !.at = IF @ = "fetch" THEN "replace" ELSE "append"]
  <2>1. CASE Finish(l)
    <3>1. \A m \in Loaders : BatchAbove(m)'
      BY <1>0, <2>1, BatchesFinished
    <3> QED BY <1>5, <1>a, <3>1 DEF FetchFails, index, StoreInv
  <2>2. CASE Goto(l, next)
    <3>1. /\ next.got = loads[l].got /\ next.since = loads[l].since
          /\ next.at = IF loads[l].at = "fetch" THEN "replace" ELSE "append"
      BY DEF TypeOK, Load
    <3>2. loads[l].at # "fetch" => loads[l].got = {}
      BY <1>0, <1>5 DEF FetchFails, BatchAbove
    <3>3. /\ next.at = "fetchNew" => next.got = {}
          /\ next.at \in {"append", "query"} => \A i \in next.got : i > next.since
      BY <3>1, <3>2
    <3>4. \A m \in Loaders : BatchAbove(m)'
      <4> HIDE DEF next
      <4> QED BY <1>0, <2>2, <3>3, BatchesKept
    <3> QED BY <1>5, <1>a, <3>4 DEF FetchFails, index, StoreInv
  <2> QED BY <1>5, <2>1, <2>2 DEF FetchFails
<1>6. ASSUME NEW l \in Loaders, Replace(l) PROVE StoreInv'
  <2>1. \A m \in Loaders : BatchAbove(m)'
    BY <1>0, <1>6, BatchesKept DEF Replace, At
  <2>2. \A k \in Kinds : Listed(k)'
    BY <1>0, <1>6, ListedReplaced DEF Replace
  <2> QED BY <2>1, <2>2 DEF StoreInv
<1>7. ASSUME NEW l \in Loaders, ResetArtifacts(l) PROVE StoreInv'
  <2>1. \A m \in Loaders : BatchAbove(m)'
    BY <1>0, <1>7, BatchesKept DEF ResetArtifacts, At
  <2>2. \A k \in Kinds : Listed(k)'
    BY <1>0, <1>7, ListedReplaced DEF ResetArtifacts, Kinds
  <2> QED BY <2>1, <2>2 DEF StoreInv
<1>8. ASSUME NEW l \in Loaders, Sample(l) PROVE StoreInv'
  <2>1. \A m \in Loaders : BatchAbove(m)'
    BY <1>0, <1>8, BatchesKept DEF Sample, At
  <2> QED BY <1>8, <1>a, <2>1 DEF Sample, index, StoreInv
<1>9. ASSUME NEW l \in Loaders, FetchNew(l) PROVE StoreInv'
  <2> DEFINE newer == {i \in stored[records] : i > loads[l].since}
             next == [loads[l] EXCEPT !.at = "append", !.got = newer \cap embedded[records]]
  <2>1. /\ next.at = "append" /\ next.since = loads[l].since
        /\ next.got = newer \cap embedded[records]
    BY DEF TypeOK, Load
  <2>2. \A i \in next.got : i > next.since
    BY <2>1
  <2>3. Goto(l, next)
    BY <1>9 DEF FetchNew
  <2>4. \A m \in Loaders : BatchAbove(m)'
    <3>1. next.at # "fetchNew"
      BY <2>1
    <3> HIDE DEF next
    <3> QED BY <1>0, <2>2, <2>3, <3>1, BatchesKept
  <2> QED BY <1>9, <1>a, <2>4 DEF FetchNew, index, StoreInv
<1>10. ASSUME NEW l \in Loaders, NothingNew(l) PROVE StoreInv'
  <2>1. \A m \in Loaders : BatchAbove(m)'
    BY <1>0, <1>10, BatchesFinished DEF NothingNew
  <2> QED BY <1>10, <1>a, <2>1 DEF NothingNew, index, StoreInv
<1>11. ASSUME NEW l \in Loaders, AppendRecords(l) PROVE StoreInv'
  <2>1. \A m \in Loaders : BatchAbove(m)'
    BY <1>0, <1>11, BatchesKept DEF AppendRecords, At
  <2>2. \A i \in loads[l].got : i > loads[l].since
    BY <1>0, <1>11 DEF AppendRecords, BatchAbove
  <2>3. \A k \in Kinds : Listed(k)'
    BY <1>0, <1>11, <2>2, ListedAppended DEF AppendRecords
  <2> QED BY <2>1, <2>3 DEF StoreInv
<1>12. ASSUME NEW l \in Loaders, SampleSummaries(l) PROVE StoreInv'
  <2>1. \A m \in Loaders : BatchAbove(m)'
    BY <1>0, <1>12, BatchesKept DEF SampleSummaries, At
  <2> QED BY <1>12, <1>a, <2>1 DEF SampleSummaries, index, StoreInv
<1>13. ASSUME NEW l \in Loaders, NEW u \in Users, QueryUser(l, u) PROVE StoreInv'
  <2> DEFINE next == [loads[l] EXCEPT !.got = @ \cup Unseen(l, u), !.left = @ \ {u}]
  <2>1. /\ next.at = "query" /\ next.since = loads[l].since
        /\ next.got = loads[l].got \cup Unseen(l, u)
    BY <1>13 DEF QueryUser, TypeOK, Load
  <2>2. \A i \in next.got : i > next.since
    BY <1>0, <1>13, <2>1 DEF QueryUser, BatchAbove, Unseen
  <2>3. Goto(l, next)
    BY <1>13 DEF QueryUser
  <2>4. \A m \in Loaders : BatchAbove(m)'
    <3>1. next.at # "fetchNew"
      BY <2>1
    <3> HIDE DEF next
    <3> QED BY <1>0, <2>2, <2>3, <3>1, BatchesKept
  <2> QED BY <1>13, <1>a, <2>4 DEF QueryUser, index, StoreInv
<1>14. ASSUME NEW l \in Loaders, NEW u \in Users, SkipUser(l, u) PROVE StoreInv'
  <2> DEFINE next == [loads[l] EXCEPT !.left = @ \ {u}]
  <2>1. /\ next.at = loads[l].at /\ next.since = loads[l].since /\ next.got = loads[l].got
    BY DEF TypeOK, Load
  <2>2. /\ next.at = "fetchNew" => next.got = {}
        /\ next.at \in {"append", "query"} => \A i \in next.got : i > next.since
    BY <1>0, <2>1 DEF BatchAbove
  <2>3. Goto(l, next)
    BY <1>14 DEF SkipUser
  <2>4. \A m \in Loaders : BatchAbove(m)'
    <3> HIDE DEF next
    <3> QED BY <1>0, <2>2, <2>3, BatchesKept
  <2> QED BY <1>14, <1>a, <2>4 DEF SkipUser, index, StoreInv
<1>15. ASSUME NEW l \in Loaders, AppendSummaries(l) PROVE StoreInv'
  <2>1. \A m \in Loaders : BatchAbove(m)'
    BY <1>0, <1>15, BatchesFinished DEF AppendSummaries
  <2>2. \A i \in loads[l].got : i > loads[l].since
    BY <1>0, <1>15 DEF AppendSummaries, BatchAbove
  <2>3. \A k \in Kinds : Listed(k)'
    BY <1>0, <1>15, <2>2, ListedAppended DEF AppendSummaries, Kinds
  <2> QED BY <2>1, <2>3 DEF StoreInv
<1>16. CASE Restart
  <2>1. ASSUME NEW k \in Kinds PROVE Listed(k)'
    BY <1>16, <2>1 DEF Restart, Listed, NoEntries, Ids
  <2>2. ASSUME NEW l \in Loaders PROVE BatchAbove(l)'
    BY <1>16, <2>2 DEF Restart, BatchAbove, At, Idle
  <2> QED BY <2>1, <2>2 DEF StoreInv
<1>17. CASE UNCHANGED vars
  BY <1>17, <1>a, <1>b DEF vars, index, StoreInv
<1> QED
  BY <1>1, <1>2, <1>3, <1>4, <1>5, <1>6, <1>7, <1>8, <1>9, <1>10, <1>11, <1>12,
     <1>13, <1>14, <1>15, <1>16, <1>17
     DEF Next, Step, ReloadVectors, LoadNewVectors, LoadNewArtifactSummaries

LEMMA StoreInvariant == Spec => [](TypeOK /\ StoreInv)
<1>1. Init => TypeOK /\ StoreInv
  BY TypeInit, StoreInit
<1>2. TypeOK /\ StoreInv /\ [Next]_vars => (TypeOK /\ StoreInv)'
  BY TypeStep, StoreStep
<1> QED BY <1>1, <1>2, PTL DEF Spec

(* No overlap of loads lists an id twice.                                  *)
THEOREM ListedOnce == Spec => []NoDuplicates
<1>1. TypeOK /\ StoreInv => NoDuplicates
  BY DEF StoreInv, Listed, NoDuplicates
<1> QED BY <1>1, StoreInvariant, PTL

(* The watermark is the greatest listed id, or zero.                        *)
THEOREM WatermarkIsExact == Spec => []WatermarkExact
<1>1. TypeOK /\ StoreInv => WatermarkExact
  <2> SUFFICES ASSUME TypeOK, StoreInv, NEW k \in Kinds
               PROVE  maxIDs[k] = Max(Indexed(k) \cup {0})
    BY DEF WatermarkExact
  <2>1. Listed(k) /\ maxIDs[k] \in 0 .. MaxRows /\ MaxRows \in Nat
    BY BoundsAssumption DEF StoreInv, TypeOK
  <2>2. /\ Max(Indexed(k) \cup {0}) \in Indexed(k) \cup {0}
        /\ \A i \in Indexed(k) \cup {0} : i <= Max(Indexed(k) \cup {0})
        /\ Max(Indexed(k) \cup {0}) \in 0 .. MaxRows
    <3>1. Indexed(k) \in SUBSET Ids /\ 0 \in 0 .. MaxRows
      BY <2>1 DEF Indexed
    <3> QED BY <3>1, MaxOfIds
  <2>3. maxIDs[k] \in Indexed(k) \cup {0}
    BY <2>1 DEF Listed, Indexed, Ids
  <2>4. \A i \in Indexed(k) \cup {0} : i <= maxIDs[k]
    BY <2>1 DEF Listed, Indexed
  <2> QED BY <2>1, <2>2, <2>3, <2>4
<1> QED BY <1>1, StoreInvariant, PTL

-----------------------------------------------------------------------------
(* 4. Topics are never hidden.                                             *)

(* A batch on its way has no gaps: of the topics still stored it holds       *)
(* every one above its watermark and up to its greatest.  Topics stored      *)
(* later have greater ids.                                                 *)
Gapless(load) ==
  records = "topics" /\ load.at \in {"replace", "append"} =>
    /\ load.got \subseteq 1 .. lastId["topics"]
    /\ load.at = "replace" => load.since = 0
    /\ \A i \in embedded["topics"] : \A g \in load.got :
         load.since < i /\ i <= g => i \in load.got

TopicRows ==
  /\ embedded["topics"] = stored["topics"]
  /\ stored["topics"] \subseteq 1 .. lastId["topics"]
  /\ records = "people" => stored["topics"] = {}

TopicsListed == \A i \in Ids : entries["topics"][i] > 0 => i <= lastId["topics"]

TopicInv ==
  /\ TopicRows /\ TopicsListed /\ TopicsNeverHidden
  /\ \A l \in Loaders : Gapless(loads[l])

(* The topics' rows and what is known of them.                              *)
topicRows == <<records, lastId["topics"], stored["topics"], embedded["topics"]>>
topicIndex == <<entries["topics"], maxIDs["topics"]>>

LEMMA TopicsSame ==
  ASSUME TopicInv, UNCHANGED topicRows, UNCHANGED topicIndex
  PROVE  TopicRows' /\ TopicsListed' /\ TopicsNeverHidden'
BY DEF TopicInv, TopicRows, TopicsListed, TopicsNeverHidden, Reachable, Indexed,
       topicRows, topicIndex

LEMMA RowsSame ==
  ASSUME TopicInv, UNCHANGED topicRows
  PROVE  TopicRows'
BY DEF TopicInv, TopicRows, topicRows

(* The rows stay: a goroutine that takes up a load without gaps leaves all   *)
(* without gaps.                                                           *)
LEMMA GaplessKept ==
  ASSUME TypeOK, TopicInv, UNCHANGED topicRows,
         NEW l \in Loaders, NEW next, Goto(l, next) \/ (Finish(l) /\ next = Idle),
         Gapless(next)
  PROVE  \A m \in Loaders : Gapless(loads[m])'
<1> SUFFICES ASSUME NEW m \in Loaders PROVE Gapless(loads[m])'
  OBVIOUS
<1>1. loads'[l] = next /\ (m # l => loads'[m] = loads[m])
  BY GotoOthers
<1>2. Gapless(loads[m])
  BY DEF TopicInv
<1> QED BY <1>1, <1>2 DEF Gapless, topicRows

LEMMA GaplessElsewhere ==
  ASSUME NEW load, load.at \notin {"replace", "append"}
  PROVE  Gapless(load)
BY DEF Gapless

LEMMA GaplessAt ==
  ASSUME NEW step, step \notin {"replace", "append"}
  PROVE  Gapless(At(step))
BY GaplessElsewhere DEF At

LEMMA GaplessIdle == Gapless(Idle)
BY GaplessElsewhere DEF At, Idle

(* The rows change, the loads and the index do not.                         *)
LEMMA GaplessDeleted ==
  ASSUME TypeOK, TopicInv, UNCHANGED <<records, lastId, loads, index>>,
         embedded'["topics"] \subseteq embedded["topics"]
  PROVE  /\ \A l \in Loaders : Gapless(loads[l])'
         /\ TopicsListed' /\ TopicsNeverHidden'
<1>1. ASSUME NEW l \in Loaders PROVE Gapless(loads[l])'
  <2>1. Gapless(loads[l])
    BY DEF TopicInv
  <2> QED BY <2>1 DEF Gapless
<1>2. TopicsListed' /\ TopicsNeverHidden'
  BY DEF TopicInv, TopicsListed, TopicsNeverHidden, Reachable, Indexed, index
<1> QED BY <1>1, <1>2

(* A new topic is above whatever is listed or on its way.                   *)
LEMMA InsertTopic ==
  ASSUME TypeOK, StoreInv, TopicInv, records = "topics", Insert("topics")
  PROVE  TopicInv'
<1> DEFINE n == lastId["topics"] + 1
<1>1. lastId["topics"] \in Nat /\ "topics" \in Kinds
  BY BoundsAssumption DEF TypeOK, Kinds
<1>2. /\ lastId'["topics"] = n
      /\ stored'["topics"] = stored["topics"] \cup {n}
      /\ embedded'["topics"] = embedded["topics"] \cup {n}
      /\ UNCHANGED <<records, loads, index>>
  BY <1>1 DEF Insert, NextId, BornEmbedded, TypeOK, index
<1>3. maxIDs["topics"] <= lastId["topics"]
  <2>1. maxIDs["topics"] \in 0 .. MaxRows /\ MaxRows \in Nat
    BY <1>1, BoundsAssumption DEF TypeOK
  <2>2. CASE maxIDs["topics"] = 0
    BY <1>1, <2>2
  <2>3. CASE maxIDs["topics"] # 0
    <3>1. maxIDs["topics"] \in Ids
      BY <2>1, <2>3 DEF Ids
    <3>2. entries["topics"][maxIDs["topics"]] > 0
      BY <1>1, <2>3 DEF StoreInv, Listed
    <3> QED BY <3>1, <3>2 DEF TopicInv, TopicsListed
  <2> QED BY <2>2, <2>3
<1>4. TopicRows'
  BY <1>1, <1>2 DEF TopicInv, TopicRows
<1>5. TopicsListed'
  BY <1>1, <1>2, BoundsAssumption DEF TopicInv, TopicsListed, index, Ids
<1>6. TopicsNeverHidden'
  <2>1. maxIDs["topics"] \in Nat
    BY <1>1, BoundsAssumption DEF TypeOK
  <2>2. ~(n <= maxIDs["topics"])
    BY <1>1, <1>3, <2>1
  <2>3. ASSUME NEW i \in embedded'["topics"], i <= maxIDs["topics"]
        PROVE  i \in Indexed("topics")
    BY <1>2, <2>2, <2>3 DEF TopicInv, TopicsNeverHidden, Reachable
  <2> QED BY <1>2, <2>3 DEF TopicsNeverHidden, Reachable, Indexed, index
<1>7. ASSUME NEW l \in Loaders PROVE Gapless(loads[l])'
  <2>1. Gapless(loads[l]) /\ loads'[l] = loads[l]
    BY <1>2 DEF TopicInv
  <2> SUFFICES ASSUME loads[l].at \in {"replace", "append"}
               PROVE  /\ loads[l].got \subseteq 1 .. n
                      /\ loads[l].at = "replace" => loads[l].since = 0
                      /\ \A i \in embedded["topics"] \cup {n} : \A g \in loads[l].got :
                           loads[l].since < i /\ i <= g => i \in loads[l].got
    BY <1>2, <2>1 DEF Gapless
  <2>2. /\ loads[l].got \subseteq 1 .. lastId["topics"]
        /\ loads[l].at = "replace" => loads[l].since = 0
        /\ \A i \in embedded["topics"] : \A g \in loads[l].got :
             loads[l].since < i /\ i <= g => i \in loads[l].got
    BY <2>1 DEF Gapless
  <2>3. \A g \in loads[l].got : ~(n <= g)
    BY <1>1, <2>2
  <2>4. loads[l].got \subseteq 1 .. n
    BY <1>1, <2>2
  <2> QED BY <2>2, <2>3, <2>4
<1> QED BY <1>4, <1>5, <1>6, <1>7 DEF TopicInv

(* A reload puts up a snapshot: what it lacks is above its greatest.         *)
LEMMA ReplaceTopics ==
  ASSUME TypeOK, TopicInv, records = "topics", UNCHANGED topicRows,
         NEW l \in Loaders, loads[l].at = "replace",
         ReplaceAll("topics", loads[l].got)
  PROVE  TopicsListed' /\ TopicsNeverHidden'
<1> DEFINE got == loads[l].got
<1>1. got \in SUBSET Ids /\ "topics" \in Kinds
  BY DEF TypeOK, Load, Kinds
<1>2. /\ got \subseteq 1 .. lastId["topics"] /\ loads[l].since = 0
      /\ \A i \in embedded["topics"] : \A g \in got : 0 < i /\ i <= g => i \in got
  BY DEF TopicInv, Gapless
<1>3. /\ \A i \in Ids : entries'["topics"][i] = IF i \in got THEN 1 ELSE 0
      /\ maxIDs'["topics"] \in got \cup {0}
  BY <1>1, Replaced
<1>4. lastId'["topics"] = lastId["topics"] /\ embedded'["topics"] = embedded["topics"]
  BY DEF topicRows
<1>5. TopicsListed'
  <2>1. \A i \in Ids : entries'["topics"][i] > 0 => i \in got
    BY <1>3
  <2>2. \A i \in got : i <= lastId["topics"]
    BY <1>2
  <2> QED BY <1>4, <2>1, <2>2 DEF TopicsListed
<1>6. ASSUME NEW i \in embedded["topics"], i <= maxIDs'["topics"]
      PROVE  i \in Ids /\ entries'["topics"][i] > 0
  <2>1. i \in Ids /\ 0 < i /\ ~(i <= 0)
    BY <1>1, BoundsAssumption DEF TypeOK, Ids
  <2>2. i \in got
    BY <1>2, <1>3, <1>6, <2>1
  <2> QED BY <1>3, <2>1, <2>2
<1>7. TopicsNeverHidden'
  BY <1>4, <1>6 DEF TopicsNeverHidden, Reachable, Indexed
<1> QED BY <1>5, <1>7

(* A fresh batch joins up with what is listed.                              *)
LEMMA AppendTopics ==
  ASSUME TypeOK, TopicInv, records = "topics", UNCHANGED topicRows,
         NEW l \in Loaders, loads[l].at = "append",
         AppendSince("topics", loads[l].since, loads[l].got)
  PROVE  TopicsListed' /\ TopicsNeverHidden'
<1> DEFINE got == loads[l].got
           since == loads[l].since
<1>1. /\ got \in SUBSET Ids /\ since \in Nat /\ "topics" \in Kinds
      /\ entries["topics"] \in [Ids -> Nat]
  BY BoundsAssumption DEF TypeOK, Load, Kinds
<1>2. /\ got \subseteq 1 .. lastId["topics"]
      /\ \A i \in embedded["topics"] : \A g \in got : since < i /\ i <= g => i \in got
  BY DEF TopicInv, Gapless
<1>3. lastId'["topics"] = lastId["topics"] /\ embedded'["topics"] = embedded["topics"]
  BY DEF topicRows
<1>4. CASE UNCHANGED index
  <2>1. UNCHANGED topicIndex
    BY <1>4 DEF index, topicIndex
  <2> QED BY <2>1, TopicsSame
<1>5. CASE ~ UNCHANGED index
  <2>1. /\ maxIDs["topics"] = since
        /\ \A i \in Ids : entries'["topics"][i] =
             IF i \in got THEN entries["topics"][i] + 1 ELSE entries["topics"][i]
        /\ maxIDs'["topics"] \in got \cup {since}
    BY <1>1, <1>5, Appended
  <2>2. TopicsListed'
    <3>1. \A i \in Ids : entries'["topics"][i] > 0 => i \in got \/ entries["topics"][i] > 0
      BY <2>1
    <3>2. \A i \in got : i <= lastId["topics"]
      BY <1>2
    <3> QED BY <1>3, <3>1, <3>2 DEF TopicInv, TopicsListed
  <2>3. ASSUME NEW i \in embedded["topics"], i <= maxIDs'["topics"]
        PROVE  i \in Ids /\ entries'["topics"][i] > 0
    <3>1. i \in Ids /\ i \in Nat
      BY <1>1, BoundsAssumption DEF TypeOK, Ids
    <3>2. CASE i <= since
      <4>1. entries["topics"][i] > 0
        BY <2>1, <3>2 DEF TopicInv, TopicsNeverHidden, Reachable, Indexed
      <4> QED BY <1>1, <2>1, <3>1, <4>1
    <3>3. CASE ~(i <= since)
      <4>1. since < i
        BY <1>1, <3>1, <3>3
      <4>2. i \in got
        BY <1>2, <2>1, <2>3, <3>3, <4>1
      <4>3. entries["topics"][i] \in Nat
        BY <1>1, <3>1
      <4> QED BY <2>1, <3>1, <4>2, <4>3
    <3> QED BY <3>2, <3>3
  <2>4. TopicsNeverHidden'
    BY <1>3, <2>3 DEF TopicsNeverHidden, Reachable, Indexed
  <2> QED BY <2>2, <2>4
<1> QED BY <1>4, <1>5

LEMMA TopicInit == Init => TopicInv
<1> SUFFICES ASSUME Init PROVE TopicInv
  OBVIOUS
<1>1. TopicRows /\ TopicsListed /\ TopicsNeverHidden
  BY DEF Init, TopicRows, TopicsListed, TopicsNeverHidden, Reachable, NoEntries, Kinds
<1>2. ASSUME NEW l \in Loaders PROVE Gapless(loads[l])
  BY <1>2, GaplessAt, GaplessIdle DEF Init
<1> QED BY <1>1, <1>2 DEF TopicInv

LEMMA TopicStep == TypeOK /\ StoreInv /\ TopicInv /\ [Next]_vars => TopicInv'
<1> SUFFICES ASSUME TypeOK, StoreInv, TopicInv, [Next]_vars PROVE TopicInv'
  OBVIOUS
<1>0. /\ \A m \in Loaders : Gapless(loads[m])
      /\ records \in {"topics", "people"}
      /\ "topics" \in Kinds /\ "people" \in Kinds /\ "artifacts" \in Kinds
      /\ \A l \in Loaders : loads[l].got \in SUBSET Ids /\ loads[l].since \in Nat
  BY DEF TopicInv, TypeOK, Kinds, Load
(* Most steps leave rows and index of the topics alone.                     *)
<1>a. ASSUME UNCHANGED topicRows, UNCHANGED topicIndex,
             \A m \in Loaders : Gapless(loads[m])'
      PROVE  TopicInv'
  BY <1>a, TopicsSame DEF TopicInv
<1>b. ASSUME UNCHANGED <<records, tables>> PROVE UNCHANGED topicRows
  BY <1>b DEF tables, topicRows
<1>c. ASSUME UNCHANGED index PROVE UNCHANGED topicIndex
  BY <1>c DEF index, topicIndex
<1>1. ASSUME NEW k \in Followed, Insert(k) PROVE TopicInv'
  <2>1. CASE k = "topics"
    BY <1>0, <1>1, <2>1, InsertTopic DEF Followed
  <2>2. CASE k # "topics"
    <3>1. k \in Kinds
      BY <1>0 DEF Followed
    <3>2. UNCHANGED topicRows /\ UNCHANGED loads /\ UNCHANGED topicIndex
      BY <1>0, <1>1, <1>c, <2>2, <3>1 DEF Insert, topicRows, TypeOK
    <3>3. \A m \in Loaders : Gapless(loads[m])'
      BY <1>0, <3>2 DEF Gapless, topicRows
    <3> QED BY <1>a, <3>2, <3>3
  <2> QED BY <2>1, <2>2
<1>2. ASSUME NEW k \in Followed, NEW id \in Ids, Embed(k, id) PROVE TopicInv'
  <2>1. k \in Kinds /\ k # "topics"
    BY <1>0, <1>2 DEF Followed, Embed, TopicInv, TopicRows
  <2>2. UNCHANGED topicRows /\ UNCHANGED loads /\ UNCHANGED topicIndex
    BY <1>0, <1>2, <1>c, <2>1 DEF Embed, topicRows, TypeOK
  <2>3. \A m \in Loaders : Gapless(loads[m])'
    BY <1>0, <2>2 DEF Gapless, topicRows
  <2> QED BY <1>a, <2>2, <2>3
<1>3. ASSUME NEW id \in Ids, Delete(id) PROVE TopicInv'
  <2>1. /\ embedded'["topics"] = stored'["topics"]
        /\ stored'["topics"] \subseteq stored["topics"]
        /\ UNCHANGED <<records, lastId, loads, index>>
    BY <1>0, <1>3 DEF Delete, TypeOK, TopicInv, TopicRows
  <2>2. TopicRows'
    BY <2>1 DEF TopicInv, TopicRows
  <2>3. embedded'["topics"] \subseteq embedded["topics"]
    BY <2>1 DEF TopicInv, TopicRows
  <2> QED BY <2>1, <2>2, <2>3, GaplessDeleted DEF TopicInv
<1>4. ASSUME NEW l \in Loaders, NEW step \in {"fetch", "sample", "sampleSummaries"},
             Begin(l, step)
      PROVE  TopicInv'
  <2>1. UNCHANGED topicRows /\ UNCHANGED topicIndex
    BY <1>4, <1>b, <1>c DEF Begin
  <2>2. \A m \in Loaders : Gapless(loads[m])'
    BY <1>4, <2>1, GaplessAt, GaplessKept DEF Begin
  <2> QED BY <1>a, <2>1, <2>2
<1>5. ASSUME NEW l \in Loaders, Fetch(l) PROVE TopicInv'
  <2> DEFINE next == [At("replace") EXCEPT !.got = embedded[records]]
  <2>1. UNCHANGED topicRows /\ UNCHANGED topicIndex
    BY <1>5, <1>b, <1>c DEF Fetch
  <2>2. next.at = "replace" /\ next.since = 0 /\ next.got = embedded[records]
    BY DEF At
  <2>3. Gapless(next)
    <3> HIDE DEF next
    <3> QED BY <2>2 DEF Gapless, TopicInv, TopicRows
  <2>4. \A m \in Loaders : Gapless(loads[m])'
    <3>1. Goto(l, next)
      BY <1>5 DEF Fetch
    <3> HIDE DEF next
    <3> QED BY <2>1, <2>3, <3>1, GaplessKept
  <2> QED BY <1>a, <2>1, <2>4
<1>6. ASSUME NEW l \in Loaders, FetchFails(l) PROVE TopicInv'
  <2> DEFINE next == [loads[l] EXCEPT !.at = IF @ = "fetch" THEN "replace" ELSE "append"]
  <2>1. UNCHANGED topicRows /\ UNCHANGED topicIndex
    BY <1>6, <1>b, <1>c DEF FetchFails
  <2>2. CASE Finish(l)
    BY <1>a, <2>1, <2>2, GaplessIdle, GaplessKept
  <2>3. CASE records = "people" /\ Goto(l, next)
    <3>1. Gapless(next)
      BY <2>3 DEF Gapless
    <3>2. \A m \in Loaders : Gapless(loads[m])'
      <4> HIDE DEF next
      <4> QED BY <2>1, <2>3, <3>1, GaplessKept
    <3> QED BY <1>a, <2>1, <3>2
  <2> QED BY <1>6, <2>2, <2>3 DEF FetchFails
<1>7. ASSUME NEW l \in Loaders, Replace(l) PROVE TopicInv'
  <2>1. UNCHANGED topicRows
    BY <1>7, <1>b DEF Replace
  <2>2. \A m \in Loaders : Gapless(loads[m])'
    BY <1>7, <2>1, GaplessAt, GaplessKept DEF Replace
  <2>3. CASE records = "topics"
    BY <1>7, <2>1, <2>2, <2>3, ReplaceTopics, RowsSame DEF Replace, TopicInv
  <2>4. CASE records = "people"
    <3>1. UNCHANGED topicIndex
      BY <1>0, <1>7, <2>4, Replaced DEF Replace, topicIndex
    <3> QED BY <1>a, <2>1, <2>2, <3>1
  <2> QED BY <1>0, <2>3, <2>4
<1>8. ASSUME NEW l \in Loaders, ResetArtifacts(l) PROVE TopicInv'
  <2>1. UNCHANGED topicRows
    BY <1>8, <1>b DEF ResetArtifacts
  <2>2. \A m \in Loaders : Gapless(loads[m])'
    BY <1>8, <2>1, GaplessAt, GaplessKept DEF ResetArtifacts
  <2>3. UNCHANGED topicIndex
    BY <1>0, <1>8, Replaced DEF ResetArtifacts, topicIndex
  <2> QED BY <1>a, <2>1, <2>2, <2>3
<1>9. ASSUME NEW l \in Loaders, Sample(l) PROVE TopicInv'
  <2>1. UNCHANGED topicRows /\ UNCHANGED topicIndex
    BY <1>9, <1>b, <1>c DEF Sample
  <2>2. Gapless([At("fetchNew") EXCEPT !.since = maxIDs[records]])
    BY GaplessElsewhere DEF At
  <2>3. \A m \in Loaders : Gapless(loads[m])'
    BY <1>9, <2>1, <2>2, GaplessKept DEF Sample
  <2> QED BY <1>a, <2>1, <2>3
<1>10. ASSUME NEW l \in Loaders, FetchNew(l) PROVE TopicInv'
  <2> DEFINE newer == {i \in stored[records] : i > loads[l].since}
             next == [loads[l] EXCEPT !.at = "append", !.got = newer \cap embedded[records]]
  <2>1. UNCHANGED topicRows /\ UNCHANGED topicIndex
    BY <1>10, <1>b, <1>c DEF FetchNew
  <2>2. /\ next.at = "append" /\ next.since = loads[l].since
        /\ next.got = newer \cap embedded[records]
    BY DEF TypeOK, Load
  <2>3. Gapless(next)
    <3>1. \A i \in embedded["topics"] :
            records = "topics" /\ loads[l].since < i => i \in next.got
      <4>1. \A i \in embedded["topics"] : i \in Ids /\ i \in stored["topics"]
        BY <1>0 DEF TypeOK, TopicInv, TopicRows
      <4>2. loads[l].since \in Nat
        BY <1>0
      <4> QED BY <2>2, <4>1, <4>2, BoundsAssumption DEF Ids
    <3>2. records = "topics" => next.got \subseteq 1 .. lastId["topics"]
      BY <2>2 DEF TopicInv, TopicRows
    <3> HIDE DEF next
    <3> QED BY <2>2, <3>1, <3>2 DEF Gapless
  <2>4. \A m \in Loaders : Gapless(loads[m])'
    <3>1. Goto(l, next)
      BY <1>10 DEF FetchNew
    <3> HIDE DEF next
    <3> QED BY <2>1, <2>3, <3>1, GaplessKept
  <2> QED BY <1>a, <2>1, <2>4
<1>11. ASSUME NEW l \in Loaders, NothingNew(l) PROVE TopicInv'
  <2>1. UNCHANGED topicRows /\ UNCHANGED topicIndex
    BY <1>11, <1>b, <1>c DEF NothingNew
  <2>2. \A m \in Loaders : Gapless(loads[m])'
    BY <1>11, <2>1, GaplessIdle, GaplessKept DEF NothingNew
  <2> QED BY <1>a, <2>1, <2>2
<1>12. ASSUME NEW l \in Loaders, AppendRecords(l) PROVE TopicInv'
  <2>1. UNCHANGED topicRows
    BY <1>12, <1>b DEF AppendRecords
  <2>2. \A m \in Loaders : Gapless(loads[m])'
    BY <1>12, <2>1, GaplessAt, GaplessKept DEF AppendRecords
  <2>3. CASE records = "topics"
    BY <1>12, <2>1, <2>2, <2>3, AppendTopics, RowsSame DEF AppendRecords, TopicInv
  <2>4. CASE records = "people"
    <3>1. UNCHANGED topicIndex
      BY <1>0, <1>12, <1>c, <2>4, Appended DEF AppendRecords, topicIndex
    <3> QED BY <1>a, <2>1, <2>2, <3>1
  <2> QED BY <1>0, <2>3, <2>4
<1>13. ASSUME NEW l \in Loaders, SampleSummaries(l) PROVE TopicInv'
  <2>1. UNCHANGED topicRows /\ UNCHANGED topicIndex
    BY <1>13, <1>b, <1>c DEF SampleSummaries
  <2>2. Gapless([At("query") EXCEPT !.since = maxIDs["artifacts"], !.left = Users])
    BY GaplessElsewhere DEF At
  <2>3. \A m \in Loaders : Gapless(loads[m])'
    BY <1>13, <2>1, <2>2, GaplessKept DEF SampleSummaries
  <2> QED BY <1>a, <2>1, <2>3
<1>14. ASSUME NEW l \in Loaders, NEW u \in Users, QueryUser(l, u) \/ SkipUser(l, u)
       PROVE  TopicInv'
  <2>1. UNCHANGED topicRows /\ UNCHANGED topicIndex
    BY <1>14, <1>b, <1>c DEF QueryUser, SkipUser
  <2>2. \A m \in Loaders : Gapless(loads[m])'
    <3>1. CASE QueryUser(l, u)
      <4> DEFINE next == [loads[l] EXCEPT !.got = @ \cup Unseen(l, u), !.left = @ \ {u}]
      <4>1. Goto(l, next) /\ next.at = "query"
        BY <3>1 DEF QueryUser, TypeOK, Load
      <4> HIDE DEF next
      <4> QED BY <1>0, <2>1, <4>1, GaplessElsewhere, GaplessKept
    <3>2. CASE SkipUser(l, u)
      <4> DEFINE next == [loads[l] EXCEPT !.left = @ \ {u}]
      <4>1. Goto(l, next) /\ next.at = "query"
        BY <3>2 DEF SkipUser, TypeOK, Load
      <4> HIDE DEF next
      <4> QED BY <1>0, <2>1, <4>1, GaplessElsewhere, GaplessKept
    <3> QED BY <1>14, <3>1, <3>2
  <2> QED BY <1>a, <2>1, <2>2
<1>15. ASSUME NEW l \in Loaders, AppendSummaries(l) PROVE TopicInv'
  <2>1. UNCHANGED topicRows
    BY <1>15, <1>b DEF AppendSummaries
  <2>2. \A m \in Loaders : Gapless(loads[m])'
    BY <1>15, <2>1, GaplessIdle, GaplessKept DEF AppendSummaries
  <2>3. UNCHANGED topicIndex
    BY <1>0, <1>15, <1>c, Appended DEF AppendSummaries, topicIndex
  <2> QED BY <1>a, <2>1, <2>2, <2>3
<1>16. CASE Restart
  <2>1. TopicRows'
    BY <1>16, <1>b, RowsSame DEF Restart
  <2>2. TopicsListed' /\ TopicsNeverHidden'
    <3>1. \A i \in embedded["topics"] : ~(i <= 0)
      BY <1>0, BoundsAssumption DEF TypeOK, Ids
    <3> QED BY <1>0, <1>16, <3>1
            DEF Restart, NoEntries, TopicsListed, TopicsNeverHidden, Reachable, tables
  <2>3. ASSUME NEW m \in Loaders PROVE Gapless(loads[m])'
    <3>1. loads'[m].at \in {"fetch", "idle"}
      BY <1>16 DEF Restart, At, Idle
    <3> QED BY <3>1 DEF Gapless
  <2> QED BY <2>1, <2>2, <2>3 DEF TopicInv
<1>17. CASE UNCHANGED vars
  <2>1. \A m \in Loaders : Gapless(loads[m])'
    BY <1>0, <1>17 DEF vars, Gapless, tables
  <2> QED BY <1>17, <1>a, <1>b, <1>c, <2>1 DEF vars
<1> QED
  BY <1>1, <1>2, <1>3, <1>4, <1>5, <1>6, <1>7, <1>8, <1>9, <1>10, <1>11, <1>12,
     <1>13, <1>14, <1>15, <1>16, <1>17
     DEF Next, Step, ReloadVectors, LoadNewVectors, LoadNewArtifactSummaries

(* However loads overlap, fail or are discarded, a stored topic is in the    *)
(* index or above the watermark, where the next incremental load finds it.   *)
THEOREM TopicsAreReachable == Spec => []TopicsNeverHidden
<1>1. Init => TopicInv
  BY TopicInit
<1>2. TypeOK /\ StoreInv /\ TopicInv /\ [Next]_vars => TopicInv'
  BY TopicStep
<1>3. TopicInv => TopicsNeverHidden
  BY DEF TopicInv
<1> QED BY <1>1, <1>2, <1>3, StoreInvariant, PTL DEF Spec

-----------------------------------------------------------------------------
(* 5. When artifacts are not hidden.                                        *)
(*                                                                         *)
(* ArtifactsNeverHidden is false of the code.  An artifact is hidden when a *)
(* lower id becomes ready after a higher one; but also when it becomes      *)
(* ready between the queries of two users in one load, when its user's      *)
(* query fails in a load that goes on, and when its user has more new       *)
(* artifacts than a page.  When none of the four happens, none is hidden.   *)

Ready == embedded["artifacts"]

(* Artifacts become ready in the order of their ids ...                     *)
ReadyInOrder == \A i \in Ready' \ Ready : \A j \in Ready : j < i

(* ... and not while a load has asked for some users and not for others,    *)
NotMidway ==
  Ready' # Ready =>
    \A l \in Loaders : loads[l].at = "query" => loads[l].left \in {Users, {}}

(* no user with a new artifact is skipped,                                  *)
New(l, u) == {i \in Ready : owner[i] = u /\ i > loads[l].since}
NobodySkipped ==
  \A l \in Loaders : \A u \in Users : SkipUser(l, u) => New(l, u) = {}

(* and what is new of a user fits on a page.                                *)
FitsOnPage ==
  \A l \in Loaders : \A u \in Users : QueryUser(l, u) => Cardinality(New(l, u)) <= Page

Mild == ReadyInOrder /\ NotMidway /\ NobodySkipped /\ FitsOnPage

(* A batch holds ready artifacts, of the users it asked for all up to its    *)
(* greatest, and all of them as long as users are left.                     *)
Covers(load) ==
  load.at = "query" =>
    /\ load.got \subseteq Ready
    /\ \A i \in Ready : owner[i] \notin load.left /\ load.since < i =>
         /\ load.left # {} => i \in load.got
         /\ \A g \in load.got : i <= g => i \in load.got

ArtifactInv ==
  /\ ArtifactsNeverHidden
  /\ Indexed("artifacts") \subseteq Ready
  /\ \A l \in Loaders : Covers(loads[l])

artifactRows == <<embedded["artifacts"], owner>>
artifactIndex == <<entries["artifacts"], maxIDs["artifacts"]>>

LEMMA ArtifactTypes ==
  ASSUME TypeOK
  PROVE  /\ "artifacts" \in Kinds /\ records \in Kinds /\ records # "artifacts"
         /\ Ready \in SUBSET Ids /\ \A i \in Ids : i \in Nat /\ i > 0
         /\ maxIDs["artifacts"] \in Nat /\ entries["artifacts"] \in [Ids -> Nat]
         /\ \A l \in Loaders : /\ loads[l].got \in SUBSET Ids /\ loads[l].since \in Nat
                               /\ loads[l].left \in SUBSET Users
<1>1. "artifacts" \in Kinds /\ records \in Kinds /\ records # "artifacts"
  BY DEF TypeOK, Kinds
<1>2. \A i \in Ids : i \in Nat /\ i > 0
  BY BoundsAssumption DEF Ids
<1>3. Ready \in SUBSET Ids /\ entries["artifacts"] \in [Ids -> Nat]
  BY <1>1 DEF TypeOK, Ready
<1>4. maxIDs["artifacts"] \in Nat
  BY <1>1, BoundsAssumption DEF TypeOK
<1>5. ASSUME NEW l \in Loaders
      PROVE  /\ loads[l].got \in SUBSET Ids /\ loads[l].since \in Nat
             /\ loads[l].left \in SUBSET Users
  BY BoundsAssumption DEF TypeOK, Load
<1> QED BY <1>1, <1>2, <1>3, <1>4, <1>5

(* The rows stay: a goroutine that takes up a load that covers its users     *)
(* leaves all such.                                                        *)
LEMMA CoversKept ==
  ASSUME TypeOK, ArtifactInv, UNCHANGED artifactRows,
         NEW l \in Loaders, NEW next, Goto(l, next) \/ (Finish(l) /\ next = Idle),
         Covers(next)
  PROVE  \A m \in Loaders : Covers(loads[m])'
<1> SUFFICES ASSUME NEW m \in Loaders PROVE Covers(loads[m])'
  OBVIOUS
<1>1. loads'[l] = next /\ (m # l => loads'[m] = loads[m])
  BY GotoOthers
<1>2. Covers(loads[m])
  BY DEF ArtifactInv
<1> QED BY <1>1, <1>2 DEF Covers, artifactRows, Ready

LEMMA CoversElsewhere ==
  ASSUME NEW load, load.at # "query" \/ (load.got = {} /\ load.left = Users),
         \A i \in Ready : owner[i] \in Users
  PROVE  Covers(load)
BY DEF Covers

(* Index and rows of the artifacts stay.                                    *)
LEMMA ArtifactsSame ==
  ASSUME ArtifactInv, UNCHANGED artifactRows, UNCHANGED artifactIndex
  PROVE  ArtifactsNeverHidden' /\ (Indexed("artifacts") \subseteq Ready)'
BY DEF ArtifactInv, ArtifactsNeverHidden, Reachable, Indexed, Ready, artifactRows, artifactIndex

(* An artifact above all ready ones is above the watermark too.             *)
LEMMA EmbedArtifact ==
  ASSUME TypeOK, StoreInv, ArtifactInv, ReadyInOrder, NotMidway,
         NEW id \in Ids, Embed("artifacts", id)
  PROVE  ArtifactInv'
<1>0. /\ "artifacts" \in Kinds /\ Ready \in SUBSET Ids /\ \A i \in Ids : i \in Nat /\ i > 0
      /\ maxIDs["artifacts"] \in Nat
  BY ArtifactTypes
<1>1. /\ Ready' = Ready \cup {id} /\ id \notin Ready
      /\ UNCHANGED <<owner, loads, entries, maxIDs>>
  BY <1>0 DEF Embed, Ready, TypeOK, index
<1>2. \A j \in Ready : j < id
  BY <1>1 DEF ReadyInOrder
<1>3. maxIDs["artifacts"] < id
  <2>1. CASE maxIDs["artifacts"] = 0
    BY <1>0, <2>1
  <2>2. CASE maxIDs["artifacts"] # 0
    <3>1. maxIDs["artifacts"] \in Ids /\ entries["artifacts"][maxIDs["artifacts"]] > 0
      BY <1>0, <2>2, BoundsAssumption DEF StoreInv, Listed, TypeOK, Ids
    <3>2. maxIDs["artifacts"] \in Ready
      BY <3>1 DEF ArtifactInv, Indexed
    <3> QED BY <1>2, <3>2
  <2> QED BY <2>1, <2>2
<1>4. ArtifactsNeverHidden'
  <2>1. \A i \in Ready : i <= maxIDs["artifacts"] => i \in Indexed("artifacts")
    BY DEF ArtifactInv, ArtifactsNeverHidden, Reachable, Ready
  <2>2. ~ (id <= maxIDs["artifacts"])
    BY <1>0, <1>3
  <2>3. \A i \in Ready' : i <= maxIDs'["artifacts"] => i \in Indexed("artifacts")'
    BY <1>1, <2>1, <2>2 DEF Indexed
  <2> QED BY <2>3 DEF ArtifactsNeverHidden, Reachable, Ready
<1>5. (Indexed("artifacts") \subseteq Ready)'
  BY <1>1 DEF ArtifactInv, Indexed
<1>6. ASSUME NEW l \in Loaders, loads[l].at = "query" PROVE Covers(loads[l])'
  <2>1. Covers(loads[l]) /\ loads[l].left \in {Users, {}}
    BY <1>1, <1>6 DEF ArtifactInv, NotMidway
  <2>2. \A g \in loads[l].got : ~ (id <= g)
    BY <1>0, <1>2, <1>6, <2>1 DEF Covers
  <2>3. owner[id] \in Users
    BY DEF TypeOK
  <2> QED BY <1>1, <1>6, <2>1, <2>2, <2>3 DEF Covers
<1>7. \A l \in Loaders : Covers(loads[l])'
  BY <1>1, <1>6 DEF Covers
<1> QED BY <1>4, <1>5, <1>7 DEF ArtifactInv

(* What is new and fits on a page is on it.                                 *)
LEMMA PageHolds ==
  ASSUME TypeOK, NEW l \in Loaders, NEW u \in Users, Cardinality(New(l, u)) <= Page
  PROVE  New(l, u) \subseteq Unseen(l, u)
<1> SUFFICES ASSUME NEW i \in New(l, u) PROVE i \in Unseen(l, u)
  OBVIOUS
<1> DEFINE ready == {j \in embedded["artifacts"] : owner[j] = u}
           above == {j \in ready : j > i}
<1>1. /\ Ready \in SUBSET Ids /\ \A j \in Ids : j \in Nat /\ loads[l].since \in Nat
  BY ArtifactTypes
<1>2. i \in ready /\ i > loads[l].since
  BY DEF New, Ready
<1>3. IsFiniteSet(New(l, u))
  <2>1. IsFiniteSet(Ids)
    BY FS_Interval, BoundsAssumption DEF Ids
  <2>2. New(l, u) \subseteq Ids
    BY <1>1 DEF New
  <2> QED BY <2>1, <2>2, FS_Subset
<1>4. above \subseteq New(l, u) \ {i}
  BY <1>1, <1>2 DEF New, Ready
<1>5. /\ IsFiniteSet(New(l, u) \ {i})
      /\ Cardinality(New(l, u) \ {i}) = Cardinality(New(l, u)) - 1
  BY <1>3, FS_RemoveElement
<1>6. Cardinality(above) <= Cardinality(New(l, u)) - 1 /\ Cardinality(above) \in Nat
  <2> HIDE DEF above
  <2> QED BY <1>4, <1>5, FS_Subset, FS_CardinalityType
<1>7. Cardinality(New(l, u)) \in Nat
  BY <1>3, FS_CardinalityType
<1>8. Cardinality(above) < Page
  <2> HIDE DEF above
  <2> QED BY <1>6, <1>7, BoundsAssumption
<1> QED BY <1>2, <1>8 DEF Unseen, NewestReady

LEMMA ArtifactInit == Init => ArtifactInv
<1> SUFFICES ASSUME Init PROVE ArtifactInv
  OBVIOUS
<1>1. Ready = {} /\ Indexed("artifacts") = {}
  BY DEF Init, Ready, Indexed, NoEntries, Kinds
<1>2. \A l \in Loaders : loads[l].at # "query"
  BY DEF Init, At, Idle
<1> QED BY <1>1, <1>2 DEF ArtifactInv, ArtifactsNeverHidden, Reachable, Covers, Ready

(* The batch of a load whose users have all been asked joins up with what   *)
(* is listed.                                                              *)
LEMMA AppendArtifacts ==
  ASSUME TypeOK, ArtifactInv, UNCHANGED artifactRows,
         NEW l \in Loaders, loads[l].at = "query", loads[l].left = {},
         AppendSince("artifacts", loads[l].since, loads[l].got)
  PROVE  ArtifactsNeverHidden' /\ (Indexed("artifacts") \subseteq Ready)'
<1> DEFINE got == loads[l].got
           since == loads[l].since
<1>1. /\ got \in SUBSET Ids /\ since \in Nat /\ "artifacts" \in Kinds
      /\ entries["artifacts"] \in [Ids -> Nat]
      /\ Ready \in SUBSET Ids /\ \A i \in Ids : i \in Nat
  BY ArtifactTypes
<1>2. /\ got \subseteq Ready
      /\ \A i \in Ready : since < i => \A g \in got : i <= g => i \in got
  BY DEF ArtifactInv, Covers
<1>3. Ready' = Ready
  BY DEF artifactRows, Ready
<1>4. CASE UNCHANGED index
  <2>1. UNCHANGED artifactIndex
    BY <1>4 DEF index, artifactIndex
  <2> QED BY <2>1, ArtifactsSame
<1>5. CASE ~ UNCHANGED index
  <2>1. /\ maxIDs["artifacts"] = since
        /\ \A i \in Ids : entries'["artifacts"][i] =
             IF i \in got THEN entries["artifacts"][i] + 1 ELSE entries["artifacts"][i]
        /\ maxIDs'["artifacts"] \in got \cup {since}
    BY <1>1, <1>5, Appended
  <2>2. (Indexed("artifacts") \subseteq Ready)'
    BY <1>2, <1>3, <2>1 DEF ArtifactInv, Indexed
  <2>3. ASSUME NEW i \in Ready, i <= maxIDs'["artifacts"]
        PROVE  i \in Ids /\ entries'["artifacts"][i] > 0
    <3>1. i \in Ids /\ i \in Nat /\ entries["artifacts"][i] \in Nat
      BY <1>1
    <3>2. CASE i <= since
      <4>1. entries["artifacts"][i] > 0
        BY <2>1, <3>2 DEF ArtifactInv, ArtifactsNeverHidden, Reachable, Indexed, Ready
      <4> QED BY <2>1, <3>1, <4>1
    <3>3. CASE ~ (i <= since)
      <4>1. since < i
        BY <1>1, <3>1, <3>3
      <4>2. i \in got
        BY <1>2, <2>1, <2>3, <3>3, <4>1
      <4> QED BY <2>1, <3>1, <4>2
    <3> QED BY <3>2, <3>3
  <2>4. ArtifactsNeverHidden'
    BY <1>3, <2>3 DEF ArtifactsNeverHidden, Reachable, Indexed, Ready
  <2> QED BY <2>2, <2>4
<1> QED BY <1>4, <1>5

LEMMA ArtifactStep ==
  TypeOK /\ StoreInv /\ ArtifactInv /\ [Next]_vars /\ [Mild]_vars => ArtifactInv'
<1> SUFFICES ASSUME TypeOK, StoreInv, ArtifactInv, [Next]_vars, [Mild]_vars PROVE ArtifactInv'
  OBVIOUS
<1>0. /\ "artifacts" \in Kinds /\ records \in Kinds /\ records # "artifacts"
      /\ Ready \in SUBSET Ids /\ \A i \in Ids : i \in Nat /\ i > 0
      /\ \A l \in Loaders : /\ loads[l].got \in SUBSET Ids /\ loads[l].since \in Nat
                            /\ loads[l].left \in SUBSET Users
      /\ \A i \in Ids : owner[i] \in Users
      /\ \A m \in Loaders : Covers(loads[m])
  BY ArtifactTypes DEF ArtifactInv, TypeOK
<1>a. ASSUME UNCHANGED artifactRows, UNCHANGED artifactIndex,
             \A m \in Loaders : Covers(loads[m])'
      PROVE  ArtifactInv'
  BY <1>a, ArtifactsSame DEF ArtifactInv
<1>b. ASSUME UNCHANGED tables PROVE UNCHANGED artifactRows
  BY <1>b DEF tables, artifactRows
<1>c. ASSUME UNCHANGED index PROVE UNCHANGED artifactIndex
  BY <1>c DEF index, artifactIndex
<1>d. ASSUME NEW step PROVE step # "query" => Covers(At(step))
  BY DEF Covers, At
<1>e. Covers(Idle)
  BY <1>d DEF Idle
<1>1. ASSUME NEW k \in Followed, Insert(k) PROVE ArtifactInv'
  <2>1. k \in Kinds
    BY <1>0 DEF Followed
  <2>2. UNCHANGED artifactRows /\ UNCHANGED index /\ UNCHANGED loads
    BY <1>0, <1>1, <2>1 DEF Insert, artifactRows, TypeOK, BornEmbedded
  <2>3. \A m \in Loaders : Covers(loads[m])'
    BY <1>0, <2>2 DEF Covers, Ready, artifactRows
  <2> QED BY <1>a, <1>c, <2>2, <2>3
<1>2. ASSUME NEW k \in Followed, NEW id \in Ids, Embed(k, id) PROVE ArtifactInv'
  <2>1. k \in Kinds
    BY <1>0 DEF Followed
  <2>2. CASE k = "artifacts"
    <3>1. embedded' # embedded
      BY <1>0, <1>2, <2>2 DEF Embed, TypeOK
    <3>2. Mild
      BY <3>1 DEF vars, tables
    <3> QED BY <1>2, <2>2, <3>2, EmbedArtifact DEF Mild
  <2>3. CASE k # "artifacts"
    <3>1. UNCHANGED artifactRows /\ UNCHANGED index /\ UNCHANGED loads
      BY <1>0, <1>2, <2>1, <2>3 DEF Embed, artifactRows, TypeOK
    <3>2. \A m \in Loaders : Covers(loads[m])'
      BY <1>0, <3>1 DEF Covers, Ready, artifactRows
    <3> QED BY <1>a, <1>c, <3>1, <3>2
  <2> QED BY <2>2, <2>3
<1>3. ASSUME NEW id \in Ids, Delete(id) PROVE ArtifactInv'
  <2>1. UNCHANGED artifactRows /\ UNCHANGED index /\ UNCHANGED loads
    BY <1>0, <1>3 DEF Delete, artifactRows, TypeOK
  <2>2. \A m \in Loaders : Covers(loads[m])'
    BY <1>0, <2>1 DEF Covers, Ready, artifactRows
  <2> QED BY <1>a, <1>c, <2>1, <2>2
<1>4. ASSUME NEW l \in Loaders, NEW step \in {"fetch", "sample", "sampleSummaries"},
             Begin(l, step)
      PROVE  ArtifactInv'
  <2>1. \A m \in Loaders : Covers(loads[m])'
    BY <1>4, <1>b, <1>d, CoversKept DEF Begin
  <2> QED BY <1>4, <1>a, <1>b, <1>c, <2>1 DEF Begin
<1>5. ASSUME NEW l \in Loaders, Fetch(l) \/ Sample(l) \/ FetchNew(l) \/ NothingNew(l) \/ FetchFails(l)
      PROVE  ArtifactInv'
  <2>1. UNCHANGED artifactRows /\ UNCHANGED artifactIndex
    BY <1>5, <1>b, <1>c DEF Fetch, Sample, FetchNew, NothingNew, FetchFails
  <2>2. \E next : (Goto(l, next) \/ (Finish(l) /\ next = Idle)) /\ next.at # "query"
    <3>1. CASE Fetch(l)
      BY <3>1 DEF Fetch, At
    <3>2. CASE Sample(l)
      BY <3>2 DEF Sample, At
    <3>3. CASE FetchNew(l)
      <4> DEFINE next == [loads[l] EXCEPT !.at = "append",
                            !.got = {i \in stored[records] : i > loads[l].since} \cap embedded[records]]
      <4>1. Goto(l, next) /\ next.at = "append"
        BY <3>3 DEF FetchNew, TypeOK, Load
      <4> HIDE DEF next
      <4> QED BY <4>1
    <3>4. CASE Finish(l)
      <4>1. Idle.at # "query"
        BY DEF Idle, At
      <4> QED BY <3>4, <4>1
    <3>5. CASE FetchFails(l) /\ ~ Finish(l)
      <4> DEFINE next == [loads[l] EXCEPT !.at = IF @ = "fetch" THEN "replace" ELSE "append"]
      <4>1. Goto(l, next) /\ next.at \in {"replace", "append"}
        BY <3>5 DEF FetchFails, TypeOK, Load
      <4> HIDE DEF next
      <4> QED BY <4>1
    <3> QED BY <1>5, <3>1, <3>2, <3>3, <3>4, <3>5 DEF NothingNew
  <2>3. PICK next : (Goto(l, next) \/ (Finish(l) /\ next = Idle)) /\ next.at # "query"
    BY <2>2
  <2>4. \A m \in Loaders : Covers(loads[m])'
    BY <2>1, <2>3, CoversKept DEF Covers
  <2> QED BY <1>a, <2>1, <2>4
<1>6. ASSUME NEW l \in Loaders, Replace(l) \/ AppendRecords(l) PROVE ArtifactInv'
  <2>1. UNCHANGED artifactRows
    BY <1>6, <1>b DEF Replace, AppendRecords
  <2>2. UNCHANGED artifactIndex
    <3>1. CASE Replace(l)
      BY <1>0, <3>1, Replaced DEF Replace, artifactIndex
    <3>2. CASE AppendRecords(l)
      BY <1>0, <1>c, <3>2, Appended DEF AppendRecords, artifactIndex
    <3> QED BY <1>6, <3>1, <3>2
  <2>3. \A m \in Loaders : Covers(loads[m])'
    BY <1>6, <1>d, <2>1, CoversKept DEF Replace, AppendRecords
  <2> QED BY <1>a, <2>1, <2>2, <2>3
<1>7. ASSUME NEW l \in Loaders, ResetArtifacts(l) PROVE ArtifactInv'
  <2>1. UNCHANGED artifactRows
    BY <1>7, <1>b DEF ResetArtifacts
  <2>2. \A m \in Loaders : Covers(loads[m])'
    BY <1>7, <1>d, <2>1, CoversKept DEF ResetArtifacts
  <2>3. maxIDs'["artifacts"] = 0 /\ \A i \in Ids : entries'["artifacts"][i] = 0
    BY <1>0, <1>7, Replaced DEF ResetArtifacts
  <2>4. ArtifactsNeverHidden' /\ (Indexed("artifacts") \subseteq Ready)'
    BY <1>0, <2>1, <2>3 DEF ArtifactsNeverHidden, Reachable, Indexed, Ready, artifactRows
  <2> QED BY <2>2, <2>4 DEF ArtifactInv
<1>8. ASSUME NEW l \in Loaders, SampleSummaries(l) PROVE ArtifactInv'
  <2> DEFINE next == [At("query") EXCEPT !.since = maxIDs["artifacts"], !.left = Users]
  <2>1. UNCHANGED artifactRows /\ UNCHANGED artifactIndex
    BY <1>8, <1>b, <1>c DEF SampleSummaries
  <2>2. next.got = {} /\ next.left = Users
    BY DEF At
  <2>3. Covers(next)
    <3> HIDE DEF next
    <3> QED BY <1>0, <2>2, CoversElsewhere
  <2>4. \A m \in Loaders : Covers(loads[m])'
    <3>1. Goto(l, next)
      BY <1>8 DEF SampleSummaries
    <3> HIDE DEF next
    <3> QED BY <2>1, <2>3, <3>1, CoversKept
  <2> QED BY <1>a, <2>1, <2>4
<1>9. ASSUME NEW l \in Loaders, NEW u \in Users, QueryUser(l, u) \/ SkipUser(l, u)
      PROVE  ArtifactInv'
  <2>1. UNCHANGED artifactRows /\ UNCHANGED artifactIndex
    BY <1>9, <1>b, <1>c DEF QueryUser, SkipUser
  <2>2. loads[l].at = "query" /\ u \in loads[l].left
    BY <1>9 DEF QueryUser, SkipUser
  <2>3. \E next : /\ Goto(l, next) /\ next.at = "query" /\ next.since = loads[l].since
                  /\ next.left = loads[l].left \ {u}
                  /\ next.got = loads[l].got \/ next.got = loads[l].got \cup Unseen(l, u)
                  /\ New(l, u) \subseteq next.got
    <3>1. Mild
      <4>1. u \notin loads'[l].left
        <5>1. loads[l] \in Load /\ loads \in [Loaders -> Load]
          BY DEF TypeOK
        <5>2. CASE QueryUser(l, u)
          <6>1. loads' = [loads EXCEPT ![l] =
                           [loads[l] EXCEPT !.got = @ \cup Unseen(l, u), !.left = @ \ {u}]]
            BY <5>2 DEF QueryUser, Goto
          <6> QED BY <5>1, <6>1 DEF Load
        <5>3. CASE SkipUser(l, u)
          <6>1. loads' = [loads EXCEPT ![l] = [loads[l] EXCEPT !.left = @ \ {u}]]
            BY <5>3 DEF SkipUser, Goto
          <6> QED BY <5>1, <6>1 DEF Load
        <5> QED BY <1>9, <5>2, <5>3
      <4> QED BY <2>2, <4>1 DEF vars
    <3>2. CASE QueryUser(l, u)
      <4> DEFINE next == [loads[l] EXCEPT !.got = @ \cup Unseen(l, u), !.left = @ \ {u}]
      <4>1. /\ Goto(l, next) /\ next.at = "query" /\ next.since = loads[l].since
            /\ next.left = loads[l].left \ {u} /\ next.got = loads[l].got \cup Unseen(l, u)
        BY <3>2 DEF QueryUser, TypeOK, Load
      <4>2. New(l, u) \subseteq Unseen(l, u)
        BY <3>1, <3>2, PageHolds DEF Mild, FitsOnPage
      <4> HIDE DEF next
      <4> QED BY <4>1, <4>2
    <3>3. CASE SkipUser(l, u)
      <4> DEFINE next == [loads[l] EXCEPT !.left = @ \ {u}]
      <4>1. /\ Goto(l, next) /\ next.at = "query" /\ next.since = loads[l].since
            /\ next.left = loads[l].left \ {u} /\ next.got = loads[l].got
        BY <3>3 DEF SkipUser, TypeOK, Load
      <4>2. New(l, u) = {}
        BY <3>1, <3>3 DEF Mild, NobodySkipped
      <4> HIDE DEF next
      <4> QED BY <4>1, <4>2
    <3> QED BY <1>9, <3>2, <3>3
  <2>4. PICK next : /\ Goto(l, next) /\ next.at = "query" /\ next.since = loads[l].since
                    /\ next.left = loads[l].left \ {u}
                    /\ next.got = loads[l].got \/ next.got = loads[l].got \cup Unseen(l, u)
                    /\ New(l, u) \subseteq next.got
    BY <2>3
  <2>5. Covers(next)
    <3>1. /\ loads[l].got \subseteq Ready
          /\ \A i \in Ready : owner[i] \notin loads[l].left /\ loads[l].since < i =>
               i \in loads[l].got
      BY <1>0, <2>2 DEF Covers
    <3>2. Unseen(l, u) \subseteq Ready
      BY DEF Unseen, NewestReady, Ready
    <3>3. loads[l].got \subseteq next.got /\ next.got \subseteq Ready
      BY <2>4, <3>1, <3>2
    <3>4. ASSUME NEW i \in Ready, owner[i] \notin next.left, next.since < i
          PROVE  i \in next.got
      <4>1. CASE owner[i] = u
        <5>1. i > loads[l].since
          BY <1>0, <2>4, <3>4
        <5>2. i \in New(l, u)
          BY <4>1, <5>1 DEF New
        <5> QED BY <2>4, <5>2
      <4>2. CASE owner[i] # u
        BY <2>4, <3>1, <3>3, <3>4, <4>2
      <4> QED BY <4>1, <4>2
    <3> QED BY <3>3, <3>4 DEF Covers
  <2>6. \A m \in Loaders : Covers(loads[m])'
    BY <2>1, <2>4, <2>5, CoversKept
  <2> QED BY <1>a, <2>1, <2>6
<1>10. ASSUME NEW l \in Loaders, AppendSummaries(l) PROVE ArtifactInv'
  <2>1. UNCHANGED artifactRows
    BY <1>10, <1>b DEF AppendSummaries
  <2>2. \A m \in Loaders : Covers(loads[m])'
    BY <1>10, <1>e, <2>1, CoversKept DEF AppendSummaries
  <2>3. ArtifactsNeverHidden' /\ (Indexed("artifacts") \subseteq Ready)'
    BY <1>10, <2>1, AppendArtifacts DEF AppendSummaries
  <2> QED BY <2>2, <2>3 DEF ArtifactInv
<1>11. CASE Restart
  <2>1. UNCHANGED artifactRows
    BY <1>11, <1>b DEF Restart
  <2>2. maxIDs'["artifacts"] = 0 /\ \A i \in Ids : entries'["artifacts"][i] = 0
    BY <1>0, <1>11 DEF Restart, NoEntries
  <2>3. ArtifactsNeverHidden' /\ (Indexed("artifacts") \subseteq Ready)'
    BY <1>0, <2>1, <2>2 DEF ArtifactsNeverHidden, Reachable, Indexed, Ready, artifactRows
  <2>4. ASSUME NEW m \in Loaders PROVE Covers(loads[m])'
    <3>1. loads'[m].at \in {"fetch", "idle"}
      BY <1>11 DEF Restart, At, Idle
    <3> QED BY <3>1 DEF Covers
  <2> QED BY <2>3, <2>4 DEF ArtifactInv
<1>12. CASE UNCHANGED vars
  <2>1. UNCHANGED artifactRows /\ UNCHANGED artifactIndex /\ UNCHANGED loads
    BY <1>12, <1>b, <1>c DEF vars
  <2>2. \A m \in Loaders : Covers(loads[m])'
    BY <1>0, <2>1 DEF Covers, Ready, artifactRows
  <2> QED BY <1>a, <2>1, <2>2
<1> QED
  BY <1>1, <1>2, <1>3, <1>4, <1>5, <1>6, <1>7, <1>8, <1>9, <1>10, <1>11, <1>12
     DEF Next, Step, ReloadVectors, LoadNewVectors, LoadNewArtifactSummaries

(* "Sent files become searchable" as far as incremental loads go: a ready   *)
(* artifact is listed or above the watermark, unless one of the four things *)
(* above happens.                                                          *)
THEOREM ArtifactsAreReachable == Spec /\ [][Mild]_vars => []ArtifactsNeverHidden
<1>1. Init => ArtifactInv
  BY ArtifactInit
<1>2. TypeOK /\ StoreInv /\ ArtifactInv /\ [Next]_vars /\ [Mild]_vars => ArtifactInv'
  BY ArtifactStep
<1>3. ArtifactInv => ArtifactsNeverHidden
  BY DEF ArtifactInv
<1> QED BY <1>1, <1>2, <1>3, StoreInvariant, PTL DEF Spec
====================================================
