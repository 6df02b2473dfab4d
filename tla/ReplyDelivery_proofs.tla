----------------------- MODULE ReplyDelivery_proofs -----------------------
(***************************************************************************)
(* What holds of a bot process delivering replies for every set of          *)
(* deliveries, every length of plan and every number of faults and crashes. *)
(*                                                                         *)
(*  1. Places: where the executor can be in its plan.                      *)
(*  2. Every step is a transaction of DeliveryLedger or leaves the tables   *)
(*     alone, so what DeliveryLedger_proofs shows of the tables holds here. *)
(*  3. Types.                                                              *)
(*  4. What InStep gives: the safety properties, as lemmas about a state.   *)
(*  5. InStep is inductive, one lemma per step of the executor, of the      *)
(*     transport and of a restart.                                         *)
(*  6. Restarts, and the contract with the user (ReplyContract).            *)
(*  7. The results.                                                        *)
(*  8. What the process was told.                                          *)
(*  9. A reply comes to its end.                                           *)
(***************************************************************************)
EXTENDS ReplyDelivery, DeliveryLedger_proofs

-----------------------------------------------------------------------------
(* 1. Places.                                                              *)

PlacesTypeOK ==
  /\ plan \in [Deliveries -> [n : 1 .. MaxParts, rich : SUBSET Parts]]
  /\ pc \in [Deliveries -> PC]
  /\ cur \in [Deliveries -> Parts]
  /\ from \in [Deliveries -> Parts \cup {NoFallback}]
  /\ confirmed \in [Deliveries -> 0 .. MaxParts]

(* The executor is at a part of its plan, at or behind the branch point,    *)
(* and counted one confirmation for each part before it.                   *)
Place(d) ==
  /\ cur[d] < plan[d].n
  /\ from[d] # NoFallback => from[d] <= cur[d]
  /\ pc[d] \in Attempting => confirmed[d] = cur[d]
  /\ pc[d] = "idle" => cur[d] = 0 /\ confirmed[d] = 0

Places == PlacesTypeOK /\ \A d \in Deliveries : Place(d)

LEMMA InitPlaces == Init => Places
BY PartsAssumption DEF Init, Places, PlacesTypeOK, Place, PC, Parts, NoFallback, Attempting

(* An executor that goes from label to label without moving in its plan.   *)
LEMMA SamePlace ==
  ASSUME Places, NEW d \in Deliveries, NEW label \in PC,
         label # "idle", label \in Attempting => pc[d] \in Attempting \cup {"idle"},
         pc' = [pc EXCEPT ![d] = label],
         UNCHANGED <<plan, cur, from, confirmed>>
  PROVE  Places'
<1>1. PlacesTypeOK'
  BY DEF Places, PlacesTypeOK
<1>2. ASSUME NEW e \in Deliveries
      PROVE  Place(e)'
  BY DEF Places, PlacesTypeOK, Place
<1>. QED BY <1>1, <1>2 DEF Places

LEMMA PlacesKept ==
  ASSUME Places, UNCHANGED <<plan, pc, cur, from, confirmed>>
  PROVE  Places'
BY DEF Places, PlacesTypeOK, Place

LEMMA ConfirmedKeepsPlaces ==
  ASSUME Places, NEW d \in Deliveries, NEW r, RecordConfirmed(d, r)
  PROVE  Places'
<1>1. /\ plan' = plan /\ from' = from
      /\ confirmed' = [confirmed EXCEPT ![d] = @ + 1]
      /\ pc[d] = "record"
  BY DEF RecordConfirmed
<1>2. plan[d].n \in 1 .. MaxParts /\ cur[d] \in Nat /\ cur[d] < plan[d].n
        /\ confirmed[d] = cur[d] /\ MaxParts \in Nat
  BY <1>1, PartsAssumption DEF Places, PlacesTypeOK, Place, Parts, Attempting
<1>3. CASE pc' = [pc EXCEPT ![d] = "mark"] /\ cur' = [cur EXCEPT ![d] = @ + 1]
           /\ ~AtLastPart(d)
  <2>1. PlacesTypeOK'
    BY <1>1, <1>2, <1>3 DEF Places, PlacesTypeOK, PC, Parts, AtLastPart
  <2>2. ASSUME NEW e \in Deliveries
        PROVE  Place(e)'
    <3>1. CASE e = d
      <4>1. /\ cur'[d] = cur[d] + 1 /\ confirmed'[d] = confirmed[d] + 1
            /\ plan'[d] = plan[d] /\ from'[d] = from[d] /\ pc'[d] = "mark"
        BY <1>1, <1>3 DEF Places, PlacesTypeOK
      <4>2. from[d] # NoFallback => from[d] \in Nat /\ from[d] <= cur[d]
        BY PartsAssumption DEF Places, PlacesTypeOK, Place, Parts
      <4>3. cur[d] + 1 < plan[d].n
        BY <1>2, <1>3 DEF AtLastPart
      <4>. QED BY <1>2, <3>1, <4>1, <4>2, <4>3 DEF Place
    <3>2. CASE e # d
      BY <1>1, <1>3, <3>2 DEF Places, PlacesTypeOK, Place
    <3>. QED BY <3>1, <3>2
  <2>. QED BY <2>1, <2>2 DEF Places
<1>4. CASE cur' = cur /\ (pc' = [pc EXCEPT ![d] = "done"]
                            \/ pc' = [pc EXCEPT ![d] = "persist"])
  <2>1. PlacesTypeOK'
    BY <1>1, <1>2, <1>4 DEF Places, PlacesTypeOK, PC
  <2>2. ASSUME NEW e \in Deliveries
        PROVE  Place(e)'
    BY <1>1, <1>4 DEF Places, PlacesTypeOK, Place, Attempting
  <2>. QED BY <2>1, <2>2 DEF Places
<1>. QED BY <1>3, <1>4 DEF RecordConfirmed, Stop, Goto

LEMMA ActivateKeepsPlaces ==
  ASSUME Places, NEW d \in Deliveries, NEW r, Activate(d, r)
  PROVE  Places'
<1>1. /\ plan' = plan /\ cur' = cur /\ confirmed' = confirmed
      /\ pc[d] = "activate"
      /\ from' = [from EXCEPT ![d] = IF r = "failed" THEN @ ELSE cur[d]]
      /\ pc' = [pc EXCEPT ![d] = "mark"] \/ pc' = [pc EXCEPT ![d] = "done"]
  BY DEF Activate, Goto, Stop
<1>2. PlacesTypeOK'
  BY <1>1 DEF Places, PlacesTypeOK, PC
<1>3. ASSUME NEW e \in Deliveries
      PROVE  Place(e)'
  <2>1. CASE e = d
    BY <1>1, <2>1, PartsAssumption
       DEF Places, PlacesTypeOK, Place, Attempting, Parts, NoFallback
  <2>2. CASE e # d
    BY <1>1, <2>2 DEF Places, PlacesTypeOK, Place
  <2>. QED BY <2>1, <2>2
<1>. QED BY <1>2, <1>3 DEF Places

LEMMA CrashKeepsPlaces ==
  ASSUME Places, Crash
  PROVE  Places'
<1>1. /\ plan' = plan /\ cur' = cur /\ from' = from
      /\ pc' = Forget(pc, "gone") /\ confirmed' = Forget(confirmed, 0)
  BY DEF Crash
<1>2. PlacesTypeOK'
  BY <1>1, PartsAssumption DEF Places, PlacesTypeOK, PC, Forget
<1>3. ASSUME NEW e \in Deliveries
      PROVE  Place(e)'
  BY <1>1 DEF Places, PlacesTypeOK, Place, Attempting, Forget, Running
<1>. QED BY <1>2, <1>3 DEF Places

LEMMA StepKeepsPlaces ==
  ASSUME Places, [Next]_vars
  PROVE  Places'
<1>1. CASE UNCHANGED vars
  BY <1>1, PlacesKept DEF vars, executorVars
<1>2. ASSUME NEW d \in Deliveries, Preflight(d)
      PROVE  Places'
  <2>1. pc' = [pc EXCEPT ![d] = "done"] /\ UNCHANGED <<plan, cur, from, confirmed>>
    BY <1>2 DEF Preflight, StopBeforeSending, Stop
  <2>2. "done" \in PC /\ "done" \notin Attempting
    BY DEF PC, Attempting
  <2>. QED BY <2>1, <2>2, SamePlace
<1>3. ASSUME NEW d \in Deliveries, Send(d)
      PROVE  Places'
  <2>1. pc' = [pc EXCEPT ![d] = "wait"] /\ UNCHANGED <<plan, cur, from, confirmed>>
          /\ pc[d] = "send"
    BY <1>3 DEF Send, Goto
  <2>2. "wait" \in PC /\ "send" \in Attempting
    BY DEF PC, Attempting
  <2>. QED BY <2>1, <2>2, SamePlace
<1>4. ASSUME NEW d \in Deliveries, Land(d)
      PROVE  Places'
  BY <1>4, PlacesKept DEF Land, executorVars
<1>5. ASSUME NEW d \in Deliveries, NEW a \in Answer, Receive(d, a)
      PROVE  Places'
  <2>1. pc' = [pc EXCEPT ![d] = "record"] /\ UNCHANGED <<plan, cur, from, confirmed>>
          /\ pc[d] = "wait"
    BY <1>5 DEF Receive, Goto
  <2>2. "record" \in PC /\ "wait" \in Attempting
    BY DEF PC, Attempting
  <2>. QED BY <2>1, <2>2, SamePlace
<1>6. ASSUME NEW d \in Deliveries, NEW r \in StoreReply, Execute(d, r)
      PROVE  Places'
  <2>1. CASE Create(d, r) \/ Mark(d, r) \/ RecordFailed(d, r) \/ RecordFormat(d, r)
               \/ Persist(d, r)
    <3>1. PICK label \in {"mark", "send", "activate", "done"} :
                 /\ pc' = [pc EXCEPT ![d] = label]
                 /\ UNCHANGED <<plan, cur, from, confirmed>>
      BY <2>1 DEF Create, Mark, RecordFailed, RecordFormat, Persist, Stop, Goto,
         StopBeforeSending
    <3>2. pc[d] \in Attempting \cup {"idle", "persist"}
      BY <2>1 DEF Create, Mark, RecordFailed, RecordFormat, Persist, Attempting
    <3>3. pc[d] = "persist" => label = "done"
      BY <2>1, <3>1 DEF Create, Mark, RecordFailed, RecordFormat, Persist, Goto,
         Places, PlacesTypeOK
    <3>4. label \in PC /\ label # "idle"
      BY <3>1 DEF PC
    <3>5. label \in Attempting => pc[d] \in Attempting \cup {"idle"}
      BY <3>2, <3>3 DEF Attempting
    <3>. QED BY <3>1, <3>4, <3>5, SamePlace
  <2>2. CASE RecordConfirmed(d, r)
    BY <2>2, ConfirmedKeepsPlaces
  <2>3. CASE Activate(d, r)
    BY <2>3, ActivateKeepsPlaces
  <2>. QED BY <1>6, <2>1, <2>2, <2>3 DEF Execute
<1>7. CASE Crash
  BY <1>7, CrashKeepsPlaces
<1>8. ASSUME NEW r \in StoreReply, Boot(r)
      PROVE  Places'
  BY <1>8, PlacesKept DEF Boot, executorVars
<1>. QED BY <1>1, <1>2, <1>3, <1>4, <1>5, <1>6, <1>7, <1>8 DEF Next

LEMMA PlacesInvariant == Spec => []Places
<1>1. Places /\ [Next]_vars => Places'
  BY StepKeepsPlaces
<1>. QED BY InitPlaces, <1>1, PTL DEF Spec

-----------------------------------------------------------------------------
(* 2. One caller among those the ledger allows.                            *)

LEMMA RowExists ==
  ASSUME Places, NEW d \in Deliveries
  PROVE  Row(d) \in Ordinals /\ cur[d] \in Ordinals
         /\ plan[d].n \in 1 .. MaxOps /\ plan[d].n - cur[d] \in 1 .. MaxOps
<1>1. /\ plan[d].n \in 1 .. MaxParts /\ cur[d] \in 0 .. MaxParts - 1
      /\ cur[d] < plan[d].n
      /\ from[d] # NoFallback => from[d] \in 0 .. MaxParts - 1 /\ from[d] <= cur[d]
  BY DEF Places, PlacesTypeOK, Place, Parts
<1>. QED BY <1>1, PartsAssumption, MaxOpsAssumption DEF Row, RowOf, Ordinals

LEMMA StepIsLedgerStep ==
  ASSUME Places, [Next]_vars
  PROVE  [LedgerNext]_ledgerVars
<1>1. CASE UNCHANGED vars
  BY <1>1 DEF vars
<1>2. ASSUME NEW d \in Deliveries,
             Preflight(d) \/ Send(d) \/ Land(d) \/ \E a \in Answer : Receive(d, a)
      PROVE  UNCHANGED ledgerVars
  BY <1>2 DEF Preflight, Send, Land, Receive
<1>3. CASE Crash
  BY <1>3 DEF Crash
<1>4. ASSUME NEW r \in StoreReply, Boot(r)
      PROVE  [LedgerNext]_ledgerVars
  BY <1>4 DEF Boot, Call, LedgerNext
<1>5. ASSUME NEW d \in Deliveries, NEW r \in StoreReply, Execute(d, r)
      PROVE  [LedgerNext]_ledgerVars
  <2>1. /\ Row(d) \in Ordinals /\ cur[d] \in Ordinals
        /\ plan[d].n \in 1 .. MaxOps /\ plan[d].n - cur[d] \in 1 .. MaxOps
    BY RowExists
  <2>2. CASE Create(d, r)
    BY <2>1, <2>2 DEF Create, Call, LedgerNext
  <2>3. CASE Mark(d, r)
    BY <2>1, <2>3 DEF Mark, Call, LedgerNext
  <2>4. CASE RecordConfirmed(d, r)
    <3>1. "confirmed" \in OperationStatus /\ "none" \in ErrorClass
      BY DEF OperationStatus, ErrorClass
    <3>. QED BY <2>1, <2>4, <3>1 DEF RecordConfirmed, Call, LedgerNext
  <2>5. CASE RecordFailed(d, r)
    <3>1. {"rejected", "unknown"} \subseteq OperationStatus /\ "failed" \in ErrorClass
      BY DEF OperationStatus, ErrorClass
    <3>. QED BY <2>1, <2>5, <3>1 DEF RecordFailed, Call, LedgerNext
  <2>6. CASE RecordFormat(d, r)
    <3>1. "rejected" \in OperationStatus /\ "format" \in ErrorClass
      BY DEF OperationStatus, ErrorClass
    <3>. QED BY <2>1, <2>6, <3>1 DEF RecordFormat, Call, LedgerNext
  <2>7. CASE Activate(d, r)
    BY <2>1, <2>7 DEF Activate, Call, LedgerNext
  <2>8. CASE Persist(d, r)
    BY <2>8 DEF Persist, Call, LedgerNext
  <2>. QED BY <1>5, <2>2, <2>3, <2>4, <2>5, <2>6, <2>7, <2>8 DEF Execute
<1>. QED BY <1>1, <1>2, <1>3, <1>4, <1>5 DEF Next

(* The executor, restarts and database faults included, uses the ledger     *)
(* only as DeliveryLedger describes.                                       *)
THEOREM ImplementsLedger == Spec => LedgerSpec
<1>1. Init => LedgerInit
  BY DEF Init
<1>2. Places /\ [Next]_vars => [LedgerNext]_ledgerVars
  BY StepIsLedgerStep
<1>. QED BY <1>1, <1>2, PlacesInvariant, PTL DEF Spec, LedgerSpec

-----------------------------------------------------------------------------
(* 3. Types.                                                               *)

RestTypeOK ==
  /\ attempted \in [Deliveries -> BOOLEAN]
  /\ answer \in [Deliveries -> Answer]
  /\ outcome \in [Deliveries -> Outcome]
  /\ notice \in [Deliveries -> BOOLEAN]
  /\ flight \in [Deliveries -> {"none", "air", "landed"}]
  /\ chat \in [Deliveries -> Seq(Parts)]
  /\ told \in [Deliveries -> SUBSET Parts]
  /\ up \in BOOLEAN /\ recovered \in BOOLEAN
  /\ faults \in 0 .. MaxFaults /\ crashes \in 0 .. MaxCrashes

LEMMA TypeOKParts == TypeOK <=> LedgerTypeOK /\ PlacesTypeOK /\ RestTypeOK
BY DEF TypeOK, PlacesTypeOK, RestTypeOK

LEMMA InitRestType == Init => RestTypeOK
BY BoundsAssumption DEF Init, RestTypeOK, Answer, Outcome

LEMMA CallSpendsWithinBound ==
  ASSUME RestTypeOK, NEW r, NEW can, Reply(r, can)
  PROVE  faults' \in 0 .. MaxFaults
BY BoundsAssumption DEF RestTypeOK, Reply

LEMMA OutcomesTyped ==
  ASSUME NEW d \in Deliveries
  PROVE  LocalStop(d) \in Outcome /\ UnrecordedOutcome(d) \in Outcome
BY DEF LocalStop, UnrecordedOutcome, Outcome

LEMMA StepKeepsRestType ==
  ASSUME Places, RestTypeOK, [Next]_vars
  PROVE  RestTypeOK'
<1>1. CASE UNCHANGED vars
  BY <1>1 DEF vars, executorVars, chatVars, RestTypeOK
<1>2. ASSUME NEW d \in Deliveries, Preflight(d)
      PROVE  RestTypeOK'
  BY <1>2 DEF Preflight, StopBeforeSending, Stop, RestTypeOK, Outcome, chatVars
<1>3. ASSUME NEW d \in Deliveries, Send(d)
      PROVE  RestTypeOK'
  BY <1>3 DEF Send, Goto, RestTypeOK
<1>4. ASSUME NEW d \in Deliveries, Land(d)
      PROVE  RestTypeOK'
  <2>1. cur[d] \in Parts
    BY DEF Places, PlacesTypeOK
  <2>. QED BY <1>4, <2>1 DEF Land, RestTypeOK, executorVars
<1>5. ASSUME NEW d \in Deliveries, NEW a \in Answer, Receive(d, a)
      PROVE  RestTypeOK'
  <2>1. cur[d] \in Parts
    BY DEF Places, PlacesTypeOK
  <2>. QED BY <1>5, <2>1 DEF Receive, Goto, RestTypeOK
<1>6. ASSUME NEW d \in Deliveries, NEW r \in StoreReply, Execute(d, r)
      PROVE  RestTypeOK'
  <2>1. LocalStop(d) \in Outcome /\ UnrecordedOutcome(d) \in Outcome
          /\ {"confirmed", "rejected", "unknown", "partial_rejected",
              "partial_unknown"} \subseteq Outcome
    BY OutcomesTyped DEF Outcome
  <2>2. faults' \in 0 .. MaxFaults
    BY <1>6, CallSpendsWithinBound
       DEF Execute, Create, Mark, RecordConfirmed, RecordFailed, RecordFormat, Activate,
           Persist, Call
  <2>3. UNCHANGED <<chatVars, attempted, answer, up, recovered, crashes>>
    BY <1>6
       DEF Execute, Create, Mark, RecordConfirmed, RecordFailed, RecordFormat, Activate,
           Persist
  <2>4. outcome' \in [Deliveries -> Outcome] /\ notice' \in [Deliveries -> BOOLEAN]
    <3>0. CASE Create(d, r)
      BY <3>0, <2>1 DEF Create, StopBeforeSending, Stop, Goto, RestTypeOK
    <3>1. CASE Mark(d, r)
      BY <3>1, <2>1 DEF Mark, StopBeforeSending, Stop, Goto, RestTypeOK
    <3>2. CASE RecordConfirmed(d, r)
      BY <3>2, <2>1 DEF RecordConfirmed, Stop, Goto, RestTypeOK
    <3>3. CASE RecordFailed(d, r)
      BY <3>3, <2>1 DEF RecordFailed, OutcomeAfterFailure, Stop, RestTypeOK
    <3>4. CASE RecordFormat(d, r) \/ Activate(d, r) \/ Persist(d, r)
      BY <3>4, <2>1 DEF RecordFormat, Activate, Persist, Stop, Goto, RestTypeOK
    <3>. QED BY <1>6, <3>0, <3>1, <3>2, <3>3, <3>4 DEF Execute
  <2>. QED BY <2>2, <2>3, <2>4 DEF RestTypeOK, chatVars
<1>7. CASE Crash
  <2>1. crashes' \in 0 .. MaxCrashes
    BY <1>7, BoundsAssumption DEF Crash, RestTypeOK
  <2>2. attempted' \in [Deliveries -> BOOLEAN]
    BY <1>7, Zenon DEF Crash, Forget, RestTypeOK
  <2>3. answer' \in [Deliveries -> Answer] /\ outcome' \in [Deliveries -> Outcome]
    BY <1>7 DEF Crash, Forget, RestTypeOK, Answer, Outcome
  <2>4. UNCHANGED <<chatVars, notice, faults>> /\ up' \in BOOLEAN /\ recovered' \in BOOLEAN
    BY <1>7 DEF Crash
  <2>. QED BY <2>1, <2>2, <2>3, <2>4 DEF RestTypeOK, chatVars
<1>8. ASSUME NEW r \in StoreReply, Boot(r)
      PROVE  RestTypeOK'
  <2>1. faults' \in 0 .. MaxFaults
    BY <1>8, CallSpendsWithinBound DEF Boot, Call
  <2>. QED BY <1>8, <2>1 DEF Boot, RestTypeOK, chatVars, executorVars
<1>. QED BY <1>1, <1>2, <1>3, <1>4, <1>5, <1>6, <1>7, <1>8 DEF Next

(* Every variable of the process, the chat and the ledger keeps to its      *)
(* domain: the executor never leaves its plan and never counts more         *)
(* confirmations than the plan has parts.                                  *)
THEOREM TypeCorrect == Spec => []TypeOK
<1>1. Init => RestTypeOK
  BY InitRestType
<1>2. Places /\ RestTypeOK /\ [Next]_vars => RestTypeOK'
  BY StepKeepsRestType
<1>3. LedgerInv /\ Places /\ RestTypeOK => TypeOK
  BY TypeOKParts DEF LedgerInv, Places
<1>. QED BY <1>1, <1>2, <1>3, PlacesInvariant, ImplementsLedger, LedgerInvariant,
            PTL DEF Spec

-----------------------------------------------------------------------------
(* 4. What InStep gives.                                                   *)

Typed == Places /\ LedgerInv /\ RestTypeOK

LEMMA TypesAt ==
  ASSUME Typed, NEW d \in Deliveries
  PROVE  /\ status[d] \in DeliveryStatus /\ linked[d] \in BOOLEAN
         /\ ops[d] \in [Ordinals -> OperationStatus]
         /\ errorClass[d] \in [Ordinals -> ErrorClass]
         /\ pc[d] \in PC /\ answer[d] \in Answer /\ outcome[d] \in Outcome
         /\ attempted[d] \in BOOLEAN /\ notice[d] \in BOOLEAN
         /\ flight[d] \in {"none", "air", "landed"}
         /\ chat[d] \in Seq(Parts) /\ Len(chat[d]) \in Nat
         /\ confirmed[d] \in Nat
BY DEF Typed, Places, PlacesTypeOK, LedgerInv, LedgerTypeOK, RestTypeOK

(* The row of part p, before and after a switch, in plain arithmetic.      *)
LEMMA RowsAt ==
  ASSUME Places, NEW d \in Deliveries
  PROVE  /\ plan[d].n \in Nat /\ cur[d] \in Nat /\ MaxParts \in Nat /\ MaxOps \in Nat
         /\ cur[d] < plan[d].n /\ plan[d].n <= MaxParts /\ 2 * MaxParts <= MaxOps
         /\ from[d] = NoFallback => Row(d) = cur[d]
         /\ from[d] # NoFallback =>
              /\ from[d] \in Nat /\ from[d] <= cur[d] /\ from[d] < plan[d].n
              /\ Row(d) = plan[d].n + (cur[d] - from[d])
         /\ Row(d) \in Nat /\ Row(d) \in Ordinals /\ Row(d) < MaxOps
<1>1. /\ plan[d].n \in 1 .. MaxParts /\ cur[d] \in 0 .. MaxParts - 1
      /\ cur[d] < plan[d].n
      /\ from[d] # NoFallback => from[d] \in 0 .. MaxParts - 1 /\ from[d] <= cur[d]
  BY DEF Places, PlacesTypeOK, Place, Parts
<1>. QED BY <1>1, PartsAssumption, MaxOpsAssumption DEF Row, RowOf, Ordinals

LEMMA CoveringExists ==
  ASSUME Typed, NEW d \in Deliveries, NEW p \in Nat, p < plan[d].n
  PROVE  Covering(d, p) \in Ordinals
<1>1. /\ plan[d].n \in Nat /\ MaxOps \in Nat /\ MaxParts \in Nat
      /\ plan[d].n <= MaxParts /\ 2 * MaxParts <= MaxOps
      /\ from[d] # NoFallback => from[d] \in Nat
  BY RowsAt DEF Typed
<1>2. CASE p < from[d]
  BY <1>1, <1>2 DEF Covering, Ordinals
<1>3. CASE ~(p < from[d])
  <2>1. from[d] \in Nat
    BY <1>1 DEF NoFallback
  <2>. QED BY <1>1, <1>3, <2>1 DEF Covering, Ordinals
<1>. QED BY <1>2, <1>3

(* A part before the current one is answered for by a confirmed row.       *)
LEMMA CoveringBefore ==
  ASSUME Typed, NEW d \in Deliveries, RowsInStep(d), NEW p \in Nat, p < cur[d]
  PROVE  ops[d][Covering(d, p)] = "confirmed"
<1>1. CASE from[d] = NoFallback
  BY <1>1, RowsAt DEF Typed, RowsInStep, BranchInStep, Covering, NoFallback, Ordinals
<1>2. CASE from[d] # NoFallback /\ p < from[d]
  BY <1>2, RowsAt DEF Typed, RowsInStep, Covering, Ordinals
<1>3. CASE from[d] # NoFallback /\ ~(p < from[d])
  <2> DEFINE o == plan[d].n + (p - from[d])
  <2>1. Covering(d, p) = o
    BY <1>3 DEF Covering
  <2>2. o \in Ordinals /\ o \in plan[d].n .. 2 * plan[d].n - from[d] - 1 /\ o < Row(d)
    <3>1. /\ plan[d].n \in Nat /\ cur[d] \in Nat /\ from[d] \in Nat /\ MaxOps \in Nat
          /\ MaxParts \in Nat /\ from[d] <= cur[d] /\ cur[d] < plan[d].n
          /\ plan[d].n <= MaxParts /\ 2 * MaxParts <= MaxOps
          /\ Row(d) = plan[d].n + (cur[d] - from[d])
      BY <1>3, RowsAt DEF Typed
    <3>2. o \in Int /\ o >= plan[d].n /\ o <= 2 * plan[d].n - from[d] - 1
          /\ o <= MaxOps - 1 /\ o < Row(d)
      BY <1>3, <3>1
    <3>. QED BY <3>1, <3>2 DEF Ordinals
  <2>3. \A i \in Ordinals : i \in plan[d].n .. 2 * plan[d].n - from[d] - 1 =>
          (i < Row(d) => ops[d][i] = "confirmed")
    BY <1>3 DEF RowsInStep, BranchInStep
  <2>4. ops[d][o] = "confirmed"
    <3>. HIDE DEF o
    <3>. QED BY <2>2, <2>3, Zenon
  <2>. QED BY <2>1, <2>4, Zenon
<1>. QED BY <1>1, <1>2, <1>3

LEMMA CoveringCurrent ==
  ASSUME Typed, NEW d \in Deliveries
  PROVE  Covering(d, cur[d]) = Row(d)
BY RowsAt DEF Typed, Covering, Row, RowOf, NoFallback

LEMMA CoveringBehind ==
  ASSUME Typed, NEW d \in Deliveries, RowsInStep(d),
         NEW p \in Nat, p > cur[d], p < plan[d].n
  PROVE  ops[d][Covering(d, p)] \in {"planned", "skipped"}
<1>1. CASE from[d] = NoFallback
  BY <1>1, RowsAt DEF Typed, RowsInStep, BranchInStep, Covering, NoFallback, Behind, Ordinals
<1>2. CASE from[d] # NoFallback
  <2> DEFINE o == plan[d].n + (p - from[d])
  <2>1. Covering(d, p) = o
    BY <1>2, RowsAt DEF Typed, Covering
  <2>2. o \in Ordinals /\ o \in plan[d].n .. 2 * plan[d].n - from[d] - 1 /\ o > Row(d)
    <3>1. /\ plan[d].n \in Nat /\ cur[d] \in Nat /\ from[d] \in Nat /\ MaxOps \in Nat
          /\ MaxParts \in Nat /\ from[d] <= cur[d] /\ cur[d] < plan[d].n
          /\ plan[d].n <= MaxParts /\ 2 * MaxParts <= MaxOps
          /\ Row(d) = plan[d].n + (cur[d] - from[d])
      BY <1>2, RowsAt DEF Typed
    <3>2. o \in Int /\ o >= plan[d].n /\ o <= 2 * plan[d].n - from[d] - 1
          /\ o <= MaxOps - 1 /\ o > Row(d)
      BY <1>2, <3>1
    <3>. QED BY <3>1, <3>2 DEF Ordinals
  <2>3. \A i \in Ordinals : i \in plan[d].n .. 2 * plan[d].n - from[d] - 1 =>
          (i > Row(d) => ops[d][i] = Behind(d))
    BY <1>2 DEF RowsInStep, BranchInStep
  <2>4. ops[d][o] = Behind(d)
    <3>. HIDE DEF o
    <3>. QED BY <2>2, <2>3, Zenon
  <2>. QED BY <2>1, <2>4 DEF Behind
<1>. QED BY <1>1, <1>2

LEMMA SeenByLength ==
  ASSUME Typed, NEW d \in Deliveries, ChatInStep(d), NEW p \in Nat
  PROVE  p \in Seen(d) <=> p < Len(chat[d])
<1>1. DOMAIN chat[d] = 1 .. Len(chat[d]) /\ Len(chat[d]) \in Nat
  BY TypesAt
<1>2. \A i \in DOMAIN chat[d] : chat[d][i] = i - 1
  BY DEF ChatInStep
<1>3. p < Len(chat[d]) => p + 1 \in DOMAIN chat[d] /\ chat[d][p + 1] = p
  BY <1>1, <1>2
<1>. QED BY <1>1, <1>2, <1>3 DEF Seen

LEMMA InStepImpliesOrder == Typed /\ InStep => AtMostOnceInOrder
<1>. SUFFICES ASSUME Typed, InStep, NEW d \in Deliveries, NEW i \in DOMAIN chat[d]
              PROVE  chat[d][i] = i - 1
  BY DEF AtMostOnceInOrder
<1>1. CASE status[d] = "absent"
  BY <1>1 DEF InStep, DeliveryInStep, Untouched
<1>2. CASE status[d] # "absent"
  BY <1>2 DEF InStep, DeliveryInStep, ChatInStep
<1>. QED BY <1>1, <1>2

LEMMA InStepImpliesNeverDenies == Typed /\ InStep => LedgerNeverDenies
<1>. SUFFICES ASSUME Typed, InStep, NEW d \in Deliveries
              PROVE  /\ \A p \in Seen(d) :
                          ops[d][Covering(d, p)] \in {"confirmed", "sending", "unknown"}
                     /\ \A p \in Parts : p < plan[d].n
                          /\ ops[d][Covering(d, p)] = "confirmed" => p \in Seen(d)
  BY DEF LedgerNeverDenies
<1>1. CASE status[d] = "absent"
  <2>1. Seen(d) = {}
    BY <1>1 DEF InStep, DeliveryInStep, Untouched, Seen
  <2>2. \A o \in Ordinals : ops[d][o] = "absent"
    BY <1>1 DEF Typed, LedgerInv, AbsentIsEmpty
  <2>3. \A p \in Parts : p < plan[d].n => Covering(d, p) \in Ordinals
    BY CoveringExists, PartsAssumption DEF Parts
  <2>. QED BY <2>1, <2>2, <2>3
<1>2. CASE status[d] # "absent"
  <2>1. RowsInStep(d) /\ ChatInStep(d)
    BY <1>2 DEF InStep, DeliveryInStep
  <2>2. /\ cur[d] \in Nat /\ Len(chat[d]) \in Nat
        /\ Len(chat[d]) = cur[d] \/ Len(chat[d]) = cur[d] + 1
        /\ Len(chat[d]) = cur[d] + 1 => Current(d) \in {"sending", "unknown", "confirmed"}
        /\ Len(chat[d]) = cur[d] => Current(d) # "confirmed"
    <3>1. cur[d] \in Nat /\ Len(chat[d]) \in Nat
      BY RowsAt, TypesAt DEF Typed
    <3>. QED BY <2>1, <3>1 DEF ChatInStep
  <2>3. ASSUME NEW p \in Seen(d)
        PROVE  ops[d][Covering(d, p)] \in {"confirmed", "sending", "unknown"}
    <3>1. p \in Nat
      BY TypesAt, PartsAssumption DEF Seen, Parts
    <3>2. p < cur[d] \/ (p = cur[d] /\ Len(chat[d]) = cur[d] + 1)
      BY <2>1, <2>2, <3>1, SeenByLength
    <3>. QED BY <2>1, <2>2, <3>1, <3>2, CoveringBefore, CoveringCurrent DEF Current
  <2>4. ASSUME NEW p \in Parts, p < plan[d].n, ops[d][Covering(d, p)] = "confirmed"
        PROVE  p \in Seen(d)
    <3>1. p \in Nat
      BY PartsAssumption DEF Parts
    <3>2. ~(p > cur[d])
      BY <2>1, <2>4, <3>1, CoveringBehind
    <3>3. p = cur[d] => Len(chat[d]) = cur[d] + 1
      BY <2>2, <2>4, CoveringCurrent DEF Current
    <3>4. p < Len(chat[d])
      BY <2>2, <3>1, <3>2, <3>3
    <3>. QED BY <2>1, <3>1, <3>4, SeenByLength
  <2>. QED BY <2>3, <2>4
<1>. QED BY <1>1, <1>2

LEMMA InStepImpliesSealed == Typed /\ InStep => SealedTerminal
<1>. SUFFICES ASSUME Typed, InStep, NEW d \in Deliveries, status[d] \in Terminal,
                     NEW o \in Ordinals
              PROVE  ops[d][o] \notin Active
  BY DEF SealedTerminal, WithStatus
<1>1. RowsInStep(d) /\ StatusInStep(d)
  BY DEF InStep, DeliveryInStep, Terminal
<1>2. Current(d) \notin Active /\ Behind(d) = "skipped"
  BY <1>1 DEF StatusInStep, Terminal, NonTerminal, Active, Behind
<1>3. CASE from[d] = NoFallback
  BY <1>1, <1>2, <1>3, RowsAt
     DEF Typed, RowsInStep, BranchInStep, Current, Active, Ordinals
<1>4. CASE from[d] # NoFallback
  <2>1. plan[d].n \in Nat /\ from[d] \in Nat /\ Row(d) \in Nat /\ o \in Nat
          /\ from[d] < plan[d].n
    BY <1>4, RowsAt DEF Typed, Ordinals
  <2>. QED BY <1>1, <1>2, <1>4, <2>1 DEF RowsInStep, BranchInStep, Current, Active
<1>. QED BY <1>3, <1>4

LEMMA InStepImpliesNeverRefused == Typed /\ InStep => NeverRefused
<1>. SUFFICES ASSUME Typed, InStep, NEW d \in Deliveries
     PROVE /\ pc[d] = "idle" => CanCreate(d, plan[d].n)
           /\ pc[d] = "mark" => CanMark(d, Row(d))
           /\ pc[d] = "record" => ops[d][Row(d)] = "sending"
           /\ pc[d] = "activate" => CanActivate(d, cur[d], plan[d].n, plan[d].n - cur[d])
           /\ pc[d] = "persist" => CanPersist(d)
  BY DEF NeverRefused
<1>1. CASE pc[d] = "idle"
  <2>1. status[d] = "absent"
    BY <1>1 DEF InStep, DeliveryInStep
  <2>. QED BY <1>1, <2>1, RowExists DEF Typed, CanCreate
<1>2. CASE pc[d] \in {"mark", "record", "activate", "persist"}
  <2>1. RowsInStep(d) /\ StatusInStep(d) /\ ExecutorInStep(d)
    BY <1>2 DEF InStep, DeliveryInStep, Untouched
  <2>2. CASE pc[d] = "mark"
    BY <2>1, <2>2 DEF ExecutorInStep, StatusInStep, CanMark, Current
  <2>3. CASE pc[d] = "record"
    BY <2>1, <2>3 DEF ExecutorInStep, Current
  <2>4. CASE pc[d] = "activate"
    <3>1. /\ Current(d) = "rejected" /\ errorClass[d][cur[d]] = "format"
          /\ from[d] = NoFallback /\ Row(d) = cur[d]
          /\ status[d] \in {"rejected", "partial_rejected"}
      BY <2>1, <2>4, RowsAt DEF Typed, ExecutorInStep, StatusInStep
    <3>2. Behind(d) = "skipped"
      BY <3>1 DEF Behind, NonTerminal
    <3>3. /\ plan[d].n \in Nat /\ cur[d] \in Nat /\ cur[d] < plan[d].n
          /\ plan[d].n + (plan[d].n - cur[d]) <= MaxOps
      BY RowsAt DEF Typed
    <3>4. \A o \in Ordinals : /\ o < cur[d] => ops[d][o] = "confirmed"
                              /\ o > cur[d] /\ o < plan[d].n => ops[d][o] = "skipped"
                              /\ o >= plan[d].n => ops[d][o] = "absent"
      BY <2>1, <3>1, <3>2, <3>3 DEF RowsInStep, BranchInStep, Ordinals
    <3>5. ops[d][cur[d]] = "rejected"
      BY <3>1 DEF Current
    <3>6. WithStatus(ops[d], {"sending", "format_rejected"}) = {}
      BY <3>3, <3>4, <3>5 DEF WithStatus, Ordinals
    <3>7. AppendsAt(ops[d], plan[d].n)
      <4>1. plan[d].n - 1 \in Ordinals /\ plan[d].n > 0
        BY <3>3, MaxOpsAssumption DEF Ordinals
      <4>. QED BY <3>3, <3>4, <3>5, <4>1 DEF AppendsAt
    <3>. QED BY <2>4, <3>1, <3>3, <3>4, <3>5, <3>6, <3>7 DEF CanActivate, Ordinals
  <2>5. CASE pc[d] = "persist"
    <3>1. status[d] = "confirmed" /\ ~linked[d] /\ ops[d][Row(d)] = "confirmed"
      BY <2>1, <2>5 DEF ExecutorInStep, StatusInStep, Current
    <3>2. Row(d) \in WithStatus(ops[d], {"confirmed"})
      BY <3>1, RowsAt DEF Typed, WithStatus
    <3>. QED BY <2>5, <3>1, <3>2 DEF CanPersist
  <2>. QED BY <1>2, <2>2, <2>3, <2>4, <2>5
<1>. QED BY <1>1, <1>2

(* A delivery at its first part confirmed nothing yet.                     *)
LEMMA NothingConfirmedAtStart ==
  ASSUME Typed, NEW d \in Deliveries, RowsInStep(d), cur[d] = 0,
         Current(d) # "confirmed"
  PROVE  WithStatus(ops[d], {"confirmed"}) = {}
<1>. SUFFICES ASSUME NEW o \in Ordinals PROVE ops[d][o] # "confirmed"
  BY DEF WithStatus
<1>1. CASE from[d] = NoFallback
  BY <1>1, RowsAt
     DEF Typed, RowsInStep, BranchInStep, Current, Behind, Ordinals
<1>2. CASE from[d] # NoFallback
  <2>1. plan[d].n \in Nat /\ from[d] = 0 /\ Row(d) = plan[d].n /\ o \in Nat
    BY <1>2, RowsAt DEF Typed, Ordinals
  <2>. QED BY <1>2, <2>1 DEF RowsInStep, BranchInStep, Current, Behind
<1>. QED BY <1>1, <1>2

LEMMA StatusIsTrue ==
  ASSUME Typed, InStep, NEW d \in Deliveries
  PROVE  ReportIsTrue(d, status[d])
<1>1. CASE status[d] = "absent"
  BY <1>1 DEF ReportIsTrue
<1>2. CASE status[d] # "absent"
  <2>1. RowsInStep(d) /\ StatusInStep(d) /\ ChatInStep(d)
    BY <1>2 DEF InStep, DeliveryInStep
  <2>2. /\ cur[d] \in Nat /\ plan[d].n \in Nat /\ cur[d] < plan[d].n
        /\ Len(chat[d]) \in Nat
        /\ Row(d) \in Ordinals
    BY RowsAt, TypesAt DEF Typed
  <2>3. /\ status[d] = "confirmed" => WithStatus(ops[d], Active \cup HardFailure) = {}
        /\ status[d] = "rejected" => WithStatus(ops[d], {"confirmed"}) = {}
        /\ status[d] = "partial_rejected" => WithStatus(ops[d], {"confirmed"}) # {}
    BY DEF Typed, LedgerInv, SummaryAgrees
  <2>4. CASE status[d] = "confirmed"
    <3>1. Current(d) = "confirmed" /\ AtLastPart(d)
      BY <2>1, <2>4, TypesAt, <2>2
         DEF StatusInStep, NonTerminal, OperationStatus, Current
    <3>. QED BY <2>1, <2>2, <2>4, <3>1 DEF ChatInStep, AtLastPart, ReportIsTrue
  <2>5. CASE status[d] = "rejected"
    <3>1. \A o \in Ordinals : ops[d][o] # "confirmed"
      BY <2>3, <2>5 DEF WithStatus
    <3>2. cur[d] = 0
      <4>1. cur[d] > 0 => ops[d][Covering(d, 0)] = "confirmed"
        BY <2>1, <2>2, CoveringBefore
      <4>2. Covering(d, 0) \in Ordinals
        BY <2>2, CoveringExists
      <4>. QED BY <2>2, <3>1, <4>1, <4>2
    <3>3. Current(d) \in {"rejected", "skipped"}
      BY <2>1, <2>2, <2>5, <3>1, TypesAt DEF StatusInStep, NonTerminal, OperationStatus, Current
    <3>4. Len(chat[d]) = 0
      BY <2>1, <3>2, <3>3 DEF ChatInStep
    <3>5. chat[d] = <<>>
      BY <3>4, TypesAt
    <3>. QED BY <2>5, <3>5 DEF ReportIsTrue
  <2>6. CASE status[d] = "partial_rejected"
    <3>1. Current(d) \in {"rejected", "skipped"}
            \/ (Current(d) = "confirmed" /\ ~AtLastPart(d))
      BY <2>1, <2>2, <2>6, TypesAt DEF StatusInStep, NonTerminal, OperationStatus, Current
    <3>2. Current(d) # "confirmed" => cur[d] > 0
      <4>1. Current(d) # "confirmed" => cur[d] # 0
        BY <2>1, <2>3, <2>6, NothingConfirmedAtStart, Zenon
      <4>. QED BY <2>2, <4>1
    <3>3. Current(d) = "confirmed" => Len(chat[d]) = cur[d] + 1 /\ cur[d] + 1 < plan[d].n
      BY <2>1, <2>2, <3>1 DEF ChatInStep, AtLastPart
    <3>4. Current(d) # "confirmed" => Len(chat[d]) = cur[d]
      BY <2>1, <3>1 DEF ChatInStep
    <3>. QED BY <2>2, <2>6, <3>2, <3>3, <3>4 DEF ReportIsTrue
  <2>. QED BY <2>4, <2>5, <2>6 DEF ReportIsTrue
<1>. QED BY <1>1, <1>2

LEMMA InStepImpliesHonest == Typed /\ InStep => HonestReports
<1>. SUFFICES ASSUME Typed, InStep, NEW d \in Deliveries
              PROVE  /\ ReportIsTrue(d, outcome[d])
                     /\ ReportIsTrue(d, status[d])
                     /\ linked[d] => Len(chat[d]) = plan[d].n
                     /\ notice[d] => flight[d] = "none" /\ chat[d] = <<>>
  BY DEF HonestReports
<1>1. ReportsInStep(d)
  BY DEF InStep, DeliveryInStep
<1>2. ReportIsTrue(d, outcome[d])
  BY <1>1 DEF ReportsInStep, ReportIsTrue
<1>. QED BY <1>1, <1>2, StatusIsTrue DEF ReportsInStep, ReportIsTrue

-----------------------------------------------------------------------------
(* 5. InStep is inductive.                                                 *)

LEMMA InitInStep == Init => InStep
BY PartsAssumption
   DEF Init, LedgerInit, InStep, DeliveryInStep, Untouched, ReportsInStep, NoFallback

(* What a step on one delivery leaves of another.                          *)
Same(d) ==
  /\ status'[d] = status[d] /\ ops'[d] = ops[d] /\ errorClass'[d] = errorClass[d]
  /\ linked'[d] = linked[d] /\ plan'[d] = plan[d] /\ pc'[d] = pc[d]
  /\ cur'[d] = cur[d] /\ from'[d] = from[d] /\ confirmed'[d] = confirmed[d]
  /\ attempted'[d] = attempted[d] /\ answer'[d] = answer[d]
  /\ outcome'[d] = outcome[d] /\ notice'[d] = notice[d]
  /\ flight'[d] = flight[d] /\ chat'[d] = chat[d]

SamePlan(d) == plan'[d] = plan[d] /\ cur'[d] = cur[d] /\ from'[d] = from[d]

LEMMA SameRow ==
  ASSUME NEW d \in Deliveries, SamePlan(d)
  PROVE  /\ Row(d)' = Row(d)
         /\ AtLastPart(d)' <=> AtLastPart(d)
         /\ ops'[d] = ops[d] => Current(d)' = Current(d)
BY DEF SamePlan, Row, RowOf, AtLastPart, Current

LEMMA SameRowsInStep ==
  ASSUME NEW d \in Deliveries, SamePlan(d), ops'[d] = ops[d],
         Behind(d)' = Behind(d), RowsInStep(d)
  PROVE  RowsInStep(d)'
<1>1. Row(d)' = Row(d)
  BY SameRow
<1>2. \A first, last : BranchInStep(d, first, last)' <=> BranchInStep(d, first, last)
  BY <1>1 DEF BranchInStep
<1>. QED BY <1>2 DEF RowsInStep, SamePlan

LEMMA Undisturbed ==
  ASSUME NEW d \in Deliveries, DeliveryInStep(d), Same(d),
         up' = up \/ pc[d] \in {"idle", "done", "gone"}
  PROVE  DeliveryInStep(d)'
<1>1. SamePlan(d)
  BY DEF Same, SamePlan
<1>2. /\ Row(d)' = Row(d) /\ (AtLastPart(d)' <=> AtLastPart(d))
      /\ Current(d)' = Current(d) /\ Behind(d)' = Behind(d)
  BY <1>1, SameRow DEF Same, Behind
<1>3. RowsInStep(d) => RowsInStep(d)'
  BY <1>1, <1>2, SameRowsInStep DEF Same
<1>4. StatusInStep(d) => StatusInStep(d)'
  BY <1>2 DEF Same, StatusInStep
<1>5. ChatInStep(d) => ChatInStep(d)'
  BY <1>2 DEF Same, ChatInStep
<1>6. ExecutorInStep(d) => ExecutorInStep(d)'
  BY <1>2 DEF Same, ExecutorInStep
<1>7. ReportsInStep(d) => ReportsInStep(d)'
  BY DEF Same, ReportsInStep, ReportIsTrue
<1>8. Untouched(d) => Untouched(d)'
  BY DEF Same, Untouched
<1>. QED BY <1>3, <1>4, <1>5, <1>6, <1>7, <1>8 DEF DeliveryInStep, Same

(* A step of an executor or of the transport moves one delivery.           *)
LEMMA OthersSame ==
  ASSUME Typed, NEW d \in Deliveries, NEW e \in Deliveries, e # d,
         \/ Preflight(d) \/ Send(d) \/ Land(d) \/ \E a \in Answer : Receive(d, a)
         \/ \E r \in StoreReply : Execute(d, r)
  PROVE  Same(e) /\ up' = up
<1>1. /\ PlacesTypeOK /\ LedgerTypeOK /\ RestTypeOK
  BY DEF Typed, Places, LedgerInv
<1>2. CASE Preflight(d) \/ Send(d) \/ Land(d) \/ \E a \in Answer : Receive(d, a)
  BY <1>1, <1>2 DEF Same, Preflight, Send, Land, Receive, StopBeforeSending, Stop, Goto,
     ledgerVars, executorVars, chatVars, PlacesTypeOK, LedgerTypeOK, RestTypeOK
<1>3. ASSUME NEW r \in StoreReply, Execute(d, r)
      PROVE  Same(e) /\ up' = up
  <2>1. /\ status'[e] = status[e] /\ ops'[e] = ops[e] /\ errorClass'[e] = errorClass[e]
        /\ linked'[e] = linked[e]
    BY <1>1, <1>3 DEF Execute, Create, Mark, RecordConfirmed, RecordFailed, RecordFormat,
       Activate, Persist, Call, CreateOutboundDelivery,
       MarkOutboundDeliveryOperationSending, CompleteOutboundDeliveryOperation,
       ActivateOutboundDeliveryFallback, PersistOutboundDeliveryReply, ledgerVars,
       LedgerTypeOK
  <2>2. /\ plan' = plan /\ attempted' = attempted /\ answer' = answer /\ flight' = flight
        /\ chat' = chat /\ up' = up
    BY <1>3 DEF Execute, Create, Mark, RecordConfirmed, RecordFailed, RecordFormat,
       Activate, Persist, chatVars
  <2>3. /\ pc'[e] = pc[e] /\ cur'[e] = cur[e] /\ from'[e] = from[e]
        /\ confirmed'[e] = confirmed[e] /\ outcome'[e] = outcome[e]
        /\ notice'[e] = notice[e]
    <3>1. CASE Create(d, r) \/ Mark(d, r)
      BY <1>1, <3>1 DEF Create, Mark, Stop, StopBeforeSending, Goto, PlacesTypeOK, RestTypeOK
    <3>2. CASE RecordConfirmed(d, r)
      BY <1>1, <3>2 DEF RecordConfirmed, Stop, Goto, PlacesTypeOK, RestTypeOK
    <3>3. CASE RecordFailed(d, r) \/ RecordFormat(d, r)
      BY <1>1, <3>3 DEF RecordFailed, RecordFormat, Stop, Goto, PlacesTypeOK, RestTypeOK
    <3>4. CASE Activate(d, r) \/ Persist(d, r)
      BY <1>1, <3>4 DEF Activate, Persist, Stop, Goto, PlacesTypeOK, RestTypeOK
    <3>. QED BY <1>3, <3>1, <3>2, <3>3, <3>4 DEF Execute
  <2>. QED BY <2>1, <2>2, <2>3 DEF Same
<1>. QED BY <1>2, <1>3

(* An executor that stops, the ledger and the chat being as they were.     *)
LEMMA StopKeepsInStep ==
  ASSUME NEW d \in Deliveries, DeliveryInStep(d), status[d] # "absent",
         pc'[d] = "done", SamePlan(d), status'[d] = status[d], ops'[d] = ops[d],
         flight'[d] = flight[d], chat'[d] = chat[d], ReportsInStep(d)'
  PROVE  DeliveryInStep(d)'
<1>1. RowsInStep(d) /\ StatusInStep(d) /\ ChatInStep(d)
  BY DEF DeliveryInStep
<1>2. (AtLastPart(d)' <=> AtLastPart(d)) /\ Current(d)' = Current(d)
        /\ Behind(d)' = Behind(d)
  BY SameRow DEF Behind
<1>3. RowsInStep(d)'
  BY <1>1, <1>2, SameRowsInStep
<1>4. StatusInStep(d)' /\ ChatInStep(d)'
  BY <1>1, <1>2 DEF StatusInStep, ChatInStep, SamePlan
<1>5. ExecutorInStep(d)'
  BY DEF ExecutorInStep, Attempting
<1>. QED BY <1>3, <1>4, <1>5 DEF DeliveryInStep

(* A reply that is refused before it was filed.                            *)
LEMMA RefusedInStep ==
  ASSUME Typed, InStep, NEW d \in Deliveries, pc[d] = "idle",
         StopBeforeSending(d, "rejected"), ledgerVars' = ledgerVars,
         UNCHANGED <<chatVars, plan, cur, from, confirmed, attempted>>
  PROVE  DeliveryInStep(d)'
<1>1. status[d] = "absent" /\ Untouched(d)
  BY DEF InStep, DeliveryInStep
<1>2. pc'[d] = "done" /\ outcome'[d] = "rejected" /\ notice'[d] = TRUE
  BY <1>1 DEF StopBeforeSending, Stop, Typed, Places, PlacesTypeOK, RestTypeOK, Untouched
<1>3. Untouched(d)' /\ status'[d] = "absent" /\ chat'[d] = <<>> /\ flight'[d] = "none"
        /\ ~linked'[d]
  BY <1>1, <1>2 DEF Untouched, ledgerVars, chatVars
<1>4. ReportsInStep(d)'
  BY <1>2, <1>3 DEF ReportsInStep, ReportIsTrue
<1>. QED BY <1>2, <1>3, <1>4 DEF DeliveryInStep

LEMMA PreflightInStep ==
  ASSUME Typed, InStep, NEW d \in Deliveries, Preflight(d)
  PROVE  DeliveryInStep(d)'
BY RefusedInStep DEF Preflight

LEMMA CreateInStep ==
  ASSUME Typed, InStep, NEW d \in Deliveries, NEW r \in StoreReply, Create(d, r)
  PROVE  DeliveryInStep(d)'
<1>1. status[d] = "absent" /\ Untouched(d) /\ pc[d] = "idle" /\ up
  BY DEF InStep, DeliveryInStep, Create
<1>2. CASE r = "failed"
  BY <1>1, <1>2, RefusedInStep DEF Create, Call
<1>3. CASE r # "failed"
  <2>1. CreateOutboundDelivery(d, plan[d].n)
    BY <1>3 DEF Create, Call
  <2>2. /\ status'[d] = "planned" /\ linked'[d] = linked[d]
        /\ ops'[d] = [o \in Ordinals |-> IF o < plan[d].n THEN "planned" ELSE "absent"]
    BY <2>1 DEF CreateOutboundDelivery, Typed, LedgerInv, LedgerTypeOK
  <2>3. SamePlan(d) /\ chat'[d] = chat[d] /\ flight'[d] = flight[d] /\ up' = up
          /\ attempted'[d] = attempted[d] /\ confirmed'[d] = confirmed[d]
    BY DEF Create, SamePlan, chatVars
  <2>4. \/ pc'[d] = "mark" /\ outcome'[d] = outcome[d] /\ notice'[d] = notice[d]
        \/ pc'[d] = "done" /\ outcome'[d] = "rejected" /\ notice'[d] = TRUE
    BY <1>1 DEF Create, Goto, StopBeforeSending, Stop, Typed, Places, PlacesTypeOK,
       RestTypeOK, Untouched
  <2>5. /\ cur[d] = 0 /\ from[d] = NoFallback /\ confirmed[d] = 0 /\ chat[d] = <<>>
        /\ flight[d] = "none" /\ ~linked[d] /\ ~attempted[d]
    BY <1>1 DEF Untouched
  <2>6. Row(d)' = 0 /\ cur'[d] = 0 /\ from'[d] = NoFallback /\ plan'[d] = plan[d]
    BY <2>3, <2>5 DEF SamePlan, Row, RowOf
  <2>7. plan[d].n \in Nat /\ 0 < plan[d].n /\ plan[d].n <= MaxOps /\ 0 \in Ordinals
    BY RowsAt, MaxOpsAssumption DEF Typed, Ordinals
  <2>8. Current(d)' = "planned" /\ Behind(d)' = "planned"
    BY <2>2, <2>6, <2>7 DEF Current, Behind, NonTerminal
  <2>9. RowsInStep(d)'
    BY <2>2, <2>6, <2>7, <2>8 DEF RowsInStep, BranchInStep, Ordinals
  <2>10. StatusInStep(d)'
    BY <2>2, <2>8 DEF StatusInStep, NonTerminal, OperationStatus
  <2>11. ChatInStep(d)'
    BY <2>3, <2>5, <2>6, <2>8 DEF ChatInStep
  <2>12. ExecutorInStep(d)'
    BY <2>2, <2>3, <2>4, <2>5, <2>6, <2>8 DEF ExecutorInStep, Attempting
  <2>13. ReportsInStep(d)'
    <3>1. ReportsInStep(d)
      BY DEF InStep, DeliveryInStep
    <3>. QED BY <1>1, <2>2, <2>3, <2>4, <2>5, <3>1 DEF ReportsInStep, ReportIsTrue
  <2>. QED BY <1>1, <2>2, <2>3, <2>4, <2>9, <2>10, <2>11, <2>12, <2>13 DEF DeliveryInStep
<1>. QED BY <1>2, <1>3

(* The current row gets a new status, those behind it follow the delivery. *)
LEMMA RowRewritten ==
  ASSUME Typed, NEW d \in Deliveries, RowsInStep(d), SamePlan(d),
         \A o \in Ordinals :
           /\ o < Row(d) => ops'[d][o] = ops[d][o]
           /\ o > Row(d) /\ ops[d][o] = Behind(d) => ops'[d][o] = Behind(d)'
           /\ o > Row(d) /\ ops[d][o] = "absent" => ops'[d][o] = "absent"
  PROVE  RowsInStep(d)'
<1>1. Row(d)' = Row(d)
  BY SameRow
<1>2. /\ plan[d].n \in Nat /\ cur[d] \in Nat /\ cur[d] < plan[d].n /\ Row(d) \in Nat
  BY RowsAt DEF Typed
<1>3. CASE from[d] = NoFallback
  <2>1. Row(d) = cur[d]
    BY <1>3, RowsAt DEF Typed
  <2>. QED BY <1>1, <1>2, <1>3, <2>1 DEF RowsInStep, BranchInStep, SamePlan, Ordinals
<1>4. CASE from[d] # NoFallback
  <2>1. /\ from[d] \in Nat /\ from[d] <= cur[d]
        /\ Row(d) = plan[d].n + (cur[d] - from[d])
    BY <1>4, RowsAt DEF Typed
  <2>2. \A o \in Ordinals : o >= 2 * plan[d].n - from[d] => ops'[d][o] = "absent"
    BY <1>2, <1>4, <2>1 DEF RowsInStep, Ordinals
  <2>3. \A o \in Ordinals : o \in plan[d].n .. 2 * plan[d].n - from[d] - 1 =>
          /\ o < Row(d) => ops'[d][o] = "confirmed"
          /\ o > Row(d) => ops'[d][o] = Behind(d)'
    BY <1>2, <1>4, <2>1 DEF RowsInStep, BranchInStep, Ordinals
  <2>4. ops'[d][from[d]] = "format_rejected"
    <3>1. from[d] \in Ordinals /\ from[d] < Row(d)
      BY <1>2, <1>4, <2>1, RowsAt DEF Typed, Ordinals
    <3>. QED BY <1>4, <3>1 DEF RowsInStep
  <2>5. \A o \in Ordinals :
          /\ o < from[d] => ops'[d][o] = "confirmed"
          /\ o > from[d] /\ o < plan[d].n => ops'[d][o] = "skipped"
    BY <1>2, <1>4, <2>1 DEF RowsInStep, Ordinals
  <2>6. plan'[d] = plan[d] /\ cur'[d] = cur[d] /\ from'[d] = from[d]
    BY DEF SamePlan
  <2>7. cur'[d] < plan'[d].n /\ from'[d] # NoFallback /\ from'[d] <= cur'[d]
    BY <1>2, <1>4, <2>1, <2>6
  <2>. QED BY <1>1, <2>2, <2>3, <2>4, <2>5, <2>6, <2>7 DEF RowsInStep, BranchInStep
<1>. QED BY <1>3, <1>4

(* What an executor that is underway knows.                                *)
LEMMA Underway ==
  ASSUME Typed, InStep, NEW d \in Deliveries, pc[d] \notin {"idle", "done"}
  PROVE  /\ status[d] # "absent" /\ DeliveryInStep(d)
         /\ RowsInStep(d) /\ StatusInStep(d) /\ ChatInStep(d) /\ ExecutorInStep(d)
         /\ ReportsInStep(d)
BY DEF InStep, DeliveryInStep, Untouched

(* A local stop where the chat holds just the parts before the current one. *)
LEMMA LocalStopIsTrue ==
  ASSUME Typed, NEW d \in Deliveries, confirmed[d] = cur[d], Len(chat[d]) = cur[d]
  PROVE  ReportIsTrue(d, LocalStop(d))
         /\ LocalStop(d) \in {"rejected", "partial_rejected"}
<1>1. /\ cur[d] \in Nat /\ plan[d].n \in Nat /\ cur[d] < plan[d].n
      /\ chat[d] \in Seq(Parts) /\ Len(chat[d]) \in Nat
  BY RowsAt, TypesAt DEF Typed
<1>. QED BY <1>1 DEF LocalStop, ReportIsTrue

LEMMA MarkInStep ==
  ASSUME Typed, InStep, NEW d \in Deliveries, NEW r \in StoreReply, Mark(d, r)
  PROVE  DeliveryInStep(d)'
<1>1. pc[d] = "mark"
  BY DEF Mark
<1>2. /\ status[d] # "absent" /\ DeliveryInStep(d)
      /\ RowsInStep(d) /\ StatusInStep(d) /\ ChatInStep(d) /\ ExecutorInStep(d)
      /\ ReportsInStep(d)
  BY <1>1, Underway
<1>3. /\ Current(d) = "planned" /\ status[d] \in NonTerminal /\ confirmed[d] = cur[d]
      /\ ~linked[d] /\ (~attempted[d] => flight[d] = "none" /\ chat[d] = <<>>)
      /\ Len(chat[d]) = cur[d] /\ flight[d] # "air"
  BY <1>1, <1>2 DEF ExecutorInStep, StatusInStep, ChatInStep, Attempting
<1>4. /\ SamePlan(d) /\ confirmed'[d] = confirmed[d] /\ attempted'[d] = attempted[d]
      /\ answer'[d] = answer[d] /\ flight'[d] = flight[d] /\ chat'[d] = chat[d] /\ up' = up
  BY DEF Mark, SamePlan, chatVars
<1>5. IF r = "ok" THEN pc'[d] = "send" /\ outcome'[d] = outcome[d] /\ notice'[d] = notice[d]
      ELSE /\ pc'[d] = "done" /\ outcome'[d] = LocalStop(d)
           /\ notice'[d] = (LocalStop(d) = "rejected" /\ ~attempted[d])
  BY DEF Mark, Goto, StopBeforeSending, Stop, Typed, Places, PlacesTypeOK, RestTypeOK
<1>6. ReportIsTrue(d, LocalStop(d)) /\ LocalStop(d) \in {"rejected", "partial_rejected"}
  BY <1>3, LocalStopIsTrue
<1>7. ASSUME linked'[d] = linked[d] PROVE ReportsInStep(d)'
  <2>1. CASE r = "ok"
    BY <1>1, <1>2, <1>3, <1>4, <1>5, <1>7, <2>1 DEF ReportsInStep, ReportIsTrue
  <2>2. CASE r # "ok"
    BY <1>3, <1>4, <1>5, <1>6, <1>7, <2>2 DEF ReportsInStep, ReportIsTrue, SamePlan
  <2>. QED BY <2>1, <2>2
<1>8. CASE r = "failed"
  <2>1. ledgerVars' = ledgerVars
    BY <1>8 DEF Mark, Call
  <2>. QED BY <1>2, <1>4, <1>5, <1>7, <1>8, <2>1, StopKeepsInStep DEF ledgerVars
<1>9. CASE r # "failed"
  <2>1. MarkOutboundDeliveryOperationSending(d, Row(d))
    BY <1>9 DEF Mark, Call
  <2>2. /\ status'[d] = "sending" /\ linked'[d] = linked[d]
        /\ ops'[d] = [ops[d] EXCEPT ![Row(d)] = "sending"]
    BY <2>1 DEF MarkOutboundDeliveryOperationSending, Typed, LedgerInv, LedgerTypeOK
  <2>3. Row(d)' = Row(d) /\ (AtLastPart(d)' <=> AtLastPart(d))
    BY <1>4, SameRow
  <2>4. Row(d) \in Ordinals /\ ops[d] \in [Ordinals -> OperationStatus]
    BY RowsAt, TypesAt DEF Typed
  <2>5. Current(d)' = "sending" /\ Behind(d)' = Behind(d)
    BY <1>3, <2>2, <2>3, <2>4 DEF Current, Behind, NonTerminal
  <2>6. RowsInStep(d)'
    <3>1. \A o \in Ordinals : o # Row(d) => ops'[d][o] = ops[d][o]
      BY <2>2, <2>4
    <3>2. \A o \in Ordinals : o < Row(d) \/ o > Row(d) => o # Row(d)
      BY <2>4 DEF Ordinals
    <3>. QED BY <1>2, <1>4, <2>5, <3>1, <3>2, RowRewritten
  <2>7. StatusInStep(d)'
    BY <2>2, <2>5 DEF StatusInStep, OperationStatus
  <2>8. ChatInStep(d)'
    BY <1>2, <1>3, <1>4, <2>5 DEF ChatInStep, SamePlan
  <2>9. ExecutorInStep(d)'
    BY <1>3, <1>4, <1>5, <2>2, <2>5 DEF ExecutorInStep, Attempting, SamePlan
  <2>. QED BY <1>2, <1>4, <1>5, <1>7, <2>2, <2>6, <2>7, <2>8, <2>9, <1>1
           DEF DeliveryInStep
<1>. QED BY <1>8, <1>9

(* A step of the transport: the ledger and the plan are as they were.      *)
LEMMA TransportInStep ==
  ASSUME NEW d \in Deliveries, DeliveryInStep(d), status[d] # "absent",
         SamePlan(d), status'[d] = status[d], ops'[d] = ops[d],
         pc'[d] # "idle", up' = up, up \/ pc'[d] = pc[d],
         ChatInStep(d)', ExecutorInStep(d)', ReportsInStep(d)'
  PROVE  DeliveryInStep(d)'
<1>1. RowsInStep(d) /\ StatusInStep(d)
  BY DEF DeliveryInStep
<1>2. (AtLastPart(d)' <=> AtLastPart(d)) /\ Current(d)' = Current(d)
        /\ Behind(d)' = Behind(d)
  BY SameRow DEF Behind
<1>3. RowsInStep(d)'
  BY <1>1, <1>2, SameRowsInStep
<1>4. StatusInStep(d)'
  BY <1>1, <1>2 DEF StatusInStep
<1>. QED BY <1>3, <1>4 DEF DeliveryInStep

LEMMA SendInStep ==
  ASSUME Typed, InStep, NEW d \in Deliveries, Send(d)
  PROVE  DeliveryInStep(d)'
<1>1. pc[d] = "send"
  BY DEF Send
<1>2. /\ status[d] # "absent" /\ DeliveryInStep(d) /\ ChatInStep(d) /\ ExecutorInStep(d)
      /\ ReportsInStep(d)
  BY <1>1, Underway
<1>3. /\ Current(d) = "sending" /\ confirmed[d] = cur[d] /\ ~linked[d]
      /\ Len(chat[d]) = cur[d] /\ outcome[d] = "none" /\ ~notice[d] /\ up
  BY <1>1, <1>2, TypesAt
     DEF ExecutorInStep, ReportsInStep, Attempting, DeliveryInStep
<1>4. /\ SamePlan(d) /\ status' = status /\ ops' = ops /\ linked' = linked
      /\ confirmed' = confirmed /\ outcome' = outcome /\ notice' = notice
      /\ chat' = chat /\ up' = up
      /\ flight'[d] = "air" /\ attempted'[d] = TRUE /\ pc'[d] = "wait"
  BY DEF Send, Goto, SamePlan, ledgerVars, Typed, Places, PlacesTypeOK, RestTypeOK
<1>5. Current(d)' = "sending"
  BY <1>3, <1>4, SameRow
<1>6. ChatInStep(d)'
  BY <1>2, <1>3, <1>4, <1>5 DEF ChatInStep, SamePlan
<1>7. ExecutorInStep(d)'
  BY <1>3, <1>4, <1>5 DEF ExecutorInStep, SamePlan
<1>8. ReportsInStep(d)'
  BY <1>2, <1>3, <1>4 DEF ReportsInStep
<1>. QED BY <1>2, <1>3, <1>4, <1>6, <1>7, <1>8, TransportInStep

LEMMA LandInStep ==
  ASSUME Typed, InStep, NEW d \in Deliveries, Land(d)
  PROVE  DeliveryInStep(d)'
<1>1. flight[d] = "air" /\ status[d] # "absent" /\ DeliveryInStep(d)
  BY DEF Land, InStep, DeliveryInStep, Untouched
<1>2. ChatInStep(d) /\ ExecutorInStep(d) /\ ReportsInStep(d) /\ pc[d] # "idle"
  BY <1>1 DEF DeliveryInStep
<1>3. /\ Len(chat[d]) = cur[d] /\ Current(d) \in {"sending", "unknown"}
      /\ \A i \in DOMAIN chat[d] : chat[d][i] = i - 1
  BY <1>1, <1>2 DEF ChatInStep
<1>4. /\ SamePlan(d) /\ status' = status /\ ops' = ops /\ errorClass' = errorClass
      /\ linked' = linked /\ pc' = pc /\ attempted' = attempted
      /\ confirmed' = confirmed /\ answer' = answer /\ outcome' = outcome
      /\ notice' = notice /\ up' = up
      /\ flight'[d] = "landed" /\ chat'[d] = Append(chat[d], cur[d])
  BY DEF Land, SamePlan, ledgerVars, executorVars, Typed, RestTypeOK
<1>5. /\ Len(chat'[d]) = cur[d] + 1
      /\ \A i \in DOMAIN chat'[d] : chat'[d][i] = i - 1
  <2>1. chat[d] \in Seq(Parts) /\ cur[d] \in Parts /\ cur[d] \in Nat
    BY TypesAt, RowsAt DEF Typed, Places, PlacesTypeOK
  <2>. QED BY <1>3, <1>4, <2>1
<1>6. (AtLastPart(d)' <=> AtLastPart(d)) /\ Current(d)' = Current(d)
  BY <1>4, SameRow
<1>7. ChatInStep(d)'
  BY <1>3, <1>4, <1>5, <1>6 DEF ChatInStep, SamePlan
<1>8. ExecutorInStep(d)'
  <2>1. pc[d] \in Attempting => attempted[d] /\ confirmed[d] = cur[d] /\ ~linked[d]
    BY <1>1, <1>2 DEF ExecutorInStep
  <2>2. pc[d] \notin {"send", "activate", "persist"}
    BY <1>1, <1>2, <1>3 DEF ExecutorInStep
  <2>3. pc[d] \in {"wait", "record"} => Current(d) = "sending"
    BY <1>2 DEF ExecutorInStep
  <2>4. pc[d] # "mark"
    BY <1>2, <1>3 DEF ExecutorInStep
  <2>5. pc[d] = "record" => answer[d] = "lost"
    <3>1. cur[d] \in Nat
      BY RowsAt DEF Typed
    <3>. QED BY <1>1, <1>2, <1>3, <3>1 DEF ExecutorInStep
  <2>. QED BY <1>4, <1>5, <1>6, <2>1, <2>2, <2>3, <2>4, <2>5 DEF ExecutorInStep, SamePlan
<1>9. ReportsInStep(d)'
  BY <1>1, <1>2, <1>4 DEF ReportsInStep
<1>. QED BY <1>1, <1>2, <1>4, <1>7, <1>8, <1>9, TransportInStep

LEMMA ReceiveInStep ==
  ASSUME Typed, InStep, NEW d \in Deliveries, NEW a \in Answer, Receive(d, a)
  PROVE  DeliveryInStep(d)'
<1>1. pc[d] = "wait"
  BY DEF Receive
<1>2. /\ status[d] # "absent" /\ DeliveryInStep(d) /\ ChatInStep(d) /\ ExecutorInStep(d)
      /\ ReportsInStep(d)
  BY <1>1, Underway
<1>3. /\ Current(d) = "sending" /\ confirmed[d] = cur[d] /\ ~linked[d]
      /\ flight[d] \in {"air", "landed"} /\ attempted[d]
      /\ flight[d] = "landed" => Len(chat[d]) = cur[d] + 1
      /\ outcome[d] = "none" /\ ~notice[d] /\ up
  BY <1>1, <1>2, TypesAt DEF ExecutorInStep, ReportsInStep, Attempting, DeliveryInStep
<1>4. flight[d] = "air" => Len(chat[d]) = cur[d]
  BY <1>2 DEF ChatInStep
<1>5. /\ SamePlan(d) /\ status' = status /\ ops' = ops /\ linked' = linked
      /\ confirmed' = confirmed /\ attempted' = attempted /\ outcome' = outcome
      /\ notice' = notice /\ chat' = chat /\ up' = up
      /\ answer'[d] = a /\ pc'[d] = "record"
      /\ flight'[d] = IF a \in {"format", "reject"} THEN "none" ELSE flight[d]
  BY DEF Receive, Goto, SamePlan, ledgerVars, Typed, Places, PlacesTypeOK, RestTypeOK
<1>6. /\ a \in {"ids", "ids_err", "bad_ids"} => flight[d] = "landed"
      /\ a \in {"format", "reject"} => flight[d] = "air"
      /\ a = "format" => from[d] = NoFallback
      /\ a # "none"
  BY DEF Receive, CanAnswer
<1>7. Current(d)' = "sending"
  BY <1>3, <1>5, SameRow
<1>8. ChatInStep(d)'
  BY <1>2, <1>3, <1>4, <1>5, <1>6, <1>7 DEF ChatInStep, SamePlan
<1>9. ExecutorInStep(d)'
  <2>1. CASE a \in {"ids", "ids_err", "bad_ids"}
    BY <1>3, <1>5, <1>6, <1>7, <2>1 DEF ExecutorInStep, SamePlan
  <2>2. CASE a \in {"format", "reject"}
    BY <1>3, <1>4, <1>5, <1>6, <1>7, <2>2 DEF ExecutorInStep, SamePlan
  <2>3. CASE a = "lost"
    BY <1>3, <1>5, <1>7, <2>3 DEF ExecutorInStep, SamePlan
  <2>. QED BY <1>6, <2>1, <2>2, <2>3 DEF Answer
<1>10. ReportsInStep(d)'
  BY <1>2, <1>3, <1>5 DEF ReportsInStep
<1>. QED BY <1>2, <1>3, <1>5, <1>8, <1>9, <1>10, TransportInStep

(* What recording a result does to the ledger's columns of the delivery.   *)
LEMMA CompletedColumns ==
  ASSUME Typed, NEW d \in Deliveries, NEW s, NEW c,
         CompleteOutboundDeliveryOperation(d, Row(d), s, c)
  PROVE  /\ s \in {"confirmed", "rejected", "unknown"}
         /\ ops'[d] = RowsAfter(ops[d], Row(d), s)
         /\ status'[d] = AggregateStatus(RowsAfter(ops[d], Row(d), s), s)
         /\ errorClass'[d] = [errorClass[d] EXCEPT ![Row(d)] = c]
         /\ linked'[d] = linked[d]
BY DEF CompleteOutboundDeliveryOperation, CanComplete, Typed, LedgerInv, LedgerTypeOK

(* A result other than confirmed closes the delivery.                      *)
LEMMA FailureClosesRows ==
  ASSUME Typed, NEW d \in Deliveries, RowsInStep(d), SamePlan(d),
         status[d] \in NonTerminal, NEW s \in {"rejected", "unknown"},
         ops'[d] = RowsAfter(ops[d], Row(d), s),
         status'[d] = AggregateStatus(RowsAfter(ops[d], Row(d), s), s)
  PROVE  /\ RowsInStep(d)' /\ StatusInStep(d)' /\ Current(d)' = s
         /\ status'[d] \in IF s = "rejected" THEN {"rejected", "partial_rejected"}
                          ELSE {"unknown", "partial_unknown"}
<1>1. status'[d] \in IF s = "rejected" THEN {"rejected", "partial_rejected"}
                    ELSE {"unknown", "partial_unknown"}
  BY DEF AggregateStatus, Partial
<1>2. Behind(d) = "planned" /\ Behind(d)' = "skipped"
  BY <1>1 DEF Behind, NonTerminal
<1>3. Row(d) \in Ordinals /\ Row(d)' = Row(d)
  BY RowsAt, SameRow DEF Typed
<1>4. Current(d)' = s
  BY <1>3 DEF Current, RowsAfter
<1>5. \A o \in Ordinals :
        /\ o < Row(d) => ops'[d][o] = ops[d][o]
        /\ o > Row(d) /\ ops[d][o] = "planned" => ops'[d][o] = "skipped"
        /\ o > Row(d) /\ ops[d][o] = "absent" => ops'[d][o] = "absent"
  BY <1>3 DEF RowsAfter, Ordinals
<1>6. RowsInStep(d)'
  BY <1>2, <1>5, RowRewritten
<1>7. StatusInStep(d)'
  BY <1>1, <1>4 DEF StatusInStep, OperationStatus
<1>. QED BY <1>1, <1>4, <1>6, <1>7

(* A confirmation of the last part confirms the delivery, one of an earlier *)
(* part keeps it open.                                                     *)
LEMMA ConfirmationSettlesLast ==
  ASSUME Typed, NEW d \in Deliveries, RowsInStep(d), SamePlan(d),
         status[d] = "sending", Current(d) = "sending",
         ops'[d] = RowsAfter(ops[d], Row(d), "confirmed"),
         status'[d] = AggregateStatus(RowsAfter(ops[d], Row(d), "confirmed"), "confirmed")
  PROVE  /\ RowsInStep(d)' /\ StatusInStep(d)' /\ Current(d)' = "confirmed"
         /\ status'[d] = IF AtLastPart(d) THEN "confirmed" ELSE "sending"
<1> DEFINE row == RowsAfter(ops[d], Row(d), "confirmed")
<1>1. Row(d) \in Ordinals /\ Row(d)' = Row(d) /\ (AtLastPart(d)' <=> AtLastPart(d))
  BY RowsAt, SameRow DEF Typed
<1>2. row = [ops[d] EXCEPT ![Row(d)] = "confirmed"]
  BY <1>1, TypesAt DEF RowsAfter
<1>3. /\ plan[d].n \in Nat /\ cur[d] \in Nat /\ cur[d] < plan[d].n /\ Row(d) \in Nat
      /\ MaxOps \in Nat /\ MaxParts \in Nat /\ plan[d].n <= MaxParts /\ 2 * MaxParts <= MaxOps
      /\ from[d] = NoFallback => Row(d) = cur[d]
      /\ from[d] # NoFallback => /\ from[d] \in Nat /\ from[d] <= cur[d]
                                 /\ Row(d) = plan[d].n + (cur[d] - from[d])
  BY RowsAt DEF Typed
<1>4. Behind(d) = "planned"
  BY DEF Behind, NonTerminal
<1>5. ops[d] \in [Ordinals -> OperationStatus]
  BY TypesAt
<1>6. ASSUME AtLastPart(d) PROVE status'[d] = "confirmed"
  <2>1. cur[d] = plan[d].n - 1
    BY <1>6 DEF AtLastPart
  <2>2. ASSUME NEW o \in Ordinals
        PROVE  row[o] \in {"confirmed", "format_rejected", "skipped", "absent"}
    <3>1. CASE from[d] = NoFallback
      BY <1>2, <1>3, <1>5, <2>1, <3>1 DEF RowsInStep, BranchInStep, Ordinals
    <3>2. CASE from[d] # NoFallback
      <4>1. Row(d) = 2 * plan[d].n - from[d] - 1 /\ from[d] < plan[d].n
        BY <1>3, <2>1, <3>2
      <4>2. o < from[d] \/ o = from[d] \/ (o > from[d] /\ o < plan[d].n)
              \/ (o \in plan[d].n .. Row(d) - 1) \/ o = Row(d) \/ o >= Row(d) + 1
        BY <1>3, <3>2 DEF Ordinals
      <4>3. /\ o < from[d] => ops[d][o] = "confirmed"
            /\ o = from[d] => ops[d][o] = "format_rejected"
            /\ o > from[d] /\ o < plan[d].n => ops[d][o] = "skipped"
        BY <3>2 DEF RowsInStep
      <4>4. o \in plan[d].n .. Row(d) - 1 => ops[d][o] = "confirmed"
        BY <1>3, <3>2, <4>1 DEF RowsInStep, BranchInStep, Ordinals
      <4>5. o >= Row(d) + 1 => ops[d][o] = "absent"
        BY <1>3, <3>2, <4>1 DEF RowsInStep
      <4>6. o # Row(d) => row[o] = ops[d][o]
        BY <1>2, <1>5
      <4>7. o = Row(d) => row[o] = "confirmed"
        BY <1>2, <1>5
      <4>. HIDE DEF row
      <4>. QED BY <4>2, <4>3, <4>4, <4>5, <4>6, <4>7
    <3>. QED BY <3>1, <3>2
  <2>3. WithStatus(row, Active \cup HardFailure) = {}
    <3>. HIDE DEF row
    <3>. QED BY <2>2 DEF WithStatus, Active, HardFailure
  <2>. QED BY <1>6, <2>3 DEF AggregateStatus
<1>7. ASSUME ~AtLastPart(d) PROVE status'[d] = "sending"
  <2>1. cur[d] + 1 < plan[d].n
    BY <1>3, <1>7 DEF AtLastPart
  <2>2. Row(d) + 1 \in Ordinals /\ ops[d][Row(d) + 1] = "planned"
    <3>1. CASE from[d] = NoFallback
      BY <1>3, <1>4, <2>1, <3>1 DEF RowsInStep, BranchInStep, Ordinals
    <3>2. CASE from[d] # NoFallback
      <4>1. /\ Row(d) + 1 \in Ordinals
            /\ Row(d) + 1 \in plan[d].n .. 2 * plan[d].n - from[d] - 1
            /\ Row(d) + 1 > Row(d)
        BY <1>3, <2>1, <3>2 DEF Ordinals
      <4>2. BranchInStep(d, plan[d].n, 2 * plan[d].n - from[d] - 1)
        BY <3>2 DEF RowsInStep
      <4>. QED BY <1>4, <4>1, <4>2 DEF BranchInStep
    <3>. QED BY <3>1, <3>2
  <2>3. row[Row(d) + 1] = "planned"
    BY <1>2, <1>3, <1>5, <2>2
  <2>4. WithStatus(row, Active \cup HardFailure) # {}
    <3>. HIDE DEF row
    <3>. QED BY <2>2, <2>3 DEF WithStatus, Active
  <2>. QED BY <1>7, <2>4 DEF AggregateStatus
<1>8. status'[d] = IF AtLastPart(d) THEN "confirmed" ELSE "sending"
  BY <1>6, <1>7
<1>9. Current(d)' = "confirmed"
  BY <1>1, <1>2, <1>5 DEF Current
<1>10. RowsInStep(d)'
  <2>1. \A o \in Ordinals : o # Row(d) => ops'[d][o] = ops[d][o]
    BY <1>2, <1>5
  <2>2. CASE ~AtLastPart(d)
    <3>1. Behind(d)' = Behind(d)
      BY <1>4, <1>8, <2>2 DEF Behind, NonTerminal
    <3>. QED BY <1>3, <2>1, <3>1, RowRewritten DEF Ordinals
  <2>3. CASE AtLastPart(d)
    <3>1. cur[d] = plan[d].n - 1
      BY <2>3 DEF AtLastPart
    <3>2. \A o \in Ordinals : o > Row(d) => ops[d][o] # Behind(d)
      <4>1. CASE from[d] = NoFallback
        BY <1>3, <1>4, <3>1, <4>1 DEF RowsInStep, Ordinals
      <4>2. CASE from[d] # NoFallback
        <5>1. Row(d) = 2 * plan[d].n - from[d] - 1
          BY <1>3, <3>1, <4>2
        <5>2. \A o \in Ordinals : o > Row(d) => o >= 2 * plan[d].n - from[d]
          BY <1>3, <4>2, <5>1 DEF Ordinals
        <5>. QED BY <1>4, <4>2, <5>2 DEF RowsInStep
      <4>. QED BY <4>1, <4>2
    <3>. QED BY <1>3, <2>1, <3>2, RowRewritten DEF Ordinals
  <2>. QED BY <2>2, <2>3
<1>11. StatusInStep(d)'
  BY <1>1, <1>8, <1>9 DEF StatusInStep, OperationStatus
<1>. QED BY <1>8, <1>9, <1>10, <1>11

(* The executor moves on to the next part.                                 *)
LEMMA NextRow ==
  ASSUME Typed, NEW d \in Deliveries, RowsInStep(d),
         status[d] = "sending", Current(d) = "sending", ~AtLastPart(d),
         plan'[d] = plan[d], from'[d] = from[d], cur'[d] = cur[d] + 1,
         ops'[d] = RowsAfter(ops[d], Row(d), "confirmed"),
         status'[d] = AggregateStatus(RowsAfter(ops[d], Row(d), "confirmed"), "confirmed")
  PROVE  RowsInStep(d)' /\ Current(d)' = "planned" /\ status'[d] = "sending"
<1>1. /\ plan[d].n \in Nat /\ cur[d] \in Nat /\ cur[d] + 1 < plan[d].n /\ Row(d) \in Nat
      /\ MaxOps \in Nat /\ MaxParts \in Nat /\ plan[d].n <= MaxParts /\ 2 * MaxParts <= MaxOps
      /\ from[d] = NoFallback => Row(d) = cur[d]
      /\ from[d] # NoFallback => /\ from[d] \in Nat /\ from[d] <= cur[d]
                                 /\ Row(d) = plan[d].n + (cur[d] - from[d])
  BY RowsAt DEF Typed, AtLastPart
<1>2. Row(d)' = Row(d) + 1
  BY <1>1 DEF Row, RowOf
<1>3. \A o \in Ordinals : ops'[d][o] = IF o = Row(d) THEN "confirmed" ELSE ops[d][o]
  BY DEF RowsAfter
<1>4. Behind(d) = "planned"
  BY DEF Behind, NonTerminal
<1>5. Row(d) + 1 \in Ordinals /\ ops[d][Row(d) + 1] = "planned"
  <2>1. CASE from[d] = NoFallback
    BY <1>1, <1>4, <2>1 DEF RowsInStep, BranchInStep, Ordinals
  <2>2. CASE from[d] # NoFallback
    <3>1. /\ Row(d) + 1 \in Ordinals
          /\ Row(d) + 1 \in plan[d].n .. 2 * plan[d].n - from[d] - 1
          /\ Row(d) + 1 > Row(d)
      BY <1>1, <2>2 DEF Ordinals
    <3>2. BranchInStep(d, plan[d].n, 2 * plan[d].n - from[d] - 1)
      BY <2>2 DEF RowsInStep
    <3>. QED BY <1>4, <3>1, <3>2 DEF BranchInStep
  <2>. QED BY <2>1, <2>2
<1>6. Current(d)' = "planned"
  BY <1>1, <1>2, <1>3, <1>5 DEF Current
<1>7. status'[d] = "sending"
  <2>1. Row(d) + 1 \in WithStatus(RowsAfter(ops[d], Row(d), "confirmed"),
                                  Active \cup HardFailure)
    BY <1>1, <1>5 DEF RowsAfter, WithStatus, Active
  <2>. QED BY <2>1 DEF AggregateStatus
<1>8. Behind(d)' = "planned"
  BY <1>7 DEF Behind, NonTerminal
<1>9. CASE from[d] = NoFallback
  <2>1. \A o \in Ordinals :
          /\ o >= plan[d].n => ops'[d][o] = "absent"
          /\ o < cur[d] + 1 => ops'[d][o] = "confirmed"
          /\ o > cur[d] + 1 /\ o \in 0 .. plan[d].n - 1 => ops'[d][o] = "planned"
    BY <1>1, <1>3, <1>4, <1>9 DEF RowsInStep, BranchInStep, Ordinals
  <2>. QED BY <1>1, <1>2, <1>6, <1>7, <1>8, <1>9, <2>1 DEF RowsInStep, BranchInStep
<1>10. CASE from[d] # NoFallback
  <2>1. \A o \in Ordinals : o >= 2 * plan[d].n - from[d] => ops'[d][o] = "absent"
    BY <1>1, <1>3, <1>10 DEF RowsInStep, Ordinals
  <2>2. \A o \in Ordinals : o \in plan[d].n .. 2 * plan[d].n - from[d] - 1 =>
          /\ o < Row(d) + 1 => ops'[d][o] = "confirmed"
          /\ o > Row(d) + 1 => ops'[d][o] = "planned"
    BY <1>1, <1>3, <1>4, <1>10 DEF RowsInStep, BranchInStep, Ordinals
  <2>3. ops'[d][from[d]] = "format_rejected"
    <3>1. from[d] \in Ordinals /\ from[d] # Row(d)
      BY <1>1, <1>10 DEF Ordinals
    <3>. QED BY <1>3, <1>10, <3>1 DEF RowsInStep
  <2>4. \A o \in Ordinals :
          /\ o < from[d] => ops'[d][o] = "confirmed"
          /\ o > from[d] /\ o < plan[d].n => ops'[d][o] = "skipped"
    BY <1>1, <1>3, <1>10 DEF RowsInStep, Ordinals
  <2>. QED BY <1>1, <1>2, <1>6, <1>7, <1>8, <1>10, <2>1, <2>2, <2>3, <2>4
           DEF RowsInStep, BranchInStep
<1>. QED BY <1>6, <1>7, <1>9, <1>10

(* An executor that waits to record an answer.                             *)
LEMMA Recording ==
  ASSUME Typed, InStep, NEW d \in Deliveries, pc[d] = "record"
  PROVE  /\ status[d] = "sending" /\ Current(d) = "sending" /\ confirmed[d] = cur[d]
         /\ RowsInStep(d) /\ ChatInStep(d) /\ ReportsInStep(d) /\ DeliveryInStep(d)
         /\ ~linked[d] /\ outcome[d] = "none" /\ ~notice[d] /\ up
         /\ (~attempted[d] => flight[d] = "none" /\ chat[d] = <<>>)
         /\ answer[d] \in {"ids", "ids_err", "bad_ids"} => Len(chat[d]) = cur[d] + 1
         /\ answer[d] = "reject" => Len(chat[d]) = cur[d] /\ flight[d] = "none"
         /\ answer[d] = "format" => /\ Len(chat[d]) = cur[d] /\ flight[d] = "none"
                                    /\ from[d] = NoFallback
<1>1. /\ status[d] # "absent" /\ DeliveryInStep(d) /\ RowsInStep(d) /\ StatusInStep(d)
      /\ ChatInStep(d) /\ ExecutorInStep(d) /\ ReportsInStep(d)
  BY Underway
<1>2. /\ Current(d) = "sending" /\ confirmed[d] = cur[d] /\ ~linked[d]
      /\ (~attempted[d] => flight[d] = "none" /\ chat[d] = <<>>)
  BY <1>1 DEF ExecutorInStep, Attempting
<1>3. status[d] = "sending"
  BY <1>1, <1>2 DEF StatusInStep
<1>4. outcome[d] = "none" /\ ~notice[d] /\ up
  BY <1>1, TypesAt DEF ReportsInStep, DeliveryInStep
<1>5. /\ answer[d] \in {"ids", "ids_err", "bad_ids"} => Len(chat[d]) = cur[d] + 1
      /\ answer[d] = "reject" => Len(chat[d]) = cur[d] /\ flight[d] = "none"
      /\ answer[d] = "format" => /\ Len(chat[d]) = cur[d] /\ flight[d] = "none"
                                 /\ from[d] = NoFallback
  BY <1>1 DEF ExecutorInStep
<1>. QED BY <1>1, <1>2, <1>3, <1>4, <1>5

LEMMA RecordConfirmedInStep ==
  ASSUME Typed, InStep, NEW d \in Deliveries, NEW r \in StoreReply, RecordConfirmed(d, r)
  PROVE  DeliveryInStep(d)'
<1>1. pc[d] = "record" /\ answer[d] \in {"ids", "ids_err"}
  BY DEF RecordConfirmed
<1>2. /\ status[d] = "sending" /\ Current(d) = "sending" /\ confirmed[d] = cur[d]
      /\ RowsInStep(d) /\ ChatInStep(d) /\ ReportsInStep(d) /\ DeliveryInStep(d)
      /\ ~linked[d] /\ outcome[d] = "none" /\ ~notice[d] /\ up
      /\ (~attempted[d] => flight[d] = "none" /\ chat[d] = <<>>)
      /\ Len(chat[d]) = cur[d] + 1
  BY <1>1, Recording
<1>3. /\ plan[d].n \in Nat /\ cur[d] \in Nat /\ cur[d] < plan[d].n
  BY RowsAt DEF Typed
<1>4. attempted[d] /\ flight[d] = "landed" /\ \A i \in DOMAIN chat[d] : chat[d][i] = i - 1
  <2>1. chat[d] # <<>>
    BY <1>2, <1>3
  <2>. QED BY <1>2, <1>3, <2>1 DEF ChatInStep
<1>5. /\ plan' = plan /\ from' = from /\ flight' = flight /\ chat' = chat
      /\ attempted' = attempted /\ notice' = notice /\ up' = up
      /\ confirmed'[d] = cur[d] + 1
  BY <1>2 DEF RecordConfirmed, chatVars, Typed, Places, PlacesTypeOK
<1>6. CASE r # "ok"
  <2>1. /\ cur' = cur /\ pc'[d] = "done" /\ outcome'[d] \in {"unknown", "partial_unknown"}
    BY <1>6 DEF RecordConfirmed, Stop, UnrecordedOutcome, Typed, Places, PlacesTypeOK, RestTypeOK
  <2>2. SamePlan(d)
    BY <1>5, <2>1 DEF SamePlan
  <2>3. ASSUME linked'[d] = linked[d] PROVE ReportsInStep(d)'
    BY <1>2, <1>5, <2>1, <2>3 DEF ReportsInStep
  <2>4. CASE r = "failed"
    <3>1. ledgerVars' = ledgerVars
      BY <2>4 DEF RecordConfirmed, Call
    <3>. QED BY <1>2, <1>5, <2>1, <2>2, <2>3, <3>1, StopKeepsInStep DEF ledgerVars
  <2>5. CASE r # "failed"
    <3>1. CompleteOutboundDeliveryOperation(d, Row(d), "confirmed", "none")
      BY <2>5 DEF RecordConfirmed, Call
    <3>2. /\ ops'[d] = RowsAfter(ops[d], Row(d), "confirmed")
          /\ status'[d] = AggregateStatus(RowsAfter(ops[d], Row(d), "confirmed"), "confirmed")
          /\ linked'[d] = linked[d]
      BY <3>1, CompletedColumns
    <3>3. RowsInStep(d)' /\ StatusInStep(d)' /\ Current(d)' = "confirmed"
            /\ status'[d] \in {"confirmed", "sending"}
      BY <1>2, <2>2, <3>2, ConfirmationSettlesLast
    <3>4. ChatInStep(d)'
      BY <1>2, <1>4, <1>5, <2>1, <3>3 DEF ChatInStep
    <3>5. ExecutorInStep(d)'
      BY <2>1 DEF ExecutorInStep, Attempting
    <3>. QED BY <2>1, <2>3, <3>2, <3>3, <3>4, <3>5 DEF DeliveryInStep
  <2>. QED BY <2>4, <2>5
<1>7. CASE r = "ok"
  <2>1. CompleteOutboundDeliveryOperation(d, Row(d), "confirmed", "none")
    BY <1>7 DEF RecordConfirmed, Call
  <2>2. /\ ops'[d] = RowsAfter(ops[d], Row(d), "confirmed")
        /\ status'[d] = AggregateStatus(RowsAfter(ops[d], Row(d), "confirmed"), "confirmed")
        /\ linked'[d] = linked[d]
    BY <2>1, CompletedColumns
  <2>3. CASE AtLastPart(d)
    <3>1. cur' = cur /\ pc'[d] = "persist" /\ outcome'[d] = "confirmed"
      BY <1>7, <2>3 DEF RecordConfirmed, Typed, Places, PlacesTypeOK, RestTypeOK
    <3>2. SamePlan(d)
      BY <1>5, <3>1 DEF SamePlan
    <3>3. RowsInStep(d)' /\ StatusInStep(d)' /\ Current(d)' = "confirmed"
            /\ status'[d] = "confirmed"
      BY <1>2, <2>2, <2>3, <3>2, ConfirmationSettlesLast
    <3>4. ChatInStep(d)'
      BY <1>2, <1>4, <1>5, <3>1, <3>3 DEF ChatInStep
    <3>5. AtLastPart(d)'
      BY <2>3, <3>2, SameRow
    <3>6. ExecutorInStep(d)'
      BY <1>2, <2>2, <3>1, <3>3, <3>5 DEF ExecutorInStep, Attempting
    <3>7. ReportsInStep(d)'
      BY <1>2, <1>3, <1>4, <1>5, <2>2, <2>3, <3>1
         DEF ReportsInStep, ReportIsTrue, AtLastPart
    <3>. QED BY <1>2, <1>5, <3>1, <3>3, <3>4, <3>6, <3>7 DEF DeliveryInStep
  <2>4. CASE ~AtLastPart(d)
    <3>1. cur'[d] = cur[d] + 1 /\ pc'[d] = "mark" /\ outcome'[d] = outcome[d]
      BY <1>7, <2>4 DEF RecordConfirmed, Goto, Typed, Places, PlacesTypeOK, RestTypeOK
    <3>2. cur[d] + 1 < plan[d].n
      BY <1>3, <2>4 DEF AtLastPart
    <3>3. /\ RowsInStep(d)' /\ Current(d)' = "planned" /\ status'[d] = "sending"
      BY <1>2, <1>5, <2>2, <2>4, <3>1, NextRow
    <3>4. StatusInStep(d)'
      BY <3>3 DEF StatusInStep, NonTerminal, OperationStatus
    <3>5. ChatInStep(d)'
      BY <1>2, <1>4, <1>5, <3>1, <3>3 DEF ChatInStep
    <3>6. ExecutorInStep(d)'
      BY <1>2, <1>4, <1>5, <2>2, <3>1, <3>3 DEF ExecutorInStep, Attempting
    <3>7. ReportsInStep(d)'
      BY <1>2, <1>5, <2>2, <3>1 DEF ReportsInStep
    <3>. QED BY <1>2, <1>5, <3>1, <3>3, <3>4, <3>5, <3>6, <3>7 DEF DeliveryInStep
  <2>. QED BY <2>3, <2>4
<1>. QED BY <1>6, <1>7

LEMMA RecordFailedInStep ==
  ASSUME Typed, InStep, NEW d \in Deliveries, NEW r \in StoreReply, RecordFailed(d, r)
  PROVE  DeliveryInStep(d)'
<1> DEFINE s == IF answer[d] = "reject" THEN "rejected" ELSE "unknown"
<1>1. pc[d] = "record" /\ answer[d] \in {"bad_ids", "lost", "reject"}
  BY DEF RecordFailed
<1>2. /\ status[d] = "sending" /\ Current(d) = "sending" /\ confirmed[d] = cur[d]
      /\ RowsInStep(d) /\ ChatInStep(d) /\ ReportsInStep(d) /\ DeliveryInStep(d)
      /\ ~linked[d] /\ outcome[d] = "none" /\ ~notice[d] /\ up
      /\ answer[d] = "reject" => Len(chat[d]) = cur[d] /\ flight[d] = "none"
  BY <1>1, Recording
<1>3. /\ SamePlan(d) /\ flight' = flight /\ chat' = chat /\ notice' = notice /\ up' = up
  BY DEF RecordFailed, SamePlan, chatVars
<1>4. /\ pc'[d] = "done"
      /\ outcome'[d] = OutcomeAfterFailure(d, s)
  BY DEF RecordFailed, Stop, Typed, Places, PlacesTypeOK, RestTypeOK
<1>5. ASSUME linked'[d] = linked[d] PROVE ReportsInStep(d)'
  <2>1. CASE answer[d] = "reject"
    <3>1. outcome'[d] = LocalStop(d)
      BY <1>4, <2>1, TypesAt DEF LocalStop, OutcomeAfterFailure
    <3>2. ReportIsTrue(d, LocalStop(d))
      BY <1>2, <2>1, LocalStopIsTrue
    <3>. QED BY <1>2, <1>3, <1>4, <1>5, <2>1, <3>1, <3>2
             DEF ReportsInStep, ReportIsTrue, SamePlan
  <2>2. CASE answer[d] # "reject"
    <3>1. outcome'[d] \in {"unknown", "partial_unknown"}
      BY <1>4, <2>2 DEF OutcomeAfterFailure
    <3>. QED BY <1>2, <1>3, <1>4, <1>5, <3>1 DEF ReportsInStep
  <2>. QED BY <2>1, <2>2
<1>6. CASE r = "failed"
  <2>1. ledgerVars' = ledgerVars
    BY <1>6 DEF RecordFailed, Call
  <2>. QED BY <1>2, <1>3, <1>4, <1>5, <2>1, StopKeepsInStep DEF ledgerVars
<1>7. CASE r # "failed"
  <2>1. CompleteOutboundDeliveryOperation(d, Row(d), s, "failed")
    BY <1>7 DEF RecordFailed, Call
  <2>2. /\ ops'[d] = RowsAfter(ops[d], Row(d), s)
        /\ status'[d] = AggregateStatus(RowsAfter(ops[d], Row(d), s), s)
        /\ linked'[d] = linked[d]
    BY <2>1, CompletedColumns
  <2>3. /\ RowsInStep(d)' /\ StatusInStep(d)' /\ Current(d)' = s
        /\ status'[d] # "absent"
    <3>1. s \in {"rejected", "unknown"} /\ status[d] \in NonTerminal
      BY <1>2 DEF NonTerminal
    <3>. HIDE DEF s
    <3>. QED BY <1>2, <1>3, <2>2, <3>1, FailureClosesRows
  <2>4. ChatInStep(d)'
    <3>1. CASE answer[d] = "reject"
      BY <1>2, <1>3, <2>3, <3>1 DEF ChatInStep, SamePlan
    <3>2. CASE answer[d] # "reject"
      BY <1>2, <1>3, <2>3, <3>2 DEF ChatInStep, SamePlan
    <3>. QED BY <3>1, <3>2
  <2>5. ExecutorInStep(d)'
    BY <1>4 DEF ExecutorInStep, Attempting
  <2>. QED BY <1>4, <1>5, <2>2, <2>3, <2>4, <2>5 DEF DeliveryInStep
<1>. QED BY <1>6, <1>7

LEMMA RecordFormatInStep ==
  ASSUME Typed, InStep, NEW d \in Deliveries, NEW r \in StoreReply, RecordFormat(d, r)
  PROVE  DeliveryInStep(d)'
<1>1. pc[d] = "record" /\ answer[d] = "format"
  BY DEF RecordFormat
<1>2. /\ status[d] = "sending" /\ Current(d) = "sending" /\ confirmed[d] = cur[d]
      /\ RowsInStep(d) /\ ChatInStep(d) /\ ReportsInStep(d) /\ DeliveryInStep(d)
      /\ ~linked[d] /\ outcome[d] = "none" /\ ~notice[d] /\ up
      /\ (~attempted[d] => flight[d] = "none" /\ chat[d] = <<>>)
      /\ Len(chat[d]) = cur[d] /\ flight[d] = "none" /\ from[d] = NoFallback
  BY <1>1, Recording
<1>3. /\ SamePlan(d) /\ flight' = flight /\ chat' = chat /\ notice' = notice /\ up' = up
      /\ attempted' = attempted /\ confirmed' = confirmed
  BY DEF RecordFormat, SamePlan, chatVars
<1>4. IF r = "ok" THEN pc'[d] = "activate" /\ outcome'[d] = outcome[d]
      ELSE pc'[d] = "done" /\ outcome'[d] = LocalStop(d)
  BY DEF RecordFormat, Stop, Goto, Typed, Places, PlacesTypeOK, RestTypeOK
<1>5. ReportIsTrue(d, LocalStop(d))
  BY <1>2, LocalStopIsTrue
<1>6. ASSUME linked'[d] = linked[d] PROVE ReportsInStep(d)'
  <2>1. CASE r = "ok"
    BY <1>2, <1>3, <1>4, <1>6, <2>1 DEF ReportsInStep
  <2>2. CASE r # "ok"
    BY <1>2, <1>3, <1>4, <1>5, <1>6, <2>2 DEF ReportsInStep, ReportIsTrue, SamePlan
  <2>. QED BY <2>1, <2>2
<1>7. CASE r = "failed"
  <2>1. ledgerVars' = ledgerVars
    BY <1>7 DEF RecordFormat, Call
  <2>. QED BY <1>2, <1>3, <1>4, <1>6, <1>7, <2>1, StopKeepsInStep DEF ledgerVars
<1>8. CASE r # "failed"
  <2>1. CompleteOutboundDeliveryOperation(d, Row(d), "rejected", "format")
    BY <1>8 DEF RecordFormat, Call
  <2>2. /\ ops'[d] = RowsAfter(ops[d], Row(d), "rejected")
        /\ status'[d] = AggregateStatus(RowsAfter(ops[d], Row(d), "rejected"), "rejected")
        /\ errorClass'[d] = [errorClass[d] EXCEPT ![Row(d)] = "format"]
        /\ linked'[d] = linked[d]
    BY <2>1, CompletedColumns
  <2>3. /\ RowsInStep(d)' /\ StatusInStep(d)' /\ Current(d)' = "rejected"
        /\ status'[d] # "absent"
    <3>1. status[d] \in NonTerminal
      BY <1>2 DEF NonTerminal
    <3>. QED BY <1>2, <1>3, <2>2, <3>1, FailureClosesRows
  <2>4. ChatInStep(d)'
    BY <1>2, <1>3, <2>3 DEF ChatInStep, SamePlan
  <2>5. errorClass'[d][cur[d]] = "format"
    <3>1. Row(d) = cur[d] /\ cur[d] \in Ordinals /\ errorClass[d] \in [Ordinals -> ErrorClass]
      BY <1>2, RowsAt, TypesAt DEF Typed
    <3>. QED BY <2>2, <3>1
  <2>6. ExecutorInStep(d)'
    BY <1>2, <1>3, <1>4, <2>2, <2>3, <2>5 DEF ExecutorInStep, Attempting, SamePlan
  <2>. QED BY <1>2, <1>3, <1>4, <1>6, <2>2, <2>3, <2>4, <2>6 DEF DeliveryInStep
<1>. QED BY <1>7, <1>8

LEMMA PersistInStep ==
  ASSUME Typed, InStep, NEW d \in Deliveries, NEW r \in StoreReply, Persist(d, r)
  PROVE  DeliveryInStep(d)'
<1>1. pc[d] = "persist"
  BY DEF Persist
<1>2. /\ status[d] # "absent" /\ DeliveryInStep(d) /\ StatusInStep(d) /\ ExecutorInStep(d)
      /\ ReportsInStep(d)
  BY <1>1, Underway
<1>3. status[d] = "confirmed"
  BY <1>1, <1>2 DEF ExecutorInStep, StatusInStep
<1>4. /\ SamePlan(d) /\ flight' = flight /\ chat' = chat /\ notice' = notice
      /\ outcome' = outcome /\ pc'[d] = "done"
  BY DEF Persist, Goto, SamePlan, chatVars, Typed, Places, PlacesTypeOK
<1>5. status' = status /\ ops' = ops
  BY DEF Persist, Call, PersistOutboundDeliveryReply, ledgerVars
<1>6. ReportsInStep(d)'
  BY <1>2, <1>3, <1>4, <1>5 DEF ReportsInStep, ReportIsTrue, SamePlan
<1>. QED BY <1>2, <1>4, <1>5, <1>6, StopKeepsInStep

(* What switching to the fallback leaves in the delivery's rows.           *)
LEMMA ActivatedRows ==
  ASSUME Typed, NEW d \in Deliveries, RowsInStep(d), Current(d) = "rejected",
         status[d] \notin NonTerminal, from[d] = NoFallback,
         plan'[d] = plan[d], cur'[d] = cur[d], from'[d] = cur[d], status'[d] = "sending",
         ops'[d] = [i \in Ordinals |->
                      IF i \in plan[d].n .. plan[d].n + (plan[d].n - cur[d]) - 1 THEN "planned"
                      ELSE IF i = cur[d] THEN "format_rejected"
                      ELSE RowsAfter(ops[d], cur[d], "rejected")[i]]
  PROVE  RowsInStep(d)' /\ Current(d)' = "planned"
<1>1. /\ plan[d].n \in Nat /\ cur[d] \in Nat /\ cur[d] < plan[d].n
      /\ MaxOps \in Nat /\ MaxParts \in Nat /\ plan[d].n <= MaxParts /\ 2 * MaxParts <= MaxOps
      /\ Row(d) = cur[d] /\ cur[d] \in Ordinals
  BY RowsAt DEF Typed
<1>2. from'[d] # NoFallback /\ Row(d)' = plan[d].n
  BY <1>1 DEF NoFallback, Row, RowOf
<1>3. Behind(d) = "skipped" /\ Behind(d)' = "planned"
  BY DEF Behind, NonTerminal
<1>4. \A i \in Ordinals :
        /\ i < cur[d] => ops[d][i] = "confirmed"
        /\ i > cur[d] /\ i < plan[d].n => ops[d][i] = "skipped"
        /\ i >= plan[d].n => ops[d][i] = "absent"
  <2>1. \A i \in Ordinals : i \in Nat
    BY <1>1 DEF Ordinals
  <2>2. \A i \in Ordinals : i >= plan[d].n => ops[d][i] = "absent"
    BY DEF RowsInStep
  <2>3. BranchInStep(d, 0, plan[d].n - 1)
    BY DEF RowsInStep
  <2>4. \A i \in Ordinals : i < plan[d].n => i \in 0 .. plan[d].n - 1
    BY <1>1, <2>1
  <2>5. \A i \in Ordinals : i < plan[d].n =>
          /\ i < cur[d] => ops[d][i] = "confirmed"
          /\ i > cur[d] => ops[d][i] = "skipped"
    BY <1>1, <1>3, <2>3, <2>4 DEF BranchInStep
  <2>. QED BY <1>1, <2>1, <2>2, <2>5
<1>5. \A i \in Ordinals :
        /\ i < cur[d] => ops'[d][i] = "confirmed"
        /\ i = cur[d] => ops'[d][i] = "format_rejected"
        /\ i > cur[d] /\ i < plan[d].n => ops'[d][i] = "skipped"
        /\ i \in plan[d].n .. 2 * plan[d].n - cur[d] - 1 => ops'[d][i] = "planned"
        /\ i >= 2 * plan[d].n - cur[d] => ops'[d][i] = "absent"
  <2>. SUFFICES ASSUME NEW i \in Ordinals
       PROVE  /\ i < cur[d] => ops'[d][i] = "confirmed"
              /\ i = cur[d] => ops'[d][i] = "format_rejected"
              /\ i > cur[d] /\ i < plan[d].n => ops'[d][i] = "skipped"
              /\ i \in plan[d].n .. 2 * plan[d].n - cur[d] - 1 => ops'[d][i] = "planned"
              /\ i >= 2 * plan[d].n - cur[d] => ops'[d][i] = "absent"
    OBVIOUS
  <2>1. i \in Nat
    BY <1>1 DEF Ordinals
  <2>2. ops'[d][i] =
          IF i \in plan[d].n .. plan[d].n + (plan[d].n - cur[d]) - 1 THEN "planned"
          ELSE IF i = cur[d] THEN "format_rejected"
          ELSE RowsAfter(ops[d], cur[d], "rejected")[i]
    OBVIOUS
  <2>3. i # cur[d] => RowsAfter(ops[d], cur[d], "rejected")[i] =
          IF i > cur[d] /\ ops[d][i] = "planned" THEN "skipped" ELSE ops[d][i]
    BY DEF RowsAfter
  <2>4. CASE i < cur[d]
    BY <1>1, <1>4, <2>1, <2>2, <2>3, <2>4
  <2>5. CASE i = cur[d]
    BY <1>1, <2>1, <2>2, <2>5
  <2>6. CASE i > cur[d] /\ i < plan[d].n
    BY <1>1, <1>4, <2>1, <2>2, <2>3, <2>6
  <2>7. CASE i \in plan[d].n .. 2 * plan[d].n - cur[d] - 1
    <3>1. i \in plan[d].n .. plan[d].n + (plan[d].n - cur[d]) - 1
      BY <1>1, <2>7
    <3>2. ops'[d][i] = "planned"
      BY <2>2, <3>1
    <3>. QED BY <1>1, <2>1, <2>7, <3>2
  <2>8. CASE i >= 2 * plan[d].n - cur[d]
    <3>1. /\ i \notin plan[d].n .. plan[d].n + (plan[d].n - cur[d]) - 1
          /\ i # cur[d] /\ i >= plan[d].n
      BY <1>1, <2>1, <2>8
    <3>2. ops'[d][i] = "absent"
      BY <1>4, <2>2, <2>3, <3>1
    <3>. QED BY <1>1, <2>1, <2>8, <3>1, <3>2
  <2>. QED BY <1>1, <2>1, <2>4, <2>5, <2>6, <2>7, <2>8
<1>6. Current(d)' = "planned"
  <2>1. plan[d].n \in Ordinals /\ plan[d].n \in plan[d].n .. 2 * plan[d].n - cur[d] - 1
    BY <1>1 DEF Ordinals
  <2>. QED BY <1>2, <1>5, <2>1 DEF Current
<1>7. ops'[d][cur[d]] = "format_rejected"
  BY <1>1, <1>5
<1>8. \A i \in Ordinals : i \in plan[d].n .. 2 * plan[d].n - cur[d] - 1 => ~(i < plan[d].n)
  BY <1>1
<1>. QED BY <1>1, <1>2, <1>3, <1>5, <1>6, <1>7, <1>8 DEF RowsInStep, BranchInStep

LEMMA ActivateInStep ==
  ASSUME Typed, InStep, NEW d \in Deliveries, NEW r \in StoreReply, Activate(d, r)
  PROVE  DeliveryInStep(d)'
<1>1. pc[d] = "activate"
  BY DEF Activate
<1>2. /\ status[d] # "absent" /\ DeliveryInStep(d) /\ RowsInStep(d) /\ StatusInStep(d)
      /\ ChatInStep(d) /\ ExecutorInStep(d) /\ ReportsInStep(d)
  BY <1>1, Underway
<1>3. /\ Current(d) = "rejected" /\ from[d] = NoFallback /\ flight[d] = "none"
      /\ confirmed[d] = cur[d] /\ ~linked[d] /\ (~attempted[d] => chat[d] = <<>>)
      /\ status[d] \in {"rejected", "partial_rejected"}
      /\ Len(chat[d]) = cur[d] /\ outcome[d] = "none" /\ ~notice[d] /\ up
  BY <1>1, <1>2, TypesAt
     DEF ExecutorInStep, StatusInStep, ChatInStep, ReportsInStep, Attempting, DeliveryInStep
<1>4. /\ plan' = plan /\ cur' = cur /\ flight' = flight /\ chat' = chat /\ notice' = notice
      /\ up' = up /\ attempted' = attempted /\ confirmed' = confirmed
      /\ from'[d] = IF r = "failed" THEN from[d] ELSE cur[d]
      /\ IF r = "ok" THEN pc'[d] = "mark" /\ outcome'[d] = outcome[d]
         ELSE pc'[d] = "done" /\ outcome'[d] = LocalStop(d)
  BY DEF Activate, Stop, Goto, chatVars, Typed, Places, PlacesTypeOK, RestTypeOK
<1>5. ReportIsTrue(d, LocalStop(d))
  BY <1>3, LocalStopIsTrue
<1>6. ASSUME linked'[d] = linked[d] PROVE ReportsInStep(d)'
  <2>1. CASE r = "ok"
    BY <1>2, <1>3, <1>4, <1>6, <2>1 DEF ReportsInStep
  <2>2. CASE r # "ok"
    BY <1>2, <1>3, <1>4, <1>5, <1>6, <2>2 DEF ReportsInStep, ReportIsTrue
  <2>. QED BY <2>1, <2>2
<1>7. CASE r = "failed"
  <2>1. ledgerVars' = ledgerVars
    BY <1>7 DEF Activate, Call
  <2>2. SamePlan(d)
    BY <1>4, <1>7 DEF SamePlan
  <2>. QED BY <1>2, <1>4, <1>6, <1>7, <2>1, <2>2, StopKeepsInStep DEF ledgerVars
<1>8. CASE r # "failed"
  <2>1. ActivateOutboundDeliveryFallback(d, cur[d], plan[d].n, plan[d].n - cur[d])
    BY <1>8 DEF Activate, Call
  <2>2. /\ status'[d] = "sending" /\ linked'[d] = linked[d]
        /\ ops'[d] = [i \in Ordinals |->
                      IF i \in plan[d].n .. plan[d].n + (plan[d].n - cur[d]) - 1 THEN "planned"
                      ELSE IF i = cur[d] THEN "format_rejected"
                      ELSE RowsAfter(ops[d], cur[d], "rejected")[i]]
    BY <2>1 DEF ActivateOutboundDeliveryFallback, Typed, LedgerInv, LedgerTypeOK
  <2>3. RowsInStep(d)' /\ Current(d)' = "planned"
    <3>1. status[d] \notin NonTerminal /\ plan'[d] = plan[d] /\ cur'[d] = cur[d]
            /\ from'[d] = cur[d]
      BY <1>3, <1>4, <1>8 DEF NonTerminal
    <3>. QED BY <1>2, <1>3, <2>2, <3>1, ActivatedRows
  <2>4. StatusInStep(d)'
    BY <2>2, <2>3 DEF StatusInStep, NonTerminal, OperationStatus
  <2>5. ChatInStep(d)'
    BY <1>2, <1>3, <1>4, <2>3 DEF ChatInStep
  <2>6. ExecutorInStep(d)'
    BY <1>3, <1>4, <2>2, <2>3 DEF ExecutorInStep, Attempting
  <2>. QED BY <1>3, <1>4, <1>6, <2>2, <2>3, <2>4, <2>5, <2>6 DEF DeliveryInStep
<1>. QED BY <1>7, <1>8

LEMMA CrashInStep ==
  ASSUME Typed, InStep, NEW d \in Deliveries, Crash
  PROVE  DeliveryInStep(d)'
<1>1. /\ SamePlan(d) /\ status' = status /\ ops' = ops /\ linked' = linked
      /\ flight' = flight /\ chat' = chat /\ notice' = notice /\ up' = FALSE
  BY DEF Crash, SamePlan, ledgerVars, chatVars
<1>2. CASE d \in Running
  <2>1. pc'[d] = "gone" /\ outcome'[d] = "none"
    BY <1>2 DEF Crash, Forget
  <2>2. /\ status[d] # "absent" /\ RowsInStep(d) /\ StatusInStep(d) /\ ChatInStep(d)
        /\ ReportsInStep(d)
    BY <1>2, Underway DEF Running
  <2>3. linked[d] => pc[d] = "done"
    BY <2>2 DEF ReportsInStep
  <2>4. (AtLastPart(d)' <=> AtLastPart(d)) /\ Current(d)' = Current(d) /\ Behind(d)' = Behind(d)
    BY <1>1, SameRow DEF Behind
  <2>5. RowsInStep(d)'
    BY <1>1, <2>2, <2>4, SameRowsInStep
  <2>6. StatusInStep(d)' /\ ChatInStep(d)'
    BY <1>1, <2>2, <2>4 DEF StatusInStep, ChatInStep, SamePlan
  <2>7. ExecutorInStep(d)'
    BY <2>1 DEF ExecutorInStep, Attempting
  <2>8. ReportsInStep(d)'
    BY <1>1, <1>2, <2>1, <2>2, <2>3 DEF ReportsInStep, Running
  <2>. QED BY <1>1, <2>1, <2>2, <2>5, <2>6, <2>7, <2>8 DEF DeliveryInStep
<1>3. CASE d \notin Running
  <2>1. pc[d] \in {"idle", "done", "gone"} /\ DeliveryInStep(d)
    BY <1>3 DEF Running, InStep
  <2>2. Same(d)
    BY <1>1, <1>3
       DEF Crash, Forget, Same, SamePlan, ledgerVars
  <2>. QED BY <1>1, <2>1, <2>2, Undisturbed
<1>. QED BY <1>2, <1>3

(* Recovery closes a delivery that was left open.                          *)
LEMMA SealedInStep ==
  ASSUME Typed, NEW d \in Deliveries, DeliveryInStep(d), SamePlan(d),
         status[d] \in NonTerminal, pc[d] \in {"idle", "done", "gone"}, pc' = pc,
         UNCHANGED <<flight, chat, notice, outcome, linked>>,
         status'[d] = InterruptedStatus(ops[d]),
         ops'[d] = [o \in Ordinals |-> Sealed(ops[d][o])]
  PROVE  DeliveryInStep(d)'
<1>1. /\ status[d] # "absent" /\ pc[d] # "idle"
      /\ RowsInStep(d) /\ StatusInStep(d) /\ ChatInStep(d) /\ ReportsInStep(d)
  BY DEF DeliveryInStep, NonTerminal
<1>2. /\ plan[d].n \in Nat /\ cur[d] \in Nat /\ cur[d] < plan[d].n /\ Row(d) \in Nat
      /\ Row(d) \in Ordinals /\ MaxOps \in Nat
      /\ from[d] = NoFallback => Row(d) = cur[d]
      /\ from[d] # NoFallback => /\ from[d] \in Nat /\ from[d] <= cur[d]
                                 /\ Row(d) = plan[d].n + (cur[d] - from[d])
  BY RowsAt DEF Typed
<1>3. Row(d)' = Row(d) /\ (AtLastPart(d)' <=> AtLastPart(d))
  BY SameRow
<1>4. Current(d)' = Sealed(Current(d))
  BY <1>2, <1>3 DEF Current
<1>5. Current(d) \in {"planned", "sending", "confirmed"}
        /\ (Current(d) = "confirmed" => ~AtLastPart(d))
  <2>1. Current(d) \in OperationStatus
    BY <1>2, TypesAt DEF Current
  <2>. QED BY <1>1, <2>1 DEF StatusInStep, NonTerminal, OperationStatus
<1>6. status'[d] \in {"rejected", "partial_rejected", "unknown", "partial_unknown"}
  BY DEF InterruptedStatus, Partial
<1>7. Behind(d) = "planned" /\ Behind(d)' = "skipped"
  BY <1>6 DEF Behind, NonTerminal
<1>8. RowsInStep(d)'
  <2>1. \A o \in Ordinals : o < Row(d) => ops[d][o] \notin Active
    <3>1. CASE from[d] = NoFallback
      <4>1. \A o \in Ordinals : o < Row(d) => o \in 0 .. plan[d].n - 1
        BY <1>2, <3>1 DEF Ordinals
      <4>2. BranchInStep(d, 0, plan[d].n - 1)
        BY <1>1, <3>1 DEF RowsInStep
      <4>. QED BY <4>1, <4>2 DEF BranchInStep, Active
    <3>2. CASE from[d] # NoFallback
      <4>1. \A o \in Ordinals :
              /\ o < from[d] => ops[d][o] = "confirmed"
              /\ o > from[d] /\ o < plan[d].n => ops[d][o] = "skipped"
        BY <1>1, <3>2 DEF RowsInStep
      <4>2. ops[d][from[d]] = "format_rejected"
        BY <1>1, <3>2 DEF RowsInStep
      <4>3. BranchInStep(d, plan[d].n, 2 * plan[d].n - from[d] - 1)
        BY <1>1, <3>2 DEF RowsInStep
      <4>4. ASSUME NEW o \in Ordinals, o < Row(d)
            PROVE  ops[d][o] \in {"confirmed", "skipped", "format_rejected"}
        <5>1. o \in Nat
          BY <1>2 DEF Ordinals
        <5>2. o \in plan[d].n .. 2 * plan[d].n - from[d] - 1 => ops[d][o] = "confirmed"
          BY <4>3, <4>4 DEF BranchInStep
        <5>3. \/ o < from[d] \/ o = from[d] \/ (o > from[d] /\ o < plan[d].n)
              \/ o \in plan[d].n .. 2 * plan[d].n - from[d] - 1
          BY <1>2, <3>2, <4>4, <5>1
        <5>. QED BY <4>1, <4>2, <5>2, <5>3
      <4>. QED BY <4>4 DEF Active
    <3>. QED BY <3>1, <3>2
  <2>2. \A o \in Ordinals :
          /\ o < Row(d) => ops'[d][o] = ops[d][o]
          /\ o > Row(d) /\ ops[d][o] = "planned" => ops'[d][o] = "skipped"
          /\ o > Row(d) /\ ops[d][o] = "absent" => ops'[d][o] = "absent"
    BY <2>1 DEF Sealed, Active
  <2>. QED BY <1>1, <1>7, <2>2, RowRewritten
<1>9. \A o \in Ordinals : ops[d][o] = "sending" => o = Row(d)
  <2>1. CASE from[d] = NoFallback
    BY <1>1, <1>2, <1>7, <2>1 DEF RowsInStep, BranchInStep, Ordinals
  <2>2. CASE from[d] # NoFallback
    <3>1. ASSUME NEW o \in Ordinals, ops[d][o] = "sending", o # Row(d)
          PROVE  FALSE
      <4>1. o \in Nat /\ from[d] < plan[d].n
        BY <1>2, <2>2 DEF Ordinals
      <4>2. o < from[d] => ops[d][o] = "confirmed"
        BY <1>1, <2>2 DEF RowsInStep
      <4>3. o = from[d] => ops[d][o] = "format_rejected"
        BY <1>1, <2>2 DEF RowsInStep
      <4>4. o > from[d] /\ o < plan[d].n => ops[d][o] = "skipped"
        BY <1>1, <2>2 DEF RowsInStep
      <4>5. o >= 2 * plan[d].n - from[d] => ops[d][o] = "absent"
        BY <1>1, <2>2 DEF RowsInStep
      <4>6. o \in plan[d].n .. 2 * plan[d].n - from[d] - 1 =>
              ops[d][o] \in {"confirmed", "planned"}
        BY <1>1, <1>2, <1>7, <2>2, <3>1, <4>1 DEF RowsInStep, BranchInStep
      <4>7. \/ o < from[d] \/ o = from[d] \/ (o > from[d] /\ o < plan[d].n)
            \/ o \in plan[d].n .. 2 * plan[d].n - from[d] - 1
            \/ o >= 2 * plan[d].n - from[d]
        BY <1>2, <2>2, <4>1
      <4>. QED BY <3>1, <4>2, <4>3, <4>4, <4>5, <4>6, <4>7
    <3>. QED BY <3>1
  <2>. QED BY <2>1, <2>2
<1>10. StatusInStep(d)'
  <2>1. CASE Current(d) = "sending"
    <3>1. Row(d) \in WithStatus(ops[d], {"sending"})
      BY <1>2, <2>1 DEF WithStatus, Current
    <3>2. status'[d] \in {"unknown", "partial_unknown"}
      BY <3>1 DEF InterruptedStatus, Partial
    <3>. QED BY <1>4, <2>1, <3>2 DEF StatusInStep, Sealed, OperationStatus
  <2>2. CASE Current(d) # "sending"
    <3>1. WithStatus(ops[d], {"sending"}) = {}
      BY <1>9, <2>2 DEF WithStatus, Current
    <3>2. status'[d] = Partial(ops[d], "rejected", "partial_rejected")
      BY <3>1 DEF InterruptedStatus
    <3>3. CASE Current(d) = "planned"
      BY <1>4, <3>2, <3>3 DEF StatusInStep, Sealed, OperationStatus, Partial
    <3>4. CASE Current(d) = "confirmed"
      <4>1. Row(d) \in WithStatus(ops[d], {"confirmed"})
        BY <1>2, <3>4 DEF WithStatus, Current
      <4>2. status'[d] = "partial_rejected"
        BY <3>2, <4>1 DEF Partial
      <4>. QED BY <1>3, <1>4, <1>5, <3>4, <4>2 DEF StatusInStep, Sealed, OperationStatus
    <3>. QED BY <1>5, <2>2, <3>3, <3>4
  <2>. QED BY <2>1, <2>2
<1>11. ChatInStep(d)'
  BY <1>1, <1>4, <1>5 DEF ChatInStep, Sealed, SamePlan
<1>12. ExecutorInStep(d)'
  BY DEF ExecutorInStep, Attempting
<1>13. ReportsInStep(d)'
  BY <1>1 DEF ReportsInStep, ReportIsTrue, SamePlan, NonTerminal
<1>. QED BY <1>1, <1>6, <1>8, <1>10, <1>11, <1>12, <1>13 DEF DeliveryInStep

LEMMA BootInStep ==
  ASSUME Typed, InStep, NEW d \in Deliveries, NEW r \in StoreReply, Boot(r)
  PROVE  DeliveryInStep(d)'
<1>1. /\ SamePlan(d) /\ pc[d] \in {"idle", "done", "gone"} /\ DeliveryInStep(d)
      /\ UNCHANGED <<executorVars, chatVars, plan, pc, notice>>
  BY DEF Boot, SamePlan, executorVars, InStep, DeliveryInStep
<1>2. CASE ledgerVars' = ledgerVars
  <2>1. Same(d)
    BY <1>1, <1>2 DEF Same, ledgerVars, executorVars, chatVars
  <2>. QED BY <1>1, <2>1, Undisturbed
<1>3. CASE MarkInterruptedOutboundDeliveriesUnknown
  <2>1. /\ linked' = linked
        /\ status'[d] = IF Interrupted(d) THEN InterruptedStatus(ops[d]) ELSE status[d]
        /\ ops'[d] = IF Interrupted(d) THEN [o \in Ordinals |-> Sealed(ops[d][o])]
                     ELSE ops[d]
        /\ ~Interrupted(d) => errorClass'[d] = [o \in Ordinals |-> errorClass[d][o]]
    BY <1>3 DEF MarkInterruptedOutboundDeliveriesUnknown
  <2>2. CASE Interrupted(d)
    BY <1>1, <2>1, <2>2, SealedInStep DEF Interrupted, executorVars, chatVars
  <2>3. CASE ~Interrupted(d)
    <3>1. errorClass'[d] = errorClass[d]
      BY <2>1, <2>3, TypesAt
    <3>2. Same(d)
      BY <1>1, <2>1, <2>3, <3>1 DEF Same, executorVars, chatVars
    <3>. QED BY <1>1, <3>2, Undisturbed
  <2>. QED BY <2>2, <2>3
<1>. QED BY <1>2, <1>3 DEF Boot, Call

LEMMA StepKeepsInStep ==
  ASSUME Typed, InStep, [Next]_vars
  PROVE  InStep'
<1>. SUFFICES ASSUME NEW e \in Deliveries PROVE DeliveryInStep(e)'
  BY DEF InStep
<1>1. DeliveryInStep(e)
  BY DEF InStep
<1>2. CASE UNCHANGED vars
  <2>1. Same(e) /\ up' = up
    BY <1>2 DEF vars, Same, ledgerVars, executorVars, chatVars
  <2>. QED BY <1>1, <2>1, Undisturbed
<1>3. ASSUME NEW d \in Deliveries,
             \/ Preflight(d) \/ Send(d) \/ Land(d) \/ \E a \in Answer : Receive(d, a)
             \/ \E r \in StoreReply : Execute(d, r)
      PROVE  DeliveryInStep(e)'
  <2>1. CASE e # d
    <3>1. Same(e) /\ up' = up
      BY <1>3, <2>1, OthersSame
    <3>. QED BY <1>1, <3>1, Undisturbed
  <2>2. CASE e = d
    <3>1. DeliveryInStep(d)'
      <4>1. CASE Preflight(d)
        BY <4>1, PreflightInStep
      <4>2. CASE Send(d)
        BY <4>2, SendInStep
      <4>3. CASE Land(d)
        BY <4>3, LandInStep
      <4>4. ASSUME NEW a \in Answer, Receive(d, a) PROVE DeliveryInStep(d)'
        BY <4>4, ReceiveInStep
      <4>5. ASSUME NEW r \in StoreReply, Execute(d, r) PROVE DeliveryInStep(d)'
        <5>1. CASE Create(d, r)
          BY <5>1, CreateInStep
        <5>2. CASE Mark(d, r)
          BY <5>2, MarkInStep
        <5>3. CASE RecordConfirmed(d, r)
          BY <5>3, RecordConfirmedInStep
        <5>4. CASE RecordFailed(d, r)
          BY <5>4, RecordFailedInStep
        <5>5. CASE RecordFormat(d, r)
          BY <5>5, RecordFormatInStep
        <5>6. CASE Activate(d, r)
          BY <5>6, ActivateInStep
        <5>7. CASE Persist(d, r)
          BY <5>7, PersistInStep
        <5>. QED BY <4>5, <5>1, <5>2, <5>3, <5>4, <5>5, <5>6, <5>7 DEF Execute
      <4>. QED BY <1>3, <4>1, <4>2, <4>3, <4>4, <4>5
    <3>. QED BY <2>2, <3>1
  <2>. QED BY <2>1, <2>2
<1>4. CASE Crash
  BY <1>4, CrashInStep
<1>5. ASSUME NEW r \in StoreReply, Boot(r)
      PROVE  DeliveryInStep(e)'
  BY <1>5, BootInStep
<1>. QED BY <1>2, <1>3, <1>4, <1>5 DEF Next

LEMMA Invariance == Spec => [](Typed /\ InStep)
<1>1. Init => LedgerInv
  BY InitLedgerInv DEF Init
<1>2. Init => Typed /\ InStep
  BY <1>1, InitPlaces, InitRestType, InitInStep DEF Typed
<1>3. Typed /\ InStep /\ [Next]_vars => (Typed /\ InStep)'
  <2>. SUFFICES ASSUME Typed, InStep, [Next]_vars PROVE (Typed /\ InStep)'
    OBVIOUS
  <2>1. Places' /\ RestTypeOK'
    BY StepKeepsPlaces, StepKeepsRestType DEF Typed
  <2>2. LedgerInv'
    BY StepIsLedgerStep, LedgerStepKeepsInv DEF Typed
  <2>. QED BY <2>1, <2>2, StepKeepsInStep DEF Typed
<1>. QED BY <1>2, <1>3, PTL DEF Spec

-----------------------------------------------------------------------------
(* 6. Restarts, and the contract with the user.                            *)

(* A step moves one executor, stops all or recovers all.                    *)
LEMMA ExecutorStep ==
  ASSUME Typed, InStep, [Next]_vars, NEW d \in Deliveries
  PROVE  \/ (status'[d] = status[d] /\ pc'[d] = pc[d])
         \/ Preflight(d) \/ Send(d) \/ \E a \in Answer : Receive(d, a)
         \/ \E r \in StoreReply : Execute(d, r)
         \/ Crash
         \/ \E r \in StoreReply : Boot(r)
<1>1. CASE UNCHANGED vars
  BY <1>1 DEF vars, ledgerVars
<1>2. ASSUME NEW e \in Deliveries,
             \/ Preflight(e) \/ Send(e) \/ Land(e) \/ \E a \in Answer : Receive(e, a)
             \/ \E r \in StoreReply : Execute(e, r)
      PROVE  (e = d /\ ~ Land(e)) \/ (status'[d] = status[d] /\ pc'[d] = pc[d])
  <2>1. CASE e # d
    BY <1>2, <2>1, OthersSame DEF Same
  <2>2. CASE Land(e)
    BY <2>2 DEF Land, ledgerVars
  <2>. QED BY <2>1, <2>2
<1>. QED BY <1>1, <1>2 DEF Next

(* Once passed, a verdict stays.                                           *)
LEMMA VerdictStays ==
  ASSUME Typed, InStep, [Next]_vars, NEW d \in Deliveries, VerdictOf(d) # "open"
  PROVE  VerdictOf(d)' = VerdictOf(d)
<1>1. status[d] \in Terminal /\ pc[d] # "activate" /\ status[d] # "absent"
  BY DEF VerdictOf, Terminal
<1>2. /\ pc[d] # "idle" /\ StatusInStep(d) /\ ExecutorInStep(d)
      /\ status[d] \notin NonTerminal
  BY <1>1 DEF InStep, DeliveryInStep, Terminal
<1>3. pc[d] \notin {"mark", "send", "wait", "record"}
  BY <1>2 DEF ExecutorInStep, StatusInStep, NonTerminal
<1>4. SUFFICES status'[d] = status[d] /\ pc'[d] # "activate"
  BY <1>1 DEF VerdictOf
<1>5. CASE \E r \in StoreReply : Execute(d, r)
  <2>1. PICK r \in StoreReply : Persist(d, r)
    BY <1>1, <1>2, <1>3, <1>5
       DEF Execute, Create, Mark, RecordConfirmed, RecordFailed, RecordFormat, Activate
  <2>2. status' = status
    BY <2>1 DEF Persist, Call, PersistOutboundDeliveryReply, ledgerVars
  <2>. QED BY <2>1, <2>2 DEF Persist, Goto, Typed, Places, PlacesTypeOK
<1>6. CASE Crash
  BY <1>1, <1>6 DEF Crash, Forget, ledgerVars
<1>7. CASE \E r \in StoreReply : Boot(r)
  BY <1>1, <1>2, <1>7 DEF Boot, Call, ledgerVars, MarkInterruptedOutboundDeliveriesUnknown, Interrupted
<1>8. ~ Preflight(d) /\ ~ Send(d) /\ ~ \E a \in Answer : Receive(d, a)
  BY <1>2, <1>3 DEF Preflight, Send, Receive
<1>. QED BY <1>1, <1>5, <1>6, <1>7, <1>8, ExecutorStep

(* Startup recovery, if it commits, leaves nothing of an earlier run open.  *)
LEMMA SettledStep ==
  ASSUME Typed, InStep, [Next]_vars, SealedAfterRestart
  PROVE  SealedAfterRestart'
<1>. SUFFICES ASSUME NEW d \in Deliveries, pc'[d] = "gone", up', recovered'
              PROVE  status'[d] \notin NonTerminal
  BY DEF SealedAfterRestart
<1>1. ASSUME pc[d] = "gone", ~ \E r \in StoreReply : Boot(r)
      PROVE  status'[d] = status[d] /\ (up' => up /\ recovered' = recovered)
  <2>1. ~ Preflight(d) /\ ~ Send(d) /\ (~ \E a \in Answer : Receive(d, a))
          /\ (~ \E r \in StoreReply : Execute(d, r))
    BY <1>1 DEF Preflight, Send, Receive, Execute, Create, Mark, RecordConfirmed,
       RecordFailed, RecordFormat, Activate, Persist
  <2>2. status'[d] = status[d]
    BY <1>1, <2>1, ExecutorStep DEF Crash, ledgerVars
  <2>3. UNCHANGED <<up, recovered>> \/ ~ up'
    <3>1. ASSUME NEW e \in Deliveries, NEW r \in StoreReply, Execute(e, r)
          PROVE  UNCHANGED <<up, recovered>>
      BY <3>1 DEF Execute, Create, Mark, RecordConfirmed, RecordFailed, RecordFormat,
         Activate, Persist
    <3>2. ASSUME NEW e \in Deliveries,
                 Preflight(e) \/ Send(e) \/ Land(e) \/ \E a \in Answer : Receive(e, a)
          PROVE  UNCHANGED <<up, recovered>>
      BY <3>2 DEF Preflight, Send, Land, Receive
    <3>3. Crash => ~ up'
      BY DEF Crash
    <3>. QED BY <1>1, <3>1, <3>2, <3>3 DEF Next, vars
  <2>. QED BY <2>2, <2>3
<1>2. CASE \E r \in StoreReply : Boot(r)
  <2>1. PICK r \in StoreReply : Boot(r)
    BY <1>2
  <2>2. MarkInterruptedOutboundDeliveriesUnknown
    BY <2>1 DEF Boot, Call
  <2>. QED BY <2>2 DEF MarkInterruptedOutboundDeliveriesUnknown, Interrupted, InterruptedStatus,
       Partial, NonTerminal
<1>3. ASSUME pc[d] # "gone" PROVE FALSE
  <2>1. \/ Preflight(d) \/ Send(d) \/ \E a \in Answer : Receive(d, a)
        \/ \E r \in StoreReply : Execute(d, r)
    BY <1>3, ExecutorStep DEF Crash, Boot
  <2>2. pc \in [Deliveries -> PC]
    BY DEF Typed, Places, PlacesTypeOK
  <2>. QED BY <2>1, <2>2 DEF Preflight, Send, Receive, Execute, Create, Mark, RecordConfirmed,
       RecordFailed, RecordFormat, Activate, Persist, Goto, Stop, StopBeforeSending
<1>. QED BY <1>1, <1>2, <1>3 DEF SealedAfterRestart

(* A verdict that was passed is true of the chat.                          *)
LEMMA VerdictIsTrue ==
  ASSUME Typed, InStep, NEW d \in Deliveries, VerdictOf(d) # "open"
  PROVE  Contract!Truthful(d, VerdictOf(d))
<1>1. /\ status[d] \in Terminal /\ status[d] # "absent" /\ VerdictOf(d) = status[d]
      /\ status[d] \notin NonTerminal
  BY DEF VerdictOf, Terminal
<1>2. StatusInStep(d) /\ ChatInStep(d) /\ RowsInStep(d) /\ ReportIsTrue(d, status[d])
  BY <1>1, StatusIsTrue DEF InStep, DeliveryInStep
<1>3. cur[d] \in Nat /\ Len(chat[d]) \in Nat /\ chat[d] \in Seq(Parts)
  BY RowsAt, TypesAt DEF Typed
<1>4. /\ status[d] = "unknown" => WithStatus(ops[d], {"confirmed"}) = {}
      /\ status[d] = "partial_unknown" => WithStatus(ops[d], {"confirmed"}) # {}
  BY DEF Typed, LedgerInv, SummaryAgrees
<1>5. status[d] = "unknown" => Len(chat[d]) <= 1
  <2>1. status[d] = "unknown" => \A o \in Ordinals : ops[d][o] # "confirmed"
    BY <1>4 DEF WithStatus
  <2>2. cur[d] > 0 => 0 < plan[d].n
    BY RowsAt DEF Typed
  <2>3. cur[d] > 0 => ops[d][Covering(d, 0)] = "confirmed" /\ Covering(d, 0) \in Ordinals
    BY <1>2, <2>2, CoveringBefore, CoveringExists
  <2>4. status[d] = "unknown" => cur[d] = 0
    BY <1>3, <2>1, <2>3
  <2>. QED BY <1>2, <1>3, <2>4 DEF ChatInStep
<1>6. status[d] = "partial_unknown" => Len(chat[d]) > 0
  <2>1. cur[d] = 0 /\ Current(d) # "confirmed" => WithStatus(ops[d], {"confirmed"}) = {}
    BY <1>2, NothingConfirmedAtStart
  <2>2. CASE Current(d) = "confirmed"
    BY <1>2, <1>3, <2>2 DEF ChatInStep
  <2>3. CASE Current(d) # "confirmed"
    BY <1>2, <1>3, <1>4, <2>1, <2>3 DEF ChatInStep
  <2>. QED BY <2>2, <2>3
<1>7. status[d] \in {"confirmed", "rejected", "partial_rejected", "unknown", "partial_unknown"}
  BY <1>1, TypesAt DEF DeliveryStatus, NonTerminal
<1>8. status[d] = "partial_unknown" => chat[d] # <<>>
  BY <1>3, <1>6
<1>9. plan[d].n = [e \in Deliveries |-> plan[e].n][d]
  OBVIOUS
<1>10. CASE status[d] \in {"confirmed", "rejected", "partial_rejected"}
  <2>1. CASE status[d] = "confirmed"
    BY <1>1, <1>2, <2>1 DEF Contract!Truthful, ReportIsTrue
  <2>2. CASE status[d] = "rejected"
    BY <1>1, <1>2, <2>2 DEF Contract!Truthful, ReportIsTrue
  <2>3. CASE status[d] = "partial_rejected"
    BY <1>1, <1>2, <2>3 DEF Contract!Truthful, ReportIsTrue
  <2>. QED BY <1>10, <2>1, <2>2, <2>3
<1>11. CASE status[d] = "unknown"
  BY <1>1, <1>5, <1>11 DEF Contract!Truthful
<1>12. CASE status[d] = "partial_unknown"
  BY <1>1, <1>8, <1>12 DEF Contract!Truthful
<1>. QED BY <1>7, <1>10, <1>11, <1>12

(* No request is left unanswered or unsent behind a verdict, so what is in   *)
(* the air then is the last one.                                           *)
LEMMA FlightStays ==
  ASSUME Typed, InStep, [Next]_vars, NEW d \in Deliveries, VerdictOf(d) # "open",
         ~ Land(d)
  PROVE  flight'[d] = flight[d]
<1>1. status[d] \in Terminal /\ status[d] # "absent" /\ status[d] # "sending"
  BY DEF VerdictOf, Terminal, NonTerminal
<1>2. pc[d] \notin {"send", "wait"}
  BY <1>1 DEF InStep, DeliveryInStep, ExecutorInStep, StatusInStep
<1>3. ASSUME NEW e \in Deliveries,
             \/ Preflight(e) \/ Send(e) \/ Land(e) \/ \E a \in Answer : Receive(e, a)
             \/ \E r \in StoreReply : Execute(e, r)
      PROVE  flight'[d] = flight[d]
  <2>1. CASE e # d
    BY <1>3, <2>1, OthersSame DEF Same
  <2>2. CASE e = d
    BY <1>2, <1>3, <2>2 DEF Preflight, Send, Receive, Execute, Create, Mark,
       RecordConfirmed, RecordFailed, RecordFormat, Activate, Persist, chatVars
  <2>. QED BY <2>1, <2>2
<1>4. Crash \/ (\E r \in StoreReply : Boot(r)) \/ UNCHANGED vars => flight' = flight
  BY DEF Crash, Boot, vars, chatVars
<1>. QED BY <1>3, <1>4 DEF Next

(* A verdict passed with a request in the air does not know, and leaves room *)
(* for one part.                                                           *)
LEMMA PendingFollows ==
  ASSUME Typed, InStep, NEW d \in Deliveries, MayStillLand(d)
  PROVE  Contract!MayFollow(d, VerdictOf(d))
<1>1. /\ status[d] \in Terminal /\ status[d] # "absent" /\ status[d] # "sending"
      /\ VerdictOf(d) = status[d] /\ flight[d] = "air"
  BY DEF MayStillLand, VerdictOf, Terminal, NonTerminal
<1>2. StatusInStep(d) /\ ChatInStep(d) /\ RowsInStep(d)
  BY <1>1 DEF InStep, DeliveryInStep
<1>3. Len(chat[d]) = cur[d] /\ Current(d) \in {"sending", "unknown"}
  BY <1>1, <1>2 DEF ChatInStep
<1>4. status[d] \in {"unknown", "partial_unknown"}
  BY <1>1, <1>2, <1>3 DEF StatusInStep
<1>5. Len(chat[d]) < plan[d].n
  BY <1>3, RowsAt DEF Typed
<1>6. status[d] = "unknown" => chat[d] = <<>>
  <2>1. status[d] = "unknown" => WithStatus(ops[d], {"confirmed"}) = {}
    BY DEF Typed, LedgerInv, SummaryAgrees
  <2>2. cur[d] \in Nat /\ (cur[d] > 0 => 0 < plan[d].n)
    BY RowsAt DEF Typed
  <2>3. cur[d] > 0 => ops[d][Covering(d, 0)] = "confirmed" /\ Covering(d, 0) \in Ordinals
    BY <1>2, <2>2, CoveringBefore, CoveringExists
  <2>4. status[d] = "unknown" => cur[d] = 0
    BY <2>1, <2>2, <2>3 DEF WithStatus
  <2>. QED BY <1>3, <2>4, TypesAt
<1>7. plan[d].n = [e \in Deliveries |-> plan[e].n][d]
  OBVIOUS
<1>. QED BY <1>1, <1>4, <1>5, <1>6, <1>7 DEF Contract!MayFollow, Contract!Unsure

VerdictsHold ==
  \A d \in Deliveries :
    /\ VerdictOf(d) \in Contract!Verdict
    /\ VerdictOf(d) # "open" => Contract!Truthful(d, VerdictOf(d))
    /\ MayStillLand(d) => Contract!MayFollow(d, VerdictOf(d))

LEMMA InStepImpliesVerdictsHold == Typed /\ InStep => VerdictsHold
<1>. SUFFICES ASSUME Typed, InStep, NEW d \in Deliveries
              PROVE  /\ VerdictOf(d) \in Contract!Verdict
                     /\ VerdictOf(d) # "open" => Contract!Truthful(d, VerdictOf(d))
                     /\ MayStillLand(d) => Contract!MayFollow(d, VerdictOf(d))
  BY DEF VerdictsHold
<1>1. VerdictOf(d) \in Contract!Verdict
  BY TypesAt DEF VerdictOf, Terminal, DeliveryStatus, NonTerminal, Contract!Verdict,
     Contract!Unsure
<1>. QED BY <1>1, VerdictIsTrue, PendingFollows

(* Plans never change, and only a message that lands changes the chat.      *)
LEMMA OnlyLandingShows ==
  ASSUME [Next]_vars
  PROVE  plan' = plan /\ (chat' = chat \/ \E d \in Deliveries : Land(d))
<1>1. ASSUME NEW e \in Deliveries, NEW r \in StoreReply, Execute(e, r)
      PROVE  UNCHANGED <<plan, chat>>
  BY <1>1 DEF Execute, Create, Mark, RecordConfirmed, RecordFailed, RecordFormat,
     Activate, Persist, chatVars
<1>2. ASSUME NEW e \in Deliveries, Preflight(e) \/ Send(e) \/ \E a \in Answer : Receive(e, a)
      PROVE  UNCHANGED <<plan, chat>>
  BY <1>2 DEF Preflight, Send, Receive, chatVars
<1>3. Crash \/ (\E r \in StoreReply : Boot(r)) => UNCHANGED <<plan, chat>>
  BY DEF Crash, Boot, chatVars
<1>4. ASSUME NEW e \in Deliveries, Land(e) PROVE plan' = plan
  BY <1>4 DEF Land
<1>. QED BY <1>1, <1>2, <1>3, <1>4 DEF Next, vars, chatVars

LEMMA ContractInit == Init => Contract!Init
<1>. SUFFICES ASSUME Init PROVE Contract!Init
  OBVIOUS
<1>1. \A d \in Deliveries : VerdictOf(d) = "open" /\ ~MayStillLand(d)
  BY DEF Init, LedgerInit, VerdictOf, MayStillLand, Terminal
<1>2. [d \in Deliveries |-> plan[d].n] \in [Deliveries -> 1 .. MaxParts]
  BY DEF Init
<1>3. [d \in Deliveries |-> MayStillLand(d)] = [d \in Deliveries |-> FALSE]
  BY <1>1 DEF MayStillLand
<1>4. [d \in Deliveries |-> VerdictOf(d)] = [d \in Deliveries |-> "open"]
  BY <1>1
<1>5. chat = [d \in Deliveries |-> <<>>]
  BY DEF Init
<1>. QED BY <1>2, <1>3, <1>4, <1>5 DEF Contract!Init

LEMMA ContractStep ==
  ASSUME Typed, InStep, VerdictsHold', [Next]_vars
  PROVE  [Contract!Next]_(Contract!vars)
<1> DEFINE Length == [d \in Deliveries |-> plan[d].n]
           Verdicts == [d \in Deliveries |-> VerdictOf(d)]
           Pendings == [d \in Deliveries |-> MayStillLand(d)]
<1>1. plan' = plan
  BY OnlyLandingShows
<1>2. Length' = Length
  BY <1>1
<1>3. ASSUME NEW d \in Deliveries, Land(d)
      PROVE  Contract!Appear(d)
  <2>1. status' = status /\ pc' = pc
    BY <1>3 DEF Land, ledgerVars
  <2>2. Verdicts' = Verdicts
    BY <2>1 DEF VerdictOf
  <2>3. flight[d] = "air" /\ status[d] # "absent"
    BY <1>3 DEF Land, InStep, DeliveryInStep, Untouched
  <2>4. StatusInStep(d) /\ ChatInStep(d) /\ RowsInStep(d)
    BY <2>3 DEF InStep, DeliveryInStep
  <2>5. Len(chat[d]) = cur[d]
    BY <2>3, <2>4 DEF ChatInStep
  <2>6. chat' = [chat EXCEPT ![d] = Append(@, Len(@))]
    BY <1>3, <2>5 DEF Land
  <2>7. Len(chat[d]) < Length[d]
    BY <2>5, RowsAt DEF Typed
  <2>8. Verdicts[d] = "open" \/ Pendings[d]
    BY <2>3 DEF MayStillLand
  <2>9. Pendings' = [Pendings EXCEPT ![d] = FALSE]
    <3>1. flight \in [Deliveries -> {"none", "air", "landed"}]
      BY DEF Typed, RestTypeOK
    <3>2. \A e \in Deliveries : VerdictOf(e)' = VerdictOf(e)
      BY <2>1 DEF VerdictOf
    <3>3. ~ MayStillLand(d)'
      BY <1>3, <3>1 DEF Land, MayStillLand
    <3>4. \A e \in Deliveries : e # d => MayStillLand(e)' = MayStillLand(e)
      BY <1>3, <3>1, <3>2 DEF Land, MayStillLand
    <3>5. /\ Pendings' = [e \in Deliveries |-> MayStillLand(e)']
          /\ Pendings = [e \in Deliveries |-> MayStillLand(e)]
      OBVIOUS
    <3>6. MayStillLand(d)' = FALSE
      BY <3>3 DEF MayStillLand
    <3>. HIDE DEF Pendings
    <3>7. Pendings' = [e \in Deliveries |-> IF e = d THEN FALSE ELSE MayStillLand(e)]
      BY <3>4, <3>5, <3>6, Zenon
    <3>. QED BY <3>5, <3>7, Zenon
  <2>. QED BY <1>2, <2>2, <2>6, <2>7, <2>8, <2>9 DEF Contract!Appear
<1>4. ASSUME ~ \E d \in Deliveries : Land(d)
      PROVE  Contract!Settle
  <2>1. chat' = chat
    BY <1>4, OnlyLandingShows
  <2>2. /\ Verdicts' = [d \in Deliveries |-> VerdictOf(d)']
        /\ Pendings' = [d \in Deliveries |-> MayStillLand(d)']
    OBVIOUS
  <2>3. Verdicts' \in [Deliveries -> Contract!Verdict]
    BY <2>2 DEF VerdictsHold, Contract!Verdict, Contract!Unsure
  <2>4. Pendings' \in [Deliveries -> BOOLEAN]
    BY <2>2 DEF MayStillLand
  <2>5. ASSUME NEW d \in Deliveries
        PROVE  \/ Verdicts'[d] = Verdicts[d] /\ Pendings'[d] = Pendings[d]
               \/ /\ Verdicts[d] = "open" /\ Verdicts'[d] # "open"
                  /\ Contract!Truthful(d, Verdicts'[d])
                  /\ Pendings'[d] => Contract!MayFollow(d, Verdicts'[d])
    <3>1. CASE VerdictOf(d) # "open"
      BY <1>4, <2>2, <3>1, VerdictStays, FlightStays DEF MayStillLand
    <3>2. CASE VerdictOf(d) = "open" /\ VerdictOf(d)' = "open"
      BY <2>2, <3>2 DEF MayStillLand
    <3>3. CASE VerdictOf(d) = "open" /\ VerdictOf(d)' # "open"
      <4>1. /\ Contract!Truthful(d, VerdictOf(d))'
            /\ MayStillLand(d)' => Contract!MayFollow(d, VerdictOf(d))'
        BY <3>3 DEF VerdictsHold
      <4>2. Contract!Truthful(d, Verdicts'[d])
        BY <1>1, <2>1, <2>2, <4>1 DEF Contract!Truthful
      <4>3. Pendings'[d] => Contract!MayFollow(d, Verdicts'[d])
        BY <1>1, <2>1, <2>2, <4>1 DEF Contract!MayFollow
      <4>. QED BY <2>2, <3>3, <4>2, <4>3
    <3>. QED BY <3>1, <3>2, <3>3
  <2>. QED BY <1>2, <2>1, <2>3, <2>4, <2>5 DEF Contract!Settle
<1>. QED BY <1>3, <1>4 DEF Contract!Next, Contract!vars

-----------------------------------------------------------------------------
(* 7. The results.                                                         *)

(* The ledger, the chat and the executor stay in step, crashes and lost     *)
(* acknowledgements included.                                              *)
THEOREM AlwaysInStep == Spec => []InStep
BY Invariance, PTL

(* Executor, ledger and transport together never show the user a part       *)
(* twice, out of order, or behind a gap: delivery_plan.go stops a plan at    *)
(* the first result that is not a recorded confirmation.                   *)
THEOREM NeverTwiceNeverSkipped == Spec => []AtMostOnceInOrder
BY Invariance, InStepImpliesOrder, PTL

(* The ledger never denies what the user sees nor confirms what he does     *)
(* not, in particular after startup recovery (delivery.go:432-506).        *)
THEOREM LedgerIsCandid == Spec => []LedgerNeverDenies
BY Invariance, InStepImpliesNeverDenies, PTL

(* A delivery with a final status has no operation left to send or in       *)
(* flight, so recovery may overlook it (delivery.go:266-279).              *)
THEOREM TerminalIsSealed == Spec => []SealedTerminal
BY Invariance, InStepImpliesSealed, PTL

(* The guards of the ledger are met at every call the executor makes.      *)
THEOREM ExecutorIsNeverRefused == Spec => []NeverRefused
BY Invariance, InStepImpliesNeverRefused, PTL

(* What the caller is told of a reply, and what the ledger keeps of it, is  *)
(* true of the chat; the generic error message (response_path.go:344-347)   *)
(* is sent only for a reply of which no part was or will be posted.         *)
THEOREM ReportsAreHonest == Spec => []HonestReports
BY Invariance, InStepImpliesHonest, PTL

(* After a restart whose recovery committed, no delivery of an earlier run   *)
(* is open (delivery.go:432-506, main.go:318-322).                          *)
THEOREM SettlesOnRestart == Spec => []SealedAfterRestart
<1>1. Init => SealedAfterRestart
  BY DEF Init, SealedAfterRestart
<1>2. Typed /\ InStep /\ SealedAfterRestart /\ [Next]_vars => SealedAfterRestart'
  BY SettledStep
<1>. QED BY <1>1, <1>2, Invariance, PTL DEF Spec

(* Executor, ledger, transport and restarts together keep ReplyContract:     *)
(* parts appear in order, one verdict is passed on each reply, it is true    *)
(* then and stays true, and at most one part follows a verdict that does not *)
(* know.                                                                   *)
THEOREM ImplementsContract == Spec => KeepsContract
<1>1. Typed /\ InStep /\ VerdictsHold' /\ [Next]_vars => [Contract!Next]_(Contract!vars)
  BY ContractStep
<1>. QED BY <1>1, ContractInit, Invariance, InStepImpliesVerdictsHold, PTL
         DEF Spec, KeepsContract, Contract!Spec

-----------------------------------------------------------------------------
(* 8. What the process was told.  Only the last part a user saw can be one   *)
(* whose message ids reached the process and whose row does not say so; and  *)
(* while the database answers, a run that comes to its end leaves none, and  *)
(* its caller is told what the ledger says.                                *)

Told(d) == \A p \in told[d] : p < Len(chat[d])

(* The current part, when its ids came, is confirmed or about to be.        *)
Acknowledged(d) ==
  cur[d] \in told[d] =>
    \/ Current(d) = "confirmed"
    \/ pc[d] = "gone"
    \/ pc[d] = "record" /\ answer[d] \in {"ids", "ids_err"}

Echoed(d) ==
  /\ pc[d] = "persist" => outcome[d] = "confirmed"
  /\ pc[d] = "done" /\ status[d] # "absent" =>
       outcome[d] = status[d] /\ (status[d] = "confirmed" => linked[d])

Untroubled == faults = 0 => \A d \in Deliveries : Acknowledged(d) /\ Echoed(d)

(* What the status says of the parts before the current one.                *)
StatusTells ==
  \A d \in Deliveries :
    /\ status[d] \in {"rejected", "unknown"} => cur[d] = 0
    /\ status[d] \in {"partial_rejected", "partial_unknown"} /\ Current(d) # "confirmed" =>
         cur[d] > 0

LEMMA InStepImpliesStatusTells == Typed /\ InStep => StatusTells
<1>. SUFFICES ASSUME Typed, InStep, NEW d \in Deliveries
              PROVE  /\ status[d] \in {"rejected", "unknown"} => cur[d] = 0
                     /\ status[d] \in {"partial_rejected", "partial_unknown"}
                          /\ Current(d) # "confirmed" => cur[d] > 0
  BY DEF StatusTells
<1>1. /\ cur[d] \in Nat /\ plan[d].n \in Nat /\ cur[d] < plan[d].n
  BY RowsAt DEF Typed
<1>2. status[d] # "absent" => RowsInStep(d)
  BY DEF InStep, DeliveryInStep
<1>3. /\ status[d] \in {"rejected", "unknown"} => WithStatus(ops[d], {"confirmed"}) = {}
      /\ status[d] \in {"partial_rejected", "partial_unknown"} =>
           WithStatus(ops[d], {"confirmed"}) # {}
  BY DEF Typed, LedgerInv, SummaryAgrees
<1>4. ASSUME status[d] \in {"rejected", "unknown"}, cur[d] # 0 PROVE FALSE
  <2>1. ops[d][Covering(d, 0)] = "confirmed" /\ Covering(d, 0) \in Ordinals
    BY <1>1, <1>2, <1>4, CoveringBefore, CoveringExists
  <2>. QED BY <1>3, <1>4, <2>1 DEF WithStatus
<1>5. ASSUME status[d] \in {"partial_rejected", "partial_unknown"}, Current(d) # "confirmed"
      PROVE  cur[d] # 0
  BY <1>2, <1>3, <1>5, NothingConfirmedAtStart
<1>. QED BY <1>1, <1>4, <1>5

LEMMA CurrentWasTold ==
  ASSUME Typed, InStep, NEW d \in Deliveries, Told(d), Acknowledged(d),
         cur[d] \in told[d]
  PROVE  /\ pc[d] \notin {"idle", "mark", "send", "wait", "activate"}
         /\ pc[d] = "record" => answer[d] \in {"ids", "ids_err"}
<1>1. pc[d] # "idle"
  <2>1. pc[d] = "idle" => chat[d] = <<>>
    BY DEF InStep, DeliveryInStep, Untouched
  <2>2. Len(chat[d]) > 0
    BY TypesAt, RowsAt DEF Told, Typed
  <2>. QED BY <2>1, <2>2
<1>2. CASE pc[d] \in {"mark", "send", "wait", "activate", "record"}
  <2>1. ExecutorInStep(d)
    BY <1>2, Underway
  <2>. QED BY <1>2, <2>1 DEF ExecutorInStep, Acknowledged
<1>. QED BY <1>1, <1>2

(* No failing call so far, none in this step: the call committed.           *)
LEMMA CallCommitted ==
  ASSUME Typed, NEW r \in StoreReply, NEW can, can, Reply(r, can), faults' = 0
  PROVE  r = "ok"
<1>1. faults \in Nat
  BY BoundsAssumption DEF Typed, RestTypeOK
<1>. QED BY <1>1 DEF Reply

LEMMA FaultsRemain ==
  ASSUME Typed, [Next]_vars, faults' = 0
  PROVE  faults = 0
<1>1. faults \in Nat
  BY BoundsAssumption DEF Typed, RestTypeOK
<1>2. ASSUME NEW r, NEW can, Reply(r, can) PROVE faults = 0
  BY <1>1, <1>2 DEF Reply
<1>3. ASSUME NEW d \in Deliveries, NEW r \in StoreReply, Execute(d, r) PROVE faults = 0
  <2>1. \E can : Reply(r, can)
    BY <1>3 DEF Execute, Create, Mark, RecordConfirmed, RecordFailed, RecordFormat, Activate,
       Persist, Call
  <2>. QED BY <1>2, <2>1
<1>4. ASSUME NEW r \in StoreReply, Boot(r) PROVE faults = 0
  BY <1>2, <1>4 DEF Boot, Call
<1>5. ASSUME NEW d \in Deliveries,
             Preflight(d) \/ Send(d) \/ Land(d) \/ \E a \in Answer : Receive(d, a)
      PROVE  faults' = faults
  BY <1>5 DEF Preflight, Send, Land, Receive
<1>. QED BY <1>3, <1>4, <1>5 DEF Next, vars, Crash

(* A call of the executor, while none fails.                                *)
LEMMA ExecutorCommits ==
  ASSUME Typed, InStep, NEW d \in Deliveries, NEW r \in StoreReply, Execute(d, r), faults' = 0
  PROVE  r = "ok"
<1>1. NeverRefused
  BY InStepImpliesNeverRefused
<1>2. CASE Create(d, r)
  BY <1>1, <1>2, CallCommitted DEF Create, Call, NeverRefused
<1>3. CASE Mark(d, r)
  BY <1>1, <1>3, CallCommitted DEF Mark, Call, NeverRefused
<1>4. CASE RecordConfirmed(d, r)
  <2>1. CanComplete(d, Row(d), "confirmed", "none")
    BY <1>1, <1>4 DEF RecordConfirmed, NeverRefused, CanComplete
  <2>. QED BY <1>4, <2>1, CallCommitted DEF RecordConfirmed, Call
<1>5. CASE RecordFailed(d, r)
  <2> DEFINE s == IF answer[d] = "reject" THEN "rejected" ELSE "unknown"
  <2>1. CanComplete(d, Row(d), s, "failed")
    BY <1>1, <1>5 DEF RecordFailed, NeverRefused, CanComplete
  <2>2. Reply(r, CanComplete(d, Row(d), s, "failed"))
    BY <1>5 DEF RecordFailed, Call
  <2>. QED BY <2>1, <2>2, CallCommitted
<1>6. CASE RecordFormat(d, r)
  <2>1. CanComplete(d, Row(d), "rejected", "format")
    BY <1>1, <1>6 DEF RecordFormat, NeverRefused, CanComplete
  <2>. QED BY <1>6, <2>1, CallCommitted DEF RecordFormat, Call
<1>7. CASE Activate(d, r)
  BY <1>1, <1>7, CallCommitted DEF Activate, Call, NeverRefused
<1>8. CASE Persist(d, r)
  BY <1>1, <1>8, CallCommitted DEF Persist, Call, NeverRefused
<1>. QED BY <1>2, <1>3, <1>4, <1>5, <1>6, <1>7, <1>8 DEF Execute

LEMMA ToldStep ==
  ASSUME Typed, InStep, [Next]_vars, NEW d \in Deliveries, Told(d)
  PROVE  Told(d)'
<1>1. chat[d] \in Seq(Parts) /\ Len(chat[d]) \in Nat /\ told[d] \subseteq Nat /\ cur[d] \in Nat
  BY TypesAt, RowsAt DEF Typed, RestTypeOK, Parts
<1>2. /\ told \in [Deliveries -> SUBSET Parts] /\ chat \in [Deliveries -> Seq(Parts)]
      /\ cur[d] \in Parts
  BY DEF Typed, Places, PlacesTypeOK, RestTypeOK
<1>3. CASE UNCHANGED <<told, chat>>
  BY <1>3 DEF Told
<1>4. ASSUME NEW e \in Deliveries, Land(e) PROVE Told(d)'
  <2>1. told' = told /\ chat'[d] = IF e = d THEN Append(chat[d], cur[d]) ELSE chat[d]
    BY <1>2, <1>4 DEF Land
  <2>2. Len(chat'[d]) >= Len(chat[d])
    BY <1>1, <1>2, <2>1
  <2>3. Len(chat'[d]) \in Nat
    BY <1>1, <1>2, <2>1
  <2>. QED BY <1>1, <2>1, <2>2, <2>3 DEF Told
<1>5. ASSUME NEW e \in Deliveries, NEW a \in Answer, Receive(e, a) PROVE Told(d)'
  <2>1. chat' = chat /\ pc[e] = "wait"
    BY <1>5 DEF Receive
  <2>2. told'[d] = IF e = d /\ a \in {"ids", "ids_err"} THEN told[d] \cup {cur[d]} ELSE told[d]
    BY <1>2, <1>5 DEF Receive
  <2>3. e = d /\ a \in {"ids", "ids_err"} => Len(chat[d]) = cur[d] + 1
    BY <1>5, <2>1, Underway DEF Receive, CanAnswer, ExecutorInStep
  <2>. QED BY <1>1, <2>1, <2>2, <2>3 DEF Told
<1>6. ASSUME NEW e \in Deliveries, NEW r \in StoreReply, Execute(e, r)
      PROVE  UNCHANGED <<told, chat>>
  BY <1>6 DEF Execute, Create, Mark, RecordConfirmed, RecordFailed, RecordFormat, Activate,
     Persist, chatVars
<1>7. ASSUME NEW e \in Deliveries, Preflight(e) \/ Send(e) PROVE UNCHANGED <<told, chat>>
  BY <1>7 DEF Preflight, Send, chatVars
<1>8. CASE Crash \/ \E r \in StoreReply : Boot(r)
  BY <1>3, <1>8 DEF Crash, Boot, chatVars
<1>. QED BY <1>3, <1>4, <1>5, <1>6, <1>7, <1>8 DEF Next, vars, chatVars

(* One executor, while no call fails.                                       *)
LEMMA ExecutorUntroubled ==
  ASSUME Typed, InStep, InStep', StatusTells', NEW d \in Deliveries, NEW r \in StoreReply,
         Execute(d, r), faults' = 0, Told(d), Acknowledged(d), Echoed(d)
  PROVE  Acknowledged(d)' /\ Echoed(d)'
<1>1. r = "ok"
  BY ExecutorCommits
<1>2. /\ told' = told /\ plan' = plan
  BY DEF Execute, Create, Mark, RecordConfirmed, RecordFailed, RecordFormat, Activate,
     Persist, chatVars
<1>3. /\ pc \in [Deliveries -> PC] /\ outcome \in [Deliveries -> Outcome]
      /\ cur \in [Deliveries -> Parts] /\ linked \in [Deliveries -> BOOLEAN]
      /\ cur[d] \in Nat
  BY RowsAt DEF Typed, Places, PlacesTypeOK, RestTypeOK, LedgerInv, LedgerTypeOK
<1>4. CASE Create(d, r) \/ Mark(d, r) \/ RecordFormat(d, r) \/ Activate(d, r)
  <2>1. /\ pc'[d] \in {"mark", "send", "activate"} /\ cur' = cur
    BY <1>1, <1>3, <1>4 DEF Create, Mark, RecordFormat, Activate, Goto
  <2>2. cur[d] \notin told[d]
    BY <1>4, CurrentWasTold DEF Create, Mark, RecordFormat, Activate
  <2>. QED BY <1>2, <2>1, <2>2 DEF Acknowledged, Echoed
<1>5. CASE RecordConfirmed(d, r) /\ ~AtLastPart(d)
  <2>1. pc'[d] = "mark" /\ cur'[d] = cur[d] + 1
    BY <1>1, <1>3, <1>5 DEF RecordConfirmed, Goto
  <2>2. Len(chat[d]) = cur[d] + 1
    BY <1>5, Recording DEF RecordConfirmed
  <2>3. cur'[d] \notin told[d]
    BY <1>3, <2>1, <2>2 DEF Told
  <2>. QED BY <1>2, <2>1, <2>3 DEF Acknowledged, Echoed
<1>6. CASE RecordConfirmed(d, r) /\ AtLastPart(d)
  <2>1. pc'[d] = "persist" /\ outcome'[d] = "confirmed"
    BY <1>1, <1>3, <1>6 DEF RecordConfirmed
  <2>2. Current(d)' = "confirmed"
    BY <2>1 DEF InStep, DeliveryInStep, Untouched, ExecutorInStep
  <2>. QED BY <2>1, <2>2 DEF Acknowledged, Echoed
<1>7. CASE RecordFailed(d, r)
  <2> DEFINE s == IF answer[d] = "reject" THEN "rejected" ELSE "unknown"
  <2>1. /\ pc'[d] = "done" /\ cur' = cur /\ outcome'[d] = OutcomeAfterFailure(d, s)
    BY <1>3, <1>7 DEF RecordFailed, Stop
  <2>2. cur[d] \notin told[d]
    BY <1>7, CurrentWasTold DEF RecordFailed
  <2>3. CompleteOutboundDeliveryOperation(d, Row(d), s, "failed")
    BY <1>1, <1>7 DEF RecordFailed, Call
  <2>4. /\ ops'[d] = RowsAfter(ops[d], Row(d), s)
        /\ status'[d] = AggregateStatus(RowsAfter(ops[d], Row(d), s), s)
    BY <2>3, CompletedColumns
  <2>5. /\ confirmed[d] = cur[d] /\ status[d] \in NonTerminal /\ RowsInStep(d)
    BY <1>7, Recording DEF RecordFailed, NonTerminal
  <2>6. /\ Current(d)' = s
        /\ status'[d] \in IF s = "rejected" THEN {"rejected", "partial_rejected"}
                         ELSE {"unknown", "partial_unknown"}
    <3>1. SamePlan(d) /\ s \in {"rejected", "unknown"}
      BY <1>7 DEF RecordFailed, SamePlan
    <3>. HIDE DEF s
    <3>. QED BY <2>4, <2>5, <3>1, FailureClosesRows
  <2>7. /\ status'[d] \in {"rejected", "unknown"} => cur[d] = 0
        /\ status'[d] \in {"partial_rejected", "partial_unknown"} => cur[d] > 0
    BY <2>1, <2>6 DEF StatusTells
  <2>8. outcome'[d] = status'[d]
    BY <1>3, <2>1, <2>5, <2>6, <2>7 DEF OutcomeAfterFailure
  <2>9. status'[d] # "confirmed"
    BY <2>6
  <2>. QED BY <1>2, <2>1, <2>2, <2>8, <2>9 DEF Acknowledged, Echoed
<1>8. CASE Persist(d, r)
  <2>1. /\ pc[d] = "persist" /\ pc'[d] = "done" /\ outcome' = outcome /\ UNCHANGED <<cur, from, answer>>
    BY <1>3, <1>8 DEF Persist, Goto
  <2>2. status' = status /\ ops' = ops /\ linked'[d] = TRUE
    BY <1>1, <1>3, <1>8 DEF Persist, Call, PersistOutboundDeliveryReply
  <2>3. Current(d) = "confirmed" /\ AtLastPart(d) /\ StatusInStep(d)
    BY <2>1, Underway DEF ExecutorInStep
  <2>4. status[d] = "confirmed"
    BY <2>3 DEF StatusInStep
  <2>5. Current(d)' = "confirmed"
    BY <1>2, <2>1, <2>2, <2>3 DEF Current, Row, RowOf
  <2>. QED BY <2>1, <2>2, <2>4, <2>5 DEF Acknowledged, Echoed
<1>. QED BY <1>4, <1>5, <1>6, <1>7, <1>8 DEF Execute

LEMMA RestUntroubled ==
  ASSUME Typed, InStep, NEW d \in Deliveries, Told(d), Acknowledged(d), Echoed(d),
         \/ Preflight(d) \/ Send(d) \/ Land(d) \/ \E a \in Answer : Receive(d, a)
         \/ Crash \/ \E r \in StoreReply : Boot(r)
  PROVE  Acknowledged(d)' /\ Echoed(d)'
<1>1. /\ pc \in [Deliveries -> PC] /\ outcome \in [Deliveries -> Outcome]
      /\ answer \in [Deliveries -> Answer] /\ told \in [Deliveries -> SUBSET Parts]
  BY DEF Typed, Places, PlacesTypeOK, RestTypeOK
<1>2. CASE Preflight(d)
  <2>1. /\ status[d] = "absent" /\ status' = status /\ cur' = cur /\ told' = told
        /\ pc'[d] = "done"
    BY <1>1, <1>2 DEF Preflight, InStep, DeliveryInStep, StopBeforeSending, Stop, ledgerVars, chatVars
  <2>2. cur[d] \notin told[d]
    BY <1>2, CurrentWasTold DEF Preflight
  <2>. QED BY <2>1, <2>2 DEF Acknowledged, Echoed
<1>3. CASE Send(d)
  <2>1. cur' = cur /\ told' = told /\ pc'[d] = "wait"
    BY <1>1, <1>3 DEF Send, Goto
  <2>2. cur[d] \notin told[d]
    BY <1>3, CurrentWasTold DEF Send
  <2>. QED BY <2>1, <2>2 DEF Acknowledged, Echoed
<1>4. ASSUME NEW a \in Answer, Receive(d, a) PROVE Acknowledged(d)' /\ Echoed(d)'
  <2>1. /\ cur' = cur /\ pc'[d] = "record" /\ answer'[d] = a
        /\ told'[d] = IF a \in {"ids", "ids_err"} THEN told[d] \cup {cur[d]} ELSE told[d]
    BY <1>1, <1>4 DEF Receive, Goto
  <2>2. cur[d] \notin told[d]
    BY <1>4, CurrentWasTold DEF Receive
  <2>. QED BY <2>1, <2>2 DEF Acknowledged, Echoed
<1>5. CASE Land(d)
  <2>1. UNCHANGED <<plan, cur, from, ops, told, pc, answer, outcome, status, linked>>
    BY <1>5 DEF Land, ledgerVars, executorVars
  <2>2. Current(d)' = Current(d)
    BY <2>1 DEF Current, Row, RowOf
  <2>. QED BY <2>1, <2>2 DEF Acknowledged, Echoed
<1>6. CASE Crash
  <2>1. UNCHANGED <<plan, cur, from, ops, told, status, linked>>
    BY <1>6 DEF Crash, ledgerVars, chatVars
  <2>2. Current(d)' = Current(d)
    BY <2>1 DEF Current, Row, RowOf
  <2>3. CASE d \in Running
    <3>1. pc'[d] = "gone"
      BY <1>6, <2>3 DEF Crash, Forget
    <3>. QED BY <3>1 DEF Acknowledged, Echoed
  <2>4. CASE d \notin Running
    <3>1. pc'[d] = pc[d] /\ answer'[d] = answer[d] /\ outcome'[d] = outcome[d]
      BY <1>6, <2>4 DEF Crash, Forget
    <3>. QED BY <2>1, <2>2, <3>1 DEF Acknowledged, Echoed
  <2>. QED BY <2>3, <2>4
<1>7. ASSUME NEW r \in StoreReply, Boot(r) PROVE Acknowledged(d)' /\ Echoed(d)'
  <2>1. UNCHANGED <<plan, cur, from, told, pc, answer, outcome>>
    BY <1>7 DEF Boot, executorVars, chatVars
  <2>2. Row(d)' = Row(d) /\ Row(d) \in Ordinals
    BY <2>1, RowsAt DEF Typed, Row, RowOf
  <2>3. CASE ledgerVars' = ledgerVars
    BY <2>1, <2>2, <2>3 DEF Acknowledged, Echoed, Current, ledgerVars
  <2>4. CASE MarkInterruptedOutboundDeliveriesUnknown
    <3>1. /\ linked' = linked
          /\ status'[d] = IF Interrupted(d) THEN InterruptedStatus(ops[d]) ELSE status[d]
          /\ ops'[d] = IF Interrupted(d) THEN [o \in Ordinals |-> Sealed(ops[d][o])] ELSE ops[d]
      BY <2>4 DEF MarkInterruptedOutboundDeliveriesUnknown
    <3>2. Current(d) = "confirmed" => Current(d)' = "confirmed"
      BY <2>2, <3>1 DEF Current, Sealed
    <3>3. pc[d] = "done" /\ status[d] # "absent" => ~Interrupted(d)
      BY <1>1 DEF Echoed, Outcome, Interrupted, NonTerminal
    <3>4. status'[d] = "absent" <=> status[d] = "absent"
      BY <3>1 DEF Interrupted, InterruptedStatus, Partial, NonTerminal
    <3>. QED BY <2>1, <3>1, <3>2, <3>3, <3>4 DEF Acknowledged, Echoed
  <2>. QED BY <1>7, <2>3, <2>4 DEF Boot, Call
<1>. QED BY <1>2, <1>3, <1>4, <1>5, <1>6, <1>7

LEMMA UntroubledStep ==
  ASSUME Typed, InStep, InStep', StatusTells', [Next]_vars,
         \A d \in Deliveries : Told(d), Untroubled
  PROVE  Untroubled'
<1>. SUFFICES ASSUME faults' = 0, NEW d \in Deliveries PROVE Acknowledged(d)' /\ Echoed(d)'
  BY DEF Untroubled
<1>1. Acknowledged(d) /\ Echoed(d) /\ Told(d)
  BY FaultsRemain DEF Untroubled
<1>2. ASSUME Same(d), told'[d] = told[d] PROVE Acknowledged(d)' /\ Echoed(d)'
  <2>1. Current(d)' = Current(d)
    BY <1>2, SameRow DEF Same, SamePlan
  <2>. QED BY <1>1, <1>2, <2>1 DEF Acknowledged, Echoed, Same
<1>3. CASE UNCHANGED vars
  BY <1>2, <1>3 DEF vars, Same, ledgerVars, executorVars, chatVars
<1>4. ASSUME NEW e \in Deliveries,
             \/ Preflight(e) \/ Send(e) \/ Land(e) \/ \E a \in Answer : Receive(e, a)
             \/ \E r \in StoreReply : Execute(e, r)
      PROVE  Acknowledged(d)' /\ Echoed(d)'
  <2>1. CASE e # d
    <3>1. Same(d)
      BY <1>4, <2>1, OthersSame
    <3>2. told'[d] = told[d]
      <4>1. told \in [Deliveries -> SUBSET Parts]
        BY DEF Typed, RestTypeOK
      <4>2. told' = told \/ \E a \in Answer : Receive(e, a)
        BY <1>4 DEF Preflight, Send, Land, Execute, Create, Mark, RecordConfirmed, RecordFailed,
           RecordFormat, Activate, Persist, chatVars
      <4>. QED BY <2>1, <4>1, <4>2 DEF Receive
    <3>. QED BY <1>2, <3>1, <3>2
  <2>2. CASE e = d
    BY <1>1, <1>4, <2>2, ExecutorUntroubled, RestUntroubled
  <2>. QED BY <2>1, <2>2
<1>5. CASE Crash \/ \E r \in StoreReply : Boot(r)
  BY <1>1, <1>5, RestUntroubled
<1>. QED BY <1>3, <1>4, <1>5 DEF Next

LEMMA ToldInvariance ==
  Spec => [](Typed /\ InStep /\ Untroubled /\ \A d \in Deliveries : Told(d))
<1> DEFINE AllTold == \A d \in Deliveries : Told(d)
<1>1. Init => AllTold /\ Untroubled
  BY DEF Init, LedgerInit, Told, Untroubled, Acknowledged, Echoed
<1>2. Typed /\ InStep /\ AllTold /\ [Next]_vars => AllTold'
  BY ToldStep
<1>3. Typed /\ InStep /\ InStep' /\ StatusTells' /\ AllTold /\ Untroubled /\ [Next]_vars => Untroubled'
  BY UntroubledStep
<1>. QED BY <1>1, <1>2, <1>3, Invariance, InStepImpliesStatusTells, PTL DEF Spec

(* Of the parts whose ids were answered all are resolvable but the last.     *)
UnresolvedIsLast ==
  \A d \in Deliveries : \A p \in told[d] :
    p # cur[d] => p < cur[d] /\ ops[d][Covering(d, p)] = "confirmed"

(* However a reply ends, the row of every message whose ids reached the      *)
(* process says confirmed, except perhaps that of the last one: at most one  *)
(* message of a reply has reactions that do not resolve (bot.go:525-540).    *)
THEOREM OnlyTheLastUnresolved == Spec => []UnresolvedIsLast
<1>1. Typed /\ InStep /\ (\A d \in Deliveries : Told(d)) => UnresolvedIsLast
  <2>. SUFFICES ASSUME Typed, InStep, NEW d \in Deliveries, Told(d), NEW p \in told[d],
                       p # cur[d]
                PROVE  p < cur[d] /\ ops[d][Covering(d, p)] = "confirmed"
    BY DEF UnresolvedIsLast
  <2>1. p \in Nat /\ cur[d] \in Nat /\ Len(chat[d]) \in Nat /\ p < Len(chat[d])
    BY TypesAt, RowsAt DEF Typed, RestTypeOK, Parts, Told
  <2>2. status[d] # "absent"
    BY <2>1, TypesAt DEF InStep, DeliveryInStep, Untouched
  <2>3. RowsInStep(d) /\ Len(chat[d]) <= cur[d] + 1
    BY <2>1, <2>2 DEF InStep, DeliveryInStep, ChatInStep
  <2>4. p < cur[d]
    BY <2>1, <2>3
  <2>. QED BY <2>1, <2>3, <2>4, CoveringBefore
<1>. QED BY <1>1, ToldInvariance, PTL

EndedRunsResolve ==
  faults = 0 => \A d \in Deliveries : pc[d] = "done" =>
    \A p \in told[d] : ops[d][Covering(d, p)] = "confirmed"

(* And that one only if the process stopped before it recorded the ids, or a *)
(* call of the database failed: an executor that comes to its end without a  *)
(* failing call leaves no message unresolved (delivery_plan.go:597-744).     *)
THEOREM EndedRunsAreResolved == Spec => []EndedRunsResolve
<1>1. Typed /\ InStep /\ Untroubled /\ UnresolvedIsLast => EndedRunsResolve
  <2>. SUFFICES ASSUME Typed, InStep, Untroubled, UnresolvedIsLast, faults = 0,
                       NEW d \in Deliveries, pc[d] = "done", NEW p \in told[d]
                PROVE  ops[d][Covering(d, p)] = "confirmed"
    BY DEF EndedRunsResolve
  <2>1. CASE p # cur[d]
    BY <2>1 DEF UnresolvedIsLast
  <2>2. CASE p = cur[d]
    <3>1. Current(d) = "confirmed"
      BY <2>2 DEF Untroubled, Acknowledged
    <3>. QED BY <2>2, <3>1, CoveringCurrent DEF Current
  <2>. QED BY <2>1, <2>2
<1>. QED BY <1>1, ToldInvariance, OnlyTheLastUnresolved, PTL

LedgerEchoesCaller ==
  faults = 0 => \A d \in Deliveries : pc[d] = "done" /\ status[d] # "absent" =>
    outcome[d] = status[d] /\ (status[d] = "confirmed" => linked[d])

(* While the database answers, the outcome executeDeliveryPlan returns and   *)
(* the status the ledger keeps are the same, although each is computed for   *)
(* itself, one from len(confirmedIDs), the other from the rows              *)
(* (delivery_plan.go:273-282, delivery.go:288-325); a confirmed reply is     *)
(* then in the history.                                                    *)
THEOREM CallerAndLedgerAgree == Spec => []LedgerEchoesCaller
<1>1. Untroubled => LedgerEchoesCaller
  BY DEF Untroubled, Echoed, LedgerEchoesCaller
<1>. QED BY <1>1, ToldInvariance, PTL

-----------------------------------------------------------------------------
(* 9. A reply comes to its end.                                             *)

StageLeft(label) ==
  CASE label = "idle" -> 6
    [] label = "mark" -> 5
    [] label = "send" -> 4
    [] label = "wait" -> 3
    [] label = "record" -> 2
    [] label \in {"activate", "persist"} -> 1
    [] OTHER -> 0

(* How many steps an executor has left at most: those of the parts that      *)
(* remain, and of one more when it may still change the representation.     *)
StepsLeft(d) ==
  IF pc[d] \in {"done", "gone"} THEN 0
  ELSE 6 * (plan[d].n - cur[d]) + (IF from[d] = NoFallback THEN 6 ELSE 0)
         + StageLeft(pc[d])

(* An executor comes closer to its end with every step, and nothing that the *)
(* transport, another reply, a stop or a restart does takes it further away. *)
EveryStepCounts ==
  [][\A d \in Deliveries :
       /\ StepsLeft(d)' <= StepsLeft(d)
       /\ pc'[d] # pc[d] => StepsLeft(d)' < StepsLeft(d)]_vars

LEMMA LeftIsNat ==
  ASSUME Places, NEW d \in Deliveries
  PROVE  /\ StepsLeft(d) \in Nat
         /\ StepsLeft(d) <= 6 * plan[d].n + 12
         /\ plan[d].n - cur[d] >= 1 /\ plan[d].n \in Nat /\ cur[d] \in Nat
<1>1. /\ plan[d].n \in 1 .. MaxParts /\ cur[d] \in Nat /\ cur[d] < plan[d].n
      /\ MaxParts \in Nat
  BY PartsAssumption DEF Places, PlacesTypeOK, Place, Parts
<1>2. StageLeft(pc[d]) \in 0 .. 6
  BY DEF StageLeft
<1>. QED BY <1>1, <1>2 DEF StepsLeft

(* What one step does to the executor of a reply.                            *)
Advances(d) ==
  \/ pc'[d] = pc[d] /\ SamePlan(d)
  \/ pc[d] \notin {"done", "gone"} /\ pc'[d] \in {"done", "gone"}
  \/ /\ pc[d] \notin {"done", "gone"} /\ SamePlan(d)
     /\ StageLeft(pc'[d]) < StageLeft(pc[d])
  \/ /\ pc[d] = "record" /\ pc'[d] = "mark"
     /\ plan'[d] = plan[d] /\ from'[d] = from[d]
     /\ cur'[d] = cur[d] + 1 /\ cur[d] + 1 < plan[d].n
  \/ /\ pc[d] = "activate" /\ pc'[d] = "mark"
     /\ plan'[d] = plan[d] /\ cur'[d] = cur[d]
     /\ from[d] = NoFallback /\ from'[d] # NoFallback

LEMMA AdvancesCounts ==
  ASSUME Places, NEW d \in Deliveries, Advances(d)
  PROVE  /\ StepsLeft(d)' <= StepsLeft(d)
         /\ pc'[d] # pc[d] => StepsLeft(d)' < StepsLeft(d)
<1>. DEFINE k == plan[d].n - cur[d]
            f == IF from[d] = NoFallback THEN 6 ELSE 0
<1>1. /\ plan[d].n \in Nat /\ cur[d] \in Nat /\ k >= 1 /\ k \in Nat
      /\ StageLeft(pc[d]) \in 0 .. 6 /\ f \in {0, 6}
  BY LeftIsNat DEF StageLeft
<1>2. StepsLeft(d) \in Nat
  BY LeftIsNat
<1>3. CASE pc'[d] = pc[d] /\ SamePlan(d)
  BY <1>2, <1>3 DEF StepsLeft, SamePlan
<1>4. CASE pc[d] \notin {"done", "gone"} /\ pc'[d] \in {"done", "gone"}
  BY <1>1, <1>4 DEF StepsLeft
<1>5. CASE /\ pc[d] \notin {"done", "gone"} /\ SamePlan(d)
           /\ StageLeft(pc'[d]) < StageLeft(pc[d])
  <2>1. StageLeft(pc'[d]) \in 0 .. 6
    BY DEF StageLeft
  <2>2. StepsLeft(d) = 6 * k + f + StageLeft(pc[d])
    BY <1>5 DEF StepsLeft
  <2>3. StepsLeft(d)' = 0 \/ StepsLeft(d)' = 6 * k + f + StageLeft(pc'[d])
    BY <1>5 DEF StepsLeft, SamePlan
  <2>. HIDE DEF k, f
  <2>. QED BY <1>1, <1>5, <2>1, <2>2, <2>3
<1>6. CASE /\ pc[d] = "record" /\ pc'[d] = "mark"
           /\ plan'[d] = plan[d] /\ from'[d] = from[d]
           /\ cur'[d] = cur[d] + 1 /\ cur[d] + 1 < plan[d].n
  BY <1>1, <1>6 DEF StepsLeft, StageLeft
<1>7. CASE /\ pc[d] = "activate" /\ pc'[d] = "mark"
           /\ plan'[d] = plan[d] /\ cur'[d] = cur[d]
           /\ from[d] = NoFallback /\ from'[d] # NoFallback
  BY <1>1, <1>7 DEF StepsLeft, StageLeft
<1>. QED BY <1>3, <1>4, <1>5, <1>6, <1>7 DEF Advances

LEMMA StepAdvances ==
  ASSUME Typed, InStep, [Next]_vars, NEW d \in Deliveries
  PROVE  Advances(d)
<1>. USE DEF SamePlan
<1>1. /\ pc \in [Deliveries -> PC] /\ cur \in [Deliveries -> Parts]
      /\ from \in [Deliveries -> Parts \cup {NoFallback}]
      /\ cur[d] < plan[d].n /\ plan[d].n \in Nat /\ cur[d] \in Nat
      /\ cur[d] # NoFallback
  BY TypesAt, PartsAssumption DEF Typed, Places, PlacesTypeOK, Place, Parts, NoFallback
<1>2. CASE UNCHANGED vars
  BY <1>2 DEF vars, executorVars, Advances
<1>3. CASE Crash
  BY <1>1, <1>3 DEF Crash, Forget, Running, Advances
<1>4. CASE \E r \in StoreReply : Boot(r)
  BY <1>4 DEF Boot, executorVars, Advances
<1>5. ASSUME NEW e \in Deliveries,
             \/ Preflight(e) \/ Send(e) \/ Land(e) \/ \E a \in Answer : Receive(e, a)
             \/ \E r \in StoreReply : Execute(e, r)
      PROVE  Advances(d)
  <2>1. CASE e # d
    <3>1. Same(d)
      BY <1>5, <2>1, OthersSame
    <3>. QED BY <3>1 DEF Same, Advances
  <2>2. CASE e = d /\ (Preflight(d) \/ Send(d) \/ Land(d) \/ \E a \in Answer : Receive(d, a))
    BY <1>1, <2>2 DEF Preflight, StopBeforeSending, Stop, Send, Land, Receive, Goto,
       executorVars, Advances, StageLeft
  <2>3. ASSUME e = d, NEW r \in StoreReply, Execute(d, r) PROVE Advances(d)
    <3>1. CASE Create(d, r) \/ Mark(d, r) \/ RecordFailed(d, r) \/ RecordFormat(d, r)
                 \/ Persist(d, r)
      BY <1>1, <3>1 DEF Create, Mark, RecordFailed, RecordFormat, Persist,
         StopBeforeSending, Stop, Goto, Advances, StageLeft
    <3>2. CASE RecordConfirmed(d, r)
      <4>1. /\ plan' = plan /\ from' = from /\ pc[d] = "record"
            /\ \/ pc' = [pc EXCEPT ![d] = "done"] /\ cur' = cur
               \/ pc' = [pc EXCEPT ![d] = "persist"] /\ cur' = cur
               \/ /\ pc' = [pc EXCEPT ![d] = "mark"] /\ cur[d] # plan[d].n - 1
                  /\ cur' = [cur EXCEPT ![d] = @ + 1]
        BY <3>2 DEF RecordConfirmed, AtLastPart, Stop, Goto
      <4>2. CASE cur' = cur
        BY <1>1, <4>1, <4>2 DEF Advances, StageLeft
      <4>3. CASE cur' = [cur EXCEPT ![d] = @ + 1] /\ cur[d] # plan[d].n - 1
                   /\ pc' = [pc EXCEPT ![d] = "mark"]
        BY <1>1, <4>1, <4>3 DEF Advances
      <4>. QED BY <4>1, <4>2, <4>3
    <3>3. CASE Activate(d, r)
      <4>1. from[d] = NoFallback
        BY <3>3 DEF Activate, InStep, DeliveryInStep, Untouched, ExecutorInStep
      <4>. QED BY <1>1, <3>3, <4>1 DEF Activate, Stop, Goto, Advances, StageLeft
    <3>. QED BY <2>3, <3>1, <3>2, <3>3 DEF Execute
  <2>. QED BY <1>5, <2>1, <2>2, <2>3
<1>. QED BY <1>2, <1>3, <1>4, <1>5 DEF Next

(* executeDeliveryPlan has no loop that could run for ever                   *)
(* (delivery_plan.go:597-744, 749-865): a reply of n parts takes at most      *)
(* 6 * n + 12 steps, whatever the transport answers, the database does and     *)
(* other replies do meanwhile.                                              *)
THEOREM ExecutorTerminates ==
  Spec => /\ EveryStepCounts
          /\ [](\A d \in Deliveries : StepsLeft(d) \in 0 .. 6 * plan[d].n + 12)
<1>1. Typed /\ InStep /\ [Next]_vars =>
        \A d \in Deliveries :
          /\ StepsLeft(d)' <= StepsLeft(d)
          /\ pc'[d] # pc[d] => StepsLeft(d)' < StepsLeft(d)
  BY StepAdvances, AdvancesCounts DEF Typed
<1>2. Typed => \A d \in Deliveries : StepsLeft(d) \in 0 .. 6 * plan[d].n + 12
  BY LeftIsNat DEF Typed
<1>. QED BY <1>1, <1>2, Invariance, PTL DEF Spec, EveryStepCounts
=============================================================================
