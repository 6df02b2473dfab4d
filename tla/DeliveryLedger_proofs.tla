----------------------- MODULE DeliveryLedger_proofs -----------------------
(***************************************************************************)
(* What the tables of DeliveryLedger guarantee for every set of deliveries, *)
(* every number of rows and every sequence of calls.                       *)
(*                                                                         *)
(* The properties of DeliveryLedger are inductive together with one fact    *)
(* the module has no need to state: a delivery that was not created owns no *)
(* operation.  It gives Create its clean slate.                            *)
(***************************************************************************)
EXTENDS DeliveryLedger, FiniteSetTheorems, TLAPS

AbsentIsEmpty ==
  \A d \in Deliveries : status[d] = "absent" =>
    \A o \in Ordinals : ops[d][o] = "absent"

LedgerInv ==
  LedgerTypeOK /\ SummaryAgrees /\ OneFallbackBranch /\ AbsentIsEmpty

(* The same for one delivery, of the values of its columns.                *)
Rows == [Ordinals -> OperationStatus]
Existing(row) == Ordinals \ WithStatus(row, {"absent"})

StatusAgrees(st, row) ==
  /\ st = "confirmed" => WithStatus(row, Active \cup HardFailure) = {}
  /\ st \in {"rejected", "unknown"} => WithStatus(row, {"confirmed"}) = {}
  /\ st \in {"confirmed", "partial_rejected", "partial_unknown"} =>
       WithStatus(row, {"confirmed"}) # {}
  /\ st \in {"unknown", "partial_unknown"} => WithStatus(row, {"unknown"}) # {}

SingleBranch(row) == \A i, j \in WithStatus(row, {"format_rejected"}) : i = j

DeliveryOK(st, row, count, size) ==
  /\ StatusAgrees(st, row)
  /\ SingleBranch(row)
  /\ count = Cardinality(WithStatus(row, {"confirmed"}))
  /\ size = Cardinality(Existing(row))
  /\ st = "absent" => \A o \in Ordinals : row[o] = "absent"

LEMMA LedgerInvByDelivery ==
  LedgerInv <=>
    /\ LedgerTypeOK
    /\ \A d \in Deliveries :
         DeliveryOK(status[d], ops[d], confirmedCount[d], operationCount[d])
BY DEF LedgerInv, SummaryAgrees, OneFallbackBranch, AbsentIsEmpty, DeliveryOK,
       StatusAgrees, SingleBranch, Existing

-----------------------------------------------------------------------------
(* Counting rows.                                                          *)

LEMMA OrdinalsFinite ==
  IsFiniteSet(Ordinals) /\ Cardinality(Ordinals) = MaxOps
BY MaxOpsAssumption, FS_Interval, SMT DEF Ordinals

LEMMA CountBounded ==
  ASSUME NEW R, R \subseteq Ordinals
  PROVE  IsFiniteSet(R) /\ Cardinality(R) \in 0 .. MaxOps
<1>1. IsFiniteSet(R) /\ Cardinality(R) <= Cardinality(Ordinals)
  BY OrdinalsFinite, FS_Subset
<1>2. Cardinality(R) \in Nat
  BY <1>1, FS_CardinalityType
<1>. QED BY <1>1, <1>2, OrdinalsFinite, MaxOpsAssumption

LEMMA CountPrefix ==
  ASSUME NEW n \in 1 .. MaxOps
  PROVE  Cardinality({o \in Ordinals : o < n}) = n
<1>1. {o \in Ordinals : o < n} = 0 .. n - 1
  BY MaxOpsAssumption DEF Ordinals
<1>2. Cardinality(0 .. n - 1) = n
  <2>1. 0 \in Int /\ n - 1 \in Int /\ n \in Nat \ {0}
    BY MaxOpsAssumption
  <2>2. Cardinality(0 .. n - 1) = IF 0 > n - 1 THEN 0 ELSE (n - 1) - 0 + 1
    BY <2>1, FS_Interval
  <2>. QED BY <2>1, <2>2
<1>. QED BY <1>1, <1>2, Zenon

(* k fresh rows behind R make k more.                                      *)
LEMMA CountAppended ==
  ASSUME NEW R, R \subseteq Ordinals,
         NEW m \in 1 .. MaxOps, NEW k \in 1 .. MaxOps, m + k <= MaxOps,
         \A o \in R : o < m
  PROVE  Cardinality(R \cup (m .. m + k - 1)) = Cardinality(R) + k
<1>1. IsFiniteSet(R) /\ Cardinality(R) \in Nat
  BY CountBounded, FS_CardinalityType
<1>2. IsFiniteSet(m .. m + k - 1) /\ Cardinality(m .. m + k - 1) = k
  BY FS_Interval, MaxOpsAssumption
<1>3. R \cap (m .. m + k - 1) = {}
  BY MaxOpsAssumption DEF Ordinals
<1>4. Cardinality(R \cup (m .. m + k - 1))
        = Cardinality(R) + k - Cardinality(R \cap (m .. m + k - 1))
  BY <1>1, <1>2, FS_Union
<1>. QED BY <1>1, <1>3, <1>4, FS_EmptySet, MaxOpsAssumption

-----------------------------------------------------------------------------
(* Each transaction keeps the delivery it touches in order.                *)

LEMMA CreatedOK ==
  ASSUME NEW n \in 1 .. MaxOps
  PROVE  DeliveryOK("planned",
           [o \in Ordinals |-> IF o < n THEN "planned" ELSE "absent"], 0, n)
<1> DEFINE row == [o \in Ordinals |-> IF o < n THEN "planned" ELSE "absent"]
<1>1. WithStatus(row, {"confirmed"}) = {} /\ WithStatus(row, {"format_rejected"}) = {}
  BY DEF WithStatus
<1>2. Existing(row) = {o \in Ordinals : o < n}
  BY DEF WithStatus, Existing
<1>3. Cardinality(Existing(row)) = n
  BY <1>2, CountPrefix
<1>4. Cardinality(WithStatus(row, {"confirmed"})) = 0
  BY <1>1, FS_EmptySet
<1>. QED BY <1>1, <1>3, <1>4 DEF DeliveryOK, StatusAgrees, SingleBranch

LEMMA MarkedOK ==
  ASSUME NEW row \in Rows, NEW o \in Ordinals, row[o] = "planned",
         NEW st, NEW count, NEW size, DeliveryOK(st, row, count, size)
  PROVE  DeliveryOK("sending", [row EXCEPT ![o] = "sending"], count, size)
<1> DEFINE new == [row EXCEPT ![o] = "sending"]
<1>1. WithStatus(new, {"confirmed"}) = WithStatus(row, {"confirmed"})
  BY DEF WithStatus, Rows
<1>2. WithStatus(new, {"format_rejected"}) = WithStatus(row, {"format_rejected"})
  BY DEF WithStatus, Rows
<1>3. Existing(new) = Existing(row)
  BY DEF WithStatus, Existing, Rows
<1>. QED BY <1>1, <1>2, <1>3 DEF DeliveryOK, StatusAgrees, SingleBranch

LEMMA CompletedOK ==
  ASSUME NEW row \in Rows, NEW o \in Ordinals, row[o] = "sending",
         NEW s \in {"confirmed", "rejected", "unknown"},
         NEW st, NEW count, NEW size, DeliveryOK(st, row, count, size)
  PROVE  LET new == RowsAfter(row, o, s) IN
           DeliveryOK(AggregateStatus(new, s), new,
             Cardinality(WithStatus(new, {"confirmed"})), size)
<1> DEFINE new == RowsAfter(row, o, s)
<1>1. WithStatus(new, {"format_rejected"}) = WithStatus(row, {"format_rejected"})
  BY DEF WithStatus, Rows, RowsAfter
<1>2. Existing(new) = Existing(row)
  BY DEF WithStatus, Existing, Rows, RowsAfter
<1>3. o \in WithStatus(new, {s})
  BY DEF WithStatus, RowsAfter
<1>4. StatusAgrees(AggregateStatus(new, s), new)
  <2> HIDE DEF new
  <2>. QED BY <1>3 DEF StatusAgrees, AggregateStatus, Partial
<1>5. AggregateStatus(new, s) # "absent"
  BY DEF AggregateStatus, Partial
<1>. HIDE DEF new
<1>6. DeliveryOK(AggregateStatus(new, s), new,
        Cardinality(WithStatus(new, {"confirmed"})), size)
  BY <1>1, <1>2, <1>4, <1>5 DEF DeliveryOK, SingleBranch
<1>. QED BY <1>6 DEF new

LEMMA ActivatedOK ==
  ASSUME NEW row \in Rows, NEW o \in Ordinals, row[o] = "rejected",
         WithStatus(row, {"format_rejected"}) = {},
         NEW m \in 1 .. MaxOps, NEW k \in 1 .. MaxOps, m + k <= MaxOps,
         AppendsAt(row, m),
         NEW st, NEW count, NEW size, DeliveryOK(st, row, count, size)
  PROVE  LET new == [i \in Ordinals |->
                       IF i \in m .. m + k - 1 THEN "planned"
                       ELSE IF i = o THEN "format_rejected"
                       ELSE RowsAfter(row, o, "rejected")[i]]
         IN DeliveryOK("sending", new, count, size + k)
<1> DEFINE new == [i \in Ordinals |->
                     IF i \in m .. m + k - 1 THEN "planned"
                     ELSE IF i = o THEN "format_rejected"
                     ELSE RowsAfter(row, o, "rejected")[i]]
<1>1. o < m /\ \A i \in Ordinals : i >= m => row[i] = "absent"
  BY MaxOpsAssumption DEF AppendsAt, Ordinals
<1>2. WithStatus(new, {"confirmed"}) = WithStatus(row, {"confirmed"})
  BY <1>1, MaxOpsAssumption DEF WithStatus, Rows, RowsAfter, Ordinals
<1>3. \A i \in WithStatus(new, {"format_rejected"}) : i = o
  BY DEF WithStatus, Rows, RowsAfter
<1>4. Existing(new) = Existing(row) \cup (m .. m + k - 1)
  BY <1>1, MaxOpsAssumption DEF WithStatus, Existing, Rows, RowsAfter, Ordinals
<1>5. Cardinality(Existing(new)) = Cardinality(Existing(row)) + k
  <2>1. Existing(row) \subseteq Ordinals
    BY DEF Existing
  <2>2. \A i \in Existing(row) : i < m
    BY <1>1, MaxOpsAssumption DEF Existing, WithStatus, Ordinals
  <2>3. Cardinality(Existing(row) \cup (m .. m + k - 1)) = Cardinality(Existing(row)) + k
    BY <2>1, <2>2, CountAppended
  <2>. QED BY <2>3, <1>4, Zenon
<1>. HIDE DEF new
<1>6. DeliveryOK("sending", new, count, size + k)
  BY <1>2, <1>3, <1>5 DEF DeliveryOK, StatusAgrees, SingleBranch
<1>. QED BY <1>6 DEF new

LEMMA SealedOK ==
  ASSUME NEW row \in Rows,
         NEW st, NEW count, NEW size, DeliveryOK(st, row, count, size)
  PROVE  DeliveryOK(InterruptedStatus(row), [o \in Ordinals |-> Sealed(row[o])],
           Cardinality(WithStatus(row, {"confirmed"})), size)
<1> DEFINE new == [o \in Ordinals |-> Sealed(row[o])]
<1>1. WithStatus(new, {"confirmed"}) = WithStatus(row, {"confirmed"})
  BY DEF WithStatus, Rows, OperationStatus, Sealed
<1>2. WithStatus(new, {"format_rejected"}) = WithStatus(row, {"format_rejected"})
  BY DEF WithStatus, Rows, OperationStatus, Sealed
<1>3. Existing(new) = Existing(row)
  BY DEF WithStatus, Existing, Rows, OperationStatus, Sealed
<1>4. WithStatus(row, {"sending"}) \subseteq WithStatus(new, {"unknown"})
  BY DEF WithStatus, Rows, OperationStatus, Sealed
<1>. HIDE DEF new
<1>5. StatusAgrees(InterruptedStatus(row), new) /\ InterruptedStatus(row) # "absent"
  BY <1>1, <1>4 DEF StatusAgrees, InterruptedStatus, Partial
<1>6. DeliveryOK(InterruptedStatus(row), new,
        Cardinality(WithStatus(row, {"confirmed"})), size)
  BY <1>1, <1>2, <1>3, <1>5 DEF DeliveryOK, SingleBranch
<1>. QED BY <1>6 DEF new

-----------------------------------------------------------------------------
(* The induction.                                                          *)

LEMMA InitLedgerInv == LedgerInit => LedgerInv
<1>. SUFFICES ASSUME LedgerInit PROVE LedgerInv
  OBVIOUS
<1>1. LedgerTypeOK
  BY MaxOpsAssumption DEF LedgerInit, LedgerTypeOK, DeliveryStatus, OperationStatus,
     ErrorClass
<1>2. ASSUME NEW d \in Deliveries
      PROVE  DeliveryOK(status[d], ops[d], confirmedCount[d], operationCount[d])
  <2>1. /\ WithStatus(ops[d], {"confirmed"}) = {}
        /\ WithStatus(ops[d], {"format_rejected"}) = {}
        /\ Existing(ops[d]) = {}
    BY DEF LedgerInit, WithStatus, Existing
  <2>2. /\ Cardinality(WithStatus(ops[d], {"confirmed"})) = 0
        /\ Cardinality(Existing(ops[d])) = 0
    BY <2>1, FS_EmptySet, Zenon
  <2>. QED BY <2>1, <2>2 DEF LedgerInit, DeliveryOK, StatusAgrees, SingleBranch
<1>. QED BY <1>1, <1>2, LedgerInvByDelivery

LEMMA LedgerInvNext ==
  LedgerInv' <=>
    /\ LedgerTypeOK'
    /\ \A d \in Deliveries :
         DeliveryOK(status'[d], ops'[d], confirmedCount'[d], operationCount'[d])
BY DEF LedgerInv, SummaryAgrees, OneFallbackBranch, AbsentIsEmpty, DeliveryOK,
       StatusAgrees, SingleBranch, Existing, WithStatus

(* Nothing depends on the history link.                                    *)
LEMMA SameRows ==
  ASSUME LedgerInv, linked' \in [Deliveries -> BOOLEAN],
         UNCHANGED <<status, ops, errorClass, confirmedCount, operationCount>>
  PROVE  LedgerInv'
<1>1. LedgerTypeOK'
  BY DEF LedgerInv, LedgerTypeOK
<1>2. ASSUME NEW d \in Deliveries
      PROVE  DeliveryOK(status'[d], ops'[d], confirmedCount'[d], operationCount'[d])
  <2>1. DeliveryOK(status[d], ops[d], confirmedCount[d], operationCount[d])
    BY LedgerInvByDelivery
  <2>2. /\ status'[d] = status[d] /\ ops'[d] = ops[d]
        /\ confirmedCount'[d] = confirmedCount[d]
        /\ operationCount'[d] = operationCount[d]
    OBVIOUS
  <2>. QED BY <2>1, <2>2, Zenon
<1>. QED BY <1>1, <1>2, LedgerInvNext

(* The domains: only Create, Complete, Activate and recovery write a count. *)
LEMMA CountsInRange ==
  ASSUME NEW row, NEW st, NEW count, NEW size, DeliveryOK(st, row, count, size)
  PROVE  count \in 0 .. MaxOps /\ size \in 0 .. MaxOps
<1>1. WithStatus(row, {"confirmed"}) \subseteq Ordinals /\ Existing(row) \subseteq Ordinals
  BY DEF WithStatus, Existing
<1>. QED BY <1>1, CountBounded DEF DeliveryOK

(* What one call on delivery e leaves of every other delivery.             *)
LEMMA OneDeliveryStep ==
  ASSUME LedgerInv, NEW e \in Deliveries,
         NEW st \in DeliveryStatus, NEW row \in Rows, NEW class \in [Ordinals -> ErrorClass],
         NEW count, NEW size, NEW link \in BOOLEAN,
         DeliveryOK(st, row, count, size),
         status' = [status EXCEPT ![e] = st],
         ops' = [ops EXCEPT ![e] = row],
         errorClass' = [errorClass EXCEPT ![e] = class],
         confirmedCount' = [confirmedCount EXCEPT ![e] = count],
         operationCount' = [operationCount EXCEPT ![e] = size],
         linked' = [linked EXCEPT ![e] = link]
  PROVE  LedgerInv'
<1>1. count \in 0 .. MaxOps /\ size \in 0 .. MaxOps
  BY CountsInRange
<1>2. LedgerTypeOK
  BY LedgerInvByDelivery
<1>3. LedgerTypeOK'
  BY <1>1, <1>2 DEF LedgerTypeOK, Rows
<1>4. ASSUME NEW d \in Deliveries
      PROVE  DeliveryOK(status'[d], ops'[d], confirmedCount'[d], operationCount'[d])
  <2>1. CASE d = e
    BY <2>1, <1>2 DEF LedgerTypeOK
  <2>2. CASE d # e
    <3>1. DeliveryOK(status[d], ops[d], confirmedCount[d], operationCount[d])
      BY LedgerInvByDelivery
    <3>. QED BY <2>2, <3>1, <1>2 DEF LedgerTypeOK
  <2>. QED BY <2>1, <2>2
<1>. QED BY <1>3, <1>4, LedgerInvNext

LEMMA CreateKeepsInv ==
  ASSUME LedgerInv, NEW d \in Deliveries, NEW n \in 1 .. MaxOps,
         CreateOutboundDelivery(d, n)
  PROVE  LedgerInv'
<1> DEFINE row == [o \in Ordinals |-> IF o < n THEN "planned" ELSE "absent"]
<1>1. LedgerTypeOK /\ DeliveryOK(status[d], ops[d], confirmedCount[d], operationCount[d])
  BY LedgerInvByDelivery
<1>2. confirmedCount[d] = 0
  <2>1. WithStatus(ops[d], {"confirmed"}) = {}
    BY <1>1 DEF CreateOutboundDelivery, CanCreate, DeliveryOK, WithStatus
  <2>. QED BY <2>1, <1>1, FS_EmptySet, Zenon DEF DeliveryOK
<1>3. DeliveryOK("planned", row, 0, n)
  BY CreatedOK
<1>4. row \in Rows
  BY DEF Rows, OperationStatus
<1>5. /\ status' = [status EXCEPT ![d] = "planned"]
      /\ ops' = [ops EXCEPT ![d] = row]
      /\ errorClass' = [errorClass EXCEPT ![d] = errorClass[d]]
      /\ confirmedCount' = [confirmedCount EXCEPT ![d] = 0]
      /\ operationCount' = [operationCount EXCEPT ![d] = n]
      /\ linked' = [linked EXCEPT ![d] = linked[d]]
  BY <1>1, <1>2 DEF CreateOutboundDelivery, LedgerTypeOK
<1>6. "planned" \in DeliveryStatus /\ errorClass[d] \in [Ordinals -> ErrorClass]
        /\ linked[d] \in BOOLEAN
  BY <1>1 DEF LedgerTypeOK, DeliveryStatus
<1>. HIDE DEF row
<1>. QED BY <1>3, <1>4, <1>5, <1>6, OneDeliveryStep

LEMMA MarkKeepsInv ==
  ASSUME LedgerInv, NEW d \in Deliveries, NEW o \in Ordinals,
         MarkOutboundDeliveryOperationSending(d, o)
  PROVE  LedgerInv'
<1> DEFINE row == [ops[d] EXCEPT ![o] = "sending"]
<1>1. LedgerTypeOK /\ DeliveryOK(status[d], ops[d], confirmedCount[d], operationCount[d])
  BY LedgerInvByDelivery
<1>2. ops[d] \in Rows /\ ops[d][o] = "planned"
  BY <1>1 DEF LedgerTypeOK, Rows, MarkOutboundDeliveryOperationSending, CanMark
<1>3. DeliveryOK("sending", row, confirmedCount[d], operationCount[d])
  BY <1>1, <1>2, MarkedOK
<1>4. row \in Rows
  BY <1>2 DEF Rows, OperationStatus
<1>5. /\ status' = [status EXCEPT ![d] = "sending"]
      /\ ops' = [ops EXCEPT ![d] = row]
      /\ errorClass' = [errorClass EXCEPT ![d] = errorClass[d]]
      /\ confirmedCount' = [confirmedCount EXCEPT ![d] = confirmedCount[d]]
      /\ operationCount' = [operationCount EXCEPT ![d] = operationCount[d]]
      /\ linked' = [linked EXCEPT ![d] = linked[d]]
  BY <1>1 DEF MarkOutboundDeliveryOperationSending, LedgerTypeOK
<1>6. "sending" \in DeliveryStatus /\ errorClass[d] \in [Ordinals -> ErrorClass]
        /\ linked[d] \in BOOLEAN
  BY <1>1 DEF LedgerTypeOK, DeliveryStatus
<1>. HIDE DEF row
<1>. QED BY <1>3, <1>4, <1>5, <1>6, OneDeliveryStep

LEMMA CompleteKeepsInv ==
  ASSUME LedgerInv, NEW d \in Deliveries, NEW o \in Ordinals,
         NEW s, NEW c \in ErrorClass,
         CompleteOutboundDeliveryOperation(d, o, s, c)
  PROVE  LedgerInv'
<1> DEFINE row == RowsAfter(ops[d], o, s)
           count == Cardinality(WithStatus(row, {"confirmed"}))
           class == [errorClass[d] EXCEPT ![o] = c]
<1>1. LedgerTypeOK /\ DeliveryOK(status[d], ops[d], confirmedCount[d], operationCount[d])
  BY LedgerInvByDelivery
<1>2. /\ ops[d] \in Rows /\ ops[d][o] = "sending"
      /\ s \in {"confirmed", "rejected", "unknown"}
  BY <1>1 DEF LedgerTypeOK, Rows, CompleteOutboundDeliveryOperation, CanComplete
<1>3. DeliveryOK(AggregateStatus(row, s), row, count, operationCount[d])
  BY <1>1, <1>2, CompletedOK
<1>4. row \in Rows /\ class \in [Ordinals -> ErrorClass] /\ linked[d] \in BOOLEAN
  BY <1>1, <1>2 DEF LedgerTypeOK, Rows, RowsAfter, OperationStatus
<1>5. AggregateStatus(row, s) \in DeliveryStatus
  BY <1>2 DEF AggregateStatus, Partial, DeliveryStatus
<1>6. /\ status' = [status EXCEPT ![d] = AggregateStatus(row, s)]
      /\ ops' = [ops EXCEPT ![d] = row]
      /\ errorClass' = [errorClass EXCEPT ![d] = class]
      /\ confirmedCount' = [confirmedCount EXCEPT ![d] = count]
      /\ operationCount' = [operationCount EXCEPT ![d] = operationCount[d]]
      /\ linked' = [linked EXCEPT ![d] = linked[d]]
  BY <1>1 DEF CompleteOutboundDeliveryOperation, LedgerTypeOK
<1>. HIDE DEF row, count, class
<1>. QED BY <1>3, <1>4, <1>5, <1>6, OneDeliveryStep

LEMMA ActivateKeepsInv ==
  ASSUME LedgerInv, NEW d \in Deliveries, NEW o \in Ordinals,
         NEW m \in 1 .. MaxOps, NEW k \in 1 .. MaxOps,
         ActivateOutboundDeliveryFallback(d, o, m, k)
  PROVE  LedgerInv'
<1> DEFINE row == [i \in Ordinals |->
                     IF i \in m .. m + k - 1 THEN "planned"
                     ELSE IF i = o THEN "format_rejected"
                     ELSE RowsAfter(ops[d], o, "rejected")[i]]
<1>1. LedgerTypeOK /\ DeliveryOK(status[d], ops[d], confirmedCount[d], operationCount[d])
  BY LedgerInvByDelivery
<1>2. ops[d] \in Rows /\ ops[d][o] = "rejected"
        /\ AppendsAt(ops[d], m) /\ m + k <= MaxOps
  BY <1>1 DEF LedgerTypeOK, Rows, ActivateOutboundDeliveryFallback, CanActivate
<1>3. WithStatus(ops[d], {"format_rejected"}) = {}
  BY DEF ActivateOutboundDeliveryFallback, CanActivate, WithStatus
<1>4. DeliveryOK("sending", row, confirmedCount[d], operationCount[d] + k)
  BY <1>1, <1>2, <1>3, ActivatedOK
<1>5. row \in Rows
  BY <1>2 DEF Rows, RowsAfter, OperationStatus
<1>6. /\ status' = [status EXCEPT ![d] = "sending"]
      /\ ops' = [ops EXCEPT ![d] = row]
      /\ errorClass' = [errorClass EXCEPT ![d] = errorClass[d]]
      /\ confirmedCount' = [confirmedCount EXCEPT ![d] = confirmedCount[d]]
      /\ operationCount' = [operationCount EXCEPT ![d] = operationCount[d] + k]
      /\ linked' = [linked EXCEPT ![d] = linked[d]]
  BY <1>1 DEF ActivateOutboundDeliveryFallback, LedgerTypeOK
<1>7. "sending" \in DeliveryStatus /\ errorClass[d] \in [Ordinals -> ErrorClass]
        /\ linked[d] \in BOOLEAN
  BY <1>1 DEF LedgerTypeOK, DeliveryStatus
<1>. HIDE DEF row
<1>. QED BY <1>4, <1>5, <1>6, <1>7, OneDeliveryStep

LEMMA PersistKeepsInv ==
  ASSUME LedgerInv, NEW d \in Deliveries, PersistOutboundDeliveryReply(d)
  PROVE  LedgerInv'
<1>1. linked' \in [Deliveries -> BOOLEAN]
  BY DEF LedgerInv, LedgerTypeOK, PersistOutboundDeliveryReply
<1>. QED BY <1>1, SameRows DEF PersistOutboundDeliveryReply

LEMMA RecoveryKeepsInv ==
  ASSUME LedgerInv, MarkInterruptedOutboundDeliveriesUnknown
  PROVE  LedgerInv'
<1>1. LedgerTypeOK
  BY LedgerInvByDelivery
<1>2. ASSUME NEW d \in Deliveries
      PROVE  /\ DeliveryOK(status'[d], ops'[d], confirmedCount'[d], operationCount'[d])
             /\ confirmedCount'[d] \in 0 .. MaxOps
  <2>1. DeliveryOK(status[d], ops[d], confirmedCount[d], operationCount[d])
    BY LedgerInvByDelivery
  <2>2. CASE Interrupted(d)
    <3>1. ops[d] \in Rows
      BY <1>1 DEF LedgerTypeOK, Rows
    <3>2. DeliveryOK(InterruptedStatus(ops[d]), [o \in Ordinals |-> Sealed(ops[d][o])],
            Cardinality(WithStatus(ops[d], {"confirmed"})), operationCount[d])
      BY <2>1, <3>1, SealedOK
    <3>3. /\ status'[d] = InterruptedStatus(ops[d])
          /\ ops'[d] = [o \in Ordinals |-> Sealed(ops[d][o])]
          /\ confirmedCount'[d] = Cardinality(WithStatus(ops[d], {"confirmed"}))
          /\ operationCount'[d] = operationCount[d]
      BY <2>2 DEF MarkInterruptedOutboundDeliveriesUnknown
    <3>. QED BY <3>2, <3>3, CountsInRange, Zenon
  <2>3. CASE ~Interrupted(d)
    <3>1. /\ status'[d] = status[d] /\ ops'[d] = ops[d]
          /\ confirmedCount'[d] = confirmedCount[d]
          /\ operationCount'[d] = operationCount[d]
      BY <2>3 DEF MarkInterruptedOutboundDeliveriesUnknown
    <3>. QED BY <2>1, <3>1, CountsInRange, Zenon
  <2>. QED BY <2>2, <2>3
<1>3. LedgerTypeOK'
  <2>1. status' \in [Deliveries -> DeliveryStatus]
    BY <1>1 DEF MarkInterruptedOutboundDeliveriesUnknown, LedgerTypeOK,
       InterruptedStatus, Partial, DeliveryStatus
  <2>2. ops' \in [Deliveries -> [Ordinals -> OperationStatus]]
    BY <1>1 DEF MarkInterruptedOutboundDeliveriesUnknown, LedgerTypeOK, Sealed,
       OperationStatus
  <2>3. errorClass' \in [Deliveries -> [Ordinals -> ErrorClass]]
    BY <1>1 DEF MarkInterruptedOutboundDeliveriesUnknown, LedgerTypeOK, ErrorClass
  <2>4. confirmedCount' \in [Deliveries -> 0 .. MaxOps]
    BY <1>2 DEF MarkInterruptedOutboundDeliveriesUnknown
  <2>. QED BY <1>1, <2>1, <2>2, <2>3, <2>4
       DEF MarkInterruptedOutboundDeliveriesUnknown, LedgerTypeOK
<1>. QED BY <1>2, <1>3, LedgerInvNext

LEMMA LedgerStepKeepsInv ==
  ASSUME LedgerInv, [LedgerNext]_ledgerVars
  PROVE  LedgerInv'
<1>1. CASE UNCHANGED ledgerVars
  <2>1. linked' \in [Deliveries -> BOOLEAN]
    BY <1>1 DEF ledgerVars, LedgerInv, LedgerTypeOK
  <2>. QED BY <1>1, <2>1, SameRows DEF ledgerVars
<1>2. ASSUME NEW d \in Deliveries, NEW n \in 1 .. MaxOps, CreateOutboundDelivery(d, n)
      PROVE  LedgerInv'
  BY <1>2, CreateKeepsInv
<1>3. ASSUME NEW d \in Deliveries, NEW o \in Ordinals,
             MarkOutboundDeliveryOperationSending(d, o)
      PROVE  LedgerInv'
  BY <1>3, MarkKeepsInv
<1>4. ASSUME NEW d \in Deliveries, NEW o \in Ordinals, NEW s \in OperationStatus,
             NEW c \in ErrorClass, CompleteOutboundDeliveryOperation(d, o, s, c)
      PROVE  LedgerInv'
  BY <1>4, CompleteKeepsInv
<1>5. ASSUME NEW d \in Deliveries, NEW o \in Ordinals,
             NEW m \in 1 .. MaxOps, NEW k \in 1 .. MaxOps,
             ActivateOutboundDeliveryFallback(d, o, m, k)
      PROVE  LedgerInv'
  BY <1>5, ActivateKeepsInv
<1>6. CASE MarkInterruptedOutboundDeliveriesUnknown
  BY <1>6, RecoveryKeepsInv
<1>7. ASSUME NEW d \in Deliveries, PersistOutboundDeliveryReply(d)
      PROVE  LedgerInv'
  BY <1>7, PersistKeepsInv
<1>. QED BY <1>1, <1>2, <1>3, <1>4, <1>5, <1>6, <1>7 DEF LedgerNext

-----------------------------------------------------------------------------
(* The results.                                                            *)

LEMMA LedgerInvariant == LedgerSpec => []LedgerInv
<1>1. LedgerInit => LedgerInv
  BY InitLedgerInv
<1>2. LedgerInv /\ [LedgerNext]_ledgerVars => LedgerInv'
  BY LedgerStepKeepsInv
<1>. QED BY <1>1, <1>2, PTL DEF LedgerSpec

(* Whoever calls the ledger in whatever order, every column keeps to its    *)
(* domain; in particular the counters never exceed the rows.               *)
THEOREM LedgerTypeCorrect == LedgerSpec => []LedgerTypeOK
<1>1. LedgerInv => LedgerTypeOK
  BY DEF LedgerInv
<1>. QED BY <1>1, LedgerInvariant, PTL

(* Whoever calls the ledger in whatever order, the summary row of a         *)
(* delivery (status and counters, delivery.go:288-325) agrees with its      *)
(* operations.                                                             *)
THEOREM SummaryCorrect == LedgerSpec => []SummaryAgrees
<1>1. LedgerInv => SummaryAgrees
  BY DEF LedgerInv
<1>. QED BY <1>1, LedgerInvariant, PTL

(* No reply switches its representation twice (delivery.go:391-399).       *)
THEOREM AtMostOneFallback == LedgerSpec => []OneFallbackBranch
<1>1. LedgerInv => OneFallbackBranch
  BY DEF LedgerInv
<1>. QED BY <1>1, LedgerInvariant, PTL

(* No call rewrites what is known of an operation: the guards of Mark,      *)
(* Complete, Activate and recovery together allow only the edges of         *)
(* Follows.                                                                *)
THEOREM LifecycleRespected == LedgerSpec => OperationLifecycle
<1> DEFINE Edge == \A d \in Deliveries, o \in Ordinals :
              ops'[d][o] # ops[d][o] => ops'[d][o] \in Follows[ops[d][o]]
<1>1. ASSUME LedgerInv, [LedgerNext]_ledgerVars
      PROVE  [Edge]_ledgerVars
  <2>. SUFFICES ASSUME LedgerNext, NEW e \in Deliveries, NEW i \in Ordinals,
                       ops'[e][i] # ops[e][i]
                PROVE  ops'[e][i] \in Follows[ops[e][i]]
    BY <1>1
  <2>1. ops \in [Deliveries -> [Ordinals -> OperationStatus]]
    BY <1>1 DEF LedgerInv, LedgerTypeOK
  <2>2. ASSUME NEW d \in Deliveries, NEW n \in 1 .. MaxOps, CreateOutboundDelivery(d, n)
        PROVE  ops'[e][i] \in Follows[ops[e][i]]
    <3>1. e = d /\ ops[e][i] = "absent" /\ ops'[e][i] \in {"planned", "absent"}
      BY <1>1, <2>1, <2>2 DEF CreateOutboundDelivery, CanCreate, LedgerInv, AbsentIsEmpty
    <3>. QED BY <3>1 DEF Follows
  <2>3. ASSUME NEW d \in Deliveries, NEW o \in Ordinals,
               MarkOutboundDeliveryOperationSending(d, o)
        PROVE  ops'[e][i] \in Follows[ops[e][i]]
    BY <2>1, <2>3 DEF MarkOutboundDeliveryOperationSending, CanMark, Follows
  <2>4. ASSUME NEW d \in Deliveries, NEW o \in Ordinals, NEW s \in OperationStatus,
               NEW c \in ErrorClass, CompleteOutboundDeliveryOperation(d, o, s, c)
        PROVE  ops'[e][i] \in Follows[ops[e][i]]
    BY <2>1, <2>4 DEF CompleteOutboundDeliveryOperation, CanComplete, RowsAfter, Follows
  <2>5. ASSUME NEW d \in Deliveries, NEW o \in Ordinals,
               NEW m \in 1 .. MaxOps, NEW k \in 1 .. MaxOps,
               ActivateOutboundDeliveryFallback(d, o, m, k)
        PROVE  ops'[e][i] \in Follows[ops[e][i]]
    <3>1. /\ \A j \in Ordinals : j >= m => ops[d][j] = "absent"
          /\ ops[d][o] = "rejected" /\ e = d
      BY <2>1, <2>5 DEF ActivateOutboundDeliveryFallback, CanActivate, AppendsAt
    <3>2. ops'[d][i] = IF i \in m .. m + k - 1 THEN "planned"
                       ELSE IF i = o THEN "format_rejected"
                       ELSE RowsAfter(ops[d], o, "rejected")[i]
      BY <2>1, <2>5 DEF ActivateOutboundDeliveryFallback
    <3>3. RowsAfter(ops[d], o, "rejected")[i] \in {ops[d][i], "skipped", "rejected"}
      BY DEF RowsAfter
    <3>. QED BY <3>1, <3>2, <3>3, MaxOpsAssumption DEF RowsAfter, Follows, Ordinals
  <2>6. CASE MarkInterruptedOutboundDeliveriesUnknown
    BY <2>1, <2>6 DEF MarkInterruptedOutboundDeliveriesUnknown, Sealed, Follows
  <2>7. ASSUME NEW d \in Deliveries, PersistOutboundDeliveryReply(d)
        PROVE  ops'[e][i] \in Follows[ops[e][i]]
    BY <2>7 DEF PersistOutboundDeliveryReply
  <2>. QED BY <2>2, <2>3, <2>4, <2>5, <2>6, <2>7 DEF LedgerNext
<1>. QED BY <1>1, LedgerInvariant, PTL DEF LedgerSpec, OperationLifecycle
=============================================================================
