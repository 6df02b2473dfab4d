--------------------------- MODULE DeliveryLedger ---------------------------
(***************************************************************************)
(* The durable ledger of outbound deliveries (internal/storage/delivery.go, *)
(* tables outbound_deliveries and outbound_delivery_ops).                   *)
(*                                                                         *)
(* A delivery is one logical reply.  It owns operations with ordinals       *)
(* 0, 1, ...; each operation is exactly one persistent transport call.  The *)
(* ledger holds no content: it only records which call was about to be made *)
(* and what the transport said about it.  Every operator below is one       *)
(* database transaction, hence one atomic step; Can... is the part of the   *)
(* transaction that may refuse, the operator of the same name its effect.   *)
(*                                                                         *)
(* This module lets ANY caller issue ANY call in ANY order, so what is      *)
(* shown here the tables guarantee by themselves.  What needs a disciplined *)
(* caller is shown of ReplyDelivery, which extends this module.             *)
(***************************************************************************)
EXTENDS Naturals, FiniteSets

CONSTANTS
  Deliveries,   (* Ids of outbound deliveries.                             *)
  MaxOps        (* Rows one delivery may own: the plan plus its fallback.  *)

ASSUME MaxOpsAssumption == MaxOps \in Nat \ {0}

Ordinals == 0 .. MaxOps - 1

(* "absent" stands for a row that does not exist.                          *)
OperationStatus ==
  {"absent", "planned", "sending", "confirmed", "rejected",
   "format_rejected", "skipped", "unknown"}

DeliveryStatus ==
  {"absent", "planned", "sending", "confirmed", "rejected",
   "partial_rejected", "unknown", "partial_unknown"}

(* Only "format" is told apart by a guard, and "interrupted" by recovery;   *)
(* "failed" is any of rate_limit, network, server, invalid_response and     *)
(* internal.                                                               *)
ErrorClass == {"none", "format", "failed", "interrupted"}

VARIABLES
  status,          (* outbound_deliveries.status                           *)
  ops,             (* outbound_delivery_ops.status, per ordinal            *)
  errorClass,      (* outbound_delivery_ops.error_class, per ordinal       *)
  confirmedCount,  (* outbound_deliveries.confirmed_count                  *)
  operationCount,  (* outbound_deliveries.operation_count                  *)
  linked           (* outbound_deliveries.history_id is set                *)

ledgerVars ==
  <<status, ops, errorClass, confirmedCount, operationCount, linked>>

Active == {"planned", "sending"}
HardFailure == {"rejected", "unknown"}
NonTerminal == {"planned", "sending"}
Terminal == DeliveryStatus \ (NonTerminal \cup {"absent"})

WithStatus(row, S) == {o \in Ordinals : row[o] \in S}

-----------------------------------------------------------------------------
(* The transactions.                                                       *)

LedgerInit ==
  /\ status = [d \in Deliveries |-> "absent"]
  /\ ops = [d \in Deliveries |-> [o \in Ordinals |-> "absent"]]
  /\ errorClass = [d \in Deliveries |-> [o \in Ordinals |-> "none"]]
  /\ confirmedCount = [d \in Deliveries |-> 0]
  /\ operationCount = [d \in Deliveries |-> 0]
  /\ linked = [d \in Deliveries |-> FALSE]

(* n contiguous operations, all planned.                                   *)
CanCreate(d, n) == status[d] = "absent" /\ n \in 1 .. MaxOps

CreateOutboundDelivery(d, n) ==
  /\ CanCreate(d, n)
  /\ status' = [status EXCEPT ![d] = "planned"]
  /\ ops' = [ops EXCEPT ![d] =
       [o \in Ordinals |-> IF o < n THEN "planned" ELSE "absent"]]
  /\ operationCount' = [operationCount EXCEPT ![d] = n]
  /\ UNCHANGED <<errorClass, confirmedCount, linked>>

CanMark(d, o) ==
  /\ status[d] \in NonTerminal
  /\ ops[d][o] = "planned"

MarkOutboundDeliveryOperationSending(d, o) ==
  /\ CanMark(d, o)
  /\ status' = [status EXCEPT ![d] = "sending"]
  /\ ops' = [ops EXCEPT ![d][o] = "sending"]
  /\ UNCHANGED <<errorClass, confirmedCount, operationCount, linked>>

(* Mutant: the unsent operations behind a failed one stay planned.         *)
RowsKeepSuffix(row, o, s) == [row EXCEPT ![o] = s]

(* The rows after operation o ended as s: a result other than confirmed    *)
(* also seals the planned operations behind it.                            *)
RowsAfter(row, o, s) ==
  [i \in Ordinals |->
     IF i = o THEN s
     ELSE IF s # "confirmed" /\ i > o /\ row[i] = "planned" THEN "skipped"
     ELSE row[i]]

(* Mutant: a failure hides what was confirmed before it.                   *)
PartialIgnoresConfirmed(row, whole, part) == whole

Partial(row, whole, part) ==
  IF WithStatus(row, {"confirmed"}) # {} THEN part ELSE whole

(* Mutant: a delivery counts as confirmed although an operation failed.    *)
AggregateIgnoresFailures(row, s) ==
  CASE s = "confirmed" ->
         IF WithStatus(row, Active) = {} THEN "confirmed" ELSE "sending"
    [] s = "rejected" -> Partial(row, "rejected", "partial_rejected")
    [] s = "unknown"  -> Partial(row, "unknown", "partial_unknown")

AggregateStatus(row, s) ==
  CASE s = "confirmed" ->
         IF WithStatus(row, Active \cup HardFailure) = {}
         THEN "confirmed" ELSE "sending"
    [] s = "rejected" -> Partial(row, "rejected", "partial_rejected")
    [] s = "unknown"  -> Partial(row, "unknown", "partial_unknown")

(* Mutant: a result is accepted for an operation that is not in flight.    *)
CanCompleteAnyRow(d, o, s, c) ==
  /\ s \in {"confirmed", "rejected", "unknown"}
  /\ (s = "confirmed") <=> (c = "none")
  /\ ops[d][o] \in {"sending", "rejected"}

CanComplete(d, o, s, c) ==
  /\ s \in {"confirmed", "rejected", "unknown"}
  /\ (s = "confirmed") <=> (c = "none")
  /\ ops[d][o] = "sending"

CompleteOutboundDeliveryOperation(d, o, s, c) ==
  /\ CanComplete(d, o, s, c)
  /\ LET row == RowsAfter(ops[d], o, s) IN
       /\ ops' = [ops EXCEPT ![d] = row]
       /\ errorClass' = [errorClass EXCEPT ![d][o] = c]
       /\ status' = [status EXCEPT ![d] = AggregateStatus(row, s)]
       /\ confirmedCount' = [confirmedCount EXCEPT
            ![d] = Cardinality(WithStatus(row, {"confirmed"}))]
  /\ UNCHANGED <<operationCount, linked>>

(* Row m is the first one behind the last existing row.                    *)
AppendsAt(row, m) ==
  /\ m > 0 /\ row[m - 1] # "absent"
  /\ \A o \in Ordinals : o >= m => row[o] = "absent"

(* Mutant: a second branch may follow a first one.                         *)
CanActivateAgain(d, o, m, k) ==
  /\ ops[d][o] = "rejected" /\ errorClass[d][o] = "format"
  /\ status[d] \in {"rejected", "partial_rejected"}
  /\ WithStatus(ops[d], {"sending"}) = {}
  /\ \A i \in Ordinals : i < o => ops[d][i] # "planned"
  /\ AppendsAt(ops[d], m)
  /\ k > 0 /\ m + k <= MaxOps

(* The one switch of representation: a confirmed format rejection of o,     *)
(* with nothing in flight and nothing left unsent before o, continued by k  *)
(* fresh operations from ordinal m.                                        *)
CanActivate(d, o, m, k) ==
  /\ ops[d][o] = "rejected" /\ errorClass[d][o] = "format"
  /\ status[d] \in {"rejected", "partial_rejected"}
  /\ WithStatus(ops[d], {"sending", "format_rejected"}) = {}
  /\ \A i \in Ordinals : i < o => ops[d][i] # "planned"
  /\ AppendsAt(ops[d], m)
  /\ k > 0 /\ m + k <= MaxOps

ActivateOutboundDeliveryFallback(d, o, m, k) ==
  /\ CanActivate(d, o, m, k)
  /\ status' = [status EXCEPT ![d] = "sending"]
  /\ ops' = [ops EXCEPT ![d] =
       [i \in Ordinals |->
          IF i \in m .. m + k - 1 THEN "planned"
          ELSE IF i = o THEN "format_rejected"
          ELSE RowsAfter(ops[d], o, "rejected")[i]]]
  /\ operationCount' = [operationCount EXCEPT ![d] = @ + k]
  /\ UNCHANGED <<errorClass, confirmedCount, linked>>

(* Startup recovery.  An operation caught in flight becomes unknown: nobody *)
(* knows whether the transport posted it; an unsent one becomes skipped.    *)
InterruptedStatus(row) ==
  IF WithStatus(row, {"sending"}) # {}
  THEN Partial(row, "unknown", "partial_unknown")
  ELSE Partial(row, "rejected", "partial_rejected")

(* Mutant: an operation in flight is taken for one that never started.     *)
SealedAsUnsent(s) == IF s \in Active THEN "skipped" ELSE s

Sealed(s) ==
  CASE s = "sending" -> "unknown"
    [] s = "planned" -> "skipped"
    [] OTHER -> s

(* Mutant: a delivery whose first operation was not marked is overlooked.  *)
InterruptedWhileSending(d) == status[d] = "sending"

Interrupted(d) == status[d] \in NonTerminal

MarkInterruptedOutboundDeliveriesUnknown ==
  /\ status' = [d \in Deliveries |->
       IF Interrupted(d) THEN InterruptedStatus(ops[d]) ELSE status[d]]
  /\ ops' = [d \in Deliveries |->
       IF Interrupted(d) THEN [o \in Ordinals |-> Sealed(ops[d][o])] ELSE ops[d]]
  /\ errorClass' = [d \in Deliveries |-> [o \in Ordinals |->
       IF Interrupted(d) /\ ops[d][o] = "sending" THEN "interrupted"
       ELSE errorClass[d][o]]]
  /\ confirmedCount' = [d \in Deliveries |->
       IF Interrupted(d) THEN Cardinality(WithStatus(ops[d], {"confirmed"}))
       ELSE confirmedCount[d]]
  /\ UNCHANGED <<operationCount, linked>>

(* The history row of the reply, inserted and linked in one transaction.   *)
CanPersist(d) ==
  /\ status[d] \in {"confirmed", "partial_rejected", "partial_unknown"}
  /\ ~linked[d]
  /\ WithStatus(ops[d], {"confirmed"}) # {}

PersistOutboundDeliveryReply(d) ==
  /\ CanPersist(d)
  /\ linked' = [linked EXCEPT ![d] = TRUE]
  /\ UNCHANGED <<status, ops, errorClass, confirmedCount, operationCount>>

LedgerNext ==
  \/ \E d \in Deliveries, n \in 1 .. MaxOps : CreateOutboundDelivery(d, n)
  \/ \E d \in Deliveries, o \in Ordinals :
       \/ MarkOutboundDeliveryOperationSending(d, o)
       \/ \E s \in OperationStatus, c \in ErrorClass :
            CompleteOutboundDeliveryOperation(d, o, s, c)
       \/ \E m, k \in 1 .. MaxOps : ActivateOutboundDeliveryFallback(d, o, m, k)
  \/ MarkInterruptedOutboundDeliveriesUnknown
  \/ \E d \in Deliveries : PersistOutboundDeliveryReply(d)

LedgerSpec == LedgerInit /\ [][LedgerNext]_ledgerVars

-----------------------------------------------------------------------------
(* What the tables guarantee whatever the callers do.                      *)

(* Every column keeps to its domain.                                       *)
LedgerTypeOK ==
  /\ status \in [Deliveries -> DeliveryStatus]
  /\ ops \in [Deliveries -> [Ordinals -> OperationStatus]]
  /\ errorClass \in [Deliveries -> [Ordinals -> ErrorClass]]
  /\ confirmedCount \in [Deliveries -> 0 .. MaxOps]
  /\ operationCount \in [Deliveries -> 0 .. MaxOps]
  /\ linked \in [Deliveries -> BOOLEAN]

(* The summary row agrees with the operations it summarises, although       *)
(* Complete recomputes it, Activate adds to it and recovery rewrites it: a  *)
(* confirmed delivery has nothing open or failed, a whole failure confirmed *)
(* nothing, a partial one confirmed something, an unknown one owns an       *)
(* unknown operation, and the two counters count.                          *)
SummaryAgrees ==
  \A d \in Deliveries :
    LET confirmed == WithStatus(ops[d], {"confirmed"}) IN
      /\ status[d] = "confirmed" =>
           WithStatus(ops[d], Active \cup HardFailure) = {}
      /\ status[d] \in {"rejected", "unknown"} => confirmed = {}
      /\ status[d] \in {"confirmed", "partial_rejected", "partial_unknown"} =>
           confirmed # {}
      /\ status[d] \in {"unknown", "partial_unknown"} =>
           WithStatus(ops[d], {"unknown"}) # {}
      /\ confirmedCount[d] = Cardinality(confirmed)
      /\ operationCount[d] = Cardinality(Ordinals \ WithStatus(ops[d], {"absent"}))

(* A reply changes its representation at most once: "nested or repeated     *)
(* fallback is not allowed", delivery.go:398.                              *)
OneFallbackBranch ==
  \A d \in Deliveries :
    \A i, j \in WithStatus(ops[d], {"format_rejected"}) : i = j

(* What the transport said about an operation is never rewritten: only a    *)
(* format rejection may still become the audit record of a fallback.       *)
Follows ==
  [absent |-> {"planned"}, planned |-> {"sending", "skipped"},
   sending |-> {"confirmed", "rejected", "unknown"},
   rejected |-> {"format_rejected"}, format_rejected |-> {},
   confirmed |-> {}, skipped |-> {}, unknown |-> {}]

OperationLifecycle ==
  [][\A d \in Deliveries, o \in Ordinals :
       ops'[d][o] # ops[d][o] => ops'[d][o] \in Follows[ops[d][o]]]_ledgerVars
=============================================================================
