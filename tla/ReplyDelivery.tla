--------------------------- MODULE ReplyDelivery ---------------------------
(***************************************************************************)
(* One bot process delivering replies through the ledger                   *)
(* (internal/bot/delivery_plan.go executeDeliveryPlan and its callers,      *)
(* cmd/bot/main.go for the restart).                                       *)
(*                                                                         *)
(* The executor and the transport are two programs, the ledger a third: a   *)
(* request may reach the chat while its answer is lost, a commit may be     *)
(* applied while the client sees an error, and the process may stop between *)
(* any two calls.  Every such window is a state of this module.             *)
(*                                                                         *)
(* A reply is a plan of n operations; operation i posts part i.  A rich     *)
(* operation carries a fallback, prepared before the first request, of one  *)
(* plain operation for each of the parts i .. n - 1; the ledger files those *)
(* behind the plan, at rows n, n + 1, ...                                  *)
(***************************************************************************)
EXTENDS DeliveryLedger, Sequences

CONSTANTS
  MaxParts,    (* Longest plan.                                            *)
  MaxFaults,   (* Failing database calls in a behaviour (bound).           *)
  MaxCrashes   (* Process stops in a behaviour (bound).                    *)

ASSUME PartsAssumption == MaxParts \in Nat \ {0} /\ MaxOps >= 2 * MaxParts
ASSUME BoundsAssumption == MaxFaults \in Nat /\ MaxCrashes \in Nat

Parts == 0 .. MaxParts - 1
NoFallback == MaxParts      (* No part: the primary plan is running.       *)

PC == {"idle", "mark", "send", "wait", "record", "activate", "persist",
       "done", "gone"}
Outcome == {"none", "confirmed", "rejected", "partial_rejected", "unknown",
            "partial_unknown"}

(* What a transport call returns: message ids; message ids and an error;    *)
(* unusable ids; a format rejection; another 4xx rejection; no answer that  *)
(* tells whether the message was posted (network, timeout, 5xx).           *)
Answer == {"none", "ids", "ids_err", "bad_ids", "format", "reject", "lost"}

VARIABLES
  plan,        (* [n, rich]: the preflighted plan of the reply             *)
  pc,          (* what the executor does next                              *)
  cur,         (* the part it is at                                        *)
  from,        (* the part the ledger's fallback branch begins with, or    *)
               (* NoFallback                                               *)
  confirmed,   (* len(result.confirmedIDs)                                 *)
  attempted,   (* result.attempts > 0                                      *)
  answer,      (* what the last transport call returned                    *)
  outcome,     (* result.outcome                                           *)
  notice,      (* the generic error message was sent to the user           *)
  up,          (* the process is running                                   *)
  recovered    (* this run's startup recovery committed                    *)

VARIABLES
  flight,      (* the transport's side of the last request: "none", "air"  *)
               (* (may still be posted), "landed"                          *)
  chat,        (* parts the user sees, in order of appearance              *)
  told         (* parts whose message ids reached the process              *)

VARIABLES faults, crashes     (* spent parts of the bounds                 *)

executorVars == <<cur, from, confirmed, attempted, answer, outcome>>
chatVars == <<flight, chat, told>>
vars == <<ledgerVars, executorVars, chatVars, plan, pc, notice, up, recovered,
          faults, crashes>>

-----------------------------------------------------------------------------
(* The ledger as the executor meets it.                                    *)

(* Mutant: a fallback operation is filed under its own index.              *)
RowIgnoresBranch(d, f, p) == IF f = NoFallback THEN p ELSE p - f

(* The ledger row of part p once the branch from part f is running.        *)
RowOf(d, f, p) == IF f = NoFallback THEN p ELSE plan[d].n + (p - f)
Row(d) == RowOf(d, from[d], cur[d])

(* The row that is answerable for part p of the reply.                     *)
Covering(d, p) == IF p < from[d] THEN p ELSE plan[d].n + (p - from[d])

(* A call returns "ok", or fails and leaves the tables alone, or commits    *)
(* and loses the acknowledgement.  A refused call fails.                   *)
Reply(r, can) ==
  /\ r \in {"ok", "failed", "applied"}
  /\ ~can => r = "failed"
  /\ IF r = "ok" \/ ~can THEN UNCHANGED faults
     ELSE faults < MaxFaults /\ faults' = faults + 1

Call(r, can, effect) ==
  /\ Reply(r, can)
  /\ IF r = "failed" THEN UNCHANGED ledgerVars ELSE effect

(* Mutant: a local stop forgets the confirmed prefix.                      *)
LocalStopForgets(d) == "rejected"

LocalStop(d) == IF confirmed[d] > 0 THEN "partial_rejected" ELSE "rejected"

Stop(d, o) ==
  /\ pc' = [pc EXCEPT ![d] = "done"]
  /\ outcome' = [outcome EXCEPT ![d] = o]

Goto(d, label) == pc' = [pc EXCEPT ![d] = label] /\ UNCHANGED outcome

(* A whole rejection before any request is the one outcome the user is told *)
(* of by a separate error message.                                         *)
StopBeforeSending(d, o) ==
  /\ Stop(d, o)
  /\ notice' = [notice EXCEPT ![d] = o = "rejected" /\ ~attempted[d]]

-----------------------------------------------------------------------------
Init ==
  /\ LedgerInit
  /\ plan \in [Deliveries -> {p \in [n : 1 .. MaxParts, rich : SUBSET Parts] :
                               \A i \in p.rich : i < p.n}]
  /\ pc = [d \in Deliveries |-> "idle"]
  /\ cur = [d \in Deliveries |-> 0]
  /\ from = [d \in Deliveries |-> NoFallback]
  /\ confirmed = [d \in Deliveries |-> 0]
  /\ attempted = [d \in Deliveries |-> FALSE]
  /\ answer = [d \in Deliveries |-> "none"]
  /\ outcome = [d \in Deliveries |-> "none"]
  /\ notice = [d \in Deliveries |-> FALSE]
  /\ flight = [d \in Deliveries |-> "none"]
  /\ chat = [d \in Deliveries |-> <<>>]
  /\ told = [d \in Deliveries |-> {}]
  /\ up = TRUE /\ recovered = TRUE
  /\ faults = 0 /\ crashes = 0

(* Local preflight refuses the reply: no ledger row, no request.           *)
Preflight(d) ==
  /\ up /\ pc[d] = "idle"
  /\ StopBeforeSending(d, "rejected")
  /\ UNCHANGED <<ledgerVars, chatVars, plan, cur, from, confirmed, attempted,
                 answer, up, recovered, faults, crashes>>

Create(d, r) ==
  /\ up /\ pc[d] = "idle"
  /\ Call(r, CanCreate(d, plan[d].n), CreateOutboundDelivery(d, plan[d].n))
  /\ IF r = "ok" THEN Goto(d, "mark") /\ UNCHANGED notice
     ELSE StopBeforeSending(d, "rejected")
  /\ UNCHANGED <<chatVars, plan, cur, from, confirmed, attempted, answer, up,
                 recovered, crashes>>

Mark(d, r) ==
  /\ pc[d] = "mark"
  /\ Call(r, CanMark(d, Row(d)), MarkOutboundDeliveryOperationSending(d, Row(d)))
  /\ IF r = "ok" THEN Goto(d, "send") /\ UNCHANGED notice
     ELSE StopBeforeSending(d, LocalStop(d))
  /\ UNCHANGED <<chatVars, plan, cur, from, confirmed, attempted, answer, up,
                 recovered, crashes>>

(* Exactly one transport request.                                          *)
Send(d) ==
  /\ pc[d] = "send"
  /\ flight' = [flight EXCEPT ![d] = "air"]
  /\ attempted' = [attempted EXCEPT ![d] = TRUE]
  /\ Goto(d, "wait")
  /\ UNCHANGED <<ledgerVars, plan, cur, from, confirmed, answer, notice, chat,
                 told, up, recovered, faults, crashes>>

(* The transport posts the message, at any time after the request, even     *)
(* after the process gave up on the answer or stopped.                     *)
Land(d) ==
  /\ flight[d] = "air"
  /\ flight' = [flight EXCEPT ![d] = "landed"]
  /\ chat' = [chat EXCEPT ![d] = Append(@, cur[d])]
  /\ UNCHANGED <<ledgerVars, executorVars, plan, pc, notice, told, up, recovered,
                 faults, crashes>>

(* Mutant: any failure of a rich request is read as a format rejection.    *)
CanAnswerFormatOnAnyFailure(d, a) ==
  CASE a \in {"ids", "ids_err", "bad_ids"} -> flight[d] = "landed"
    [] a = "format" -> from[d] = NoFallback /\ cur[d] \in plan[d].rich
    [] a = "reject" -> flight[d] = "air"
    [] a = "lost" -> TRUE
    [] OTHER -> FALSE

(* Ids are returned only for a posted message, a rejection only for one     *)
(* that is not posted; a lost answer tells nothing.                        *)
CanAnswer(d, a) ==
  CASE a \in {"ids", "ids_err", "bad_ids"} -> flight[d] = "landed"
    [] a = "format" ->
         flight[d] = "air" /\ from[d] = NoFallback /\ cur[d] \in plan[d].rich
    [] a = "reject" -> flight[d] = "air"
    [] a = "lost" -> TRUE
    [] OTHER -> FALSE

Receive(d, a) ==
  /\ pc[d] = "wait"
  /\ CanAnswer(d, a)
  /\ answer' = [answer EXCEPT ![d] = a]
  /\ flight' = [flight EXCEPT ![d] = IF a \in {"format", "reject"} THEN "none" ELSE @]
  /\ told' = [told EXCEPT ![d] =
       IF a \in {"ids", "ids_err"} THEN @ \cup {cur[d]} ELSE @]
  /\ Goto(d, "record")
  /\ UNCHANGED <<ledgerVars, plan, cur, from, confirmed, attempted, notice, chat,
                 up, recovered, faults, crashes>>

(* The operation is confirmed; the last one confirms the reply.  Without    *)
(* the record of it the executor does not go on.                           *)
UnrecordedOutcome(d) ==
  IF answer[d] = "ids" /\ from[d] = NoFallback /\ confirmed[d] = 0
  THEN "unknown" ELSE "partial_unknown"

(* Mutant: the loop runs one part too far.                                 *)
PastLastPart(d) == cur[d] = plan[d].n

AtLastPart(d) == cur[d] = plan[d].n - 1

RecordConfirmed(d, r) ==
  /\ pc[d] = "record" /\ answer[d] \in {"ids", "ids_err"}
  /\ Call(r, CanComplete(d, Row(d), "confirmed", "none"),
          CompleteOutboundDeliveryOperation(d, Row(d), "confirmed", "none"))
  /\ confirmed' = [confirmed EXCEPT ![d] = @ + 1]
  /\ CASE r # "ok" ->
            Stop(d, UnrecordedOutcome(d)) /\ UNCHANGED cur
       [] r = "ok" /\ ~AtLastPart(d) ->
            Goto(d, "mark") /\ cur' = [cur EXCEPT ![d] = @ + 1]
       [] r = "ok" /\ AtLastPart(d) ->
            /\ pc' = [pc EXCEPT ![d] = "persist"]
            /\ outcome' = [outcome EXCEPT ![d] = "confirmed"]
            /\ UNCHANGED cur
  /\ UNCHANGED <<chatVars, plan, from, attempted, answer, notice, up, recovered,
                 crashes>>

OutcomeAfterFailure(d, s) ==
  IF confirmed[d] = 0 THEN s
  ELSE [rejected |-> "partial_rejected", unknown |-> "partial_unknown"][s]

(* Any other end of the operation ends the reply, recorded or not.         *)
RecordFailed(d, r) ==
  /\ pc[d] = "record" /\ answer[d] \in {"bad_ids", "lost", "reject"}
  /\ LET s == IF answer[d] = "reject" THEN "rejected" ELSE "unknown" IN
       /\ Call(r, CanComplete(d, Row(d), s, "failed"),
               CompleteOutboundDeliveryOperation(d, Row(d), s, "failed"))
       /\ Stop(d, OutcomeAfterFailure(d, s))
  /\ UNCHANGED <<chatVars, plan, cur, from, confirmed, attempted, answer, notice,
                 up, recovered, crashes>>

(* A format rejection of a rich operation: nothing was posted, so its part  *)
(* and the rest may be sent in the other representation.                   *)
RecordFormat(d, r) ==
  /\ pc[d] = "record" /\ answer[d] = "format"
  /\ Call(r, CanComplete(d, Row(d), "rejected", "format"),
          CompleteOutboundDeliveryOperation(d, Row(d), "rejected", "format"))
  /\ IF r = "ok" THEN Goto(d, "activate") ELSE Stop(d, LocalStop(d))
  /\ UNCHANGED <<chatVars, plan, cur, from, confirmed, attempted, answer, notice,
                 up, recovered, crashes>>

Activate(d, r) ==
  LET n == plan[d].n
      k == n - cur[d] IN
  /\ pc[d] = "activate"
  /\ Call(r, CanActivate(d, cur[d], n, k),
          ActivateOutboundDeliveryFallback(d, cur[d], n, k))
  /\ from' = [from EXCEPT ![d] = IF r = "failed" THEN @ ELSE cur[d]]
  /\ IF r = "ok" THEN Goto(d, "mark") ELSE Stop(d, LocalStop(d))
  /\ UNCHANGED <<chatVars, plan, cur, confirmed, attempted, answer, notice, up,
                 recovered, crashes>>

(* History is written after the whole reply was confirmed; a failure is     *)
(* only logged.                                                            *)
Persist(d, r) ==
  /\ pc[d] = "persist"
  /\ Call(r, CanPersist(d), PersistOutboundDeliveryReply(d))
  /\ Goto(d, "done")
  /\ UNCHANGED <<chatVars, plan, cur, from, confirmed, attempted, answer, notice,
                 up, recovered, crashes>>

(* The process stops: the executors and what they knew are gone.  cur and   *)
(* from stay, as the identity of a request that may still be in the air.    *)
Running == {d \in Deliveries : pc[d] \notin {"idle", "done", "gone"}}
Forget(f, v) == [d \in Deliveries |-> IF d \in Running THEN v ELSE f[d]]

Crash ==
  /\ up /\ crashes < MaxCrashes
  /\ crashes' = crashes + 1
  /\ up' = FALSE /\ recovered' = FALSE
  /\ pc' = Forget(pc, "gone")
  /\ confirmed' = Forget(confirmed, 0)
  /\ attempted' = Forget(attempted, FALSE)
  /\ answer' = Forget(answer, "none")
  /\ outcome' = Forget(outcome, "none")
  /\ UNCHANGED <<ledgerVars, chatVars, plan, cur, from, notice, faults>>

(* Recovery runs before anything else and its failure is not fatal.        *)
Boot(r) ==
  /\ ~up
  /\ Call(r, TRUE, MarkInterruptedOutboundDeliveriesUnknown)
  /\ up' = TRUE
  /\ recovered' = (r # "failed")
  /\ UNCHANGED <<executorVars, chatVars, plan, pc, notice, crashes>>

Execute(d, r) ==
  \/ Create(d, r)
  \/ Mark(d, r)
  \/ RecordConfirmed(d, r)
  \/ RecordFailed(d, r)
  \/ RecordFormat(d, r)
  \/ Activate(d, r)
  \/ Persist(d, r)

StoreReply == {"ok", "failed", "applied"}

Next ==
  \/ \E d \in Deliveries :
       \/ Preflight(d) \/ Send(d) \/ Land(d)
       \/ \E a \in Answer : Receive(d, a)
       \/ \E r \in StoreReply : Execute(d, r)
  \/ Crash
  \/ \E r \in StoreReply : Boot(r)

Spec == Init /\ [][Next]_vars

(* A running executor takes its next step, a request gets an answer or runs *)
(* into the timeout of its context, and the supervisor restarts the bot.    *)
Fairness ==
  /\ \A d \in Deliveries :
       /\ WF_vars(Send(d))
       /\ WF_vars(\E a \in Answer : Receive(d, a))
       /\ WF_vars(\E r \in StoreReply : Execute(d, r))
  /\ WF_vars(\E r \in StoreReply : Boot(r))

FairSpec == Spec /\ Fairness

-----------------------------------------------------------------------------
(* Properties.                                                             *)

TypeOK ==
  /\ LedgerTypeOK
  /\ plan \in [Deliveries -> [n : 1 .. MaxParts, rich : SUBSET Parts]]
  /\ pc \in [Deliveries -> PC]
  /\ cur \in [Deliveries -> Parts]
  /\ from \in [Deliveries -> Parts \cup {NoFallback}]
  /\ confirmed \in [Deliveries -> 0 .. MaxParts]
  /\ attempted \in [Deliveries -> BOOLEAN]
  /\ answer \in [Deliveries -> Answer]
  /\ outcome \in [Deliveries -> Outcome]
  /\ notice \in [Deliveries -> BOOLEAN]
  /\ flight \in [Deliveries -> {"none", "air", "landed"}]
  /\ chat \in [Deliveries -> Seq(Parts)]
  /\ told \in [Deliveries -> SUBSET Parts]
  /\ up \in BOOLEAN /\ recovered \in BOOLEAN
  /\ faults \in 0 .. MaxFaults /\ crashes \in 0 .. MaxCrashes

Seen(d) == {chat[d][i] : i \in DOMAIN chat[d]}

(* "An ambiguous failure never resends": whatever is lost, late, refused or *)
(* switched to the fallback, the user sees the parts in order, none twice   *)
(* and none skipped.                                                       *)
AtMostOnceInOrder ==
  \A d \in Deliveries : \A i \in DOMAIN chat[d] : chat[d][i] = i - 1

(* The ledger never denies what the user can see: the row answerable for a  *)
(* visible part is confirmed or admits not to know, and it never confirms   *)
(* what is not there.                                                      *)
LedgerNeverDenies ==
  \A d \in Deliveries :
    /\ \A p \in Seen(d) :
         ops[d][Covering(d, p)] \in {"confirmed", "sending", "unknown"}
    /\ \A p \in Parts :
         p < plan[d].n /\ ops[d][Covering(d, p)] = "confirmed" => p \in Seen(d)

(* "A terminal delivery can never retain planned operations that startup    *)
(* recovery would leave behind", delivery.go:267; nor a sending one.       *)
SealedTerminal ==
  \A d \in Deliveries :
    status[d] \in Terminal => WithStatus(ops[d], Active) = {}

(* The ledger never refuses a call of the executor: every stop of a         *)
(* delivery comes from the transport or from a database fault, none from    *)
(* two components disagreeing about the state of the delivery.              *)
NeverRefused ==
  \A d \in Deliveries :
    /\ pc[d] = "idle" => CanCreate(d, plan[d].n)
    /\ pc[d] = "mark" => CanMark(d, Row(d))
    /\ pc[d] = "record" => ops[d][Row(d)] = "sending"
    /\ pc[d] = "activate" => CanActivate(d, cur[d], plan[d].n, plan[d].n - cur[d])
    /\ pc[d] = "persist" => CanPersist(d)

(* What the executor tells its caller, and what the ledger's summary tells  *)
(* the operator, is true of the chat.                                      *)
ReportIsTrue(d, report) ==
  /\ report = "confirmed" => Len(chat[d]) = plan[d].n
  /\ report = "rejected" => chat[d] = <<>>
  /\ report = "partial_rejected" => Len(chat[d]) \in 1 .. plan[d].n - 1

HonestReports ==
  \A d \in Deliveries :
    /\ ReportIsTrue(d, outcome[d])
    /\ ReportIsTrue(d, status[d])
    /\ linked[d] => Len(chat[d]) = plan[d].n
    /\ notice[d] => flight[d] = "none" /\ chat[d] = <<>>

(* After a restart whose recovery committed, nothing of an earlier run is   *)
(* left open.                                                              *)
SealedAfterRestart ==
  \A d \in Deliveries :
    pc[d] = "gone" /\ up /\ recovered => status[d] \notin NonTerminal

(* "When the process stopped after Telegram confirmed delivery but before   *)
(* the atomic history transaction, the content-free ledger still proves     *)
(* this exact transport identity belongs to our reply", bot.go:525-528: a   *)
(* reaction to a message resolves when the row of its part is confirmed.   *)
ConfirmedPrefixResolves ==
  \A d \in Deliveries : up /\ pc[d] \in {"done", "gone"} =>
    \A p \in told[d] : ops[d][Covering(d, p)] = "confirmed"

(* A delivery that was filed is settled for good, whatever the transport    *)
(* answers and however often the process stops, provided the database       *)
(* answers: no reply stays "sending" for ever.                             *)
EveryDeliverySettles ==
  [](faults = 0) =>
    \A d \in Deliveries : status[d] # "absent" ~> [](status[d] \in Terminal)

(***************************************************************************)
(* In step: how the ledger's rows, the chat and the executor hang together  *)
(* at every moment, crashes and lost acknowledgements included.  The safety *)
(* properties above follow from it, and it is inductive.                   *)
(***************************************************************************)
Current(d) == ops[d][Row(d)]

(* The rows behind the current one wait, or were sealed with the delivery. *)
Behind(d) == IF status[d] \in NonTerminal THEN "planned" ELSE "skipped"

BranchInStep(d, first, last) ==
  \A o \in Ordinals : o \in first .. last =>
    /\ o < Row(d) => ops[d][o] = "confirmed"
    /\ o > Row(d) => ops[d][o] = Behind(d)

RowsInStep(d) ==
  LET n == plan[d].n
      f == from[d]
      end == IF f = NoFallback THEN n ELSE 2 * n - f IN
  /\ cur[d] < n
  /\ \A o \in Ordinals : o >= end => ops[d][o] = "absent"
  /\ f = NoFallback => BranchInStep(d, 0, n - 1)
  /\ f # NoFallback =>
       /\ f <= cur[d]
       /\ BranchInStep(d, n, end - 1)
       /\ ops[d][f] = "format_rejected"
       /\ \A o \in Ordinals :
            /\ o < f => ops[d][o] = "confirmed"
            /\ o > f /\ o < n => ops[d][o] = "skipped"

StatusInStep(d) ==
  LET c == Current(d) IN
  /\ c = "planned" => status[d] \in NonTerminal
  /\ c = "sending" => status[d] = "sending"
  /\ c \in {"rejected", "skipped"} => status[d] \in {"rejected", "partial_rejected"}
  /\ c = "unknown" => status[d] \in {"unknown", "partial_unknown"}
  /\ c = "confirmed" /\ AtLastPart(d) => status[d] = "confirmed"
  /\ c = "confirmed" /\ ~AtLastPart(d) => status[d] \in {"sending", "partial_rejected"}
  /\ c \in OperationStatus \ {"absent", "format_rejected"}

ChatInStep(d) ==
  /\ \A i \in DOMAIN chat[d] : chat[d][i] = i - 1
  /\ \/ Len(chat[d]) = cur[d] /\ flight[d] # "air" /\ Current(d) # "confirmed"
     \/ Len(chat[d]) = cur[d] /\ flight[d] = "air"
          /\ Current(d) \in {"sending", "unknown"}
     \/ Len(chat[d]) = cur[d] + 1 /\ flight[d] = "landed"
          /\ Current(d) \in {"sending", "unknown", "confirmed"}

Attempting == {"mark", "send", "wait", "record", "activate"}

ExecutorInStep(d) ==
  /\ pc[d] \in Attempting => confirmed[d] = cur[d] /\ ~linked[d]
  /\ pc[d] \in Attempting /\ ~attempted[d] => flight[d] = "none" /\ chat[d] = <<>>
  /\ pc[d] = "mark" => Current(d) = "planned"
  /\ pc[d] \in {"send", "wait", "record"} => Current(d) = "sending"
  /\ pc[d] = "send" => Len(chat[d]) = cur[d] /\ flight[d] # "air"
  /\ pc[d] = "wait" => flight[d] # "none" /\
       (flight[d] = "landed" => Len(chat[d]) = cur[d] + 1)
  /\ pc[d] = "record" =>
       CASE answer[d] \in {"ids", "ids_err", "bad_ids"} -> Len(chat[d]) = cur[d] + 1
         [] answer[d] = "format" ->
              Len(chat[d]) = cur[d] /\ flight[d] = "none" /\ from[d] = NoFallback
         [] answer[d] = "reject" -> Len(chat[d]) = cur[d] /\ flight[d] = "none"
         [] OTHER -> answer[d] = "lost"
  /\ pc[d] = "activate" =>
       /\ Current(d) = "rejected" /\ errorClass[d][cur[d]] = "format"
       /\ from[d] = NoFallback /\ flight[d] = "none"
  /\ pc[d] = "persist" => Current(d) = "confirmed" /\ AtLastPart(d) /\ ~linked[d]

ReportsInStep(d) ==
  /\ outcome[d] # "none" => pc[d] \in {"persist", "done"}
  /\ outcome[d] \in {"confirmed", "rejected", "partial_rejected"} =>
       flight[d] # "air" /\ ReportIsTrue(d, outcome[d])
  /\ notice[d] => pc[d] = "done" /\ flight[d] = "none" /\ chat[d] = <<>>
  /\ linked[d] => status[d] = "confirmed" /\ pc[d] = "done"

Untouched(d) ==
  /\ pc[d] \in {"idle", "done"}
  /\ cur[d] = 0 /\ from[d] = NoFallback /\ confirmed[d] = 0 /\ ~attempted[d]
  /\ flight[d] = "none" /\ chat[d] = <<>> /\ ~linked[d]

DeliveryInStep(d) ==
  /\ status[d] = "absent" => Untouched(d)
  /\ status[d] # "absent" =>
       /\ pc[d] # "idle"
       /\ RowsInStep(d) /\ StatusInStep(d) /\ ChatInStep(d) /\ ExecutorInStep(d)
  /\ ReportsInStep(d)
  /\ ~up => pc[d] \in {"idle", "done", "gone"}

InStep == \A d \in Deliveries : DeliveryInStep(d)

(* The contract the user is owed: see ReplyContract.                       *)
VerdictOf(d) ==
  IF status[d] \in Terminal /\ pc[d] # "activate" THEN status[d] ELSE "open"

(* A verdict was passed with a request in the air.                         *)
MayStillLand(d) == VerdictOf(d) # "open" /\ flight[d] = "air"

Contract == INSTANCE ReplyContract WITH
  Replies <- Deliveries,
  length <- [d \in Deliveries |-> plan[d].n],
  seen <- chat,
  verdict <- [d \in Deliveries |-> VerdictOf(d)],
  pending <- [d \in Deliveries |-> MayStillLand(d)]

KeepsContract == Contract!Spec
=============================================================================
