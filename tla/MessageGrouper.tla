---------------------------- MODULE MessageGrouper ----------------------------
(***************************************************************************)
(* Grouping of the messages of a conversation into turns                    *)
(* (internal/bot/message_grouper.go, type MessageGrouper; Bot.Stop).        *)
(*                                                                         *)
(* A message joins the group of its key and restarts the key's timer; when  *)
(* a timer fires, its callback takes the whole group as a batch, waits for  *)
(* the key's processing lock and runs a turn (onGroupReady).  What makes    *)
(* this delicate is that a timer that has fired cannot be stopped: its      *)
(* callback may still stand in front of the mutex when the next message,    *)
(* or Stop, comes first.                                                   *)
(*                                                                         *)
(* Messages of a key are numbered as AddMessage accepts them.  Each call    *)
(* starts one timer, so message m and the timer it started share a number. *)
(* Every action is what the code does under MessageGrouper.mu, or one step  *)
(* of a callback outside of it.  Contexts are left out: the turn detaches   *)
(* itself from the one it is given (process_group.go:338).                 *)
(***************************************************************************)
EXTENDS Integers, Sequences, FiniteSets

CONSTANTS
  Keys,         (* Grouping keys: a conversation, or a sender in a channel. *)
  MaxMessages   (* Messages of one key in a behaviour (bound).              *)

ASSUME KeysAssumption == IsFiniteSet(Keys)
ASSUME MessagesAssumption == MaxMessages \in Nat \ {0}

Messages == 1 .. MaxMessages
NoTimer == 0

(* A timer and the callback it becomes: armed; fired, its callback waiting  *)
(* for the mutex; holding its batch and waiting for the key's lock; in its  *)
(* turn; over, by its end or because it was stopped.                       *)
TimerState == {"unset", "armed", "fired", "waiting", "turn", "over"}

(* Stop: not called; waiting for the wait group; returned; process exited. *)
StopState == {"running", "waiting", "returned", "exited"}

VARIABLES
  handlers,   (* update handlers about to call AddMessage, per key         *)
  accepted,   (* messages AddMessage took, per key                         *)
  group,      (* group.Messages, per key; <<>> when there is no group      *)
  timer,      (* group.Timer, per key                                      *)
  timers,     (* state of each timer, per key                              *)
  batch,      (* what the callback of each timer took, per key             *)
  turns,      (* messages handed to onGroupReady so far, per key           *)
  wg,         (* MessageGrouper.wg                                         *)
  stop,       (* how far Stop is                                           *)
  known       (* history: messages accepted when Stop took the mutex, per key  *)

groupVars == <<group, timer>>
callbackVars == <<timers, batch, turns>>
vars == <<handlers, accepted, groupVars, callbackVars, wg, stop, known>>

Alive == stop # "exited"

Callbacks == {"armed", "fired", "waiting", "turn"}

-----------------------------------------------------------------------------
Init ==
  /\ handlers = [k \in Keys |-> 0]
  /\ accepted = [k \in Keys |-> 0]
  /\ group = [k \in Keys |-> <<>>]
  /\ timer = [k \in Keys |-> NoTimer]
  /\ timers = [k \in Keys |-> [m \in Messages |-> "unset"]]
  /\ batch = [k \in Keys |-> [m \in Messages |-> <<>>]]
  /\ turns = [k \in Keys |-> <<>>]
  /\ wg = 0
  /\ stop = "running"
  /\ known = [k \in Keys |-> 0]

(* An update that will need a reply starts its handler.  Ingestion ends     *)
(* before Stop is called.                                                  *)
Receive(k) ==
  /\ stop = "running"
  /\ handlers[k] + accepted[k] < MaxMessages
  /\ handlers' = [handlers EXCEPT ![k] = @ + 1]
  /\ UNCHANGED <<accepted, groupVars, callbackVars, wg, stop, known>>

(* Timer.Stop of the key's current timer succeeds.                         *)
Stoppable(k) == timer[k] # NoTimer /\ timers[k][timer[k]] = "armed"

(* Mutant: the credit of a timer that was stopped is not given back.       *)
CreditKept(k) == wg + 1

(* Mutant: the credit is given back even if the callback still runs.       *)
CreditOfAnyTimer(k) == IF timer[k] # NoTimer THEN wg ELSE wg + 1

(* One credit for the new timer, less that of the timer it replaces.       *)
CreditAfterAdd(k) == IF Stoppable(k) THEN wg ELSE wg + 1

(* Mutant: only the first message of a group starts a timer.               *)
RestartFirstOnly(k, m) ==
  IF timer[k] = NoTimer THEN [timers[k] EXCEPT ![m] = "armed"]
  ELSE [timers[k] EXCEPT ![timer[k]] = IF Stoppable(k) THEN "over" ELSE @,
                         ![m] = "over"]

(* The old timer is stopped if it still can be, a new one is started.      *)
Restart(k, m) ==
  IF Stoppable(k) THEN [timers[k] EXCEPT ![timer[k]] = "over", ![m] = "armed"]
  ELSE [timers[k] EXCEPT ![m] = "armed"]

AddMessage(k) ==
  LET m == accepted[k] + 1 IN
  /\ Alive /\ handlers[k] > 0
  /\ handlers' = [handlers EXCEPT ![k] = @ - 1]
  /\ accepted' = [accepted EXCEPT ![k] = m]
  /\ group' = [group EXCEPT ![k] = Append(@, m)]
  /\ wg' = CreditAfterAdd(k)
  /\ timers' = [timers EXCEPT ![k] = Restart(k, m)]
  /\ timer' = [timer EXCEPT ![k] = m]
  /\ UNCHANGED <<batch, turns, stop, known>>

Fire(k, t) ==
  /\ Alive /\ timers[k][t] = "armed"
  /\ timers' = [timers EXCEPT ![k][t] = "fired"]
  /\ UNCHANGED <<handlers, accepted, groupVars, batch, turns, wg, stop, known>>

(* Mutant: the group keeps the messages its callback took.                 *)
KeptByGroup(k) == group[k]

LeftInGroup(k) == <<>>

(* processGroup under the mutex.  Whichever callback comes first takes the  *)
(* whole group; one that finds no messages is over.                        *)
TakeGroup(k, t) ==
  /\ Alive /\ timers[k][t] = "fired"
  /\ IF group[k] = <<>>
     THEN /\ timers' = [timers EXCEPT ![k][t] = "over"]
          /\ wg' = wg - 1
          /\ UNCHANGED <<batch, groupVars>>
     ELSE /\ timers' = [timers EXCEPT ![k][t] = "waiting"]
          /\ batch' = [batch EXCEPT ![k][t] = group[k]]
          /\ group' = [group EXCEPT ![k] = LeftInGroup(k)]
          /\ timer' = [timer EXCEPT ![k] = NoTimer]
          /\ UNCHANGED wg
  /\ UNCHANGED <<handlers, accepted, turns, stop, known>>

(* The key's processing lock is held by the callback in its turn.          *)
InTurn(k) == {t \in Messages : timers[k][t] = "turn"}

(* Mutant: turns of one key run side by side.                              *)
LockIgnored(k) == TRUE

LockFree(k) == InTurn(k) = {}

BeginTurn(k, t) ==
  /\ Alive /\ timers[k][t] = "waiting"
  /\ LockFree(k)
  /\ timers' = [timers EXCEPT ![k][t] = "turn"]
  /\ turns' = [turns EXCEPT ![k] = @ \o batch[k][t]]
  /\ UNCHANGED <<handlers, accepted, groupVars, batch, wg, stop, known>>

EndTurn(k, t) ==
  /\ Alive /\ timers[k][t] = "turn"
  /\ timers' = [timers EXCEPT ![k][t] = "over"]
  /\ wg' = wg - 1
  /\ UNCHANGED <<handlers, accepted, groupVars, batch, turns, stop, known>>

(* Stop under the mutex.  A group whose timer it could stop is handed to a  *)
(* goroutine that goes on where the callback would have; all are forgotten. *)
StopGroups ==
  LET pending(k, t) == t = timer[k] /\ timers[k][t] = "armed" IN
  /\ stop = "running"
  /\ stop' = "waiting"
  /\ timers' = [k \in Keys |-> [t \in Messages |->
       IF pending(k, t) THEN "waiting" ELSE timers[k][t]]]
  /\ batch' = [k \in Keys |-> [t \in Messages |->
       IF pending(k, t) THEN group[k] ELSE batch[k][t]]]
  /\ known' = accepted
  /\ group' = [k \in Keys |-> <<>>]
  /\ timer' = [k \in Keys |-> NoTimer]
  /\ UNCHANGED <<handlers, accepted, turns, wg>>

(* Mutant: Stop does not wait.                                             *)
NeedNotWait == TRUE

NothingCounted == wg = 0

StopReturn ==
  /\ stop = "waiting"
  /\ NothingCounted
  /\ stop' = "returned"
  /\ UNCHANGED <<handlers, accepted, groupVars, callbackVars, wg, known>>

(* Bot.Stop has also waited for the handlers; main returns.                *)
Exit ==
  /\ stop = "returned"
  /\ \A k \in Keys : handlers[k] = 0
  /\ stop' = "exited"
  /\ UNCHANGED <<handlers, accepted, groupVars, callbackVars, wg, known>>

Callback(k, t) == TakeGroup(k, t) \/ BeginTurn(k, t) \/ EndTurn(k, t)

Next ==
  \/ \E k \in Keys :
       \/ Receive(k) \/ AddMessage(k)
       \/ \E t \in Messages : Fire(k, t) \/ Callback(k, t)
  \/ StopGroups \/ StopReturn \/ Exit

Spec == Init /\ [][Next]_vars

(* Timers fire, goroutines run, a turn ends by the timeouts of the calls it *)
(* makes, and a waiter gets the mutex in the end (sync.Mutex hands over to  *)
(* a waiter that starves).  Nothing obliges anyone to call Stop.           *)
Fairness ==
  /\ \A k \in Keys :
       /\ WF_vars(AddMessage(k))
       /\ \A t \in Messages :
            /\ WF_vars(Fire(k, t))
            /\ WF_vars(TakeGroup(k, t))
            /\ SF_vars(BeginTurn(k, t))
            /\ WF_vars(EndTurn(k, t))
  /\ WF_vars(StopReturn)

FairSpec == Spec /\ Fairness

-----------------------------------------------------------------------------
(* Properties.                                                             *)

Elements(s) == {s[i] : i \in DOMAIN s}

TypeOK ==
  /\ handlers \in [Keys -> 0 .. MaxMessages]
  /\ accepted \in [Keys -> 0 .. MaxMessages]
  /\ group \in [Keys -> Seq(Messages)]
  /\ timer \in [Keys -> 0 .. MaxMessages]
  /\ timers \in [Keys -> [Messages -> TimerState]]
  /\ batch \in [Keys -> [Messages -> Seq(Messages)]]
  /\ turns \in [Keys -> Seq(Messages)]
  /\ wg \in Nat
  /\ stop \in StopState
  /\ known \in [Keys -> 0 .. MaxMessages]

(* The wait group counts the callbacks that are still to end, each once,    *)
(* however a timer was stopped, replaced, fired or taken over by Stop: it   *)
(* never goes negative, and Stop neither hangs nor returns early for it.    *)
WaitGroupBalanced ==
  wg = Cardinality({p \in Keys \X Messages : timers[p[1]][p[2]] \in Callbacks})

(* Until Stop is called every accepted message is either still in its group *)
(* or in the batch of exactly one callback, whichever callbacks raced for   *)
(* it, and a batch is handed to a turn at most once.                       *)
InOneBatch ==
  \A k \in Keys :
    /\ \A t, u \in Messages :
         t # u => Elements(batch[k][t]) \cap Elements(batch[k][u]) = {}
    /\ \A t \in Messages : Elements(batch[k][t]) \cap Elements(group[k]) = {}
    /\ \A i, j \in DOMAIN turns[k] : turns[k][i] = turns[k][j] => i = j
    /\ stop = "running" =>
         1 .. accepted[k] =
           Elements(group[k]) \cup UNION {Elements(batch[k][t]) : t \in Messages}

(* A waiting group always has a callback coming for it, although callbacks  *)
(* of replaced timers clear group.Timer under it.                          *)
GroupIsAttended ==
  \A k \in Keys : group[k] # <<>> =>
    timer[k] # NoTimer /\ timers[k][timer[k]] \in {"armed", "fired"}

(* "Stop ... waits for completion", message_grouper.go:85: once it returned *)
(* no turn is running or due for a message that was accepted before it was  *)
(* called.                                                                 *)
TurnsEndBeforeStopReturns ==
  \A k \in Keys : \A t \in Messages :
    stop \in {"returned", "exited"} /\ timers[k][t] \in {"waiting", "turn"} =>
      \A m \in Elements(batch[k][t]) : m > known[k]

(* An accepted message gets its turn, unless the bot is stopped.           *)
EveryMessageGetsItsTurn ==
  \A k \in Keys : \A m \in Messages :
    accepted[k] >= m ~> (m \in Elements(turns[k]) \/ stop # "running")

(* Stop returns.                                                           *)
StopCompletes == stop = "waiting" ~> stop = "returned"

(* "Stop processes all pending message groups and waits for completion",    *)
(* message_grouper.go:85: a message accepted before Stop has had its turn   *)
(* when Stop returns.                                                      *)
StopProcessesAllPending ==
  \A k \in Keys : stop = "returned" => 1 .. known[k] \subseteq Elements(turns[k])

(***************************************************************************)
(* The grouper implements TurnContract.  A message is due while it is in    *)
(* its group or in a batch that waits for the key's lock.                   *)
(***************************************************************************)
Waiting(k) == {t \in Messages : timers[k][t] = "waiting"}

Due(k) == Elements(group[k]) \cup UNION {Elements(batch[k][t]) : t \in Waiting(k)}

UnderWay(k) ==
  IF InTurn(k) = {} THEN <<>> ELSE batch[k][CHOOSE t \in InTurn(k) : TRUE]

Phase ==
  CASE stop = "running" -> "open"
    [] stop = "waiting" -> "closing"
    [] OTHER            -> "closed"

Turns == INSTANCE TurnContract WITH
  Conversations <- Keys,
  arrived <- accepted,
  due <- [k \in Keys |-> Due(k)],
  turn <- [k \in Keys |-> UnderWay(k)],
  served <- turns,
  phase <- Phase

(* Timers, callbacks and the lock amount to turns of consecutive messages,  *)
(* one at a time, no message twice, and none lost but the newest, when Stop *)
(* is called.                                                              *)
KeepsTurnContract == Turns!Spec
=============================================================================
