------------------------ MODULE MessageGrouper_proofs ------------------------
(***************************************************************************)
(* What holds of the message grouper for every set of keys and every number *)
(* of messages.                                                            *)
(*                                                                         *)
(*  1. Sequences of distinct messages.                                     *)
(*  2. Types.                                                              *)
(*  3. One key: who holds which message.                                   *)
(*  4. The wait group.                                                     *)
(*  5. The invariants.                                                     *)
(*  6. The contract.                                                       *)
(*  7. What holds unless one of two races happens.                         *)
(***************************************************************************)
EXTENDS MessageGrouper, FiniteSetTheorems, TLAPS

-----------------------------------------------------------------------------
(* 1. Sequences of distinct messages.                                      *)

Distinct(s) == \A i, j \in DOMAIN s : s[i] = s[j] => i = j

LEMMA EmptyElements == Elements(<<>>) = {} /\ Distinct(<<>>)
BY DEF Elements, Distinct

LEMMA AppendOne ==
  ASSUME NEW s \in Seq(Messages), NEW m \in Messages, Distinct(s), m \notin Elements(s)
  PROVE  /\ Append(s, m) \in Seq(Messages)
         /\ Elements(Append(s, m)) = Elements(s) \cup {m}
         /\ Distinct(Append(s, m))
<1>1. /\ Append(s, m) \in Seq(Messages) /\ Len(Append(s, m)) = Len(s) + 1
      /\ \A i \in 1 .. Len(s) : Append(s, m)[i] = s[i]
      /\ Append(s, m)[Len(s) + 1] = m
  OBVIOUS
<1>2. /\ DOMAIN s = 1 .. Len(s) /\ Len(s) \in Nat
      /\ DOMAIN Append(s, m) = 1 .. Len(s) + 1
  BY <1>1
<1>3. \A i \in 1 .. Len(s) + 1 : i \in 1 .. Len(s) \/ i = Len(s) + 1
  BY <1>2
<1>4. Elements(Append(s, m)) = Elements(s) \cup {m}
  <2>1. ASSUME NEW x \in Elements(Append(s, m)) PROVE x \in Elements(s) \cup {m}
    <3>1. PICK i \in 1 .. Len(s) + 1 : x = Append(s, m)[i]
      BY <1>2 DEF Elements
    <3>. QED BY <1>1, <1>2, <1>3, <3>1 DEF Elements
  <2>2. ASSUME NEW x \in Elements(s) PROVE x \in Elements(Append(s, m))
    <3>1. PICK i \in 1 .. Len(s) : x = s[i]
      BY <1>2 DEF Elements
    <3>2. i \in DOMAIN Append(s, m)
      BY <1>2
    <3>. QED BY <1>1, <3>1, <3>2 DEF Elements
  <2>3. m \in Elements(Append(s, m))
    <3>1. Len(s) + 1 \in DOMAIN Append(s, m)
      BY <1>2
    <3>. QED BY <1>1, <3>1 DEF Elements
  <2>. QED BY <2>1, <2>2, <2>3
<1>5. \A i \in 1 .. Len(s) : s[i] # m
  BY <1>2 DEF Elements
<1>6. Distinct(Append(s, m))
  BY <1>1, <1>2, <1>3, <1>5 DEF Distinct
<1>. QED BY <1>1, <1>4, <1>6

LEMMA Concatenate ==
  ASSUME NEW s \in Seq(Messages), NEW u \in Seq(Messages), Distinct(s), Distinct(u),
         Elements(s) \cap Elements(u) = {}
  PROVE  /\ s \o u \in Seq(Messages)
         /\ Elements(s \o u) = Elements(s) \cup Elements(u)
         /\ Distinct(s \o u)
<1>1. /\ s \o u \in Seq(Messages) /\ Len(s \o u) = Len(s) + Len(u)
      /\ \A i \in 1 .. Len(s) + Len(u) :
           (s \o u)[i] = IF i <= Len(s) THEN s[i] ELSE u[i - Len(s)]
  OBVIOUS
<1>2. /\ DOMAIN s = 1 .. Len(s) /\ Len(s) \in Nat
      /\ DOMAIN u = 1 .. Len(u) /\ Len(u) \in Nat
      /\ DOMAIN (s \o u) = 1 .. Len(s) + Len(u)
  BY <1>1
<1>3. \A i \in 1 .. Len(s) + Len(u) :
        \/ i \in 1 .. Len(s) /\ (s \o u)[i] = s[i]
        \/ i - Len(s) \in 1 .. Len(u) /\ (s \o u)[i] = u[i - Len(s)]
  BY <1>1, <1>2
<1>4. Elements(s \o u) = Elements(s) \cup Elements(u)
  <2>1. ASSUME NEW x \in Elements(s \o u) PROVE x \in Elements(s) \cup Elements(u)
    <3>1. PICK i \in 1 .. Len(s) + Len(u) : x = (s \o u)[i]
      BY <1>2 DEF Elements
    <3>. QED BY <1>2, <1>3, <3>1 DEF Elements
  <2>2. ASSUME NEW x \in Elements(s) PROVE x \in Elements(s \o u)
    <3>1. PICK i \in 1 .. Len(s) : x = s[i]
      BY <1>2 DEF Elements
    <3>2. i \in 1 .. Len(s) + Len(u) /\ i <= Len(s)
      BY <1>2
    <3>. QED BY <1>1, <1>2, <3>1, <3>2 DEF Elements
  <2>3. ASSUME NEW x \in Elements(u) PROVE x \in Elements(s \o u)
    <3>1. PICK i \in 1 .. Len(u) : x = u[i]
      BY <1>2 DEF Elements
    <3>2. /\ Len(s) + i \in 1 .. Len(s) + Len(u) /\ ~(Len(s) + i <= Len(s))
          /\ Len(s) + i - Len(s) = i
      BY <1>2
    <3>3. (s \o u)[Len(s) + i] = x
      BY <1>1, <3>1, <3>2
    <3>. QED BY <1>2, <3>2, <3>3 DEF Elements
  <2>. QED BY <2>1, <2>2, <2>3
<1>5. Distinct(s \o u)
  <2>. SUFFICES ASSUME NEW i \in 1 .. Len(s) + Len(u), NEW j \in 1 .. Len(s) + Len(u),
                       (s \o u)[i] = (s \o u)[j]
                PROVE  i = j
    BY <1>2 DEF Distinct
  <2>1. CASE i \in 1 .. Len(s) /\ j \in 1 .. Len(s)
    BY <1>1, <1>2, <2>1 DEF Distinct
  <2>2. CASE i - Len(s) \in 1 .. Len(u) /\ j - Len(s) \in 1 .. Len(u)
    <3>1. u[i - Len(s)] = u[j - Len(s)]
      BY <1>1, <1>2, <2>2
    <3>2. i - Len(s) = j - Len(s)
      BY <1>2, <2>2, <3>1 DEF Distinct
    <3>. QED BY <1>2, <3>2
  <2>3. ASSUME NEW a \in 1 .. Len(s), NEW b \in 1 .. Len(u) PROVE s[a] # u[b]
    BY <1>2 DEF Elements
  <2>. QED BY <1>2, <1>3, <2>1, <2>2, <2>3
<1>. QED BY <1>1, <1>4, <1>5

-----------------------------------------------------------------------------
(* 2. Types.  That wg stays a natural number is a matter of balance (4).   *)

Columns ==
  /\ handlers \in [Keys -> 0 .. MaxMessages]
  /\ accepted \in [Keys -> 0 .. MaxMessages]
  /\ group \in [Keys -> Seq(Messages)]
  /\ timer \in [Keys -> 0 .. MaxMessages]
  /\ timers \in [Keys -> [Messages -> TimerState]]
  /\ batch \in [Keys -> [Messages -> Seq(Messages)]]
  /\ turns \in [Keys -> Seq(Messages)]
  /\ stop \in StopState
  /\ known \in [Keys -> 0 .. MaxMessages]

(* The handlers that will still add a message, with those that did, keep    *)
(* within the bound; timers are numbered like the messages that start them. *)
Numbered(k) ==
  /\ handlers[k] + accepted[k] <= MaxMessages
  /\ known[k] <= accepted[k]
  /\ timer[k] <= accepted[k]
  /\ \A t \in Messages : t > accepted[k] => timers[k][t] = "unset"

Sound == Columns /\ \A k \in Keys : Numbered(k)

LEMMA InitSound == Init => Sound
BY MessagesAssumption
   DEF Init, Sound, Columns, Numbered, Messages, NoTimer, TimerState, StopState

LEMMA NextMessage ==
  ASSUME Sound, NEW k \in Keys, handlers[k] > 0
  PROVE  /\ accepted[k] \in 0 .. MaxMessages /\ handlers[k] \in 0 .. MaxMessages
         /\ accepted[k] + 1 \in Messages
         /\ handlers[k] - 1 \in 0 .. MaxMessages
<1>1. /\ accepted[k] \in 0 .. MaxMessages /\ handlers[k] \in 0 .. MaxMessages
      /\ handlers[k] + accepted[k] <= MaxMessages
  BY DEF Sound, Columns, Numbered
<1>. QED BY <1>1, MessagesAssumption DEF Messages

(* What AddMessage makes of the key's timers.                              *)
LEMMA Restarted ==
  ASSUME Columns, NEW k \in Keys, NEW m \in Messages
  PROVE  /\ Restart(k, m) \in [Messages -> TimerState]
         /\ Restart(k, m)[m] = "armed"
         /\ \A t \in Messages : t # m =>
              IF t = timer[k] /\ timers[k][t] = "armed" THEN Restart(k, m)[t] = "over"
              ELSE Restart(k, m)[t] = timers[k][t]
<1>1. timers[k] \in [Messages -> TimerState] /\ timer[k] \in 0 .. MaxMessages
  BY DEF Columns
<1>2. CASE Stoppable(k)
  <2>1. timer[k] \in Messages
    BY <1>1, <1>2, MessagesAssumption DEF Stoppable, NoTimer, Messages
  <2>. QED BY <1>1, <1>2, <2>1 DEF Restart, Stoppable, TimerState
<1>3. CASE ~Stoppable(k)
  <2>1. \A t \in Messages : ~(t = timer[k] /\ timers[k][t] = "armed")
    BY <1>3 DEF Stoppable, NoTimer, Messages
  <2>. QED BY <1>1, <1>3, <2>1 DEF Restart, TimerState
<1>. QED BY <1>2, <1>3

LEMMA AddMessageSound ==
  ASSUME Sound, NEW k \in Keys, AddMessage(k)
  PROVE  Sound'
<1> DEFINE m == accepted[k] + 1
<1>1. /\ m \in Messages /\ accepted[k] \in 0 .. MaxMessages
      /\ handlers[k] \in 0 .. MaxMessages /\ handlers[k] - 1 \in 0 .. MaxMessages
  BY NextMessage DEF AddMessage
<1>2. Restart(k, m) \in [Messages -> TimerState] /\ m \in 0 .. MaxMessages
  BY <1>1, Restarted, MessagesAssumption DEF Sound, Messages
<1>3. Append(group[k], m) \in Seq(Messages)
  BY <1>1 DEF Sound, Columns
<1>4. Columns'
  BY <1>1, <1>2, <1>3 DEF AddMessage, Sound, Columns
<1>5. ASSUME NEW e \in Keys PROVE Numbered(e)'
  <2>1. CASE e = k
    <3>1. /\ handlers'[k] = handlers[k] - 1 /\ accepted'[k] = m /\ known'[k] = known[k]
          /\ timer'[k] = m /\ timers'[k] = Restart(k, m)
      BY DEF AddMessage, Sound, Columns
    <3>2. \A t \in Messages : t > m => timers'[k][t] = "unset"
      BY <1>1, <3>1, Restarted DEF Sound, Numbered, Messages
    <3>3. handlers[k] + accepted[k] <= MaxMessages /\ known[k] <= accepted[k]
            /\ known[k] \in 0 .. MaxMessages
      BY DEF Numbered, Sound, Columns
    <3>4. handlers[k] - 1 + m <= MaxMessages /\ known[k] <= m /\ m <= m
      BY <1>1, <3>3, MessagesAssumption
    <3>. QED BY <2>1, <3>1, <3>2, <3>4 DEF Numbered
  <2>2. CASE e # k
    BY <2>2 DEF AddMessage, Sound, Columns, Numbered
  <2>. QED BY <2>1, <2>2
<1>. QED BY <1>4, <1>5 DEF Sound

(* A callback's step keeps the numbers: its timer was set.                 *)
LEMMA CallbackSound ==
  ASSUME Sound, NEW k \in Keys, NEW t \in Messages, NEW s \in TimerState,
         timers[k][t] # "unset", timers' = [timers EXCEPT ![k][t] = s],
         group' \in [Keys -> Seq(Messages)],
         batch' \in [Keys -> [Messages -> Seq(Messages)]],
         turns' \in [Keys -> Seq(Messages)],
         timer' = timer \/ timer' = [timer EXCEPT ![k] = NoTimer],
         UNCHANGED <<handlers, accepted, stop, known>>
  PROVE  Sound'
<1>1. timer' \in [Keys -> 0 .. MaxMessages] /\ \A e \in Keys : timer'[e] <= timer[e]
  <2>1. \A e \in Keys : timer[e] \in 0 .. MaxMessages /\ 0 <= timer[e] /\ timer[e] <= timer[e]
    BY MessagesAssumption DEF Sound, Columns
  <2>2. CASE timer' = timer
    BY <2>1, <2>2 DEF Sound, Columns
  <2>3. CASE timer' = [timer EXCEPT ![k] = NoTimer]
    <3>1. NoTimer \in 0 .. MaxMessages /\ NoTimer = 0
      BY MessagesAssumption DEF NoTimer
    <3>2. timer' \in [Keys -> 0 .. MaxMessages]
      BY <2>3, <3>1 DEF Sound, Columns
    <3>3. \A e \in Keys : timer'[e] = timer[e] \/ timer'[e] = 0
      BY <2>3, <3>1 DEF Sound, Columns
    <3>. QED BY <2>1, <3>2, <3>3
  <2>. QED BY <2>2, <2>3
<1>2. timers' \in [Keys -> [Messages -> TimerState]]
  BY DEF Sound, Columns
<1>3. \A e \in Keys, u \in Messages : timers[e][u] = "unset" => timers'[e][u] = "unset"
  BY DEF Sound, Columns
<1>4. Columns'
  BY <1>1, <1>2 DEF Sound, Columns
<1>5. ASSUME NEW e \in Keys PROVE Numbered(e)'
  <2>1. timer[e] \in Int /\ timer'[e] \in Int /\ accepted[e] \in Int
    <3>1. timer[e] \in 0 .. MaxMessages /\ accepted[e] \in 0 .. MaxMessages
            /\ timer'[e] \in 0 .. MaxMessages
      BY <1>1 DEF Sound, Columns
    <3>. QED BY <3>1, MessagesAssumption
  <2>. QED BY <1>1, <1>3, <2>1 DEF Sound, Numbered
<1>. QED BY <1>4, <1>5 DEF Sound

LEMMA StepSound ==
  ASSUME Sound, [Next]_vars
  PROVE  Sound'
<1>1. CASE UNCHANGED vars
  BY <1>1 DEF vars, groupVars, callbackVars, Sound, Columns, Numbered
<1>2. ASSUME NEW k \in Keys, Receive(k) PROVE Sound'
  <2>1. /\ handlers[k] \in 0 .. MaxMessages /\ accepted[k] \in 0 .. MaxMessages
        /\ handlers[k] + accepted[k] < MaxMessages
        /\ handlers' = [handlers EXCEPT ![k] = @ + 1]
    BY <1>2 DEF Receive, Sound, Columns
  <2>2. /\ handlers[k] + 1 \in 0 .. MaxMessages
        /\ handlers[k] + 1 + accepted[k] <= MaxMessages
    BY <2>1, MessagesAssumption
  <2>3. Columns'
    BY <1>2, <2>1, <2>2 DEF Receive, groupVars, callbackVars, Sound, Columns
  <2>4. \A e \in Keys : Numbered(e)'
    BY <1>2, <2>1, <2>2 DEF Receive, groupVars, callbackVars, Sound, Columns, Numbered
  <2>. QED BY <2>3, <2>4 DEF Sound
<1>3. ASSUME NEW k \in Keys, AddMessage(k) PROVE Sound'
  BY <1>3, AddMessageSound
<1>4. ASSUME NEW k \in Keys, NEW t \in Messages, Fire(k, t) PROVE Sound'
  <2>1. "fired" \in TimerState
    BY DEF TimerState
  <2>. QED BY <1>4, <2>1, CallbackSound DEF Fire, groupVars, Sound, Columns
<1>5. ASSUME NEW k \in Keys, NEW t \in Messages, TakeGroup(k, t) PROVE Sound'
  <2>1. "over" \in TimerState /\ "waiting" \in TimerState
    BY DEF TimerState
  <2>2. group' \in [Keys -> Seq(Messages)]
    <3>1. <<>> \in Seq(Messages)
      OBVIOUS
    <3>2. group' = group \/ group' = [group EXCEPT ![k] = <<>>]
      BY <1>5 DEF TakeGroup, LeftInGroup, groupVars
    <3>. QED BY <3>1, <3>2 DEF Sound, Columns
  <2>3. batch' \in [Keys -> [Messages -> Seq(Messages)]]
    <3>1. batch' = batch \/ batch' = [batch EXCEPT ![k][t] = group[k]]
      BY <1>5 DEF TakeGroup
    <3>2. /\ group[k] \in Seq(Messages) /\ batch[k] \in [Messages -> Seq(Messages)]
          /\ batch \in [Keys -> [Messages -> Seq(Messages)]]
      BY DEF Sound, Columns
    <3>3. [batch[k] EXCEPT ![t] = group[k]] \in [Messages -> Seq(Messages)]
      BY <3>2
    <3>. QED BY <3>1, <3>2, <3>3
  <2>4. /\ timers[k][t] # "unset"
        /\ timer' = timer \/ timer' = [timer EXCEPT ![k] = NoTimer]
        /\ UNCHANGED <<handlers, accepted, stop, known>> /\ turns' = turns
        /\ \/ timers' = [timers EXCEPT ![k][t] = "over"]
           \/ timers' = [timers EXCEPT ![k][t] = "waiting"]
    BY <1>5 DEF TakeGroup, groupVars
  <2>5. turns' \in [Keys -> Seq(Messages)]
    BY <2>4 DEF Sound, Columns
  <2>6. CASE timers' = [timers EXCEPT ![k][t] = "over"]
    BY <2>1, <2>2, <2>3, <2>4, <2>5, <2>6, CallbackSound
  <2>7. CASE timers' = [timers EXCEPT ![k][t] = "waiting"]
    BY <2>1, <2>2, <2>3, <2>4, <2>5, <2>7, CallbackSound
  <2>. QED BY <2>4, <2>6, <2>7
<1>6. ASSUME NEW k \in Keys, NEW t \in Messages, BeginTurn(k, t) PROVE Sound'
  <2>1. "turn" \in TimerState
    BY DEF TimerState
  <2>2. turns[k] \o batch[k][t] \in Seq(Messages)
    BY DEF Sound, Columns
  <2>3. turns' \in [Keys -> Seq(Messages)]
    BY <1>6, <2>2 DEF BeginTurn, Sound, Columns
  <2>. QED BY <1>6, <2>1, <2>3, CallbackSound DEF BeginTurn, groupVars, Sound, Columns
<1>7. ASSUME NEW k \in Keys, NEW t \in Messages, EndTurn(k, t) PROVE Sound'
  <2>1. "over" \in TimerState
    BY DEF TimerState
  <2>. QED BY <1>7, <2>1, CallbackSound DEF EndTurn, groupVars, Sound, Columns
<1>8. CASE StopGroups
  <2>1. Columns'
    BY <1>8, MessagesAssumption DEF StopGroups, Sound, Columns, TimerState, StopState, NoTimer
  <2>2. \A k \in Keys, t \in Messages : timers[k][t] = "unset" => timers'[k][t] = "unset"
    BY <1>8 DEF StopGroups
  <2>3. ASSUME NEW k \in Keys PROVE Numbered(k)'
    BY <1>8, <2>2, MessagesAssumption DEF StopGroups, Sound, Columns, Numbered, NoTimer
  <2>. QED BY <2>1, <2>3 DEF Sound
<1>9. CASE StopReturn \/ Exit
  BY <1>9 DEF StopReturn, Exit, groupVars, callbackVars, Sound, Columns, Numbered, StopState
<1>. QED BY <1>1, <1>2, <1>3, <1>4, <1>5, <1>6, <1>7, <1>8, <1>9 DEF Next, Callback

-----------------------------------------------------------------------------
(* 3. One key: who holds which message.                                    *)

Holds(k, t) == Elements(batch[k][t])

(* Timers whose callback has handed its batch to a turn, or never will.     *)
Past(k) == {t \in Messages : timers[k][t] \in {"turn", "over"}}

Attended(k) ==
  group[k] # <<>> =>
    timer[k] # NoTimer /\ timers[k][timer[k]] \in {"armed", "fired"}

(* Every message has one holder: the group, or one callback; and the turns  *)
(* are made of the batches of the callbacks that are past the lock.        *)
Owned(k) ==
  /\ Distinct(group[k]) /\ Elements(group[k]) \subseteq 1 .. accepted[k]
  /\ \A t \in Messages :
       /\ Distinct(batch[k][t]) /\ Holds(k, t) \subseteq 1 .. accepted[k]
       /\ Holds(k, t) \cap Elements(group[k]) = {}
       /\ timers[k][t] \in {"unset", "armed", "fired"} => Holds(k, t) = {}
  /\ \A t, u \in Messages : t # u => Holds(k, t) \cap Holds(k, u) = {}
  /\ Distinct(turns[k])
  /\ Elements(turns[k]) = UNION {Holds(k, t) : t \in Past(k)}

Covered(k) ==
  stop = "running" =>
    1 .. accepted[k] = Elements(group[k]) \cup UNION {Holds(k, t) : t \in Messages}

(* What was accepted after Stop took the mutex is newer than what was known *)
(* to Stop; once Stop returned, only that is still due.                    *)
Newer(k) ==
  stop # "running" =>
    /\ \A m \in Elements(group[k]) : m > known[k]
    /\ stop # "waiting" =>
         \A t \in Messages : timers[k][t] \in {"waiting", "turn"} =>
           \A m \in Holds(k, t) : m > known[k]

KeyInOrder(k) == Attended(k) /\ Owned(k) /\ Covered(k) /\ Newer(k)

InOrder == Sound /\ \A k \in Keys : KeyInOrder(k)

LEMMA InitInOrder == Init => InOrder
<1>. SUFFICES ASSUME Init PROVE InOrder
  OBVIOUS
<1>1. ASSUME NEW k \in Keys PROVE KeyInOrder(k)
  <2>1. /\ group[k] = <<>> /\ accepted[k] = 0 /\ turns[k] = <<>> /\ stop = "running"
        /\ \A t \in Messages : batch[k][t] = <<>> /\ timers[k][t] = "unset"
    BY DEF Init
  <2>2. 1 .. 0 = {}
    OBVIOUS
  <2>3. \A t \in Messages : Holds(k, t) = {}
    BY <2>1, EmptyElements DEF Holds
  <2>. QED BY <2>1, <2>2, <2>3, EmptyElements
          DEF KeyInOrder, Attended, Owned, Covered, Newer, Past
<1>. QED BY <1>1, InitSound DEF InOrder

(* A key nobody touches, and a Stop that goes no further.                  *)
LEMMA Untouched ==
  ASSUME NEW k \in Keys, KeyInOrder(k), stop' = stop,
         accepted'[k] = accepted[k], group'[k] = group[k], timer'[k] = timer[k],
         timers'[k] = timers[k], batch'[k] = batch[k], turns'[k] = turns[k],
         known'[k] = known[k]
  PROVE  KeyInOrder(k)'
<1>1. /\ Past(k)' = Past(k)
      /\ \A t \in Messages : Holds(k, t)' = Holds(k, t)
  BY DEF Holds, Past
<1>2. Attended(k)'
  BY DEF KeyInOrder, Attended
<1>3. Owned(k)'
  <2>1. {Holds(k, t)' : t \in Past(k)'} = {Holds(k, t) : t \in Past(k)}
    BY <1>1 DEF Past
  <2>2. UNION {Holds(k, t)' : t \in Past(k)'} = UNION {Holds(k, t) : t \in Past(k)}
    BY <2>1
  <2>. QED BY <1>1, <2>2 DEF KeyInOrder, Owned
<1>4. Covered(k)'
  <2>1. {Holds(k, t)' : t \in Messages} = {Holds(k, t) : t \in Messages}
    BY <1>1
  <2>. QED BY <2>1 DEF KeyInOrder, Covered
<1>5. Newer(k)'
  BY <1>1 DEF KeyInOrder, Newer
<1>. QED BY <1>2, <1>3, <1>4, <1>5 DEF KeyInOrder

LEMMA AddMessageInOrder ==
  ASSUME InOrder, NEW k \in Keys, AddMessage(k)
  PROVE  KeyInOrder(k)'
<1> DEFINE m == accepted[k] + 1
           n == accepted[k]
<1>1. m \in Messages /\ n \in Nat /\ m > n
  BY NextMessage DEF AddMessage, InOrder
<1>2. /\ accepted'[k] = m /\ group'[k] = Append(group[k], m) /\ timer'[k] = m
      /\ timers'[k] = Restart(k, m) /\ batch' = batch /\ turns' = turns
      /\ stop' = stop /\ known' = known
  BY DEF AddMessage, InOrder, Sound, Columns
<1>3. /\ Attended(k) /\ Owned(k) /\ Covered(k) /\ Newer(k) /\ Numbered(k) /\ Columns
  BY DEF InOrder, KeyInOrder, Sound
<1>4. 1 .. m = (1 .. n) \cup {m} /\ m \notin 1 .. n
  BY <1>1
<1>5. m \notin Elements(group[k]) /\ \A t \in Messages : m \notin Holds(k, t)
  BY <1>3, <1>4 DEF Owned
<1>6. /\ Append(group[k], m) # <<>>
      /\ Elements(group'[k]) = Elements(group[k]) \cup {m} /\ Distinct(group'[k])
  <2>1. group[k] \in Seq(Messages) /\ Distinct(group[k])
    BY <1>3 DEF Columns, Owned
  <2>2. Append(group[k], m) # <<>>
    BY <1>1, <2>1
  <2>. QED BY <1>1, <1>2, <1>5, <2>1, <2>2, AppendOne
<1>7. /\ timers'[k][m] = "armed" /\ timers[k][m] = "unset"
      /\ \A t \in Messages : t # m =>
           IF t = timer[k] /\ timers[k][t] = "armed" THEN timers'[k][t] = "over"
           ELSE timers'[k][t] = timers[k][t]
  BY <1>1, <1>2, <1>3, Restarted DEF Numbered
<1>8. \A t \in Messages : Holds(k, t)' = Holds(k, t)
  BY <1>2 DEF Holds
<1>9. Attended(k)'
  BY <1>1, <1>2, <1>7 DEF Attended, NoTimer, Messages
<1>10. Owned(k)'
  <2>1. \A t \in Messages : timers'[k][t] \in {"unset", "armed", "fired"} => Holds(k, t) = {}
    BY <1>3, <1>7 DEF Owned
  <2>2. \A t \in Messages : t \in Past(k)' => t \in Past(k) \/ Holds(k, t) = {}
    BY <1>3, <1>7 DEF Owned, Past
  <2>3. \A t \in Messages : t \in Past(k) => t \in Past(k)'
    BY <1>7 DEF Past
  <2>4. UNION {Holds(k, t) : t \in Past(k)'} = UNION {Holds(k, t) : t \in Past(k)}
    BY <2>2, <2>3 DEF Past
  <2>5. UNION {Holds(k, t)' : t \in Past(k)'} = UNION {Holds(k, t) : t \in Past(k)'}
    BY <1>8 DEF Past
  <2>6. Elements(turns[k])' = UNION {Holds(k, t)' : t \in Past(k)'} /\ Distinct(turns[k])'
    BY <1>2, <1>3, <2>4, <2>5 DEF Owned
  <2>7. Distinct(group[k])' /\ Elements(group[k])' \subseteq 1 .. accepted'[k]
    BY <1>2, <1>3, <1>4, <1>6 DEF Owned
  <2>8. \A t \in Messages :
          /\ Distinct(batch[k][t])' /\ Holds(k, t)' \subseteq 1 .. accepted'[k]
          /\ Holds(k, t)' \cap Elements(group[k])' = {}
    BY <1>2, <1>3, <1>4, <1>5, <1>6, <1>8 DEF Owned
  <2>9. \A t, u \in Messages : t # u => Holds(k, t)' \cap Holds(k, u)' = {}
    BY <1>3, <1>8 DEF Owned
  <2>. QED BY <1>8, <2>1, <2>6, <2>7, <2>8, <2>9 DEF Owned
<1>11. Covered(k)'
  <2>1. UNION {Holds(k, t)' : t \in Messages} = UNION {Holds(k, t) : t \in Messages}
    BY <1>8
  <2>. QED BY <1>2, <1>3, <1>4, <1>6, <2>1 DEF Covered
<1>12. Newer(k)'
  <2>1. m > known[k]
    <3>1. known[k] <= n /\ known[k] \in 0 .. MaxMessages
      BY <1>3 DEF Numbered, Columns
    <3>. QED BY <1>1, <3>1, MessagesAssumption
  <2>2. \A t \in Messages : timers'[k][t] \in {"waiting", "turn"} =>
          timers[k][t] \in {"waiting", "turn"}
    BY <1>7
  <2>. QED BY <1>2, <1>3, <1>6, <1>8, <2>1, <2>2 DEF Newer
<1>. QED BY <1>9, <1>10, <1>11, <1>12 DEF KeyInOrder

LEMMA FireInOrder ==
  ASSUME InOrder, NEW k \in Keys, NEW t \in Messages, Fire(k, t)
  PROVE  KeyInOrder(k)'
<1>1. KeyInOrder(k) /\ Columns
  BY DEF InOrder, Sound
<1>2. /\ accepted' = accepted /\ group' = group /\ timer' = timer /\ batch' = batch
      /\ turns' = turns /\ stop' = stop /\ known' = known
      /\ timers[k][t] = "armed" /\ timers'[k][t] = "fired"
      /\ \A u \in Messages : u # t => timers'[k][u] = timers[k][u]
  BY <1>1 DEF Fire, groupVars, Columns
<1>3. Past(k)' = Past(k) /\ \A u \in Messages : Holds(k, u)' = Holds(k, u)
  BY <1>2 DEF Past, Holds
<1>4. Attended(k)'
  <2>1. group[k] # <<>> => timer[k] \in Messages
    BY <1>1, MessagesAssumption DEF KeyInOrder, Attended, Columns, Messages, NoTimer
  <2>. QED BY <1>1, <1>2, <2>1 DEF KeyInOrder, Attended
<1>5. Owned(k)'
  <2>1. {Holds(k, u)' : u \in Past(k)'} = {Holds(k, u) : u \in Past(k)}
    BY <1>3 DEF Past
  <2>2. UNION {Holds(k, u)' : u \in Past(k)'} = UNION {Holds(k, u) : u \in Past(k)}
    BY <2>1
  <2>. QED BY <1>1, <1>2, <1>3, <2>2 DEF KeyInOrder, Owned
<1>6. Covered(k)'
  <2>1. {Holds(k, u)' : u \in Messages} = {Holds(k, u) : u \in Messages}
    BY <1>3
  <2>. QED BY <1>1, <1>2, <2>1 DEF KeyInOrder, Covered
<1>7. Newer(k)'
  BY <1>1, <1>2, <1>3 DEF KeyInOrder, Newer
<1>. QED BY <1>4, <1>5, <1>6, <1>7 DEF KeyInOrder

LEMMA TakeGroupInOrder ==
  ASSUME InOrder, NEW k \in Keys, NEW t \in Messages, TakeGroup(k, t)
  PROVE  KeyInOrder(k)'
<1>1. KeyInOrder(k) /\ Columns /\ Attended(k) /\ Owned(k) /\ Covered(k) /\ Newer(k)
  BY DEF InOrder, Sound, KeyInOrder
<1>2. /\ accepted' = accepted /\ turns' = turns /\ stop' = stop /\ known' = known
      /\ timers[k][t] = "fired" /\ Holds(k, t) = {}
  BY <1>1 DEF TakeGroup, Owned
<1>3. CASE group[k] = <<>>
  <2>1. /\ group' = group /\ timer' = timer /\ batch' = batch /\ timers'[k][t] = "over"
        /\ \A u \in Messages : u # t => timers'[k][u] = timers[k][u]
    BY <1>1, <1>3 DEF TakeGroup, groupVars, Columns
  <2>2. \A u \in Messages : Holds(k, u)' = Holds(k, u)
    BY <2>1 DEF Holds
  <2>3. Past(k)' = Past(k) \cup {t}
    BY <2>1 DEF Past
  <2>4. Owned(k)'
    <3>1. {Holds(k, u)' : u \in Past(k)'} = {Holds(k, u) : u \in Past(k)} \cup {{}}
      BY <1>2, <2>2, <2>3 DEF Past
    <3>2. UNION {Holds(k, u)' : u \in Past(k)'} = UNION {Holds(k, u) : u \in Past(k)}
      BY <3>1
    <3>. QED BY <1>1, <1>2, <2>1, <2>2, <3>2 DEF Owned
  <2>5. Covered(k)'
    <3>1. {Holds(k, u)' : u \in Messages} = {Holds(k, u) : u \in Messages}
      BY <2>2
    <3>. QED BY <1>1, <1>2, <2>1, <3>1 DEF Covered
  <2>6. Attended(k)' /\ Newer(k)'
    BY <1>1, <1>2, <1>3, <2>1, <2>2 DEF Attended, Newer
  <2>. QED BY <2>4, <2>5, <2>6 DEF KeyInOrder
<1>4. CASE group[k] # <<>>
  <2>1. /\ group'[k] = <<>> /\ timers'[k][t] = "waiting" /\ batch'[k][t] = group[k]
        /\ \A u \in Messages : u # t =>
             timers'[k][u] = timers[k][u] /\ batch'[k][u] = batch[k][u]
    BY <1>1, <1>4 DEF TakeGroup, LeftInGroup, Columns
  <2>2. /\ Holds(k, t)' = Elements(group[k]) /\ Elements(group[k])' = {}
        /\ \A u \in Messages : u # t => Holds(k, u)' = Holds(k, u)
        /\ Distinct(group[k])' /\ Distinct(batch[k][t])'
    BY <1>1, <2>1, EmptyElements DEF Holds, Owned
  <2>3. Past(k)' = Past(k) /\ t \notin Past(k)
    BY <1>2, <2>1 DEF Past
  <2>4. Owned(k)'
    <3>1. {Holds(k, u)' : u \in Past(k)'} = {Holds(k, u) : u \in Past(k)}
      BY <2>2, <2>3 DEF Past
    <3>2. UNION {Holds(k, u)' : u \in Past(k)'} = UNION {Holds(k, u) : u \in Past(k)}
      BY <3>1
    <3>3. \A u \in Messages :
            /\ Distinct(batch[k][u])' /\ Holds(k, u)' \subseteq 1 .. accepted'[k]
            /\ Holds(k, u)' \cap Elements(group[k])' = {}
            /\ timers'[k][u] \in {"unset", "armed", "fired"} => Holds(k, u)' = {}
      BY <1>1, <1>2, <2>1, <2>2 DEF Owned
    <3>4. \A u, v \in Messages : u # v => Holds(k, u)' \cap Holds(k, v)' = {}
      BY <1>1, <2>2 DEF Owned
    <3>. QED BY <1>1, <1>2, <2>2, <3>2, <3>3, <3>4 DEF Owned
  <2>5. Covered(k)'
    <3>1. UNION {Holds(k, u)' : u \in Messages}
            = Elements(group[k]) \cup UNION {Holds(k, u) : u \in Messages}
      <4>1. ASSUME NEW x \in UNION {Holds(k, u)' : u \in Messages}
            PROVE  x \in Elements(group[k]) \cup UNION {Holds(k, u) : u \in Messages}
        BY <2>2
      <4>2. ASSUME NEW x \in Elements(group[k]) \cup UNION {Holds(k, u) : u \in Messages}
            PROVE  x \in UNION {Holds(k, u)' : u \in Messages}
        BY <1>2, <2>2
      <4>. QED BY <4>1, <4>2
    <3>. QED BY <1>1, <1>2, <2>2, <3>1 DEF Covered
  <2>6. Attended(k)' /\ Newer(k)'
    BY <1>1, <1>2, <2>1, <2>2 DEF Attended, Newer
  <2>. QED BY <2>4, <2>5, <2>6 DEF KeyInOrder
<1>. QED BY <1>3, <1>4

LEMMA BeginTurnInOrder ==
  ASSUME InOrder, NEW k \in Keys, NEW t \in Messages, BeginTurn(k, t)
  PROVE  KeyInOrder(k)'
<1>1. KeyInOrder(k) /\ Columns /\ Attended(k) /\ Owned(k) /\ Covered(k) /\ Newer(k)
  BY DEF InOrder, Sound, KeyInOrder
<1>2. /\ accepted' = accepted /\ stop' = stop /\ known' = known /\ group' = group
      /\ timer' = timer /\ batch' = batch
      /\ timers[k][t] = "waiting" /\ timers'[k][t] = "turn"
      /\ turns'[k] = turns[k] \o batch[k][t]
      /\ \A u \in Messages : u # t => timers'[k][u] = timers[k][u]
  BY <1>1 DEF BeginTurn, groupVars, Columns
<1>3. \A u \in Messages : Holds(k, u)' = Holds(k, u)
  BY <1>2 DEF Holds
<1>4. Past(k)' = Past(k) \cup {t} /\ t \notin Past(k)
  BY <1>2 DEF Past
<1>5. Elements(turns[k]) \cap Holds(k, t) = {}
  <2>1. \A u \in Past(k) : Holds(k, u) \cap Holds(k, t) = {}
    BY <1>1, <1>4 DEF Owned, Past
  <2>. QED BY <1>1, <2>1 DEF Owned
<1>6. /\ Elements(turns[k])' = Elements(turns[k]) \cup Holds(k, t)
      /\ Distinct(turns[k])'
  <2>1. turns[k] \in Seq(Messages) /\ batch[k][t] \in Seq(Messages)
    BY <1>1 DEF Columns
  <2>2. Distinct(turns[k]) /\ Distinct(batch[k][t])
    BY <1>1 DEF Owned
  <2>. QED BY <1>2, <1>5, <2>1, <2>2, Concatenate DEF Holds
<1>7. Owned(k)'
  <2>1. Elements(turns[k]) = UNION {Holds(k, u) : u \in Past(k)}
    BY <1>1 DEF Owned
  <2>2. UNION {Holds(k, u)' : u \in Past(k)'}
          = (UNION {Holds(k, u) : u \in Past(k)}) \cup Holds(k, t)
    <3>1. ASSUME NEW x \in UNION {Holds(k, u)' : u \in Past(k)'}
          PROVE  x \in (UNION {Holds(k, u) : u \in Past(k)}) \cup Holds(k, t)
      BY <1>3, <1>4 DEF Past
    <3>2. ASSUME NEW x \in (UNION {Holds(k, u) : u \in Past(k)}) \cup Holds(k, t)
          PROVE  x \in UNION {Holds(k, u)' : u \in Past(k)'}
      BY <1>3, <1>4 DEF Past
    <3>. QED BY <3>1, <3>2
  <2>3. Elements(turns[k])' = UNION {Holds(k, u)' : u \in Past(k)'} /\ Distinct(turns[k])'
    BY <1>6, <2>1, <2>2
  <2>4. \A u \in Messages :
          /\ Distinct(batch[k][u])' /\ Holds(k, u)' \subseteq 1 .. accepted'[k]
          /\ Holds(k, u)' \cap Elements(group[k])' = {}
          /\ timers'[k][u] \in {"unset", "armed", "fired"} => Holds(k, u)' = {}
    BY <1>1, <1>2, <1>3 DEF Owned
  <2>5. \A u, v \in Messages : u # v => Holds(k, u)' \cap Holds(k, v)' = {}
    BY <1>1, <1>3 DEF Owned
  <2>6. Distinct(group[k])' /\ Elements(group[k])' \subseteq 1 .. accepted'[k]
    BY <1>1, <1>2 DEF Owned
  <2>. QED BY <2>3, <2>4, <2>5, <2>6 DEF Owned
<1>8. Covered(k)'
  <2>1. {Holds(k, u)' : u \in Messages} = {Holds(k, u) : u \in Messages}
    BY <1>3
  <2>. QED BY <1>1, <1>2, <2>1 DEF Covered
<1>9. Attended(k)' /\ Newer(k)'
  <2>1. group[k] # <<>> => timer[k] \in Messages
    BY <1>1, MessagesAssumption DEF Attended, Columns, Messages, NoTimer
  <2>. QED BY <1>1, <1>2, <1>3, <2>1 DEF Attended, Newer
<1>. QED BY <1>7, <1>8, <1>9 DEF KeyInOrder

LEMMA EndTurnInOrder ==
  ASSUME InOrder, NEW k \in Keys, NEW t \in Messages, EndTurn(k, t)
  PROVE  KeyInOrder(k)'
<1>1. KeyInOrder(k) /\ Columns /\ Attended(k) /\ Owned(k) /\ Covered(k) /\ Newer(k)
  BY DEF InOrder, Sound, KeyInOrder
<1>2. /\ accepted' = accepted /\ stop' = stop /\ known' = known /\ group' = group
      /\ timer' = timer /\ batch' = batch /\ turns' = turns
      /\ timers[k][t] = "turn" /\ timers'[k][t] = "over"
      /\ \A u \in Messages : u # t => timers'[k][u] = timers[k][u]
  BY <1>1 DEF EndTurn, groupVars, Columns
<1>3. Past(k)' = Past(k) /\ \A u \in Messages : Holds(k, u)' = Holds(k, u)
  BY <1>2 DEF Holds, Past
<1>4. Owned(k)'
  <2>1. {Holds(k, u)' : u \in Past(k)'} = {Holds(k, u) : u \in Past(k)}
    BY <1>3 DEF Past
  <2>2. UNION {Holds(k, u)' : u \in Past(k)'} = UNION {Holds(k, u) : u \in Past(k)}
    BY <2>1
  <2>. QED BY <1>1, <1>2, <1>3, <2>2 DEF Owned
<1>5. Covered(k)'
  <2>1. {Holds(k, u)' : u \in Messages} = {Holds(k, u) : u \in Messages}
    BY <1>3
  <2>. QED BY <1>1, <1>2, <2>1 DEF Covered
<1>6. Attended(k)' /\ Newer(k)'
  <2>1. group[k] # <<>> => timer[k] \in Messages
    BY <1>1, MessagesAssumption DEF Attended, Columns, Messages, NoTimer
  <2>. QED BY <1>1, <1>2, <1>3, <2>1 DEF Attended, Newer
<1>. QED BY <1>4, <1>5, <1>6 DEF KeyInOrder

(* Stop hands a group over to a goroutine, with its timer's place.         *)
LEMMA StopGroupsInOrder ==
  ASSUME InOrder, NEW k \in Keys, StopGroups
  PROVE  KeyInOrder(k)'
<1> DEFINE Pending(t) == t = timer[k] /\ timers[k][t] = "armed"
<1>1. KeyInOrder(k) /\ Columns /\ Attended(k) /\ Owned(k) /\ Covered(k) /\ Newer(k)
  BY DEF InOrder, Sound, KeyInOrder
<1>2. /\ accepted' = accepted /\ turns' = turns /\ known' = accepted
      /\ stop' = "waiting" /\ group'[k] = <<>>
      /\ \A t \in Messages : IF Pending(t)
           THEN timers'[k][t] = "waiting" /\ batch'[k][t] = group[k]
           ELSE timers'[k][t] = timers[k][t] /\ batch'[k][t] = batch[k][t]
  BY <1>1 DEF StopGroups, Columns
<1>3. \A t \in Messages : IF Pending(t)
        THEN Holds(k, t)' = Elements(group[k]) /\ Holds(k, t) = {}
        ELSE Holds(k, t)' = Holds(k, t)
  BY <1>1, <1>2 DEF Holds, Owned
<1>4. Past(k)' = Past(k) /\ \A t \in Past(k) : ~Pending(t)
  BY <1>2 DEF Past
<1>5. Elements(group[k])' = {} /\ Distinct(group[k])'
  BY <1>2, EmptyElements
<1>6. Owned(k)'
  <2>1. {Holds(k, u)' : u \in Past(k)'} = {Holds(k, u) : u \in Past(k)}
    BY <1>3, <1>4 DEF Past
  <2>2. UNION {Holds(k, u)' : u \in Past(k)'} = UNION {Holds(k, u) : u \in Past(k)}
    BY <2>1
  <2>3. \A u \in Messages :
          /\ Distinct(batch[k][u])' /\ Holds(k, u)' \subseteq 1 .. accepted'[k]
          /\ Holds(k, u)' \cap Elements(group[k])' = {}
          /\ timers'[k][u] \in {"unset", "armed", "fired"} => Holds(k, u)' = {}
    BY <1>1, <1>2, <1>3, <1>5 DEF Owned
  <2>4. \A u, v \in Messages : u # v => Holds(k, u)' \cap Holds(k, v)' = {}
    <3>1. \A u \in Messages : Holds(k, u) \cap Elements(group[k]) = {}
      BY <1>1 DEF Owned
    <3>2. \A u, v \in Messages : u # v => Holds(k, u) \cap Holds(k, v) = {}
      BY <1>1 DEF Owned
    <3>3. \A u, v \in Messages : Pending(u) /\ Pending(v) => u = v
      OBVIOUS
    <3>. HIDE DEF Pending
    <3>. QED BY <1>3, <3>1, <3>2, <3>3
  <2>5. Distinct(turns[k])'
          /\ Elements(turns[k])' = UNION {Holds(k, u)' : u \in Past(k)'}
    BY <1>1, <1>2, <2>2 DEF Owned
  <2>6. Elements(group[k])' \subseteq 1 .. accepted'[k]
    BY <1>5
  <2>. QED BY <1>5, <2>3, <2>4, <2>5, <2>6 DEF Owned
<1>7. Covered(k)' /\ Attended(k)' /\ Newer(k)'
  BY <1>2, <1>5 DEF Covered, Attended, Newer
<1>. QED BY <1>6, <1>7 DEF KeyInOrder

-----------------------------------------------------------------------------
(* 4. The wait group.                                                      *)

Live == {p \in Keys \X Messages : timers[p[1]][p[2]] \in Callbacks}

Balanced == wg = Cardinality(Live)

LEMMA LiveFinite == IsFiniteSet(Keys \X Messages) /\ IsFiniteSet(Live)
<1>1. IsFiniteSet(Messages)
  BY FS_Interval, MessagesAssumption DEF Messages
<1>2. IsFiniteSet(Keys \X Messages)
  BY <1>1, FS_Product, KeysAssumption
<1>3. Live \subseteq Keys \X Messages
  BY DEF Live
<1>. QED BY <1>2, <1>3, FS_Subset

LEMMA OneTimer ==
  ASSUME Sound, NEW k \in Keys, NEW t \in Messages, NEW s,
         timers' = [timers EXCEPT ![k][t] = s]
  PROVE  /\ timers'[k][t] = s
         /\ \A e \in Keys, u \in Messages :
              <<e, u>> # <<k, t>> => timers'[e][u] = timers[e][u]
<1>1. timers \in [Keys -> [Messages -> TimerState]]
  BY DEF Sound, Columns
<1>2. ASSUME NEW e \in Keys, NEW u \in Messages, <<e, u>> # <<k, t>>
      PROVE  timers'[e][u] = timers[e][u]
  <2>1. e # k \/ u # t
    BY <1>2
  <2>. QED BY <1>1, <2>1
<1>. QED BY <1>1, <1>2

LEMMA LiveKept ==
  ASSUME Balanced, wg' = wg,
         \A k \in Keys, t \in Messages :
           timers'[k][t] \in Callbacks <=> timers[k][t] \in Callbacks
  PROVE  Balanced'
<1>1. Live' = Live
  BY DEF Live
<1>. QED BY <1>1 DEF Balanced

LEMMA OneMore ==
  ASSUME Balanced, NEW k \in Keys, NEW t \in Messages, wg' = wg + 1,
         timers[k][t] \notin Callbacks, timers'[k][t] \in Callbacks,
         \A e \in Keys, u \in Messages : <<e, u>> # <<k, t>> =>
           (timers'[e][u] \in Callbacks <=> timers[e][u] \in Callbacks)
  PROVE  Balanced'
<1>1. Live' = Live \cup {<<k, t>>} /\ <<k, t>> \notin Live
  BY DEF Live
<1>. QED BY <1>1, LiveFinite, FS_AddElement DEF Balanced

LEMMA OneLess ==
  ASSUME Balanced, NEW k \in Keys, NEW t \in Messages, wg' = wg - 1,
         timers[k][t] \in Callbacks, timers'[k][t] \notin Callbacks,
         \A e \in Keys, u \in Messages : <<e, u>> # <<k, t>> =>
           (timers'[e][u] \in Callbacks <=> timers[e][u] \in Callbacks)
  PROVE  Balanced'
<1>1. Live' = Live \ {<<k, t>>} /\ <<k, t>> \in Live
  BY DEF Live
<1>. QED BY <1>1, LiveFinite, FS_RemoveElement DEF Balanced

(* A stopped timer's credit passes to the one that replaces it.            *)
LEMMA Replaced ==
  ASSUME Balanced, NEW k \in Keys, NEW t \in Messages, NEW m \in Messages,
         wg' = wg, t # m,
         timers[k][t] \in Callbacks, timers'[k][t] \notin Callbacks,
         timers[k][m] \notin Callbacks, timers'[k][m] \in Callbacks,
         \A e \in Keys, u \in Messages : <<e, u>> # <<k, t>> /\ <<e, u>> # <<k, m>> =>
           (timers'[e][u] \in Callbacks <=> timers[e][u] \in Callbacks)
  PROVE  Balanced'
<1> DEFINE rest == Live \ {<<k, t>>}
<1>1. /\ Live' = rest \cup {<<k, m>>} /\ <<k, t>> \in Live
      /\ <<k, m>> \notin rest
  BY DEF Live
<1>2. IsFiniteSet(rest) /\ Cardinality(rest) = Cardinality(Live) - 1
  BY <1>1, LiveFinite, FS_RemoveElement
<1>3. Cardinality(rest \cup {<<k, m>>}) = Cardinality(rest) + 1
  BY <1>1, <1>2, FS_AddElement
<1>4. Cardinality(Live) \in Nat
  BY LiveFinite, FS_CardinalityType
<1>. QED BY <1>1, <1>2, <1>3, <1>4 DEF Balanced

LEMMA InitBalanced == Init => Balanced
<1>. SUFFICES ASSUME Init PROVE Balanced
  OBVIOUS
<1>1. Live = {}
  BY DEF Live, Init, Callbacks
<1>. QED BY <1>1, FS_EmptySet DEF Balanced, Init

LEMMA AddMessageBalanced ==
  ASSUME Sound, Balanced, NEW k \in Keys, AddMessage(k)
  PROVE  Balanced'
<1> DEFINE m == accepted[k] + 1
<1>1. m \in Messages /\ accepted[k] \in Nat /\ m > accepted[k]
  BY NextMessage DEF AddMessage
<1>2. /\ timers'[k] = Restart(k, m) /\ wg' = CreditAfterAdd(k)
      /\ \A e \in Keys : e # k => timers'[e] = timers[e]
  BY DEF AddMessage, Sound, Columns
<1>3. timers[k][m] = "unset"
  BY <1>1 DEF Sound, Numbered
<1>4. /\ timers'[k][m] = "armed"
      /\ \A t \in Messages : t # m =>
           IF t = timer[k] /\ timers[k][t] = "armed" THEN timers'[k][t] = "over"
           ELSE timers'[k][t] = timers[k][t]
  BY <1>1, <1>2, Restarted DEF Sound
<1>5. "armed" \in Callbacks /\ "over" \notin Callbacks /\ "unset" \notin Callbacks
  BY DEF Callbacks
<1>6. CASE Stoppable(k)
  <2>1. timer[k] \in Messages /\ timers[k][timer[k]] = "armed" /\ timer[k] # m
    BY <1>3, <1>6, MessagesAssumption DEF Stoppable, Sound, Columns, NoTimer, Messages
  <2>2. timers'[k][timer[k]] = "over" /\ wg' = wg
    BY <1>2, <1>4, <1>6, <2>1 DEF CreditAfterAdd
  <2>. QED BY <1>1, <1>2, <1>3, <1>4, <1>5, <2>1, <2>2, Replaced
<1>7. CASE ~Stoppable(k)
  <2>1. \A t \in Messages : ~(t = timer[k] /\ timers[k][t] = "armed")
    BY <1>7 DEF Stoppable, NoTimer, Messages
  <2>2. wg' = wg + 1
    BY <1>2, <1>7 DEF CreditAfterAdd
  <2>. QED BY <1>1, <1>2, <1>3, <1>4, <1>5, <2>1, <2>2, OneMore
<1>. QED BY <1>6, <1>7

LEMMA StepBalanced ==
  ASSUME Sound, Balanced, [Next]_vars
  PROVE  Balanced'
<1>1. CASE UNCHANGED vars
  BY <1>1, LiveKept DEF vars, callbackVars
<1>2. ASSUME NEW k \in Keys, Receive(k) PROVE Balanced'
  BY <1>2, LiveKept DEF Receive, callbackVars
<1>3. ASSUME NEW k \in Keys, AddMessage(k) PROVE Balanced'
  BY <1>3, AddMessageBalanced
<1>4. ASSUME NEW k \in Keys, NEW t \in Messages,
             Fire(k, t) \/ BeginTurn(k, t) \/ (TakeGroup(k, t) /\ group[k] # <<>>)
      PROVE  Balanced'
  <2>1. PICK s \in {"fired", "turn", "waiting"} : timers' = [timers EXCEPT ![k][t] = s]
    BY <1>4 DEF Fire, BeginTurn, TakeGroup
  <2>2. wg' = wg /\ timers[k][t] \in Callbacks /\ s \in Callbacks
    BY <1>4 DEF Fire, BeginTurn, TakeGroup, Callbacks
  <2>3. ASSUME NEW e \in Keys, NEW u \in Messages
        PROVE  timers'[e][u] \in Callbacks <=> timers[e][u] \in Callbacks
    <3>1. CASE <<e, u>> = <<k, t>>
      BY <2>1, <2>2, <3>1, OneTimer
    <3>2. CASE <<e, u>> # <<k, t>>
      BY <2>1, <3>2, OneTimer
    <3>. QED BY <3>1, <3>2
  <2>. QED BY <2>2, <2>3, LiveKept
<1>5. ASSUME NEW k \in Keys, NEW t \in Messages,
             EndTurn(k, t) \/ (TakeGroup(k, t) /\ group[k] = <<>>)
      PROVE  Balanced'
  <2>1. /\ timers' = [timers EXCEPT ![k][t] = "over"]
        /\ timers \in [Keys -> [Messages -> TimerState]]
    BY <1>5 DEF EndTurn, TakeGroup, Sound, Columns
  <2>2. timers'[k][t] = "over"
    BY <2>1
  <2>3. wg' = wg - 1 /\ timers[k][t] \in Callbacks /\ timers'[k][t] \notin Callbacks
    BY <1>5, <2>2 DEF EndTurn, TakeGroup, Callbacks
  <2>4. ASSUME NEW e \in Keys, NEW u \in Messages, <<e, u>> # <<k, t>>
        PROVE  timers'[e][u] \in Callbacks <=> timers[e][u] \in Callbacks
    <3>1. e # k \/ u # t
      BY <2>4
    <3>. QED BY <2>1, <3>1
  <2>. QED BY <2>3, <2>4, OneLess
<1>6. CASE StopGroups
  <2>1. /\ wg' = wg
        /\ \A k \in Keys, t \in Messages :
             IF t = timer[k] /\ timers[k][t] = "armed" THEN timers'[k][t] = "waiting"
             ELSE timers'[k][t] = timers[k][t]
    BY <1>6 DEF StopGroups
  <2>. QED BY <2>1, LiveKept DEF Callbacks
<1>7. CASE StopReturn \/ Exit
  BY <1>7, LiveKept DEF StopReturn, Exit, callbackVars
<1>. QED BY <1>1, <1>2, <1>3, <1>4, <1>5, <1>6, <1>7 DEF Next, Callback

(* Stop returns only when no callback is left.                             *)
LEMMA NoneLeft ==
  ASSUME Balanced, wg = 0
  PROVE  \A k \in Keys, t \in Messages : timers[k][t] \notin Callbacks
<1>1. Live = {}
  BY LiveFinite, FS_EmptySet DEF Balanced
<1>2. ASSUME NEW k \in Keys, NEW t \in Messages, timers[k][t] \in Callbacks
      PROVE  FALSE
  <2>1. <<k, t>> \in Live
    BY <1>2 DEF Live
  <2>. QED BY <1>1, <2>1
<1>. QED BY <1>2

-----------------------------------------------------------------------------
(* 5. The invariants.                                                      *)

Inv == InOrder /\ Balanced

LEMMA StopReturnInOrder ==
  ASSUME Inv, NEW k \in Keys, StopReturn
  PROVE  KeyInOrder(k)'
<1>1. /\ stop = "waiting" /\ stop' = "returned" /\ wg = 0
      /\ UNCHANGED <<accepted, group, timer, timers, batch, turns, known>>
  BY DEF StopReturn, NothingCounted, groupVars, callbackVars
<1>2. KeyInOrder(k)
  BY DEF Inv, InOrder
<1>3. \A t \in Messages : timers[k][t] \notin {"waiting", "turn"}
  BY <1>1, NoneLeft DEF Inv, Callbacks
<1>4. Past(k)' = Past(k) /\ \A t \in Messages : Holds(k, t)' = Holds(k, t)
  BY <1>1 DEF Past, Holds
<1>5. Owned(k)'
  <2>1. {Holds(k, u)' : u \in Past(k)'} = {Holds(k, u) : u \in Past(k)}
    BY <1>4 DEF Past
  <2>2. UNION {Holds(k, u)' : u \in Past(k)'} = UNION {Holds(k, u) : u \in Past(k)}
    BY <2>1
  <2>. QED BY <1>1, <1>2, <1>4, <2>2 DEF KeyInOrder, Owned
<1>6. Attended(k)' /\ Covered(k)' /\ Newer(k)'
  BY <1>1, <1>2, <1>3 DEF KeyInOrder, Attended, Covered, Newer
<1>. QED BY <1>5, <1>6 DEF KeyInOrder

LEMMA ExitInOrder ==
  ASSUME Inv, NEW k \in Keys, Exit
  PROVE  KeyInOrder(k)'
<1>1. /\ stop = "returned" /\ stop' = "exited"
      /\ UNCHANGED <<accepted, group, timer, timers, batch, turns, known>>
  BY DEF Exit, groupVars, callbackVars
<1>2. KeyInOrder(k)
  BY DEF Inv, InOrder
<1>3. Past(k)' = Past(k) /\ \A t \in Messages : Holds(k, t)' = Holds(k, t)
  BY <1>1 DEF Past, Holds
<1>4. Owned(k)'
  <2>1. {Holds(k, u)' : u \in Past(k)'} = {Holds(k, u) : u \in Past(k)}
    BY <1>3 DEF Past
  <2>2. UNION {Holds(k, u)' : u \in Past(k)'} = UNION {Holds(k, u) : u \in Past(k)}
    BY <2>1
  <2>. QED BY <1>1, <1>2, <1>3, <2>2 DEF KeyInOrder, Owned
<1>5. Attended(k)' /\ Covered(k)' /\ Newer(k)'
  BY <1>1, <1>2, <1>3 DEF KeyInOrder, Attended, Covered, Newer
<1>. QED BY <1>4, <1>5 DEF KeyInOrder

(* A step on key k leaves the others alone.                                *)
LEMMA OthersInOrder ==
  ASSUME InOrder, NEW k \in Keys, NEW e \in Keys, e # k,
         \/ AddMessage(k)
         \/ \E t \in Messages : Fire(k, t) \/ Callback(k, t)
  PROVE  KeyInOrder(e)'
<1>1. /\ stop' = stop /\ known' = known /\ accepted'[e] = accepted[e]
      /\ group'[e] = group[e] /\ timer'[e] = timer[e] /\ timers'[e] = timers[e]
      /\ batch'[e] = batch[e] /\ turns'[e] = turns[e]
  BY DEF AddMessage, Fire, Callback, TakeGroup, BeginTurn, EndTurn, groupVars, InOrder,
         Sound, Columns
<1>. QED BY <1>1, Untouched DEF InOrder

LEMMA StepInOrder ==
  ASSUME Inv, [Next]_vars, NEW e \in Keys
  PROVE  KeyInOrder(e)'
<1>1. CASE UNCHANGED vars \/ \E k \in Keys : Receive(k)
  BY <1>1, Untouched DEF vars, Receive, groupVars, callbackVars, Inv, InOrder
<1>2. ASSUME NEW k \in Keys, AddMessage(k) PROVE KeyInOrder(e)'
  BY <1>2, AddMessageInOrder, OthersInOrder DEF Inv
<1>3. ASSUME NEW k \in Keys, NEW t \in Messages, Fire(k, t) PROVE KeyInOrder(e)'
  BY <1>3, FireInOrder, OthersInOrder DEF Inv
<1>4. ASSUME NEW k \in Keys, NEW t \in Messages, Callback(k, t) PROVE KeyInOrder(e)'
  <2>1. CASE e # k
    BY <1>4, <2>1, OthersInOrder DEF Inv
  <2>2. CASE e = k
    BY <1>4, <2>2, TakeGroupInOrder, BeginTurnInOrder, EndTurnInOrder DEF Inv, Callback
  <2>. QED BY <2>1, <2>2
<1>5. CASE StopGroups
  BY <1>5, StopGroupsInOrder DEF Inv
<1>6. CASE StopReturn \/ Exit
  BY <1>6, StopReturnInOrder, ExitInOrder
<1>. QED BY <1>1, <1>2, <1>3, <1>4, <1>5, <1>6 DEF Next

LEMMA Invariance == Spec => []Inv
<1>1. Init => Inv
  BY InitInOrder, InitBalanced DEF Inv
<1>2. Inv /\ [Next]_vars => Inv'
  <2>. SUFFICES ASSUME Inv, [Next]_vars PROVE Inv'
    OBVIOUS
  <2>1. Sound' /\ Balanced'
    BY StepSound, StepBalanced DEF Inv, InOrder
  <2>. QED BY <2>1, StepInOrder DEF Inv, InOrder
<1>. QED BY <1>1, <1>2, PTL DEF Spec

(* Every column keeps to its domain: message_grouper.go never numbers a     *)
(* timer it did not start, and the wait group is never negative, which      *)
(* would panic.                                                            *)
THEOREM TypeCorrect == Spec => []TypeOK
<1>1. Inv => TypeOK
  <2>. SUFFICES ASSUME Inv PROVE TypeOK
    OBVIOUS
  <2>1. wg \in Nat
    BY LiveFinite, FS_CardinalityType DEF Inv, Balanced
  <2>. QED BY <2>1 DEF TypeOK, Inv, InOrder, Sound, Columns
<1>. QED BY <1>1, Invariance, PTL

(* Add at a timer's start and Done at its stop, at its callback's end or in *)
(* Stop's goroutine (message_grouper.go:114-138, 166-196) always balance.   *)
THEOREM WaitGroupIsExact == Spec => []WaitGroupBalanced
<1>1. Inv => WaitGroupBalanced
  BY DEF Inv, Balanced, Live, WaitGroupBalanced
<1>. QED BY <1>1, Invariance, PTL

(* No message is lost while the bot runs, and none is taken twice or given  *)
(* two turns, however callbacks, new messages and Stop race for the group.  *)
THEOREM OneBatchEach == Spec => []InOneBatch
<1>1. Inv => InOneBatch
  BY DEF Inv, InOrder, KeyInOrder, Owned, Covered, Holds, Distinct, InOneBatch
<1>. QED BY <1>1, Invariance, PTL

(* The callback of a replaced timer may take the group and clear its timer, *)
(* yet no group is left without a callback that will come for it.          *)
THEOREM GroupAlwaysAttended == Spec => []GroupIsAttended
<1>1. Inv => GroupIsAttended
  BY DEF Inv, InOrder, KeyInOrder, Attended, GroupIsAttended
<1>. QED BY <1>1, Invariance, PTL

(* Stop returns to Bot.Stop only when the turns it knew of are over.       *)
THEOREM StopWaitsForTurns == Spec => []TurnsEndBeforeStopReturns
<1>1. Inv => TurnsEndBeforeStopReturns
  BY DEF Inv, InOrder, KeyInOrder, Newer, Holds, TurnsEndBeforeStopReturns
<1>. QED BY <1>1, Invariance, PTL
-----------------------------------------------------------------------------
(* 6. The contract.  A group is the run of messages that ends with the last *)
(* one accepted; a batch, once a group, is a run; one callback at a time is  *)
(* in its turn.                                                            *)

IsRun(s) == \A i \in DOMAIN s : s[i] = s[1] + i - 1
EndsAt(s, n) == \A i \in DOMAIN s : s[i] = n - Len(s) + i

KeyInRuns(k) ==
  /\ EndsAt(group[k], accepted[k])
  /\ group[k] = <<>> => timer[k] = NoTimer
  /\ \A t \in Messages :
       /\ IsRun(batch[k][t])
       /\ timers[k][t] \in {"waiting", "turn"} => batch[k][t] # <<>>
  /\ \A t, u \in InTurn(k) : t = u

InRuns == \A k \in Keys : KeyInRuns(k)

LEMMA EndingIsRun ==
  ASSUME NEW s \in Seq(Messages), NEW n \in Nat, EndsAt(s, n)
  PROVE  /\ IsRun(s)
         /\ Elements(s) = {m \in 1 .. n : m > n - Len(s)}
<1>1. DOMAIN s = 1 .. Len(s) /\ Len(s) \in Nat /\ \A i \in 1 .. Len(s) : s[i] \in Messages
  OBVIOUS
<1>2. IsRun(s)
  <2>. SUFFICES ASSUME NEW i \in 1 .. Len(s) PROVE s[i] = s[1] + i - 1
    BY <1>1 DEF IsRun
  <2>1. 1 \in 1 .. Len(s)
    BY <1>1
  <2>. QED BY <1>1, <2>1 DEF EndsAt
<1>3. ASSUME NEW m \in Elements(s) PROVE m \in 1 .. n /\ m > n - Len(s)
  <2>1. PICK i \in 1 .. Len(s) : m = s[i]
    BY <1>1 DEF Elements
  <2>2. m = n - Len(s) + i /\ m \in Messages
    BY <1>1, <2>1 DEF EndsAt
  <2>. QED BY <1>1, <2>2, MessagesAssumption DEF Messages
<1>4. ASSUME NEW m \in 1 .. n, m > n - Len(s) PROVE m \in Elements(s)
  <2>1. m - (n - Len(s)) \in 1 .. Len(s)
    BY <1>1, <1>4
  <2>2. s[m - (n - Len(s))] = m
    BY <1>1, <2>1 DEF EndsAt
  <2>. QED BY <1>1, <2>1, <2>2 DEF Elements
<1>. QED BY <1>2, <1>3, <1>4

LEMMA RunIsInterval ==
  ASSUME NEW s \in Seq(Messages), s # <<>>, IsRun(s)
  PROVE  /\ s[1] \in Elements(s) /\ s[Len(s)] \in Elements(s)
         /\ s[1] \in Messages /\ s[Len(s)] \in Messages /\ s[1] <= s[Len(s)]
         /\ Elements(s) = s[1] .. s[Len(s)]
         /\ s = Turns!Run(s[1], s[Len(s)])
<1> DEFINE n == Len(s)
           a == s[1]
           b == s[Len(s)]
<1>1. DOMAIN s = 1 .. n /\ n \in Nat \ {0} /\ \A i \in 1 .. n : s[i] \in Messages
  OBVIOUS
<1>2. /\ 1 \in 1 .. n /\ n \in 1 .. n /\ a \in Messages /\ b \in Messages
      /\ a \in Int /\ b \in Int /\ b = a + n - 1
  BY <1>1, MessagesAssumption DEF IsRun, Messages
<1>3. a <= b /\ b - a + 1 = n
  BY <1>1, <1>2
<1>4. Elements(s) = a .. b
  <2>1. ASSUME NEW m \in Elements(s) PROVE m \in a .. b
    <3>1. PICK i \in 1 .. n : m = s[i]
      BY <1>1 DEF Elements
    <3>2. m = a + i - 1
      BY <1>1, <3>1 DEF IsRun
    <3>. QED BY <1>1, <1>2, <3>2
  <2>2. ASSUME NEW m \in a .. b PROVE m \in Elements(s)
    <3>1. m - a + 1 \in 1 .. n /\ a + (m - a + 1) - 1 = m
      BY <1>1, <1>2
    <3>2. s[m - a + 1] = m
      BY <1>1, <3>1 DEF IsRun
    <3>. QED BY <1>1, <3>1, <3>2 DEF Elements
  <2>. QED BY <2>1, <2>2
<1>5. s = Turns!Run(a, b)
  <2>1. s = [i \in 1 .. n |-> s[i]]
    BY <1>1
  <2>2. \A i \in 1 .. n : s[i] = a + i - 1
    BY <1>1 DEF IsRun
  <2>. QED BY <1>3, <2>1, <2>2 DEF Turns!Run
<1>. QED BY <1>1, <1>2, <1>3, <1>4, <1>5 DEF Elements

LEMMA InitInRuns == Init => InRuns
BY MessagesAssumption DEF Init, InRuns, KeyInRuns, EndsAt, IsRun, InTurn

LEMMA RunsUntouched ==
  ASSUME NEW k \in Keys, KeyInRuns(k),
         accepted'[k] = accepted[k], group'[k] = group[k], timer'[k] = timer[k],
         timers'[k] = timers[k], batch'[k] = batch[k]
  PROVE  KeyInRuns(k)'
BY DEF KeyInRuns, InTurn

LEMMA AddMessageInRuns ==
  ASSUME Inv, InRuns, NEW k \in Keys, AddMessage(k)
  PROVE  KeyInRuns(k)'
<1> DEFINE m == accepted[k] + 1
           g == group[k]
<1>1. /\ m \in Messages /\ accepted[k] \in Nat /\ m > accepted[k]
  BY NextMessage DEF AddMessage, Inv, InOrder
<1>2. /\ accepted'[k] = m /\ group'[k] = Append(g, m) /\ timer'[k] = m
      /\ timers'[k] = Restart(k, m) /\ batch' = batch
  BY DEF AddMessage, Inv, InOrder, Sound, Columns
<1>3. \A t \in Messages : timers'[k][t] \in {"waiting", "turn"} <=>
                            timers[k][t] \in {"waiting", "turn"}
  <2>1. timers[k][m] = "unset"
    BY <1>1 DEF Inv, InOrder, Sound, Numbered
  <2>. QED BY <1>1, <1>2, <2>1, Restarted DEF Inv, InOrder, Sound
<1>4. InTurn(k)' = InTurn(k)
  <2>1. timers[k][m] = "unset"
    BY <1>1 DEF Inv, InOrder, Sound, Numbered
  <2>. QED BY <1>1, <1>2, <2>1, Restarted DEF Inv, InOrder, Sound, InTurn
<1>5. EndsAt(Append(g, m), m)
  <2>1. g \in Seq(Messages) /\ EndsAt(g, accepted[k])
    BY DEF Inv, InOrder, Sound, Columns, InRuns, KeyInRuns
  <2>2. /\ Len(Append(g, m)) = Len(g) + 1 /\ Len(g) \in Nat
        /\ DOMAIN Append(g, m) = 1 .. Len(g) + 1
        /\ Append(g, m)[Len(g) + 1] = m
        /\ \A i \in 1 .. Len(g) : Append(g, m)[i] = g[i]
    BY <1>1, <2>1
  <2>3. ASSUME NEW i \in 1 .. Len(g) + 1
        PROVE  Append(g, m)[i] = m - (Len(g) + 1) + i
    <3>1. CASE i = Len(g) + 1
      BY <1>1, <2>2, <3>1
    <3>2. CASE i \in 1 .. Len(g)
      BY <1>1, <2>1, <2>2, <3>2 DEF EndsAt
    <3>. QED BY <2>2, <3>1, <3>2
  <2>. QED BY <2>2, <2>3 DEF EndsAt
<1>6. Append(g, m) # <<>>
  <2>1. g \in Seq(Messages)
    BY DEF Inv, InOrder, Sound, Columns
  <2>. QED BY <1>1, <2>1
<1>. QED BY <1>2, <1>3, <1>4, <1>5, <1>6 DEF InRuns, KeyInRuns

(* What a callback's step on its own key leaves as it was.                  *)
LEMMA CallbackInRuns ==
  ASSUME Inv, InRuns, NEW k \in Keys, NEW t \in Messages, Fire(k, t) \/ Callback(k, t)
  PROVE  KeyInRuns(k)'
<1>1. /\ KeyInRuns(k) /\ timers \in [Keys -> [Messages -> TimerState]]
      /\ batch \in [Keys -> [Messages -> Seq(Messages)]]
      /\ group \in [Keys -> Seq(Messages)] /\ timer \in [Keys -> 0 .. MaxMessages]
      /\ accepted[k] \in Nat
  BY MessagesAssumption DEF InRuns, Inv, InOrder, Sound, Columns
<1>2. ASSUME NEW s \in TimerState, timers' = [timers EXCEPT ![k][t] = s]
      PROVE  timers'[k][t] = s /\ \A u \in Messages : u # t => timers'[k][u] = timers[k][u]
  BY <1>1, <1>2
<1>3. CASE Fire(k, t) \/ EndTurn(k, t) \/ (TakeGroup(k, t) /\ group[k] = <<>>)
  <2>1. PICK s \in {"fired", "over"} : timers' = [timers EXCEPT ![k][t] = s]
    BY <1>3 DEF Fire, EndTurn, TakeGroup
  <2>2. /\ timers'[k][t] \notin {"waiting", "turn"}
        /\ \A u \in Messages : u # t => timers'[k][u] = timers[k][u]
    BY <1>2, <2>1 DEF TimerState
  <2>3. /\ accepted' = accepted /\ group' = group /\ timer' = timer /\ batch' = batch
    BY <1>3 DEF Fire, EndTurn, TakeGroup, groupVars
  <2>4. InTurn(k)' \subseteq InTurn(k)
    BY <2>2 DEF InTurn
  <2>. QED BY <1>1, <2>2, <2>3, <2>4 DEF KeyInRuns
<1>4. CASE TakeGroup(k, t) /\ group[k] # <<>>
  <2>1. /\ timers'[k][t] = "waiting"
        /\ \A u \in Messages : u # t => timers'[k][u] = timers[k][u]
    BY <1>2, <1>4 DEF TakeGroup, TimerState
  <2>2. /\ batch'[k][t] = group[k]
        /\ \A u \in Messages : u # t => batch'[k][u] = batch[k][u]
        /\ group'[k] = <<>> /\ timer'[k] = NoTimer /\ accepted' = accepted
    BY <1>1, <1>4 DEF TakeGroup, LeftInGroup
  <2>3. IsRun(group[k])
    BY <1>1, EndingIsRun DEF KeyInRuns
  <2>4. EndsAt(group'[k], accepted'[k])
    BY <2>2 DEF EndsAt
  <2>5. InTurn(k)' \subseteq InTurn(k)
    BY <2>1 DEF InTurn
  <2>. QED BY <1>1, <1>4, <2>1, <2>2, <2>3, <2>4, <2>5 DEF KeyInRuns
<1>5. CASE BeginTurn(k, t)
  <2>1. /\ timers'[k][t] = "turn" /\ timers[k][t] = "waiting" /\ InTurn(k) = {}
        /\ \A u \in Messages : u # t => timers'[k][u] = timers[k][u]
    BY <1>2, <1>5 DEF BeginTurn, LockFree, TimerState
  <2>2. accepted' = accepted /\ group' = group /\ timer' = timer /\ batch' = batch
    BY <1>5 DEF BeginTurn, LockFree, groupVars
  <2>3. InTurn(k)' = {t}
    BY <2>1 DEF InTurn
  <2>. QED BY <1>1, <2>1, <2>2, <2>3 DEF KeyInRuns
<1>. QED BY <1>3, <1>4, <1>5 DEF Callback

LEMMA StopGroupsInRuns ==
  ASSUME Inv, InRuns, NEW k \in Keys, StopGroups
  PROVE  KeyInRuns(k)'
<1> DEFINE Stopped(t) == t = timer[k] /\ timers[k][t] = "armed"
<1>1. /\ KeyInRuns(k) /\ group[k] \in Seq(Messages) /\ accepted[k] \in Nat
      /\ \A t \in Messages : timers[k][t] \in TimerState
  BY MessagesAssumption DEF InRuns, Inv, InOrder, Sound, Columns
<1>2. /\ accepted' = accepted /\ group'[k] = <<>> /\ timer'[k] = NoTimer
      /\ \A t \in Messages : IF Stopped(t)
           THEN timers'[k][t] = "waiting" /\ batch'[k][t] = group[k]
           ELSE timers'[k][t] = timers[k][t] /\ batch'[k][t] = batch[k][t]
  BY DEF StopGroups
<1>3. IsRun(group[k])
  BY <1>1, EndingIsRun DEF KeyInRuns
<1>4. \A t \in Messages : Stopped(t) => group[k] # <<>>
  BY <1>1 DEF KeyInRuns, Messages, NoTimer
<1>5. EndsAt(group'[k], accepted'[k])
  BY <1>2 DEF EndsAt
<1>6. InTurn(k)' = InTurn(k)
  BY <1>2 DEF InTurn
<1>7. \A t \in Messages : (IsRun(batch[k][t]))'
  BY <1>1, <1>2, <1>3 DEF KeyInRuns
<1>8. \A t \in Messages : timers'[k][t] \in {"waiting", "turn"} => batch'[k][t] # <<>>
  BY <1>1, <1>2, <1>4 DEF KeyInRuns
<1>. QED BY <1>1, <1>2, <1>5, <1>6, <1>7, <1>8 DEF KeyInRuns

LEMMA StepInRuns ==
  ASSUME Inv, InRuns, [Next]_vars
  PROVE  InRuns'
<1>. SUFFICES ASSUME NEW e \in Keys PROVE KeyInRuns(e)'
  BY DEF InRuns
<1>0. KeyInRuns(e)
  BY DEF InRuns
<1>1. CASE UNCHANGED vars \/ StopReturn \/ Exit \/ \E k \in Keys : Receive(k)
  BY <1>0, <1>1, RunsUntouched
     DEF vars, StopReturn, Exit, Receive, groupVars, callbackVars
<1>2. ASSUME NEW k \in Keys,
             AddMessage(k) \/ \E t \in Messages : Fire(k, t) \/ Callback(k, t)
      PROVE  KeyInRuns(e)'
  <2>1. CASE e = k
    BY <1>2, <2>1, AddMessageInRuns, CallbackInRuns
  <2>2. CASE e # k
    <3>1. /\ accepted'[e] = accepted[e] /\ group'[e] = group[e] /\ timer'[e] = timer[e]
          /\ timers'[e] = timers[e] /\ batch'[e] = batch[e]
      BY <1>2, <2>2 DEF AddMessage, Fire, Callback, TakeGroup, BeginTurn, EndTurn,
         groupVars, Inv, InOrder, Sound, Columns
    <3>. QED BY <1>0, <3>1, RunsUntouched
  <2>. QED BY <2>1, <2>2
<1>3. CASE StopGroups
  BY <1>3, StopGroupsInRuns
<1>. QED BY <1>1, <1>2, <1>3 DEF Next

LEMMA RunsInvariance == Spec => [](Inv /\ InRuns)
<1>1. Init => InRuns
  BY InitInRuns
<1>2. Inv /\ InRuns /\ [Next]_vars => InRuns'
  BY StepInRuns
<1>. QED BY <1>1, <1>2, Invariance, PTL DEF Spec

(* The refinement.  What the contract sees of a key.                        *)
DueOf == [k \in Keys |-> Due(k)]
TurnOf == [k \in Keys |-> UnderWay(k)]

(* Only the callbacks that wait and the one in its turn are seen.           *)
LEMMA SeenAlike ==
  ASSUME NEW k \in Keys, Waiting(k)' = Waiting(k), InTurn(k)' = InTurn(k),
         \A t \in Waiting(k) \cup InTurn(k) : batch'[k][t] = batch[k][t]
  PROVE  /\ Elements(group[k])' = Elements(group[k]) => Due(k)' = Due(k)
         /\ UnderWay(k)' = UnderWay(k)
<1>1. UNION {Elements(batch[k][t]) : t \in Waiting(k)}'
        = UNION {Elements(batch[k][t]) : t \in Waiting(k)}
  BY DEF Elements
<1>2. UnderWay(k)' = UnderWay(k)
  <2>1. InTurn(k) # {} => (CHOOSE t \in InTurn(k) : TRUE) \in InTurn(k)
    OBVIOUS
  <2>. QED BY <2>1 DEF UnderWay
<1>. QED BY <1>1, <1>2 DEF Due

LEMMA SeenOfOthers ==
  ASSUME Inv, NEW k \in Keys, NEW e \in Keys, e # k,
         AddMessage(k) \/ \E t \in Messages : Fire(k, t) \/ Callback(k, t)
  PROVE  /\ Due(e)' = Due(e) /\ UnderWay(e)' = UnderWay(e)
         /\ accepted'[e] = accepted[e] /\ turns'[e] = turns[e]
<1>1. /\ group'[e] = group[e] /\ timers'[e] = timers[e] /\ batch'[e] = batch[e]
      /\ accepted'[e] = accepted[e] /\ turns'[e] = turns[e]
  BY DEF AddMessage, Fire, Callback, TakeGroup, BeginTurn, EndTurn, groupVars, Inv,
     InOrder, Sound, Columns
<1>2. Waiting(e)' = Waiting(e) /\ InTurn(e)' = InTurn(e)
  BY <1>1 DEF Waiting, InTurn
<1>. QED BY <1>1, <1>2, SeenAlike

(* A step that shows nothing of one key shows nothing at all.               *)
LEMMA Unseen ==
  ASSUME Inv, accepted' = accepted, turns' = turns, Phase' = Phase,
         \A e \in Keys : Due(e)' = Due(e) /\ UnderWay(e)' = UnderWay(e)
  PROVE  UNCHANGED Turns!vars
<1>1. DueOf' = DueOf /\ TurnOf' = TurnOf
  BY DEF DueOf, TurnOf
<1>. QED BY <1>1 DEF Turns!vars, DueOf, TurnOf

LEMMA FireUnseen ==
  ASSUME Inv, NEW k \in Keys, NEW t \in Messages,
         Fire(k, t) \/ (TakeGroup(k, t) /\ group[k] = <<>>)
  PROVE  UNCHANGED Turns!vars
<1>1. timers \in [Keys -> [Messages -> TimerState]]
  BY DEF Inv, InOrder, Sound, Columns
<1>2. /\ timers[k][t] \in {"armed", "fired"} /\ timers'[k][t] \in {"fired", "over"}
      /\ \A u \in Messages : u # t => timers'[k][u] = timers[k][u]
      /\ group' = group /\ batch' = batch
      /\ accepted' = accepted /\ turns' = turns /\ stop' = stop
  BY <1>1 DEF Fire, TakeGroup, groupVars
<1>3. Waiting(k)' = Waiting(k) /\ InTurn(k)' = InTurn(k)
  BY <1>2 DEF Waiting, InTurn
<1>4. Due(k)' = Due(k) /\ UnderWay(k)' = UnderWay(k)
  BY <1>2, <1>3, SeenAlike
<1>. QED BY <1>2, <1>4, SeenOfOthers, Unseen DEF Callback, Phase

LEMMA TakeGroupUnseen ==
  ASSUME Inv, NEW k \in Keys, NEW t \in Messages, TakeGroup(k, t), group[k] # <<>>
  PROVE  UNCHANGED Turns!vars
<1>1. /\ timers \in [Keys -> [Messages -> TimerState]]
      /\ batch \in [Keys -> [Messages -> Seq(Messages)]]
      /\ group \in [Keys -> Seq(Messages)]
  BY DEF Inv, InOrder, Sound, Columns
<1>2. /\ timers[k][t] = "fired" /\ timers'[k][t] = "waiting"
      /\ \A u \in Messages : u # t =>
           timers'[k][u] = timers[k][u] /\ batch'[k][u] = batch[k][u]
      /\ batch'[k][t] = group[k] /\ group'[k] = <<>>
      /\ accepted' = accepted /\ turns' = turns /\ stop' = stop
  BY <1>1 DEF TakeGroup, LeftInGroup
<1>3. /\ t \notin Waiting(k) /\ Waiting(k)' = Waiting(k) \cup {t}
      /\ t \notin InTurn(k) /\ InTurn(k)' = InTurn(k)
  BY <1>2 DEF Waiting, InTurn
<1>4. Due(k)' = Due(k)
  <2>1. Due(k)' = UNION {Elements(batch[k][u])' : u \in Waiting(k)'}
    BY <1>2, EmptyElements DEF Due, Elements
  <2>2. Elements(batch[k][t])' = Elements(group[k])
    BY <1>2 DEF Elements
  <2>3. \A u \in Waiting(k) : Elements(batch[k][u])' = Elements(batch[k][u])
    BY <1>2, <1>3 DEF Elements, Waiting
  <2>4. UNION {Elements(batch[k][u])' : u \in Waiting(k)'}
          = Elements(group[k]) \cup UNION {Elements(batch[k][u]) : u \in Waiting(k)}
    <3>1. ASSUME NEW x \in UNION {Elements(batch[k][u])' : u \in Waiting(k)'}
          PROVE  x \in Elements(group[k]) \cup UNION {Elements(batch[k][u]) : u \in Waiting(k)}
      BY <1>3, <2>2, <2>3
    <3>2. ASSUME NEW x \in Elements(group[k]) \cup UNION {Elements(batch[k][u]) : u \in Waiting(k)}
          PROVE  x \in UNION {Elements(batch[k][u])' : u \in Waiting(k)'}
      BY <1>3, <2>2, <2>3
    <3>. QED BY <3>1, <3>2
  <2>. QED BY <2>1, <2>4 DEF Due
<1>5. UnderWay(k)' = UnderWay(k)
  <2>1. InTurn(k) # {} => (CHOOSE u \in InTurn(k) : TRUE) \in InTurn(k)
    OBVIOUS
  <2>2. \A u \in InTurn(k) : batch'[k][u] = batch[k][u]
    BY <1>2, <1>3 DEF InTurn
  <2>. QED BY <1>3, <2>1, <2>2 DEF UnderWay
<1>. QED BY <1>2, <1>4, <1>5, SeenOfOthers, Unseen DEF Callback, Phase

LEMMA AddMessageArrives ==
  ASSUME Inv, NEW k \in Keys, AddMessage(k)
  PROVE  Turns!Arrive(k)
<1> DEFINE m == accepted[k] + 1
<1>1. m \in Messages /\ accepted[k] \in Nat /\ m > accepted[k]
  BY NextMessage DEF AddMessage, Inv, InOrder
<1>2. /\ accepted' = [accepted EXCEPT ![k] = m] /\ group'[k] = Append(group[k], m)
      /\ timers'[k] = Restart(k, m) /\ batch' = batch /\ turns' = turns /\ stop' = stop
  BY DEF AddMessage, Inv, InOrder, Sound, Columns
<1>3. timers[k][m] = "unset"
  BY <1>1 DEF Inv, InOrder, Sound, Numbered
<1>4. Waiting(k)' = Waiting(k) /\ InTurn(k)' = InTurn(k)
  BY <1>1, <1>2, <1>3, Restarted DEF Inv, InOrder, Sound, Waiting, InTurn
<1>5. UnderWay(k)' = UnderWay(k)
  BY <1>2, <1>4, SeenAlike
<1>6. Elements(group[k])' = Elements(group[k]) \cup {m}
  <2>1. group[k] \in Seq(Messages) /\ Distinct(group[k]) /\ m \notin Elements(group[k])
    BY <1>1 DEF Inv, InOrder, Sound, Columns, KeyInOrder, Owned
  <2>2. Elements(Append(group[k], m)) = Elements(group[k]) \cup {m}
    BY <1>1, <2>1, AppendOne
  <2>3. Elements(group[k])' = Elements(Append(group[k], m))
    BY <1>2 DEF Elements
  <2>. QED BY <2>2, <2>3
<1>7. Due(k)' = Due(k) \cup {m}
  <2>1. UNION {Elements(batch[k][t]) : t \in Waiting(k)}'
          = UNION {Elements(batch[k][t]) : t \in Waiting(k)}
    BY <1>2, <1>4
  <2>. QED BY <1>6, <2>1 DEF Due
<1>8. DueOf' = [DueOf EXCEPT ![k] = @ \cup {m}] /\ TurnOf' = TurnOf
  BY <1>5, <1>7, SeenOfOthers DEF DueOf, TurnOf
<1>. QED BY <1>2, <1>8 DEF Turns!Arrive, DueOf, TurnOf, Phase

LEMMA BeginTurnDue ==
  ASSUME Inv, NEW k \in Keys, NEW t \in Messages, BeginTurn(k, t)
  PROVE  Due(k)' = Due(k) \ Elements(batch[k][t])
<1> DEFINE s == batch[k][t]
<1>1. timers \in [Keys -> [Messages -> TimerState]]
  BY DEF Inv, InOrder, Sound, Columns
<1>2. /\ timers[k][t] = "waiting" /\ timers'[k][t] = "turn"
      /\ \A u \in Messages : u # t => timers'[k][u] = timers[k][u]
      /\ batch' = batch /\ group' = group
  BY <1>1 DEF BeginTurn, groupVars
<1>3. t \in Waiting(k) /\ Waiting(k)' = Waiting(k) \ {t}
  BY <1>2 DEF Waiting
<1>4. Owned(k)
  BY DEF Inv, InOrder, KeyInOrder
<1>5. Elements(s) \cap Elements(group[k]) = {}
  BY <1>4 DEF Owned, Holds
<1>6. \A u \in Waiting(k) \ {t} : Elements(batch[k][u]) \cap Elements(s) = {}
  BY <1>4 DEF Owned, Holds, Waiting
<1>7. Due(k)' = Elements(group[k]) \cup UNION {Elements(batch[k][u]) : u \in Waiting(k) \ {t}}
  BY <1>2, <1>3 DEF Due
<1>8. Due(k) = Elements(group[k]) \cup UNION {Elements(batch[k][u]) : u \in Waiting(k)}
  BY DEF Due
<1>9. ASSUME NEW x \in Due(k)' PROVE x \in Due(k) \ Elements(s)
  BY <1>5, <1>6, <1>7, <1>8
<1>10. ASSUME NEW x \in Due(k) \ Elements(s) PROVE x \in Due(k)'
  BY <1>7, <1>8
<1>. QED BY <1>9, <1>10

LEMMA BeginTurnBegins ==
  ASSUME Inv, InRuns, NEW k \in Keys, NEW t \in Messages, BeginTurn(k, t)
  PROVE  Turns!Begin(k)
<1> DEFINE s == batch[k][t]
           a == s[1]
           b == s[Len(s)]
<1>1. /\ timers \in [Keys -> [Messages -> TimerState]]
      /\ s \in Seq(Messages) /\ turns \in [Keys -> Seq(Messages)]
  BY DEF Inv, InOrder, Sound, Columns
<1>2. /\ timers[k][t] = "waiting" /\ timers'[k][t] = "turn" /\ InTurn(k) = {}
      /\ \A u \in Messages : u # t => timers'[k][u] = timers[k][u]
      /\ batch' = batch /\ group' = group /\ accepted' = accepted /\ stop' = stop
      /\ turns' = [turns EXCEPT ![k] = @ \o s]
  BY <1>1 DEF BeginTurn, LockFree, groupVars
<1>3. s # <<>> /\ IsRun(s)
  BY <1>2 DEF InRuns, KeyInRuns
<1>4. /\ Elements(s) = a .. b /\ s = Turns!Run(a, b) /\ a \in Elements(s) /\ b \in Elements(s)
      /\ a <= b
  BY <1>1, <1>3, RunIsInterval
<1>5. /\ t \in Waiting(k) /\ Waiting(k)' = Waiting(k) \ {t} /\ InTurn(k)' = {t}
  BY <1>2 DEF Waiting, InTurn
<1>6. Elements(s) \subseteq Due(k)
  BY <1>5 DEF Due
<1>7. Due(k)' = Due(k) \ Elements(s)
  BY BeginTurnDue
<1>8. UnderWay(k) = <<>> /\ UnderWay(k)' = s
  BY <1>2, <1>5 DEF UnderWay
<1>9. /\ DueOf' = [DueOf EXCEPT ![k] = @ \ (a .. b)]
      /\ TurnOf' = [TurnOf EXCEPT ![k] = Turns!Run(a, b)]
  BY <1>4, <1>7, <1>8, SeenOfOthers DEF Callback, DueOf, TurnOf
<1>10. DueOf[k] = Due(k) /\ TurnOf[k] = <<>> /\ a .. b \subseteq DueOf[k]
  BY <1>4, <1>6, <1>8 DEF DueOf, TurnOf
<1>11. turns' = [turns EXCEPT ![k] = @ \o Turns!Run(a, b)]
  BY <1>2, <1>4
<1>12. a \in DueOf[k] /\ b \in DueOf[k]
  BY <1>4, <1>10
<1>. QED BY <1>2, <1>4, <1>9, <1>10, <1>11, <1>12 DEF Turns!Begin, DueOf, TurnOf, Phase

LEMMA EndTurnEnds ==
  ASSUME Inv, InRuns, NEW k \in Keys, NEW t \in Messages, EndTurn(k, t)
  PROVE  Turns!End(k)
<1>1. timers \in [Keys -> [Messages -> TimerState]]
  BY DEF Inv, InOrder, Sound, Columns
<1>2. /\ timers[k][t] = "turn" /\ timers'[k][t] = "over"
      /\ \A u \in Messages : u # t => timers'[k][u] = timers[k][u]
      /\ batch' = batch /\ group' = group /\ accepted' = accepted /\ stop' = stop
      /\ turns' = turns
  BY <1>1 DEF EndTurn, groupVars
<1>3. batch[k][t] # <<>> /\ InTurn(k) = {t}
  BY <1>2 DEF InRuns, KeyInRuns, InTurn
<1>4. Waiting(k)' = Waiting(k) /\ InTurn(k)' = {}
  BY <1>2, <1>3 DEF Waiting, InTurn
<1>5. Due(k)' = Due(k)
  BY <1>2, <1>4 DEF Due
<1>6. UnderWay(k) = batch[k][t] /\ UnderWay(k)' = <<>>
  BY <1>3, <1>4 DEF UnderWay
<1>7. /\ TurnOf[k] # <<>> /\ DueOf' = DueOf /\ TurnOf' = [TurnOf EXCEPT ![k] = <<>>]
  BY <1>3, <1>5, <1>6, SeenOfOthers DEF Callback, DueOf, TurnOf
<1>. QED BY <1>2, <1>7 DEF Turns!End, DueOf, TurnOf, Phase

(* What Stop keeps of a key.  A group whose timer has fired is given up:    *)
(* those are the newest messages.                                          *)
LEMMA StopKeepsOldest ==
  ASSUME Inv, InRuns, NEW k \in Keys, StopGroups
  PROVE  /\ \E last \in 0 .. accepted[k] : Due(k)' = {m \in Due(k) : m <= last}
         /\ Due(k)' \subseteq Nat
         /\ UnderWay(k)' = UnderWay(k)
<1> DEFINE Stopped(t) == t = timer[k] /\ timers[k][t] = "armed"
           Held == UNION {Elements(batch[k][t]) : t \in Waiting(k)}
<1>1. /\ KeyInRuns(k) /\ Owned(k) /\ Attended(k) /\ group[k] \in Seq(Messages)
      /\ accepted[k] \in Nat /\ timer[k] \in 0 .. MaxMessages
  BY MessagesAssumption DEF InRuns, Inv, InOrder, Sound, Columns, KeyInOrder
<1>2. /\ group'[k] = <<>>
      /\ \A t \in Messages : IF Stopped(t)
           THEN timers'[k][t] = "waiting" /\ batch'[k][t] = group[k]
           ELSE timers'[k][t] = timers[k][t] /\ batch'[k][t] = batch[k][t]
  BY DEF StopGroups
<1>3. \A m \in Due(k) : m \in 1 .. accepted[k]
  BY <1>1 DEF Due, Owned, Holds, Waiting
<1>4. InTurn(k)' = InTurn(k)
  BY <1>2 DEF InTurn
<1>5. UnderWay(k)' = UnderWay(k)
  <2>1. InTurn(k) # {} => (CHOOSE u \in InTurn(k) : TRUE) \in InTurn(k)
    OBVIOUS
  <2>2. \A u \in InTurn(k) : batch'[k][u] = batch[k][u]
    BY <1>2 DEF InTurn
  <2>. QED BY <1>4, <2>1, <2>2 DEF UnderWay
<1>6. Due(k)' = UNION {Elements(batch[k][t])' : t \in Waiting(k)'}
  BY <1>2, EmptyElements DEF Due, Elements
<1>7. CASE group[k] # <<>> /\ timers[k][timer[k]] = "armed"
  <2>1. PICK t \in Messages : Stopped(t) /\ t = timer[k]
    BY <1>1, <1>7, MessagesAssumption DEF Attended, NoTimer, Messages
  <2>2. Waiting(k)' = Waiting(k) \cup {t} /\ t \notin Waiting(k)
    BY <1>2, <2>1 DEF Waiting
  <2>3. Elements(batch[k][t])' = Elements(group[k])
    BY <1>2, <2>1 DEF Elements
  <2>4. \A u \in Waiting(k) : Elements(batch[k][u])' = Elements(batch[k][u])
    BY <1>2, <2>2 DEF Elements, Waiting
  <2>5. Due(k)' = Due(k)
    <3>1. ASSUME NEW x \in Due(k)' PROVE x \in Due(k)
      BY <1>6, <2>2, <2>3, <2>4 DEF Due
    <3>2. ASSUME NEW x \in Due(k) PROVE x \in Due(k)'
      BY <1>6, <2>2, <2>3, <2>4 DEF Due
    <3>. QED BY <3>1, <3>2
  <2>6. Due(k)' = {m \in Due(k) : m <= accepted[k]} /\ accepted[k] \in 0 .. accepted[k]
    BY <1>1, <1>3, <2>5
  <2>. QED BY <1>3, <1>5, <2>5, <2>6
<1>8. CASE ~(group[k] # <<>> /\ timers[k][timer[k]] = "armed")
  <2>1. \A t \in Messages : ~Stopped(t)
    BY <1>1, <1>8 DEF KeyInRuns, Messages, NoTimer
  <2>2. Waiting(k)' = Waiting(k)
    BY <1>2, <2>1 DEF Waiting
  <2>3. \A t \in Messages : Elements(batch[k][t])' = Elements(batch[k][t])
    BY <1>2, <2>1 DEF Elements
  <2>4. Due(k)' = Held
    BY <1>6, <2>2, <2>3 DEF Waiting
  <2> DEFINE last == accepted[k] - Len(group[k])
  <2>5. Elements(group[k]) = {m \in 1 .. accepted[k] : m > last}
    BY <1>1, EndingIsRun DEF KeyInRuns
  <2>6. last \in 0 .. accepted[k]
    <3>1. Len(group[k]) \in Nat /\ (group[k] = <<>> => Len(group[k]) = 0)
      BY <1>1
    <3>2. group[k] # <<>> => group[k][1] \in Messages /\ 1 \in DOMAIN group[k]
      BY <1>1
    <3>3. group[k] # <<>> => group[k][1] = accepted[k] - Len(group[k]) + 1
      BY <1>1, <3>2 DEF KeyInRuns, EndsAt
    <3>4. CASE group[k] = <<>>
      BY <1>1, <3>1, <3>4
    <3>5. CASE group[k] # <<>>
      <4>1. accepted[k] - Len(group[k]) + 1 \in 1 .. MaxMessages
        BY <3>2, <3>3, <3>5 DEF Messages
      <4>. QED BY <1>1, <3>1, <4>1, MessagesAssumption
    <3>. QED BY <3>4, <3>5
  <2>7. \A m \in Held : m \notin Elements(group[k])
    BY <1>1 DEF Owned, Holds, Waiting
  <2>8. Held = {m \in Due(k) : m <= last}
    <3>1. ASSUME NEW m \in Held PROVE m \in Due(k) /\ m <= last
      <4>1. m \in Due(k)
        BY DEF Due
      <4>2. m \in 1 .. accepted[k]
        BY <1>3, <4>1
      <4>. QED BY <1>1, <2>5, <2>6, <2>7, <4>1, <4>2
    <3>2. ASSUME NEW m \in Due(k), m <= last PROVE m \in Held
      <4>1. m \notin Elements(group[k])
        BY <1>1, <1>3, <2>5, <2>6, <3>2
      <4>. QED BY <4>1 DEF Due
    <3>. QED BY <3>1, <3>2
  <2>9. Due(k)' = {m \in Due(k) : m <= last}
    BY <2>4, <2>8
  <2>10. Due(k)' \subseteq Nat
    BY <1>3, <2>9
  <2>. QED BY <1>5, <2>6, <2>9, <2>10
<1>. QED BY <1>7, <1>8

LEMMA StopGroupsCloses ==
  ASSUME Inv, InRuns, StopGroups
  PROVE  Turns!Close
<1>1. /\ stop = "running" /\ stop' = "waiting" /\ accepted' = accepted /\ turns' = turns
  BY DEF StopGroups
<1>2. DueOf' = [k \in Keys |-> Due(k)'] /\ TurnOf' = TurnOf
  BY StopKeepsOldest DEF DueOf, TurnOf
<1>3. DueOf' \in [Keys -> SUBSET Nat]
  BY <1>2, StopKeepsOldest
<1>4. \A k \in Keys : \E last \in 0 .. accepted[k] : DueOf'[k] = {m \in DueOf[k] : m <= last}
  BY <1>2, StopKeepsOldest DEF DueOf
<1>5. Phase = "open" /\ Phase' = "closing"
  BY <1>1 DEF Phase
<1>. QED BY <1>1, <1>2, <1>3, <1>4, <1>5 DEF Turns!Close, DueOf, TurnOf

LEMMA StopReturnHasClosed ==
  ASSUME Inv, StopReturn
  PROVE  Turns!Closed
<1>1. /\ stop = "waiting" /\ stop' = "returned" /\ wg = 0
      /\ UNCHANGED <<accepted, group, timer, timers, batch, turns, known>>
  BY DEF StopReturn, NothingCounted, groupVars, callbackVars
<1>2. ASSUME NEW k \in Keys PROVE Due(k) = {} /\ UnderWay(k) = <<>>
  <2>1. \A t \in Messages : timers[k][t] \notin Callbacks
    BY <1>1, NoneLeft DEF Inv
  <2>2. Waiting(k) = {} /\ InTurn(k) = {}
    BY <2>1 DEF Waiting, InTurn, Callbacks
  <2>3. timer[k] \in 0 .. MaxMessages
    BY DEF Inv, InOrder, Sound, Columns
  <2>4. group[k] = <<>>
    BY <2>1, <2>3, MessagesAssumption DEF Inv, InOrder, KeyInOrder, Attended, NoTimer,
       Messages, Callbacks
  <2>. QED BY <2>2, <2>4, EmptyElements DEF Due, UnderWay
<1>3. DueOf' = DueOf /\ TurnOf' = TurnOf
  BY <1>1 DEF DueOf, TurnOf, Due, UnderWay, Waiting, InTurn
<1>4. \A k \in Keys : DueOf[k] = {} /\ TurnOf[k] = <<>>
  BY <1>2 DEF DueOf, TurnOf
<1>5. Phase = "closing" /\ Phase' = "closed"
  BY <1>1 DEF Phase
<1>. QED BY <1>1, <1>3, <1>4, <1>5 DEF Turns!Closed, DueOf, TurnOf

LEMMA TurnInit == Init => Turns!Init
<1>. SUFFICES ASSUME Init PROVE Turns!Init
  OBVIOUS
<1>1. \A k \in Keys : Due(k) = {} /\ UnderWay(k) = <<>>
  BY EmptyElements DEF Init, Due, UnderWay, Waiting, InTurn
<1>2. DueOf = [k \in Keys |-> {}] /\ TurnOf = [k \in Keys |-> <<>>]
  BY <1>1 DEF DueOf, TurnOf
<1>. QED BY <1>2 DEF Init, Turns!Init, DueOf, TurnOf, Phase

LEMMA TurnStep ==
  ASSUME Inv, InRuns, [Next]_vars
  PROVE  [Turns!Next]_(Turns!vars)
<1>1. CASE UNCHANGED vars \/ \E k \in Keys : Receive(k)
  <2>1. UNCHANGED <<accepted, group, timers, batch, turns, stop>>
    BY <1>1 DEF vars, Receive, groupVars, callbackVars
  <2>2. \A e \in Keys : Due(e)' = Due(e) /\ UnderWay(e)' = UnderWay(e)
    BY <2>1 DEF Due, UnderWay, Waiting, InTurn
  <2>3. Phase' = Phase
    BY <2>1 DEF Phase
  <2>. QED BY <2>1, <2>2, <2>3, Unseen
<1>2. CASE Exit
  <2>1. UNCHANGED <<accepted, group, timers, batch, turns>>
    BY <1>2 DEF Exit, groupVars, callbackVars
  <2>2. \A e \in Keys : Due(e)' = Due(e) /\ UnderWay(e)' = UnderWay(e)
    BY <2>1 DEF Due, UnderWay, Waiting, InTurn
  <2>3. Phase' = Phase
    BY <1>2 DEF Exit, Phase
  <2>. QED BY <2>1, <2>2, <2>3, Unseen
<1>3. ASSUME NEW k \in Keys, NEW t \in Messages, Fire(k, t) \/ TakeGroup(k, t)
      PROVE  UNCHANGED Turns!vars
  BY <1>3, FireUnseen, TakeGroupUnseen
<1>4. ASSUME NEW k \in Keys,
             \/ AddMessage(k)
             \/ \E t \in Messages : BeginTurn(k, t) \/ EndTurn(k, t)
      PROVE  Turns!Next
  BY <1>4, AddMessageArrives, BeginTurnBegins, EndTurnEnds DEF Turns!Next
<1>5. CASE StopGroups \/ StopReturn
  BY <1>5, StopGroupsCloses, StopReturnHasClosed DEF Turns!Next
<1>. QED BY <1>1, <1>2, <1>3, <1>4, <1>5 DEF Next, Callback

(* The grouper keeps TurnContract: its timers, callbacks and lock amount to  *)
(* turns of consecutive messages, one turn at a time, no message in two, and *)
(* none given up but the newest ones, when Stop is called                   *)
(* (message_grouper.go:85-143, 145-257).                                   *)
THEOREM ImplementsTurnContract == Spec => KeepsTurnContract
<1>1. Inv /\ InRuns /\ [Next]_vars => [Turns!Next]_(Turns!vars)
  BY TurnStep
<1>. QED BY <1>1, TurnInit, RunsInvariance, PTL DEF Spec, KeepsTurnContract, Turns!Spec

-----------------------------------------------------------------------------
(* 7. What the grouper promises only while two races do not happen, and     *)
(* promises then: the theorems name the races.                             *)

(* No timer of the key's group has fired when Stop takes the mutex.         *)
StopCanTake(k) == group[k] # <<>> => timers[k][timer[k]] = "armed"

(* What was accepted before Stop took the mutex is held by a callback.      *)
AllTaken(k) == stop # "running" => 1 .. known[k] \subseteq UNION {Holds(k, t) : t \in Messages}

LEMMA StopTakesAll ==
  ASSUME Inv, InRuns, NEW k \in Keys, StopGroups, StopCanTake(k)
  PROVE  AllTaken(k)'
<1>1. /\ stop = "running" /\ known'[k] = accepted[k]
      /\ \A t \in Messages : IF t = timer[k] /\ timers[k][t] = "armed"
           THEN batch'[k][t] = group[k] ELSE batch'[k][t] = batch[k][t]
  BY DEF StopGroups, Inv, InOrder, Sound, Columns
<1>2. /\ Owned(k) /\ Attended(k) /\ timer[k] \in 0 .. MaxMessages
      /\ 1 .. accepted[k] = Elements(group[k]) \cup UNION {Holds(k, t) : t \in Messages}
  BY <1>1 DEF Inv, InOrder, Sound, Columns, KeyInOrder, Covered
<1>. SUFFICES ASSUME NEW m \in 1 .. accepted[k] PROVE \E t \in Messages : m \in Holds(k, t)'
  BY <1>1 DEF AllTaken
<1>3. CASE m \in Elements(group[k])
  <2>1. group[k] # <<>>
    BY <1>3, EmptyElements
  <2>2. PICK t \in Messages : t = timer[k] /\ timers[k][t] = "armed"
    BY <1>2, <2>1, MessagesAssumption DEF StopCanTake, Attended, NoTimer, Messages
  <2>. QED BY <1>1, <1>3, <2>2 DEF Holds, Elements
<1>4. CASE m \notin Elements(group[k])
  <2>1. PICK t \in Messages : m \in Holds(k, t)
    BY <1>2, <1>4
  <2>2. timers[k][t] # "armed"
    BY <1>2, <2>1 DEF Owned
  <2>. QED BY <1>1, <2>1, <2>2 DEF Holds, Elements
<1>. QED BY <1>3, <1>4

(* Otherwise callbacks only take more.                                      *)
LEMMA HeldIsKept ==
  ASSUME Inv, NEW k \in Keys, [Next]_vars, ~StopGroups, AllTaken(k)
  PROVE  AllTaken(k)'
<1>1. known' = known /\ (stop' # "running" => stop # "running")
  BY DEF Next, vars, groupVars, callbackVars, Receive, AddMessage, Fire, Callback, TakeGroup,
     BeginTurn, EndTurn, StopReturn, Exit
<1>2. ASSUME NEW t \in Messages PROVE Holds(k, t) \subseteq Holds(k, t)'
  <2>1. CASE batch'[k][t] = batch[k][t]
    BY <2>1 DEF Holds, Elements
  <2>2. CASE TakeGroup(k, t)
    <3>1. Holds(k, t) = {}
      BY <2>2 DEF Inv, InOrder, KeyInOrder, Owned, TakeGroup
    <3>. QED BY <3>1
  <2>3. batch'[k][t] = batch[k][t] \/ TakeGroup(k, t)
    <3>1. batch' = batch \/ \E e \in Keys, u \in Messages : TakeGroup(e, u)
      BY DEF Next, vars, groupVars, callbackVars, Receive, AddMessage, Fire, Callback,
         BeginTurn, EndTurn, StopReturn, Exit
    <3>2. ASSUME NEW e \in Keys, NEW u \in Messages, TakeGroup(e, u), ~(e = k /\ u = t)
          PROVE  batch'[k][t] = batch[k][t]
      <4>1. batch \in [Keys -> [Messages -> Seq(Messages)]]
        BY DEF Inv, InOrder, Sound, Columns
      <4>2. batch' = batch \/ batch' = [batch EXCEPT ![e][u] = group[e]]
        BY <3>2 DEF TakeGroup
      <4>3. CASE e # k
        BY <4>1, <4>2, <4>3
      <4>4. CASE e = k /\ u # t
        BY <4>1, <4>2, <4>4
      <4>. QED BY <3>2, <4>3, <4>4
    <3>. QED BY <3>1, <3>2
  <2>. QED BY <2>1, <2>2, <2>3
<1>. QED BY <1>1, <1>2 DEF AllTaken

(* Once Stop returned, a callback that is not over holds newer messages.    *)
LEMMA TakenHadTheirTurn ==
  ASSUME Inv, NEW k \in Keys, AllTaken(k), stop = "returned"
  PROVE  1 .. known[k] \subseteq Elements(turns[k])
<1>1. Owned(k) /\ Newer(k) /\ known[k] \in Nat /\ timers[k] \in [Messages -> TimerState]
  BY MessagesAssumption DEF Inv, InOrder, Sound, Columns, KeyInOrder
<1>. SUFFICES ASSUME NEW m \in 1 .. known[k] PROVE m \in Elements(turns[k])
  OBVIOUS
<1>2. PICK t \in Messages : m \in Holds(k, t)
  BY DEF AllTaken
<1>3. timers[k][t] \notin {"unset", "armed", "fired"}
  BY <1>1, <1>2 DEF Owned
<1>4. timers[k][t] \notin {"waiting", "turn"}
  BY <1>1, <1>2 DEF Newer
<1>5. t \in Past(k)
  BY <1>1, <1>3, <1>4 DEF Past, TimerState
<1>. QED BY <1>1, <1>2, <1>5 DEF Owned

(* A message accepted before Stop misses its turn only where the timer of    *)
(* its group had fired and the callback still stood in front of the mutex    *)
(* (message_grouper.go:98-111, 212-218): with the key's timer armed, or its  *)
(* group empty, Stop does process what is pending.                          *)
THEOREM PendingTimerLosesNothing ==
  ASSUME NEW k \in Keys
  PROVE  Spec /\ [][StopGroups => StopCanTake(k)]_vars
           => [](stop = "returned" => 1 .. known[k] \subseteq Elements(turns[k]))
<1>1. Init => AllTaken(k)
  BY DEF Init, AllTaken
<1>2. Inv /\ InRuns /\ AllTaken(k) /\ [Next]_vars /\ [StopGroups => StopCanTake(k)]_vars
        => AllTaken(k)'
  <2>1. StopGroups => stop # stop'
    BY DEF StopGroups
  <2>. QED BY <2>1, StopTakesAll, HeldIsKept DEF vars
<1>3. Inv /\ AllTaken(k) => (stop = "returned" => 1 .. known[k] \subseteq Elements(turns[k]))
  BY TakenHadTheirTurn
<1>. QED BY <1>1, <1>2, <1>3, RunsInvariance, PTL DEF Spec

(* The promise of message_grouper.go:85 for all keys, under that condition. *)
THEOREM StopProcessesWhatItCanTake ==
  Spec /\ [][StopGroups => \A k \in Keys : StopCanTake(k)]_vars => []StopProcessesAllPending
<1> DEFINE Taken == \A k \in Keys : AllTaken(k)
           Cond == \A k \in Keys : StopCanTake(k)
<1>1. Init => Taken
  BY DEF Init, AllTaken
<1>2. Inv /\ InRuns /\ Taken /\ [Next]_vars /\ [StopGroups => Cond]_vars => Taken'
  <2>1. StopGroups => stop # stop'
    BY DEF StopGroups
  <2>. QED BY <2>1, StopTakesAll, HeldIsKept DEF vars
<1>3. Inv /\ Taken => StopProcessesAllPending
  BY TakenHadTheirTurn DEF StopProcessesAllPending
<1>. QED BY <1>1, <1>2, <1>3, RunsInvariance, PTL DEF Spec

(* The lock of a key goes to the waiting callback with the oldest batch.    *)
OldestFirst(k, t) == \A u \in Waiting(k) : batch[k][t][1] <= batch[k][u][1]

LocksInOrder == \A k \in Keys : \A t \in Messages : BeginTurn(k, t) => OldestFirst(k, t)

(* "Per-key processing locks ensure strict FIFO ordering",                  *)
(* message_grouper.go:63: the messages of a key have their turns in the      *)
(* order in which they were accepted.                                      *)
Ascending(s) == \A i, j \in DOMAIN s : i < j => s[i] < s[j]

TurnsAscend == \A k \in Keys : Ascending(turns[k])

DueIsNewer(k) == \A d \in Due(k) : \A m \in Elements(turns[k]) : m < d

LEMMA RunAscends ==
  ASSUME NEW s \in Seq(Messages), IsRun(s)
  PROVE  Ascending(s) /\ \A m \in Elements(s) : s[1] <= m
<1>1. DOMAIN s = 1 .. Len(s) /\ Len(s) \in Nat /\ \A i \in 1 .. Len(s) : s[i] \in Int
  BY MessagesAssumption DEF Messages
<1>2. ASSUME NEW i \in 1 .. Len(s) PROVE s[1] \in Int /\ s[i] = s[1] + i - 1
  <2>1. 1 \in 1 .. Len(s)
    BY <1>1
  <2>. QED BY <1>1, <2>1 DEF IsRun
<1>. QED BY <1>1, <1>2 DEF Ascending, Elements

LEMMA AscendOn ==
  ASSUME NEW s \in Seq(Messages), NEW u \in Seq(Messages), Ascending(s), Ascending(u),
         \A m \in Elements(s), n \in Elements(u) : m < n
  PROVE  Ascending(s \o u)
<1>1. /\ s \o u \in Seq(Messages) /\ Len(s) \in Nat /\ Len(u) \in Nat
      /\ DOMAIN s = 1 .. Len(s) /\ DOMAIN u = 1 .. Len(u)
      /\ DOMAIN (s \o u) = 1 .. Len(s) + Len(u)
      /\ \A i \in 1 .. Len(s) + Len(u) :
           (s \o u)[i] = IF i <= Len(s) THEN s[i] ELSE u[i - Len(s)]
  OBVIOUS
<1>. SUFFICES ASSUME NEW i \in 1 .. Len(s) + Len(u), NEW j \in 1 .. Len(s) + Len(u), i < j
              PROVE  (s \o u)[i] < (s \o u)[j]
  BY <1>1 DEF Ascending
<1>2. CASE j <= Len(s)
  <2>1. i \in 1 .. Len(s) /\ j \in 1 .. Len(s)
    BY <1>1, <1>2
  <2>. QED BY <1>1, <2>1 DEF Ascending
<1>3. CASE i <= Len(s) /\ ~(j <= Len(s))
  <2>1. i \in 1 .. Len(s) /\ j - Len(s) \in 1 .. Len(u)
    BY <1>1, <1>3
  <2>2. s[i] \in Elements(s) /\ u[j - Len(s)] \in Elements(u)
    BY <1>1, <2>1 DEF Elements
  <2>. QED BY <1>1, <1>3, <2>2
<1>4. CASE ~(i <= Len(s))
  <2>1. /\ i - Len(s) \in 1 .. Len(u) /\ j - Len(s) \in 1 .. Len(u)
        /\ i - Len(s) < j - Len(s) /\ ~(j <= Len(s))
    BY <1>1, <1>4
  <2>2. u[i - Len(s)] < u[j - Len(s)]
    BY <1>1, <2>1 DEF Ascending
  <2>. QED BY <1>1, <1>4, <2>1, <2>2
<1>. QED BY <1>1, <1>2, <1>3, <1>4

(* A turn takes the oldest that is due: its batch begins before every other, *)
(* runs that do not meet are in the order of their first messages, and the   *)
(* group holds the newest.                                                  *)
LEMMA OldestBatch ==
  ASSUME Inv, InRuns, NEW k \in Keys, NEW t \in Waiting(k), OldestFirst(k, t)
  PROVE  \A m \in Elements(batch[k][t]), d \in Due(k) \ Elements(batch[k][t]) : m < d
<1> DEFINE s == batch[k][t]
           a == s[1]
           b == s[Len(s)]
<1>1. /\ Owned(k) /\ KeyInRuns(k) /\ t \in Messages /\ timers[k][t] = "waiting"
      /\ batch \in [Keys -> [Messages -> Seq(Messages)]] /\ group[k] \in Seq(Messages)
      /\ accepted[k] \in Nat
  BY MessagesAssumption DEF Inv, InOrder, Sound, Columns, KeyInOrder, InRuns, Waiting
<1>2. s \in Seq(Messages) /\ s # <<>> /\ IsRun(s)
  BY <1>1 DEF KeyInRuns
<1>3. Elements(s) = a .. b /\ a \in Messages /\ b \in Messages
  BY <1>2, RunIsInterval
<1>. SUFFICES ASSUME NEW m \in Elements(s), NEW d \in Due(k), d \notin Elements(s)
              PROVE  m < d
  OBVIOUS
<1>4. m \in 1 .. accepted[k]
  BY <1>1 DEF Owned, Holds
<1>5. CASE d \in Elements(group[k])
  <2>1. d \in 1 .. accepted[k] /\ d > accepted[k] - Len(group[k])
    BY <1>1, <1>5, EndingIsRun DEF KeyInRuns
  <2>2. m \notin Elements(group[k])
    BY <1>1 DEF Owned, Holds
  <2>3. ~(m > accepted[k] - Len(group[k]))
    BY <1>1, <1>4, <2>2, EndingIsRun DEF KeyInRuns
  <2>4. Len(group[k]) \in Nat
    BY <1>1
  <2>. QED BY <1>1, <1>4, <2>1, <2>3, <2>4
<1>6. CASE d \notin Elements(group[k])
  <2>1. PICK u \in Waiting(k) : d \in Elements(batch[k][u])
    BY <1>6 DEF Due
  <2>2. /\ u \in Messages /\ batch[k][u] \in Seq(Messages) /\ batch[k][u] # <<>>
        /\ IsRun(batch[k][u]) /\ a <= batch[k][u][1]
    BY <1>1, <2>1 DEF KeyInRuns, Waiting, OldestFirst
  <2>3. batch[k][u][1] \in Messages /\ batch[k][u][1] <= d
    BY <2>1, <2>2, RunAscends, RunIsInterval
  <2>4. d \in Int
    BY <1>1, <2>1, <2>2 DEF Owned, Holds
  <2>5. a \in Int /\ b \in Int /\ batch[k][u][1] \in Int
    BY <1>3, <2>3, MessagesAssumption DEF Messages
  <2>6. m \in a .. b /\ d \notin a .. b /\ a <= d
    BY <1>3, <2>2, <2>3, <2>4, <2>5
  <2>. QED BY <2>4, <2>5, <2>6
<1>. QED BY <1>5, <1>6

(* Every other step leaves the turns, and what is due besides new messages. *)
LEMMA DueChanges ==
  ASSUME Inv, InRuns, NEW e \in Keys, [Next]_vars
  PROVE  \/ \E t \in Messages : BeginTurn(e, t)
         \/ turns'[e] = turns[e] /\ Due(e)' \subseteq Due(e) \cup {accepted[e] + 1}
<1>1. DueOf[e] = Due(e) /\ DueOf'[e] = Due(e)'
  BY DEF DueOf
<1>2. CASE UNCHANGED vars \/ Exit \/ StopReturn \/ \E k \in Keys : Receive(k)
  <2>1. UNCHANGED <<group, timers, batch, turns>>
    BY <1>2 DEF vars, Receive, Exit, StopReturn, groupVars, callbackVars
  <2>. QED BY <2>1 DEF Due, Waiting
<1>3. ASSUME NEW k \in Keys, k # e, AddMessage(k) \/ \E t \in Messages : Fire(k, t) \/ Callback(k, t)
      PROVE  turns'[e] = turns[e] /\ Due(e)' = Due(e)
  BY <1>3, SeenOfOthers
<1>4. CASE AddMessage(e)
  <2>1. Turns!Arrive(e)
    BY <1>4, AddMessageArrives
  <2>. QED BY <1>1, <2>1 DEF Turns!Arrive, DueOf
<1>5. ASSUME NEW t \in Messages, Fire(e, t) \/ TakeGroup(e, t)
      PROVE  turns'[e] = turns[e] /\ Due(e)' = Due(e)
  <2>1. UNCHANGED Turns!vars
    BY <1>5, FireUnseen, TakeGroupUnseen
  <2>. QED BY <1>1, <2>1 DEF Turns!vars, DueOf
<1>6. ASSUME NEW t \in Messages, EndTurn(e, t)
      PROVE  turns'[e] = turns[e] /\ Due(e)' = Due(e)
  <2>1. Turns!End(e)
    BY <1>6, EndTurnEnds
  <2>. QED BY <1>1, <2>1 DEF Turns!End, DueOf
<1>7. CASE StopGroups
  BY <1>7, StopKeepsOldest DEF StopGroups
<1>. QED BY <1>2, <1>3, <1>4, <1>5, <1>6, <1>7 DEF Next, Callback

LEMMA AscendStep ==
  ASSUME Inv, InRuns, NEW e \in Keys, [Next]_vars, LocksInOrder,
         DueIsNewer(e), Ascending(turns[e])
  PROVE  DueIsNewer(e)' /\ Ascending(turns[e])'
<1>1. /\ turns \in [Keys -> Seq(Messages)] /\ batch \in [Keys -> [Messages -> Seq(Messages)]]
      /\ accepted[e] \in Nat
      /\ \A m \in Elements(turns[e]) : m \in 1 .. accepted[e]
  <2>1. Owned(e)
    BY DEF Inv, InOrder, KeyInOrder
  <2>2. \A m \in Elements(turns[e]) : m \in 1 .. accepted[e]
    BY <2>1 DEF Owned, Past
  <2>. QED BY <2>2, MessagesAssumption DEF Inv, InOrder, Sound, Columns
<1>2. CASE \E t \in Messages : BeginTurn(e, t)
  <2>1. PICK t \in Messages : BeginTurn(e, t)
    BY <1>2
  <2> DEFINE s == batch[e][t]
  <2>2. t \in Waiting(e) /\ OldestFirst(e, t)
    BY <2>1 DEF LocksInOrder, Waiting, BeginTurn
  <2>3. s \in Seq(Messages) /\ IsRun(s) /\ turns[e] \in Seq(Messages)
    BY <1>1 DEF InRuns, KeyInRuns
  <2>4. Elements(s) \subseteq Due(e)
    BY <2>2 DEF Due
  <2>5. turns'[e] = turns[e] \o s
    BY <1>1, <2>1 DEF BeginTurn
  <2>6. Ascending(turns[e] \o s)
    BY <2>3, <2>4, RunAscends, AscendOn DEF DueIsNewer
  <2>7. Elements(turns[e] \o s) = Elements(turns[e]) \cup Elements(s)
    <3>1. Owned(e)
      BY DEF Inv, InOrder, KeyInOrder
    <3>2. Elements(turns[e]) \cap Elements(s) = {}
      <4>1. \A x \in Elements(turns[e]) : x \in Int
        BY <1>1
      <4>. QED BY <2>4, <4>1 DEF DueIsNewer
    <3>. QED BY <2>3, <3>1, <3>2, Concatenate DEF Owned
  <2>8. Due(e)' \subseteq Due(e) \ Elements(s)
    BY <2>1, BeginTurnDue
  <2>9. \A m \in Elements(s), d \in Due(e) \ Elements(s) : m < d
    BY <2>2, OldestBatch
  <2>10. Elements(turns[e])' = Elements(turns[e] \o s) /\ Ascending(turns[e])'
    BY <2>5, <2>6 DEF Elements, Ascending
  <2>. QED BY <2>7, <2>8, <2>9, <2>10 DEF DueIsNewer
<1>3. CASE turns'[e] = turns[e] /\ Due(e)' \subseteq Due(e) \cup {accepted[e] + 1}
  <2>1. \A m \in Elements(turns[e]) : m < accepted[e] + 1
    BY <1>1
  <2>2. Elements(turns[e])' = Elements(turns[e]) /\ Ascending(turns[e])'
    BY <1>3 DEF Elements, Ascending
  <2>. QED BY <1>3, <2>1, <2>2 DEF DueIsNewer
<1>. QED BY <1>2, <1>3, DueChanges

(* The batch is taken before the key's lock is (message_grouper.go:212-247), *)
(* so a later batch may get its turn first.  That is the only way out of    *)
(* order: while the lock goes to the oldest batch that waits, the messages  *)
(* of a key have their turns in the order they were accepted.              *)
THEOREM InOrderIfLocksAre == Spec /\ [][LocksInOrder]_vars => []TurnsAscend
<1> DEFINE I == \A k \in Keys : DueIsNewer(k) /\ Ascending(turns[k])
<1>1. Init => I
  BY EmptyElements DEF Init, DueIsNewer, Ascending
<1>2. Inv /\ InRuns /\ I /\ [Next]_vars /\ [LocksInOrder]_vars => I'
  <2>. SUFFICES ASSUME Inv, InRuns, I, [Next]_vars, [LocksInOrder]_vars PROVE I'
    OBVIOUS
  <2>1. CASE UNCHANGED vars
    BY <2>1 DEF vars, groupVars, callbackVars, DueIsNewer, Ascending, Due, Waiting
  <2>2. CASE LocksInOrder
    BY <2>2, AscendStep
  <2>. QED BY <2>1, <2>2
<1>3. I => TurnsAscend
  BY DEF TurnsAscend
<1>. QED BY <1>1, <1>2, <1>3, RunsInvariance, PTL DEF Spec
=============================================================================
