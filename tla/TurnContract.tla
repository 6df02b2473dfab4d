----------------------------- MODULE TurnContract -----------------------------
(***************************************************************************)
(* What grouping promises a conversation, with no timer, no callback and no *)
(* lock in sight.  Its messages are numbered as they arrive.  A turn is     *)
(* given a run of consecutive messages, in order, that no turn had before;  *)
(* a conversation has one turn at a time.  When the bot closes, the newest  *)
(* messages may be given up, at that moment only, and it has closed once    *)
(* nothing is due any more.                                                *)
(***************************************************************************)
EXTENDS Integers, Sequences

CONSTANT Conversations

VARIABLES
  arrived,   (* Messages a conversation had so far.                         *)
  due,       (* Those that are to get a turn.                               *)
  turn,      (* What the turn under way was given; <<>> when there is none.  *)
  served,    (* What all turns so far were given, in order of the turns.    *)
  phase      (* "open", "closing" or "closed"                               *)

vars == <<arrived, due, turn, served, phase>>

Run(a, b) == [i \in 1 .. b - a + 1 |-> a + i - 1]

Init ==
  /\ arrived = [c \in Conversations |-> 0]
  /\ due = [c \in Conversations |-> {}]
  /\ turn = [c \in Conversations |-> <<>>]
  /\ served = [c \in Conversations |-> <<>>]
  /\ phase = "open"

Arrive(c) ==
  /\ arrived' = [arrived EXCEPT ![c] = @ + 1]
  /\ due' = [due EXCEPT ![c] = @ \cup {arrived[c] + 1}]
  /\ UNCHANGED <<turn, served, phase>>

Begin(c) ==
  /\ turn[c] = <<>>
  /\ \E a, b \in due[c] :
       /\ a <= b /\ a .. b \subseteq due[c]
       /\ turn' = [turn EXCEPT ![c] = Run(a, b)]
       /\ due' = [due EXCEPT ![c] = @ \ (a .. b)]
       /\ served' = [served EXCEPT ![c] = @ \o Run(a, b)]
  /\ UNCHANGED <<arrived, phase>>

End(c) ==
  /\ turn[c] # <<>>
  /\ turn' = [turn EXCEPT ![c] = <<>>]
  /\ UNCHANGED <<arrived, due, served, phase>>

Close ==
  /\ phase = "open" /\ phase' = "closing"
  /\ due' \in [Conversations -> SUBSET Nat]
  /\ \A c \in Conversations : \E last \in 0 .. arrived[c] :
       due'[c] = {m \in due[c] : m <= last}
  /\ UNCHANGED <<arrived, turn, served>>

Closed ==
  /\ phase = "closing" /\ phase' = "closed"
  /\ \A c \in Conversations : due[c] = {} /\ turn[c] = <<>>
  /\ UNCHANGED <<arrived, due, turn, served>>

Next ==
  \/ \E c \in Conversations : Arrive(c) \/ Begin(c) \/ End(c)
  \/ Close \/ Closed

Spec == Init /\ [][Next]_vars
=============================================================================
