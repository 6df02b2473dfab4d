--------------------------- MODULE ReplyContract ---------------------------
(***************************************************************************)
(* What a reply promises the user, with no ledger, no executor and no       *)
(* crash in sight.  A reply is cut into parts 0 .. length - 1.  Parts       *)
(* appear in the chat one by one, in order and never twice; at some point   *)
(* a verdict is passed, once, and a verdict that claims to know what the    *)
(* user sees is true and stays true.  Only an "unknown" verdict leaves      *)
(* open whether one more part shows up, and never more than one.           *)
(***************************************************************************)
EXTENDS Naturals, Sequences

CONSTANTS Replies, MaxParts

VARIABLES
  length,    (* Parts of a reply, fixed before anything is sent.           *)
  seen,      (* The parts in the chat, in the order the user sees them.    *)
  verdict,   (* "open" until passed.                                       *)
  pending    (* The verdict was passed while a part may still show up.     *)

vars == <<length, seen, verdict, pending>>

Unsure == {"unknown", "partial_unknown"}
Verdict == {"open", "confirmed", "rejected", "partial_rejected"} \cup Unsure

Init ==
  /\ length \in [Replies -> 1 .. MaxParts]
  /\ seen = [r \in Replies |-> <<>>]
  /\ verdict = [r \in Replies |-> "open"]
  /\ pending = [r \in Replies |-> FALSE]

(* The next part appears.  After the verdict it is the one that was pending *)
(* when the verdict was passed, and the last.                              *)
Appear(r) ==
  /\ verdict[r] = "open" \/ pending[r]
  /\ Len(seen[r]) < length[r]
  /\ seen' = [seen EXCEPT ![r] = Append(@, Len(@))]
  /\ pending' = [pending EXCEPT ![r] = FALSE]
  /\ UNCHANGED <<length, verdict>>

Truthful(r, v) ==
  CASE v = "confirmed"        -> Len(seen[r]) = length[r]
    [] v = "rejected"         -> seen[r] = <<>>
    [] v = "partial_rejected" -> Len(seen[r]) \in 1 .. length[r] - 1
    [] v = "unknown"          -> Len(seen[r]) <= 1
    [] v = "partial_unknown"  -> seen[r] # <<>>

(* One more part may follow a verdict that does not know; behind a plain    *)
(* "unknown" it is the first.                                              *)
MayFollow(r, v) ==
  /\ v \in Unsure /\ Len(seen[r]) < length[r]
  /\ v = "unknown" => seen[r] = <<>>

(* Several replies may be settled at once: a restart does.                 *)
Settle ==
  /\ verdict' \in [Replies -> Verdict]
  /\ pending' \in [Replies -> BOOLEAN]
  /\ \A r \in Replies :
       \/ verdict'[r] = verdict[r] /\ pending'[r] = pending[r]
       \/ /\ verdict[r] = "open" /\ verdict'[r] # "open"
          /\ Truthful(r, verdict'[r])
          /\ pending'[r] => MayFollow(r, verdict'[r])
  /\ UNCHANGED <<length, seen>>

Next == Settle \/ \E r \in Replies : Appear(r)

Spec == Init /\ [][Next]_vars
=============================================================================
