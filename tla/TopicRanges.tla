----------------------------- MODULE TopicRanges -----------------------------
(***************************************************************************)
(* From the answer of the splitter to the ranges that become topics         *)
(* (internal/rag/processing.go).                                           *)
(*                                                                         *)
(* A chunk is a finite set of message ids; the splitter, a language model,  *)
(* answers with any set of ranges of ids.  A topic takes every message of   *)
(* its range, so two ranges that share a message, or a message outside of   *)
(* every range, lose a message or a topic: the code makes the ranges        *)
(* disjoint and then widens them until they cover the chunk.                *)
(***************************************************************************)
EXTENDS Integers, FiniteSets

Ranges(S) == {r \in [from : S, to : S] : r.from <= r.to}

Lowest(S)  == CHOOSE m \in S : \A k \in S : m <= k
Highest(S) == CHOOSE m \in S : \A k \in S : k <= m

Inside(chunk, r) == {m \in chunk : r.from <= m /\ m <= r.to}

(* The bounds of a set of messages.                                        *)
Hull(S) == [from |-> Lowest(S), to |-> Highest(S)]

(* The ranges clamped to the chunk and fitted to its messages; those that   *)
(* hold none are skipped.                                                  *)
Fitted(chunk, answer) ==
  {Hull(Inside(chunk, r)) : r \in {a \in answer : Inside(chunk, a) # {}}}

(* Mutant: a topic in another one is kept. *)
WithInner(R) == R

(* A topic that lies in another one is dropped ...                         *)
Outer(R) ==
  {r \in R : \A s \in R \ {r} : ~ (s.from <= r.from /\ r.to <= s.to)}

(* ... and a topic that overlaps earlier ones loses its beginning.          *)
Trimmed(chunk, R) ==
  {Hull({m \in Inside(chunk, r) : \A s \in R : s.to < r.to => s.to < m}) : r \in R}

Disjoint(chunk, answer) == Trimmed(chunk, Outer(Fitted(chunk, answer)))

(* Messages that no topic covers.                                          *)
Stragglers(chunk, R) == {m \in chunk : \A r \in R : m \notin Inside(chunk, r)}

(* An answer that covers less than half of the chunk is not used: the chunk *)
(* fails and is tried again.                                               *)
Usable(chunk, R) ==
  R # {} /\ 2 * Cardinality(Stragglers(chunk, R)) <= Cardinality(chunk)

Distance(r, m) ==
  IF m < r.from THEN r.from - m ELSE IF m > r.to THEN m - r.to ELSE 0

(* The range a straggler joins: the nearest, the earlier one on a tie.      *)
Nearest(R, m) ==
  CHOOSE r \in R : \A s \in R :
    \/ Distance(r, m) < Distance(s, m)
    \/ Distance(r, m) = Distance(s, m) /\ r.from <= s.from

Salvaged(chunk, R) ==
  {Hull(Inside(chunk, r) \cup {m \in Stragglers(chunk, R) : Nearest(R, m) = r}) : r \in R}

(* The ranges of the topics a chunk becomes.                               *)
Topics(chunk, answer) == Salvaged(chunk, Disjoint(chunk, answer))

-----------------------------------------------------------------------------
(* What the algorithm promises about a chunk it accepts.                   *)

(* No message is in two topics, none is in no topic, and no topic is empty.  *)
Partition(chunk, R) ==
  /\ \A r, s \in R : r # s => r.to < s.from \/ s.to < r.from
  /\ \A m \in chunk : \E r \in R : m \in Inside(chunk, r)
  /\ \A r \in R : Inside(chunk, r) # {}
=============================================================================
