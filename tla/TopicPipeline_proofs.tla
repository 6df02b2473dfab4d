------------------------- MODULE TopicPipeline_proofs -------------------------
(***************************************************************************)
(* What holds of the topics of a user for any number of messages, topics,   *)
(* forced runs and faults.                                                 *)
(*                                                                         *)
(*  1. Ids and chunks.                                                     *)
(*  2. The inductive invariant.                                            *)
(*  3. Types.                                                              *)
(*  4. Ids and ranges: a message lies in the range of its topic.            *)
(*  5. Merging: the topic a merge fills is not merged away meanwhile, the   *)
(*     topics it deletes have lost their messages.                         *)
(*  6. Extracting facts: who holds the lock reads what nobody told.         *)
(*  7. The results.                                                        *)
(*  8. What a merge moves, when four things do not happen.                  *)
(*                                                                         *)
(* NoMessageDangles is not inductive.  A deleted topic has lost its         *)
(* messages because the range of the merged topic spans both its parts      *)
(* (Spanning), because a message lies in the range of its topic (Placed)    *)
(* and because nobody merges away a topic that another merge is filling     *)
(* (Separate): that rests on Whole, the model's assumption about time.      *)
(***************************************************************************)
EXTENDS TopicPipeline, TopicRanges_proofs

-----------------------------------------------------------------------------
(* 1. Ids and chunks.                                                      *)


(* Ids that were given to a row.                                           *)
Used == {t \in Ids : span[t].from # None}

(* AUTOINCREMENT: the ids given out are 1 .. n.                             *)
Contiguous == \E n \in 0 .. MaxTopics : Used = 1 .. n

LEMMA NextIdIsFresh ==
  ASSUME Contiguous
  PROVE  /\ NextId \in Nat \ {0} /\ NextId \notin Used
         /\ NextId <= MaxTopics => NextId \in Ids /\ Used \cup {NextId} = 1 .. NextId
<1>1. PICK n \in 0 .. MaxTopics : Used = 1 .. n
  BY DEF Contiguous
<1>2. MaxTopics \in Nat /\ n \in Nat
  BY BoundsAssumption
<1>3. Cardinality(1 .. n) = n
  BY <1>2, FS_Interval
<1>4. NextId = Cardinality(Used) + 1
  BY DEF NextId, Used
<1>5. NextId = n + 1
  BY <1>1, <1>3, <1>4
<1>. QED BY <1>1, <1>2, <1>5 DEF Ids

(* The ranges of a chunk's topics lie in the chunk.                         *)
LEMMA TopicsInChunk ==
  ASSUME NEW c \in SUBSET Msgs, NEW answer, Usable(c, Disjoint(c, answer))
  PROVE  Topics(c, answer) \in SUBSET Ranges(c)
<1>1. MaxMessages \in Nat
  BY BoundsAssumption
<1>2. c \in SUBSET (0 .. MaxMessages)
  BY <1>1 DEF Msgs
<1>. QED BY <1>1, <1>2, TopicsFit

-----------------------------------------------------------------------------
(* 2. The inductive invariant.                                             *)

Merging(w) == at[w] \in {"insert", "messages1", "messages2", "facts1", "facts2",
                         "drop1", "drop2"}
Moving(w)  == Merging(w) /\ at[w] # "insert"
Telling(w) == at[w] \in {"read", "tell", "mark"}

(* Whatever names a topic names one that got its id.                        *)
Known ==
  /\ live \subseteq Used /\ extracted \subseteq Used /\ told \subseteq Used
  /\ \A m \in Msgs : topicOf[m] \in Used \cup {None}
  /\ \A w \in Workers : list[w] \subseteq Used

Spanned == \A t \in Used : span[t].to # None /\ span[t].from <= span[t].to

(* What is left to save lies in the chunk.                                  *)
Chunked == \A w \in Workers : todo[w] \subseteq Ranges(chunk[w])

(* Two topics, the second behind the first.                                 *)
Neighbours(p) ==
  p[1] \in Used /\ p[2] \in Used /\ p[1] # p[2] /\ span[p[1]].to < span[p[2]].from

Paired ==
  \A w \in Mergers :
    /\ \A p \in pairs[w] : Neighbours(p)
    /\ Merging(w) => Neighbours(cand[w])

(* The merged topic is there and spans both.                                *)
Spanning ==
  \A w \in Mergers : Moving(w) =>
    /\ new[w] \in live
    /\ span[new[w]].from = span[cand[w][1]].from
    /\ span[new[w]].to = span[cand[w][2]].to

(* Nobody merges away a topic that another merge is filling.                *)
Separate ==
  \A w, u \in Mergers :
    Merging(w) /\ Moving(u) => new[u] # cand[w][1] /\ new[u] # cand[w][2]

(* A message that has a topic lies in the range of one that exists.         *)
Placed ==
  \A m \in Msgs : topicOf[m] # None =>
    /\ topicOf[m] \in live
    /\ span[topicOf[m]].from <= m /\ m <= span[topicOf[m]].to

(* The topics that are going to be deleted have lost their messages.        *)
Emptied ==
  \A w \in Mergers : \A m \in Msgs :
    /\ at[w] \in {"messages2", "facts1", "facts2", "drop1", "drop2"} => topicOf[m] # cand[w][1]
    /\ at[w] \in {"facts1", "facts2", "drop1", "drop2"} => topicOf[m] # cand[w][2]

LockHeld ==
  \A w \in Tellers :
    /\ Telling(w) => userLock = w
    /\ ~ Telling(w) => list[w] = {}
    /\ at[w] \in {"tell", "mark"} => list[w] # {}

(* What is on a list has not been told, but for the topic that is about to  *)
(* be marked.                                                              *)
Untold ==
  /\ \A w \in Tellers :
       /\ list[w] \cap extracted = {}
       /\ \A t \in list[w] \cap told : at[w] = "mark" /\ t = Head(w)
  /\ \A t \in told :
       \/ t \in extracted \/ t \notin live
       \/ \E w \in Tellers : at[w] = "mark" /\ t = Head(w)

(* A topic a merge took for extracted stays without facts once they moved.  *)
MovedOn ==
  \A w \in Mergers :
    /\ seen[w] \subseteq extracted
    /\ at[w] \in {"facts2", "drop1", "drop2"} /\ cand[w][1] \in seen[w] => facts[cand[w][1]] = {}
    /\ at[w] \in {"drop1", "drop2"} /\ cand[w][2] \in seen[w] => facts[cand[w][2]] = {}

IInv ==
  /\ TypeOK /\ Contiguous /\ Known /\ Spanned /\ Chunked /\ Paired /\ Spanning
  /\ Separate /\ Placed /\ Emptied /\ LockHeld /\ Untold /\ MovedOn

-----------------------------------------------------------------------------
(* 3. Types.                                                               *)

LEMMA WorkerNames ==
  Archivers \subseteq Workers /\ Mergers \subseteq Workers /\ Tellers \subseteq Workers
BY DEF Workers

LEMMA FirstIs ==
  ASSUME NEW w, todo[w] \in SUBSET Ranges(Msgs), todo[w] # {}
  PROVE  First(w) \in todo[w] /\ \A s \in todo[w] : First(w).from <= s.from
<1> DEFINE Starts == {r.from : r \in todo[w]}
<1>1. \A r \in todo[w] : r.from \in Nat
  BY BoundsAssumption DEF Ranges, Msgs
<1>2. Starts \in SUBSET Nat /\ Starts # {}
  BY <1>1
<1>3. PICK f \in Starts : \A g \in Starts : f <= g
  <2>. HIDE DEF Starts
  <2>. QED BY <1>2, LeastNat
<1>4. \E r \in todo[w] : \A s \in todo[w] : r.from <= s.from
  BY <1>3
<1>. QED BY <1>4, Zenon DEF First

(* The first topic of a facts queue L when the rows are sp.                 *)
Earlier(sp, t, u) == sp[t].stamp < sp[u].stamp \/ (sp[t].stamp = sp[u].stamp /\ t < u)
HeadOf(L, sp) == CHOOSE t \in L : \A u \in L \ {t} : Earlier(sp, t, u)

LEMMA HeadOfIs ==
  ASSUME NEW L \in SUBSET Nat, L # {}, NEW sp, \A t \in L : sp[t].stamp \in Nat
  PROVE  HeadOf(L, sp) \in L /\ \A u \in L \ {HeadOf(L, sp)} : Earlier(sp, HeadOf(L, sp), u)
<1> DEFINE Stamps == {sp[t].stamp : t \in L}
<1>1. Stamps \in SUBSET Nat /\ Stamps # {}
  OBVIOUS
<1>2. PICK f \in Stamps : \A g \in Stamps : f <= g
  <2>. HIDE DEF Stamps
  <2>. QED BY <1>1, LeastNat
<1> DEFINE Oldest == {t \in L : sp[t].stamp = f}
<1>3. Oldest \in SUBSET Nat /\ Oldest # {}
  BY <1>2
<1>4. PICK t \in Oldest : \A u \in Oldest : t <= u
  <2>. HIDE DEF Oldest
  <2>. QED BY <1>3, LeastNat
<1>5. ASSUME NEW u \in L \ {t} PROVE Earlier(sp, t, u)
  <2>1. /\ sp[t].stamp = f /\ f <= sp[u].stamp /\ f \in Nat
        /\ sp[u].stamp = f => t <= u
    BY <1>2, <1>4
  <2>2. t \in Nat /\ u \in Nat /\ u # t /\ sp[u].stamp \in Nat
    BY <1>4
  <2>. QED BY <2>1, <2>2 DEF Earlier
<1>6. \E h \in L : \A u \in L \ {h} : Earlier(sp, h, u)
  BY <1>4, <1>5
<1>. QED BY <1>6, Zenon DEF HeadOf

LEMMA HeadOfSame ==
  ASSUME NEW L \in SUBSET Nat, L # {}, NEW sp, \A t \in L : sp[t].stamp \in Nat,
         NEW sq, \A t \in L : sq[t].stamp = sp[t].stamp
  PROVE  HeadOf(L, sq) = HeadOf(L, sp)
<1> DEFINE h == HeadOf(L, sp)
           k == HeadOf(L, sq)
<1>1. h \in L /\ \A u \in L \ {h} : Earlier(sp, h, u)
  BY HeadOfIs
<1>2. k \in L /\ \A u \in L \ {k} : Earlier(sq, k, u)
  BY HeadOfIs
<1>. HIDE DEF h, k
<1>3. SUFFICES ASSUME k # h PROVE FALSE
  BY DEF h, k
<1>4. Earlier(sp, h, k) /\ Earlier(sq, k, h)
  BY <1>1, <1>2, <1>3
<1>5. h \in Nat /\ k \in Nat /\ sp[h].stamp \in Nat /\ sp[k].stamp \in Nat
      /\ sq[h].stamp = sp[h].stamp /\ sq[k].stamp = sp[k].stamp
  BY <1>1, <1>2
<1>. QED BY <1>4, <1>5 DEF Earlier

LEMMA ListIsOrdered ==
  ASSUME TypeOK, NEW w \in Workers
  PROVE  /\ list[w] \in SUBSET Nat
         /\ \A t \in list[w] : span[t].stamp \in Nat
<1>1. list[w] \in SUBSET Ids
  BY DEF TypeOK, TellersOK
<1>. QED BY <1>1, BoundsAssumption DEF TypeOK, TablesOK, Spans, Msgs, Ids, None

LEMMA HeadIs ==
  ASSUME TypeOK, NEW w \in Workers, list[w] # {}
  PROVE  Head(w) \in list[w]
<1>1. Head(w) = HeadOf(list[w], span)
  BY DEF Head, HeadOf, Before, Earlier
<1>. QED BY <1>1, ListIsOrdered, HeadOfIs

LEMMA SpanOfTodo ==
  ASSUME IInv, NEW w \in Workers, todo[w] # {}
  PROVE  /\ First(w) \in Ranges(chunk[w])
         /\ First(w).from \in Msgs /\ First(w).to \in Msgs /\ First(w).from <= First(w).to
         /\ NewSpan(First(w), Highest(chunk[w])) \in Spans
<1>1. todo[w] \in SUBSET Ranges(Msgs) /\ chunk[w] \in SUBSET Msgs
      /\ todo[w] \subseteq Ranges(chunk[w])
  BY DEF IInv, TypeOK, ArchiversOK, Chunked
<1>2. First(w) \in Ranges(chunk[w])
  BY <1>1, FirstIs
<1>3. /\ First(w).from \in chunk[w] /\ First(w).to \in chunk[w]
      /\ First(w).from <= First(w).to
  BY <1>2 DEF Ranges
<1>4. MaxMessages \in Nat /\ chunk[w] \in SUBSET (0 .. MaxMessages) /\ chunk[w] # {}
  BY <1>1, <1>3, BoundsAssumption DEF Msgs
<1>5. Highest(chunk[w]) \in chunk[w]
  BY <1>4, HighestIs
<1>. QED BY <1>1, <1>2, <1>3, <1>5 DEF NewSpan, Spans

LEMMA MessagesInMsgs ==
  ASSUME TypeOK
  PROVE  /\ Unprocessed \in SUBSET Msgs
         /\ \A t : MessagesOf(t) \in SUBSET Msgs
         /\ 1 .. sent \in SUBSET Msgs
<1>1. sent \in Nat /\ sent <= MaxMessages /\ MaxMessages \in Nat
  BY BoundsAssumption DEF TypeOK, TablesOK
<1>2. 1 .. sent \in SUBSET Msgs
  BY <1>1 DEF Msgs
<1>. QED BY <1>2 DEF Unprocessed, MessagesOf

LEMMA TypeInit == Init => TypeOK
BY BoundsAssumption DEF Init, TypeOK, TablesOK, ArchiversOK, MergersOK, TellersOK, Spans,
   Msgs, Ids, None, Phases

LEMMA AtStep ==
  ASSUME TypeOK, [Next]_vars
  PROVE  at' \in [Workers -> Phases]
<1>1. at \in [Workers -> Phases]
  BY DEF TypeOK
<1>2. CASE UNCHANGED vars
  BY <1>1, <1>2 DEF vars
<1>3. CASE Store \/ GiveUp \/ Crash
  BY <1>1, <1>3 DEF Store, GiveUp, Crash, Reset, Goto, Phases
<1>4. ASSUME NEW w \in Archivers,
             \/ Fetch(w) \/ Split(w) \/ SplitFails(w)
             \/ Save(w) \/ SaveFails(w) \/ EndChunk(w)
      PROVE  at' \in [Workers -> Phases]
  BY <1>1, <1>4 DEF Fetch, Split, SplitFails, Save, SaveFails, EndChunk, Goto, Phases
<1>5. ASSUME NEW w \in Mergers,
             \/ Find(w) \/ Refuse(w) \/ Agree(w) \/ MergeFails(w) \/ EndMerging(w)
             \/ Insert(w) \/ MoveMessages(w) \/ MoveFacts(w) \/ Drop(w)
      PROVE  at' \in [Workers -> Phases]
  BY <1>1, <1>5 DEF Find, Refuse, Agree, MergeFails, EndMerging, Insert, MoveMessages,
     MoveFacts, Drop, Goto, Phases
<1>6. ASSUME NEW w \in Tellers,
             \/ Lock(w) \/ Read(w) \/ Tell(w) \/ TellFails(w) \/ Mark(w) \/ Unlock(w)
      PROVE  at' \in [Workers -> Phases]
  BY <1>1, <1>6 DEF Lock, Read, Tell, TellFails, Mark, Unlock, Goto, Phases
<1>. QED BY <1>2, <1>3, <1>4, <1>5, <1>6 DEF Next

LEMMA TablesStep ==
  ASSUME IInv, [Next]_vars
  PROVE  TablesOK'
<1>1. TablesOK /\ TypeOK /\ Contiguous
  BY DEF IInv, TypeOK
<1>2. NextId <= MaxTopics => NextId \in Ids
  BY <1>1, NextIdIsFresh
<1>3. CASE UNCHANGED vars
  BY <1>1, <1>3 DEF vars, tables, TablesOK
<1>4. CASE Store
  BY <1>1, <1>4, BoundsAssumption DEF Store, TablesOK
<1>5. CASE GiveUp
  BY <1>1, <1>5 DEF GiveUp, tables, TablesOK
<1>6. CASE Crash
  <2>1. live' \in SUBSET Ids /\ span' \in [Ids -> Spans]
    <3>1. CASE UNCHANGED <<live, span>>
      BY <1>1, <3>1 DEF TablesOK
    <3>2. CASE \E w \in Archivers :
                 /\ at[w] = "save" /\ todo[w] # {} /\ NextId <= MaxTopics
                 /\ live' = live \cup {NextId}
                 /\ span' = [span EXCEPT ![NextId] = NewSpan(First(w), Highest(chunk[w]))]
      <4>1. PICK w \in Archivers :
                 /\ todo[w] # {} /\ NextId <= MaxTopics
                 /\ live' = live \cup {NextId}
                 /\ span' = [span EXCEPT ![NextId] = NewSpan(First(w), Highest(chunk[w]))]
        BY <3>2
      <4>2. NewSpan(First(w), Highest(chunk[w])) \in Spans
        BY <4>1, SpanOfTodo, WorkerNames
      <4>. QED BY <1>1, <1>2, <4>1, <4>2 DEF TablesOK
    <3>. QED BY <1>6, <3>1, <3>2 DEF Crash
  <2>. QED BY <1>1, <1>6, <2>1 DEF Crash, TablesOK
<1>7. ASSUME NEW w \in Archivers, Fetch(w) \/ Split(w) \/ SplitFails(w) \/ EndChunk(w)
      PROVE  TablesOK'
  BY <1>1, <1>7 DEF Fetch, Split, SplitFails, EndChunk, tables, TablesOK
<1>8. ASSUME NEW w \in Archivers, Save(w) \/ SaveFails(w)
      PROVE  TablesOK'
  <2>1. NextId \in Ids /\ NewSpan(First(w), Highest(chunk[w])) \in Spans
    BY <1>2, <1>8, SpanOfTodo, WorkerNames DEF Save, SaveFails
  <2>2. \A r : Repointed(r, NextId) \in [Msgs -> Ids \cup {None}]
    BY <1>1, <2>1 DEF Repointed, TablesOK
  <2>3. live' \in SUBSET Ids /\ span' \in [Ids -> Spans]
    BY <1>1, <1>8, <2>1 DEF Save, SaveFails, TablesOK
  <2>4. topicOf' \in [Msgs -> Ids \cup {None}]
    BY <1>1, <1>8, <2>2 DEF Save, SaveFails, TablesOK
  <2>. QED BY <1>1, <1>8, <2>3, <2>4 DEF Save, SaveFails, TablesOK
<1>9. ASSUME NEW w \in Mergers, Find(w) \/ Refuse(w) \/ EndMerging(w)
      PROVE  TablesOK'
  <2>1. checked' \in SUBSET Ids
    <3>1. Candidates \in SUBSET (Ids \X Ids) /\ own[w] \in SUBSET Ids /\ Orphans \in SUBSET Ids
          /\ pairs[w] \in SUBSET (Ids \X Ids)
      BY <1>1, WorkerNames DEF Candidates, Orphans, Pending, TablesOK, ArchiversOK, MergersOK, TypeOK
    <3>2. CASE Find(w)
      BY <1>1, <3>1, <3>2 DEF Find, TablesOK
    <3>3. CASE Refuse(w)
      BY <1>1, <3>1, <3>3 DEF Refuse, TablesOK
    <3>4. CASE EndMerging(w)
      BY <1>1, <3>1, <3>4 DEF EndMerging, TablesOK
    <3>. QED BY <1>9, <3>2, <3>3, <3>4
  <2>. QED BY <1>1, <1>9, <2>1 DEF Find, Refuse, EndMerging, TablesOK
<1>10. ASSUME NEW w \in Mergers, Agree(w) \/ MergeFails(w)
       PROVE  TablesOK'
  BY <1>1, <1>10 DEF Agree, MergeFails, tables, TablesOK
<1>11. ASSUME NEW w \in Mergers, Insert(w)
       PROVE  TablesOK'
  <2>1. cand[w][1] \in Ids /\ cand[w][2] \in Ids
    BY <1>11 DEF Insert, IInv, Paired, Merging, Neighbours, Used
  <2>2. NextId \in Ids
    BY <1>2, <1>11 DEF Insert
  <2>3. span[cand[w][1]] \in Spans /\ span[cand[w][2]] \in Spans
    BY <1>1, <2>1 DEF TablesOK
  <2>4. NewSpan([from |-> span[cand[w][1]].from, to |-> span[cand[w][2]].to],
                span[cand[w][2]].stamp) \in Spans
    BY <2>3 DEF NewSpan, Spans
  <2>5. span' \in [Ids -> Spans]
    BY <1>1, <1>11, <2>2, <2>4 DEF Insert, TablesOK
  <2>6. live' \in SUBSET Ids /\ merged' \in SUBSET Ids /\ extracted' \in SUBSET Ids
    BY <1>1, <1>11, <2>2 DEF Insert, TablesOK
  <2>. QED BY <1>1, <1>11, <2>5, <2>6 DEF Insert, TablesOK
<1>12. ASSUME NEW w \in Mergers, MoveMessages(w)
       PROVE  TablesOK'
  <2>1. new[w] \in Ids \cup {None}
    BY <1>1, WorkerNames DEF TypeOK, MergersOK
  <2>2. \A r : Repointed(r, new[w]) \in [Msgs -> Ids \cup {None}]
    BY <1>1, <2>1 DEF Repointed, TablesOK
  <2>3. topicOf' \in [Msgs -> Ids \cup {None}]
    BY <1>12, <2>2 DEF MoveMessages
  <2>. QED BY <1>1, <1>12, <2>3 DEF MoveMessages, TablesOK
<1>13. ASSUME NEW w \in Mergers, MoveFacts(w) \/ Drop(w)
       PROVE  TablesOK'
  <2>1. cand[w][1] \in Ids /\ cand[w][2] \in Ids
    BY <1>13 DEF MoveFacts, Drop, IInv, Paired, Merging, Neighbours, Used
  <2>2. facts' \in [Ids -> SUBSET Msgs] /\ live' \in SUBSET Ids
    <3>1. CASE MoveFacts(w)
      BY <1>1, <2>1, <3>1 DEF MoveFacts, TablesOK
    <3>2. CASE Drop(w)
      BY <1>1, <2>1, <3>2 DEF Drop, TablesOK
    <3>. QED BY <1>13, <3>1, <3>2
  <2>. QED BY <1>1, <1>13, <2>2 DEF MoveFacts, Drop, TablesOK
<1>14. ASSUME NEW w \in Tellers, Lock(w) \/ Unlock(w)
       PROVE  TablesOK'
  BY <1>1, <1>14 DEF Lock, Unlock, tables, TablesOK
<1>15. ASSUME NEW w \in Tellers, Read(w) \/ Mark(w)
       PROVE  TablesOK'
  <2>1. extracted' \in SUBSET Ids
    BY <1>1, <1>15 DEF Read, Mark, TablesOK
  <2>. QED BY <1>1, <1>15, <2>1 DEF Read, Mark, TablesOK
<1>16. ASSUME NEW w \in Tellers, Tell(w) \/ TellFails(w)
       PROVE  TablesOK'
  <2>1. text[w] \in SUBSET Msgs
    BY <1>1, WorkerNames DEF TypeOK, TellersOK
  <2>2. facts' \in [Ids -> SUBSET Msgs]
    BY <1>1, <1>16, <2>1 DEF Tell, TellFails, TablesOK
  <2>. QED BY <1>1, <1>16, <2>2 DEF Tell, TellFails, TablesOK
<1>. QED BY <1>3, <1>4, <1>5, <1>6, <1>7, <1>8, <1>9, <1>10, <1>11, <1>12, <1>13, <1>14,
         <1>15, <1>16 DEF Next

LEMMA SplitRanges ==
  ASSUME IInv, NEW w \in Archivers, Split(w)
  PROVE  \E c \in SUBSET Msgs : \E T \in SUBSET Ranges(c) :
           /\ chunk' = [chunk EXCEPT ![w] = c] /\ todo' = [todo EXCEPT ![w] = T]
           /\ rest' = [rest EXCEPT ![w] = @ \ c]
<1>1. PICK c \in Chunks(w), answer \in UNION {Answers(k) : k \in Chunks(w)} :
        /\ Usable(c, Disjoint(c, answer))
        /\ chunk' = [chunk EXCEPT ![w] = c]
        /\ todo' = [todo EXCEPT ![w] = Topics(c, answer)]
        /\ rest' = [rest EXCEPT ![w] = @ \ c]
  BY DEF Split
<1>2. rest[w] \in SUBSET Msgs
  BY WorkerNames DEF IInv, TypeOK, ArchiversOK
<1>3. c \in SUBSET Msgs
  BY <1>2 DEF Chunks
<1>4. Topics(c, answer) \in SUBSET Ranges(c)
  BY <1>1, <1>3, TopicsInChunk
<1>. QED BY <1>1, <1>3, <1>4

LEMMA ArchiversStep ==
  ASSUME IInv, [Next]_vars
  PROVE  ArchiversOK'
<1>1. ArchiversOK /\ TypeOK
  BY DEF IInv, TypeOK
<1>2. CASE UNCHANGED vars
  BY <1>1, <1>2 DEF vars, archVars, ArchiversOK
<1>3. CASE Store \/ GiveUp \/ Crash
  BY <1>1, <1>3 DEF Store, GiveUp, Crash, Reset, archVars, ArchiversOK
<1>4. ASSUME NEW w \in Archivers, Fetch(w) \/ SplitFails(w)
      PROVE  ArchiversOK'
  <2>1. Unprocessed \in SUBSET Msgs
    BY <1>1, MessagesInMsgs
  <2>2. rest' \in [Workers -> SUBSET Msgs]
    BY <1>1, <1>4, <2>1 DEF Fetch, SplitFails, ArchiversOK
  <2>. QED BY <1>1, <1>4, <2>2 DEF Fetch, SplitFails, ArchiversOK
<1>5. ASSUME NEW w \in Archivers, Split(w)
      PROVE  ArchiversOK'
  <2>0. PICK c \in SUBSET Msgs : \E T \in SUBSET Ranges(c) :
          /\ chunk' = [chunk EXCEPT ![w] = c] /\ todo' = [todo EXCEPT ![w] = T]
          /\ rest' = [rest EXCEPT ![w] = @ \ c]
    BY <1>5, SplitRanges
  <2>1. PICK T \in SUBSET Ranges(c) :
          /\ chunk' = [chunk EXCEPT ![w] = c] /\ todo' = [todo EXCEPT ![w] = T]
          /\ rest' = [rest EXCEPT ![w] = @ \ c]
    BY <2>0
  <2>2. Ranges(c) \subseteq Ranges(Msgs)
    BY DEF Ranges
  <2>6. todo' \in [Workers -> SUBSET Ranges(Msgs)]
    BY <1>1, <2>1, <2>2 DEF ArchiversOK
  <2>7. chunk' \in [Workers -> SUBSET Msgs] /\ rest' \in [Workers -> SUBSET Msgs]
    BY <1>1, <2>1 DEF ArchiversOK
  <2>8. own' \in [Workers -> SUBSET Ids]
    BY <1>1, <1>5 DEF Split, ArchiversOK
  <2>. QED BY <2>6, <2>7, <2>8 DEF ArchiversOK
<1>6. ASSUME NEW w \in Archivers, Save(w) \/ SaveFails(w)
      PROVE  ArchiversOK'
  <2>1. NextId <= MaxTopics => NextId \in Ids
    BY NextIdIsFresh DEF IInv
  <2>2. own' \in [Workers -> SUBSET Ids]
    BY <1>1, <1>6, <2>1 DEF Save, SaveFails, ArchiversOK
  <2>3. todo' \in [Workers -> SUBSET Ranges(Msgs)]
    BY <1>1, <1>6 DEF Save, SaveFails, ArchiversOK
  <2>. QED BY <1>1, <1>6, <2>2, <2>3 DEF Save, SaveFails, ArchiversOK
<1>7. ASSUME NEW w \in Archivers, EndChunk(w)
      PROVE  ArchiversOK'
  BY <1>1, <1>7 DEF EndChunk, ArchiversOK
<1>8. ASSUME NEW w \in Mergers,
             \/ Find(w) \/ Refuse(w) \/ Agree(w) \/ MergeFails(w) \/ EndMerging(w)
             \/ Insert(w) \/ MoveMessages(w) \/ MoveFacts(w)
      PROVE  ArchiversOK'
  BY <1>1, <1>8 DEF Find, Refuse, Agree, MergeFails, EndMerging, Insert, MoveMessages,
     MoveFacts, archVars, ArchiversOK
<1>9. ASSUME NEW w \in Mergers, Drop(w)
      PROVE  ArchiversOK'
  <2>1. new[w] \in Ids
    BY <1>1, <1>9 DEF Drop, IInv, Spanning, Moving, Merging, TypeOK, TablesOK
  <2>2. own' \in [Workers -> SUBSET Ids]
    BY <1>1, <1>9, <2>1 DEF Drop, ArchiversOK
  <2>. QED BY <1>1, <1>9, <2>2 DEF Drop, archVars, ArchiversOK
<1>10. ASSUME NEW w \in Tellers,
             \/ Lock(w) \/ Read(w) \/ Tell(w) \/ TellFails(w) \/ Mark(w) \/ Unlock(w)
      PROVE  ArchiversOK'
  BY <1>1, <1>10 DEF Lock, Read, Tell, TellFails, Mark, Unlock, archVars, ArchiversOK
<1>. QED BY <1>2, <1>3, <1>4, <1>5, <1>6, <1>7, <1>8, <1>9, <1>10 DEF Next

LEMMA FindPairs ==
  ASSUME NEW w \in Mergers, Find(w)
  PROVE  \E P \in SUBSET Candidates : pairs' = [pairs EXCEPT ![w] = P]
<1>1. PICK large \in SUBSET Candidates, alike \in SUBSET Candidates :
        pairs' = [pairs EXCEPT ![w] = {p \in alike : Relevant(w, p)}]
  BY DEF Find
<1>2. {p \in alike : Relevant(w, p)} \in SUBSET Candidates
  OBVIOUS
<1>. QED BY <1>1, <1>2

LEMMA MergersStep ==
  ASSUME IInv, [Next]_vars
  PROVE  MergersOK'
<1>1. MergersOK /\ TypeOK
  BY DEF IInv, TypeOK
<1>2. CASE UNCHANGED vars
  BY <1>1, <1>2 DEF vars, mergVars, MergersOK
<1>3. CASE Store \/ GiveUp
  BY <1>1, <1>3 DEF Store, GiveUp, mergVars, MergersOK
<1>4. CASE Crash
  BY <1>1, <1>4 DEF Crash, Reset, MergersOK, None
<1>5. ASSUME NEW w \in Archivers,
             \/ Fetch(w) \/ Split(w) \/ SplitFails(w)
             \/ Save(w) \/ SaveFails(w) \/ EndChunk(w)
      PROVE  MergersOK'
  BY <1>1, <1>5 DEF Fetch, Split, SplitFails, Save, SaveFails, EndChunk, mergVars, MergersOK
<1>6. ASSUME NEW w \in Mergers, Find(w)
      PROVE  MergersOK'
  <2>1. Candidates \in SUBSET (Ids \X Ids) /\ extracted \in SUBSET Ids
    BY <1>1 DEF Candidates, TypeOK, TablesOK
  <2>2. pairs' \in [Workers -> SUBSET (Ids \X Ids)]
    <3>1. PICK P \in SUBSET Candidates : pairs' = [pairs EXCEPT ![w] = P]
      BY <1>6, FindPairs
    <3>. QED BY <1>1, <2>1, <3>1 DEF MergersOK
  <2>3. seen' \in [Workers -> SUBSET Ids]
    BY <1>1, <1>6, <2>1 DEF Find, MergersOK
  <2>. QED BY <1>1, <1>6, <2>2, <2>3 DEF Find, MergersOK
<1>7. ASSUME NEW w \in Mergers, Refuse(w) \/ MergeFails(w)
      PROVE  MergersOK'
  <2>1. pairs' \in [Workers -> SUBSET (Ids \X Ids)]
    BY <1>1, <1>7 DEF Refuse, MergeFails, MergersOK
  <2>. QED BY <1>1, <1>7, <2>1 DEF Refuse, MergeFails, MergersOK
<1>8. ASSUME NEW w \in Mergers, Agree(w)
      PROVE  MergersOK'
  <2>1. PICK p \in pairs[w] :
          \/ /\ pairs' = [pairs EXCEPT ![w] = @ \ {p}]
             /\ UNCHANGED <<at, cand, seen>>
          \/ /\ pairs' = [pairs EXCEPT ![w] = {}]
             /\ cand' = [cand EXCEPT ![w] = p]
             /\ seen' = [seen EXCEPT ![w] = @ \cap {p[1], p[2]}]
    BY <1>8 DEF Agree
  <2>2. p \in Ids \X Ids
    BY <1>1, WorkerNames DEF MergersOK
  <2>3. pairs' \in [Workers -> SUBSET (Ids \X Ids)]
    BY <1>1, <2>1 DEF MergersOK
  <2>4. cand' \in [Workers -> (Ids \cup {None}) \X (Ids \cup {None})]
    BY <1>1, <2>1, <2>2 DEF MergersOK
  <2>5. seen' \in [Workers -> SUBSET Ids]
    BY <1>1, <2>1 DEF MergersOK
  <2>. QED BY <1>1, <1>8, <2>3, <2>4, <2>5 DEF Agree, MergersOK
<1>9. ASSUME NEW w \in Mergers, Insert(w)
      PROVE  MergersOK'
  <2>1. NextId \in Ids
    BY <1>9, NextIdIsFresh DEF Insert, IInv
  <2>2. new' \in [Workers -> Ids \cup {None}]
    BY <1>1, <1>9, <2>1 DEF Insert, MergersOK
  <2>. QED BY <1>1, <1>9, <2>2 DEF Insert, MergersOK
<1>10. ASSUME NEW w \in Mergers, MoveMessages(w) \/ MoveFacts(w)
       PROVE  MergersOK'
  BY <1>1, <1>10 DEF MoveMessages, MoveFacts, mergVars, MergersOK
<1>11. ASSUME NEW w \in Mergers, Drop(w)
       PROVE  MergersOK'
  <2>1. CASE at[w] = "drop1"
    <3>1. cand' = cand /\ new' = new
      BY <1>11, <2>1 DEF Drop
    <3>. QED BY <1>1, <1>11, <3>1 DEF Drop, MergersOK
  <2>2. CASE at[w] = "drop2"
    <3>1. cand' = [cand EXCEPT ![w] = <<None, None>>] /\ new' = [new EXCEPT ![w] = None]
      BY <1>11, <2>2 DEF Drop
    <3>2. cand' \in [Workers -> (Ids \cup {None}) \X (Ids \cup {None})]
      BY <1>1, <3>1 DEF MergersOK
    <3>3. new' \in [Workers -> Ids \cup {None}]
      BY <1>1, <3>1 DEF MergersOK
    <3>. QED BY <1>1, <1>11, <3>2, <3>3 DEF Drop, MergersOK
  <2>. QED BY <1>11, <2>1, <2>2 DEF Drop
<1>12. ASSUME NEW w \in Mergers, EndMerging(w)
       PROVE  MergersOK'
  BY <1>1, <1>12 DEF EndMerging, MergersOK
<1>13. ASSUME NEW w \in Tellers,
             \/ Lock(w) \/ Read(w) \/ Tell(w) \/ TellFails(w) \/ Mark(w) \/ Unlock(w)
       PROVE  MergersOK'
  BY <1>1, <1>13 DEF Lock, Read, Tell, TellFails, Mark, Unlock, mergVars, MergersOK
<1>. QED BY <1>2, <1>3, <1>4, <1>5, <1>6, <1>7, <1>8, <1>9, <1>10, <1>11, <1>12, <1>13 DEF Next

LEMMA TellersStep ==
  ASSUME IInv, [Next]_vars
  PROVE  TellersOK'
<1>1. TellersOK /\ TypeOK
  BY DEF IInv, TypeOK
<1>2. CASE UNCHANGED vars
  BY <1>1, <1>2 DEF vars, tellVars, TellersOK
<1>3. CASE Store \/ GiveUp \/ Crash
  BY <1>1, <1>3 DEF Store, GiveUp, Crash, Reset, tellVars, TellersOK
<1>4. ASSUME NEW w \in Archivers,
             \/ Fetch(w) \/ Split(w) \/ SplitFails(w)
             \/ Save(w) \/ SaveFails(w) \/ EndChunk(w)
      PROVE  TellersOK'
  BY <1>1, <1>4 DEF Fetch, Split, SplitFails, Save, SaveFails, EndChunk, tellVars, TellersOK
<1>5. ASSUME NEW w \in Mergers,
             \/ Find(w) \/ Refuse(w) \/ Agree(w) \/ MergeFails(w) \/ EndMerging(w)
             \/ Insert(w) \/ MoveMessages(w) \/ MoveFacts(w) \/ Drop(w)
      PROVE  TellersOK'
  BY <1>1, <1>5 DEF Find, Refuse, Agree, MergeFails, EndMerging, Insert, MoveMessages,
     MoveFacts, Drop, tellVars, TellersOK
<1>6. ASSUME NEW w \in Tellers, Lock(w)
      PROVE  TellersOK'
  <2>1. Due(w) \in SUBSET Ids
    BY <1>1 DEF Due, Pending, TypeOK, TablesOK
  <2>. QED BY <1>1, <1>6, <2>1 DEF Lock, TellersOK
<1>7. ASSUME NEW w \in Tellers, Read(w)
      PROVE  TellersOK'
  <2>1. text' \in [Workers -> SUBSET Msgs] /\ list' \in [Workers -> SUBSET Ids]
    BY <1>1, <1>7, MessagesInMsgs DEF Read, TellersOK
  <2>. QED BY <1>1, <1>7, <2>1 DEF Read, TellersOK
<1>8. ASSUME NEW w \in Tellers, Tell(w) \/ TellFails(w) \/ Mark(w)
      PROVE  TellersOK'
  <2>1. list[w] # {}
    BY <1>8 DEF Tell, TellFails, Mark, IInv, LockHeld
  <2>2. Head(w) \in list[w] /\ list[w] \in SUBSET Ids
    BY <1>1, <2>1, HeadIs, WorkerNames DEF TellersOK
  <2>3. told' \in SUBSET Ids
    BY <1>1, <1>8, <2>2 DEF Tell, TellFails, Mark, TellersOK
  <2>4. text' \in [Workers -> SUBSET Msgs] /\ list' \in [Workers -> SUBSET Ids]
    BY <1>1, <1>8 DEF Tell, TellFails, Mark, TellersOK
  <2>. QED BY <1>1, <1>8, <2>3, <2>4 DEF Tell, TellFails, Mark, TellersOK
<1>9. ASSUME NEW w \in Tellers, Unlock(w)
      PROVE  TellersOK'
  BY <1>1, <1>9 DEF Unlock, TellersOK
<1>. QED BY <1>2, <1>3, <1>4, <1>5, <1>6, <1>7, <1>8, <1>9 DEF Next

LEMMA BoundsStep ==
  ASSUME IInv, [Next]_vars
  PROVE  forcedRuns' \in 0 .. MaxForced /\ faults' \in 0 .. MaxFaults
<1>1. forcedRuns \in 0 .. MaxForced /\ faults \in 0 .. MaxFaults
  BY DEF IInv, TypeOK
<1>2. \/ UNCHANGED events \/ Forced \/ Fault
  <2>1. CASE UNCHANGED vars
    BY <2>1 DEF vars, events
  <2>2. CASE Store \/ GiveUp \/ Crash
    BY <2>2 DEF Store, GiveUp, Crash
  <2>3. ASSUME NEW w \in Archivers,
             \/ Fetch(w) \/ Split(w) \/ SplitFails(w)
             \/ Save(w) \/ SaveFails(w) \/ EndChunk(w)
        PROVE  \/ UNCHANGED events \/ Forced \/ Fault
    BY <2>3 DEF Fetch, Split, SplitFails, Save, SaveFails, EndChunk
  <2>4. ASSUME NEW w \in Mergers,
             \/ Find(w) \/ Refuse(w) \/ Agree(w) \/ MergeFails(w) \/ EndMerging(w)
             \/ Insert(w) \/ MoveMessages(w) \/ MoveFacts(w) \/ Drop(w)
        PROVE  \/ UNCHANGED events \/ Forced \/ Fault
    BY <2>4 DEF Find, Refuse, Agree, MergeFails, EndMerging, Insert, MoveMessages,
       MoveFacts, Drop
  <2>5. ASSUME NEW w \in Tellers,
             \/ Lock(w) \/ Read(w) \/ Tell(w) \/ TellFails(w) \/ Mark(w) \/ Unlock(w)
        PROVE  \/ UNCHANGED events \/ Forced \/ Fault
    BY <2>5 DEF Lock, Read, Tell, TellFails, Mark, Unlock
  <2>. QED BY <2>1, <2>2, <2>3, <2>4, <2>5 DEF Next
<1>. QED BY <1>1, <1>2, BoundsAssumption DEF events, Forced, Fault

LEMMA TypeStep == IInv /\ [Next]_vars => TypeOK'
<1>1. SUFFICES ASSUME IInv, [Next]_vars PROVE TypeOK'
  OBVIOUS
<1>2. TypeOK
  BY <1>1 DEF IInv
<1>. QED BY <1>1, <1>2, TablesStep, ArchiversStep, MergersStep, TellersStep, AtStep, BoundsStep
     DEF TypeOK

-----------------------------------------------------------------------------
(* 4. Ids and ranges.                                                      *)

(* A new row takes the next id and leaves the others alone.                 *)
LEMMA NewRow ==
  ASSUME IInv, NextId <= MaxTopics,
         NEW r, r.from \in Msgs, r.to \in Msgs, r.from <= r.to, NEW stamp \in Msgs \cup {None},
         span' = [span EXCEPT ![NextId] = NewSpan(r, stamp)]
  PROVE  /\ Used' = Used \cup {NextId} /\ Contiguous' /\ Spanned'
         /\ \A t \in Used : span'[t] = span[t]
         /\ span'[NextId] = NewSpan(r, stamp)
<1>1. /\ NextId \in Ids /\ NextId \notin Used
      /\ Used \cup {NextId} = 1 .. NextId /\ NextId \in Nat
  BY NextIdIsFresh DEF IInv
<1>2. span \in [Ids -> Spans]
  BY DEF IInv, TypeOK, TablesOK
<1>3. span'[NextId] = NewSpan(r, stamp) /\ \A t \in Ids \ {NextId} : span'[t] = span[t]
  BY <1>1, <1>2
<1>4. r.from # None /\ r.to # None
  BY DEF Msgs, None
<1>5. Used' = Used \cup {NextId}
  BY <1>1, <1>3, <1>4 DEF Used, NewSpan
<1>6. \A t \in Used : span'[t] = span[t]
  BY <1>1, <1>3 DEF Used
<1>7. Contiguous'
  BY <1>1, <1>5, BoundsAssumption DEF Contiguous
<1>8. Spanned'
  BY <1>3, <1>4, <1>5, <1>6 DEF Spanned, IInv, NewSpan
<1>. QED BY <1>3, <1>5, <1>6, <1>7, <1>8

LEMMA SavedRow ==
  ASSUME IInv, NEW w \in Workers, todo[w] # {}, NextId <= MaxTopics,
         span' = [span EXCEPT ![NextId] = NewSpan(First(w), Highest(chunk[w]))]
  PROVE  /\ Used' = Used \cup {NextId} /\ Contiguous' /\ Spanned'
         /\ \A t \in Used : span'[t] = span[t]
         /\ span'[NextId] = NewSpan(First(w), Highest(chunk[w]))
<1>1. /\ First(w).from \in Msgs /\ First(w).to \in Msgs /\ First(w).from <= First(w).to
      /\ NewSpan(First(w), Highest(chunk[w])) \in Spans
  BY SpanOfTodo
<1>2. Highest(chunk[w]) \in Msgs \cup {None}
  BY <1>1 DEF NewSpan, Spans
<1>. QED BY <1>1, <1>2, NewRow

LEMMA UsedSpan ==
  ASSUME IInv, NEW t \in Used
  PROVE  /\ span[t].from \in Msgs /\ span[t].to \in Msgs /\ span[t].from <= span[t].to
         /\ span[t].stamp \in Msgs \cup {None}
<1>1. span[t] \in Spans
  BY DEF IInv, TypeOK, TablesOK, Used
<1>. QED BY <1>1 DEF Spans, Used, IInv, Spanned

LEMMA InsertedRow ==
  ASSUME IInv, NEW w \in Mergers, Insert(w)
  PROVE  /\ Used' = Used \cup {NextId} /\ Contiguous' /\ Spanned'
         /\ \A t \in Used : span'[t] = span[t]
         /\ span'[NextId].from = span[cand[w][1]].from
         /\ span'[NextId].to = span[cand[w][2]].to
<1> DEFINE a == cand[w][1]
           b == cand[w][2]
           r == [from |-> span[a].from, to |-> span[b].to]
<1>1. a \in Used /\ b \in Used /\ span[a].to < span[b].from
  BY DEF Insert, IInv, Paired, Neighbours, Merging
<1>2. /\ span[a].from \in Msgs /\ span[a].to \in Msgs /\ span[a].from <= span[a].to
      /\ span[b].from \in Msgs /\ span[b].to \in Msgs /\ span[b].from <= span[b].to
      /\ span[b].stamp \in Msgs \cup {None}
  BY <1>1, UsedSpan
<1>3. r.from \in Msgs /\ r.to \in Msgs /\ r.from <= r.to
  BY <1>1, <1>2, BoundsAssumption DEF Msgs
<1>4. span' = [span EXCEPT ![NextId] = NewSpan(r, span[b].stamp)] /\ NextId <= MaxTopics
  BY DEF Insert
<1>5. /\ Used' = Used \cup {NextId} /\ Contiguous' /\ Spanned'
      /\ \A t \in Used : span'[t] = span[t]
      /\ span'[NextId] = NewSpan(r, span[b].stamp)
  <2>. HIDE DEF r
  <2>. QED BY <1>2, <1>3, <1>4, NewRow
<1>. QED BY <1>5 DEF NewSpan

(* What a step does to the rows: it leaves them, or adds the next one.      *)
LEMMA SpanStep ==
  ASSUME IInv, [Next]_vars
  PROVE  /\ Contiguous' /\ Spanned'
         /\ Used \subseteq Used' /\ \A t \in Used : span'[t] = span[t]
         /\ live' \ live \subseteq Used' \ Used
<1>1. CASE UNCHANGED <<span, live>>
  BY <1>1 DEF IInv, Contiguous, Spanned, Used
<1>2. CASE UNCHANGED vars \/ Store \/ GiveUp
  BY <1>1, <1>2 DEF vars, tables, Store, GiveUp
<1>3. CASE Crash
  <2>1. CASE \E w \in Archivers :
               /\ at[w] = "save" /\ todo[w] # {} /\ NextId <= MaxTopics
               /\ live' = live \cup {NextId}
               /\ span' = [span EXCEPT ![NextId] = NewSpan(First(w), Highest(chunk[w]))]
    <3>1. PICK w \in Archivers :
               /\ todo[w] # {} /\ NextId <= MaxTopics
               /\ live' = live \cup {NextId}
               /\ span' = [span EXCEPT ![NextId] = NewSpan(First(w), Highest(chunk[w]))]
      BY <2>1
    <3>2. NextId \notin Used
      BY NextIdIsFresh DEF IInv
    <3>. QED BY <3>1, <3>2, SavedRow, WorkerNames
  <2>. QED BY <1>1, <1>3, <2>1 DEF Crash
<1>4. ASSUME NEW w \in Archivers, Fetch(w) \/ Split(w) \/ SplitFails(w) \/ EndChunk(w)
      PROVE  UNCHANGED <<span, live>>
  BY <1>4 DEF Fetch, Split, SplitFails, EndChunk, tables
<1>5. ASSUME NEW w \in Archivers, Save(w) \/ SaveFails(w)
      PROVE  \/ UNCHANGED <<span, live>>
             \/ /\ todo[w] # {} /\ NextId <= MaxTopics
                /\ live' = live \cup {NextId}
                /\ span' = [span EXCEPT ![NextId] = NewSpan(First(w), Highest(chunk[w]))]
  BY <1>5 DEF Save, SaveFails
<1>6. ASSUME NEW w \in Archivers, Save(w) \/ SaveFails(w)
      PROVE  /\ Contiguous' /\ Spanned'
             /\ Used \subseteq Used' /\ \A t \in Used : span'[t] = span[t]
             /\ live' \ live \subseteq Used' \ Used
  <2>1. NextId \notin Used
    BY NextIdIsFresh DEF IInv
  <2>. QED BY <1>1, <1>5, <1>6, <2>1, SavedRow, WorkerNames
<1>7. ASSUME NEW w \in Mergers,
             \/ Find(w) \/ Refuse(w) \/ Agree(w) \/ MergeFails(w) \/ EndMerging(w)
             \/ MoveMessages(w) \/ MoveFacts(w)
      PROVE  UNCHANGED <<span, live>>
  BY <1>7 DEF Find, Refuse, Agree, MergeFails, EndMerging, MoveMessages, MoveFacts, tables
<1>8. ASSUME NEW w \in Mergers, Insert(w)
      PROVE  /\ Contiguous' /\ Spanned'
             /\ Used \subseteq Used' /\ \A t \in Used : span'[t] = span[t]
             /\ live' \ live \subseteq Used' \ Used
  <2>1. NextId \notin Used
    BY NextIdIsFresh DEF IInv
  <2>2. live' = live \cup {NextId}
    BY <1>8 DEF Insert
  <2>. QED BY <1>8, <2>1, <2>2, InsertedRow
<1>9. ASSUME NEW w \in Mergers, Drop(w)
      PROVE  /\ Contiguous' /\ Spanned'
             /\ Used \subseteq Used' /\ \A t \in Used : span'[t] = span[t]
             /\ live' \ live \subseteq Used' \ Used
  <2>1. UNCHANGED span /\ live' \subseteq live
    BY <1>9 DEF Drop
  <2>. QED BY <2>1 DEF IInv, Contiguous, Spanned, Used
<1>10. ASSUME NEW w \in Tellers,
             \/ Lock(w) \/ Read(w) \/ Tell(w) \/ TellFails(w) \/ Mark(w) \/ Unlock(w)
       PROVE  UNCHANGED <<span, live>>
  BY <1>10 DEF Lock, Read, Tell, TellFails, Mark, Unlock, tables
<1>. QED BY <1>1, <1>2, <1>3, <1>4, <1>6, <1>7, <1>8, <1>9, <1>10 DEF Next

LEMMA ChunkedStep ==
  ASSUME IInv, [Next]_vars
  PROVE  Chunked'
<1>1. /\ \A w \in Workers : todo[w] \subseteq Ranges(chunk[w])
      /\ todo \in [Workers -> SUBSET Ranges(Msgs)] /\ chunk \in [Workers -> SUBSET Msgs]
  BY DEF IInv, Chunked, TypeOK, ArchiversOK
<1>2. CASE UNCHANGED <<todo, chunk>>
  BY <1>1, <1>2 DEF Chunked
<1>3. CASE UNCHANGED vars \/ Store \/ GiveUp
  BY <1>2, <1>3 DEF vars, archVars, Store, GiveUp
<1>4. CASE Crash
  BY <1>4 DEF Crash, Reset, Chunked
<1>5. ASSUME NEW w \in Archivers, Fetch(w) \/ SplitFails(w)
      PROVE  Chunked'
  BY <1>2, <1>5 DEF Fetch, SplitFails
<1>6. ASSUME NEW w \in Archivers, Split(w)
      PROVE  Chunked'
  <2>1. PICK c \in SUBSET Msgs : \E T \in SUBSET Ranges(c) :
          chunk' = [chunk EXCEPT ![w] = c] /\ todo' = [todo EXCEPT ![w] = T]
    BY <1>6, SplitRanges
  <2>. QED BY <1>1, <2>1 DEF Chunked
<1>7. ASSUME NEW w \in Archivers, Save(w) \/ SaveFails(w)
      PROVE  Chunked'
  BY <1>1, <1>7 DEF Save, SaveFails, Chunked
<1>8. ASSUME NEW w \in Archivers, EndChunk(w)
      PROVE  Chunked'
  BY <1>1, <1>8 DEF EndChunk, Chunked
<1>9. ASSUME NEW w \in Mergers,
             \/ Find(w) \/ Refuse(w) \/ Agree(w) \/ MergeFails(w) \/ EndMerging(w)
             \/ Insert(w) \/ MoveMessages(w) \/ MoveFacts(w) \/ Drop(w)
      PROVE  Chunked'
  BY <1>2, <1>9 DEF Find, Refuse, Agree, MergeFails, EndMerging, Insert, MoveMessages,
     MoveFacts, Drop, archVars
<1>10. ASSUME NEW w \in Tellers,
             \/ Lock(w) \/ Read(w) \/ Tell(w) \/ TellFails(w) \/ Mark(w) \/ Unlock(w)
       PROVE  Chunked'
  BY <1>2, <1>10 DEF Lock, Read, Tell, TellFails, Mark, Unlock, archVars
<1>. QED BY <1>3, <1>4, <1>5, <1>6, <1>7, <1>8, <1>9, <1>10 DEF Next

-----------------------------------------------------------------------------
(* 5. Merging.                                                             *)

(* A step that is not one of its own merge leaves a merger's merge alone,   *)
(* or ends it with the process.                                            *)
Still(u) ==
  /\ at'[u] = at[u] \/ (~ Merging(u) /\ ~ Merging(u)') \/ at'[u] = "idle"
  /\ at'[u] = "verify" => at[u] = "verify"
  /\ pairs'[u] \subseteq pairs[u] /\ seen'[u] \subseteq seen[u]
  /\ Merging(u)' => cand'[u] = cand[u] /\ new'[u] = new[u]

(* The merger agent agrees and there is something to merge.                 *)
Agreed(u) ==
  /\ at[u] = "verify" /\ at' = [at EXCEPT ![u] = "insert"]
  /\ pairs' = [pairs EXCEPT ![u] = {}] /\ seen' = [seen EXCEPT ![u] = @ \cap {cand'[u][1], cand'[u][2]}]
  /\ UNCHANGED new
  /\ \E p \in pairs[u] : Whole(u, p) /\ cand' = [cand EXCEPT ![u] = p]

LEMMA MergerStep ==
  ASSUME TypeOK, [Next]_vars, NEW u \in Mergers
  PROVE  \/ Still(u) \/ Find(u) \/ Agreed(u) \/ Insert(u)
         \/ MoveMessages(u) \/ MoveFacts(u) \/ Drop(u)
<1>1. /\ at \in [Workers -> Phases] /\ pairs \in [Workers -> SUBSET (Ids \X Ids)]
      /\ seen \in [Workers -> SUBSET Ids]
      /\ cand \in [Workers -> (Ids \cup {None}) \X (Ids \cup {None})]
      /\ new \in [Workers -> Ids \cup {None}] /\ u \in Workers
  BY WorkerNames DEF TypeOK, MergersOK
<1>2. CASE UNCHANGED vars
  BY <1>1, <1>2 DEF vars, mergVars, Still
<1>3. CASE Store \/ GiveUp
  BY <1>1, <1>3 DEF Store, GiveUp, Goto, mergVars, Still, Merging
<1>4. CASE Crash
  BY <1>1, <1>4 DEF Crash, Reset, Still, Merging
<1>5. ASSUME NEW w \in Archivers,
             \/ Fetch(w) \/ Split(w) \/ SplitFails(w)
             \/ Save(w) \/ SaveFails(w) \/ EndChunk(w)
      PROVE  Still(u)
  BY <1>1, <1>5 DEF Fetch, Split, SplitFails, Save, SaveFails, EndChunk, Goto, mergVars,
     Still, Merging
<1>6. ASSUME NEW w \in Mergers,
             Refuse(w) \/ MergeFails(w) \/ EndMerging(w)
      PROVE  Still(u)
  BY <1>1, <1>6 DEF Refuse, MergeFails, EndMerging, Goto, Still, Merging
<1>7. ASSUME NEW w \in Mergers, w # u,
             Find(w) \/ Insert(w) \/ MoveMessages(w) \/ MoveFacts(w) \/ Drop(w)
      PROVE  Still(u)
  BY <1>1, <1>7 DEF Find, Insert, MoveMessages, MoveFacts, Drop, Goto, mergVars, Still
<1>8. ASSUME NEW w \in Mergers, Agree(w)
      PROVE  Still(u) \/ Agreed(u)
  <2>1. PICK p \in pairs[w] :
       /\ Whole(w, p)
       /\ \/ /\ pairs' = [pairs EXCEPT ![w] = @ \ {p}]
             /\ UNCHANGED <<at, cand, seen>>
          \/ /\ pairs' = [pairs EXCEPT ![w] = {}]
             /\ cand' = [cand EXCEPT ![w] = p]
             /\ seen' = [seen EXCEPT ![w] = @ \cap {p[1], p[2]}]
             /\ at' = [at EXCEPT ![w] = "insert"]
    BY <1>8 DEF Agree, Goto
  <2>2. at[w] = "verify" /\ UNCHANGED new
    BY <1>8 DEF Agree
  <2>3. CASE w = u
    <3>1. CASE /\ pairs' = [pairs EXCEPT ![w] = @ \ {p}]
               /\ UNCHANGED <<at, cand, seen>>
      BY <1>1, <2>2, <3>1 DEF Still
    <3>2. CASE /\ pairs' = [pairs EXCEPT ![w] = {}]
               /\ cand' = [cand EXCEPT ![w] = p]
               /\ seen' = [seen EXCEPT ![w] = @ \cap {p[1], p[2]}]
               /\ at' = [at EXCEPT ![w] = "insert"]
      <4>1. cand'[u] = p
        BY <1>1, <2>3, <3>2
      <4>. QED BY <2>1, <2>2, <2>3, <3>2, <4>1 DEF Agreed
    <3>. QED BY <2>1, <3>1, <3>2
  <2>4. CASE w # u
    BY <1>1, <2>1, <2>2, <2>4 DEF Still
  <2>. QED BY <2>3, <2>4
<1>9. ASSUME NEW w \in Tellers,
             \/ Lock(w) \/ Read(w) \/ Tell(w) \/ TellFails(w) \/ Mark(w) \/ Unlock(w)
      PROVE  Still(u)
  BY <1>1, <1>9 DEF Lock, Read, Tell, TellFails, Mark, Unlock, Goto, mergVars, Still, Merging
<1>. QED BY <1>2, <1>3, <1>4, <1>5, <1>6, <1>7, <1>8, <1>9 DEF Next

(* Where the pair and the topic of a merge come from.                       *)
LEMMA CandStep ==
  ASSUME TypeOK, [Next]_vars, NEW u \in Mergers, Merging(u)'
  PROVE  \/ Merging(u) /\ cand'[u] = cand[u]
         \/ Agreed(u)
<1>1. /\ at \in [Workers -> Phases] /\ cand \in [Workers -> (Ids \cup {None}) \X (Ids \cup {None})]
      /\ u \in Workers
  BY WorkerNames DEF TypeOK, MergersOK
<1>2. CASE Still(u)
  BY <1>2 DEF Still, Merging
<1>3. CASE Find(u)
  BY <1>1, <1>3 DEF Find, Goto, Merging
<1>4. CASE Insert(u) \/ MoveMessages(u) \/ MoveFacts(u)
  BY <1>1, <1>4 DEF Insert, MoveMessages, MoveFacts, Goto, Merging, mergVars
<1>5. CASE Drop(u)
  BY <1>1, <1>5 DEF Drop, Goto, Merging
<1>. QED BY <1>2, <1>3, <1>4, <1>5, MergerStep

LEMMA NewStep ==
  ASSUME TypeOK, [Next]_vars, NEW u \in Mergers, Moving(u)'
  PROVE  \/ Moving(u) /\ new'[u] = new[u]
         \/ Insert(u)
<1>1. at \in [Workers -> Phases] /\ new \in [Workers -> Ids \cup {None}] /\ u \in Workers
  BY WorkerNames DEF TypeOK, MergersOK
<1>2. CASE Still(u)
  BY <1>2 DEF Still, Moving, Merging
<1>3. CASE Find(u) \/ Agreed(u)
  BY <1>1, <1>3 DEF Find, Agreed, Goto, Moving, Merging
<1>4. CASE MoveMessages(u) \/ MoveFacts(u)
  BY <1>1, <1>4 DEF MoveMessages, MoveFacts, Goto, Moving, Merging, mergVars
<1>5. CASE Drop(u)
  BY <1>1, <1>5 DEF Drop, Goto, Moving, Merging
<1>. QED BY <1>2, <1>3, <1>4, <1>5, MergerStep

LEMMA NeighboursStay ==
  ASSUME IInv, [Next]_vars, NEW p, Neighbours(p)
  PROVE  Neighbours(p)'
BY SpanStep DEF Neighbours

LEMMA CandidatesAreNeighbours ==
  ASSUME IInv, NEW p \in Candidates
  PROVE  Neighbours(p)
<1>1. p[1] \in live /\ p[2] \in live /\ p[1] < p[2] /\ Close(p[1], p[2])
  BY DEF Candidates
<1>2. p[1] \in Used /\ p[2] \in Used
  BY <1>1 DEF IInv, Known
<1>3. p[1] \in Nat /\ p[2] \in Nat
  BY <1>2, BoundsAssumption DEF Used, Ids
<1>4. span[p[1]].to \in Nat /\ span[p[2]].from \in Nat
  BY <1>2, UsedSpan, BoundsAssumption DEF Msgs
<1>. QED BY <1>1, <1>2, <1>3, <1>4 DEF Neighbours, Close

LEMMA PairedStep ==
  ASSUME IInv, [Next]_vars
  PROVE  Paired'
<1>1. TypeOK
  BY DEF IInv
<1>2. ASSUME NEW u \in Mergers, NEW p \in pairs'[u] PROVE Neighbours(p)'
  <2>1. p \in pairs[u] \/ p \in Candidates
    <3>1. pairs \in [Workers -> SUBSET (Ids \X Ids)] /\ u \in Workers
      BY <1>1, WorkerNames DEF TypeOK, MergersOK
    <3>2. CASE Still(u)
      BY <1>2, <3>2 DEF Still
    <3>3. CASE Find(u)
      BY <1>2, <3>1, <3>3, FindPairs
    <3>4. CASE Agreed(u) \/ Insert(u) \/ MoveMessages(u) \/ MoveFacts(u) \/ Drop(u)
      BY <1>2, <3>1, <3>4 DEF Agreed, Insert, MoveMessages, MoveFacts, Drop, mergVars
    <3>. QED BY <1>1, <3>2, <3>3, <3>4, MergerStep
  <2>2. Neighbours(p)
    BY <2>1, CandidatesAreNeighbours DEF IInv, Paired
  <2>. QED BY <2>2, NeighboursStay
<1>3. ASSUME NEW u \in Mergers, Merging(u)' PROVE Neighbours(cand[u])'
  <2>1. Neighbours(cand'[u])
    <3>1. CASE Merging(u) /\ cand'[u] = cand[u]
      BY <3>1 DEF IInv, Paired
    <3>2. CASE Agreed(u)
      <4>1. cand'[u] \in pairs[u]
        BY <1>1, <3>2, WorkerNames DEF Agreed, TypeOK, MergersOK
      <4>. QED BY <4>1 DEF IInv, Paired
    <3>. QED BY <1>1, <1>3, <3>1, <3>2, CandStep
  <2>. QED BY <2>1, SpanStep DEF Neighbours
<1>. QED BY <1>2, <1>3 DEF Paired

LEMMA SeparateStep ==
  ASSUME IInv, [Next]_vars
  PROVE  Separate'
<1>1. TypeOK
  BY DEF IInv
<1>2. SUFFICES ASSUME NEW w \in Mergers, NEW u \in Mergers, Merging(w)', Moving(u)'
               PROVE  new'[u] # cand'[w][1] /\ new'[u] # cand'[w][2]
  BY DEF Separate
<1>3. CASE Insert(u)
  <2>1. new'[u] = NextId /\ NextId \notin Used
    BY <1>1, <1>3, NextIdIsFresh, WorkerNames DEF Insert, IInv, TypeOK, MergersOK
  <2>2. Merging(w) /\ cand'[w] = cand[w]
    <3>1. ~ Agreed(w)
      BY <1>1, <1>3, WorkerNames DEF Agreed, Insert, Goto, TypeOK
    <3>. QED BY <1>1, <1>2, <3>1, CandStep
  <2>3. cand[w][1] \in Used /\ cand[w][2] \in Used
    BY <2>2 DEF IInv, Paired, Neighbours
  <2>. QED BY <2>1, <2>2, <2>3
<1>4. CASE Moving(u) /\ new'[u] = new[u]
  <2>1. CASE Merging(w) /\ cand'[w] = cand[w]
    BY <1>4, <2>1 DEF IInv, Separate
  <2>2. CASE Agreed(w)
    <3>1. u # w
      BY <1>4, <2>2 DEF Agreed, Moving, Merging
    <3>2. PICK p \in pairs[w] : Whole(w, p) /\ cand' = [cand EXCEPT ![w] = p]
      BY <2>2 DEF Agreed
    <3>3. cand'[w] = p
      BY <1>1, <3>2, WorkerNames DEF TypeOK, MergersOK
    <3>. QED BY <1>4, <3>1, <3>2, <3>3 DEF Whole, Moving, Merging
  <2>. QED BY <1>1, <1>2, <2>1, <2>2, CandStep
<1>. QED BY <1>1, <1>2, <1>3, <1>4, NewStep

(* Only a merge deletes topics, and only its own two.                       *)
LEMMA LiveStep ==
  ASSUME IInv, [Next]_vars, NEW t \in live,
         \A w \in Mergers : Drop(w) => t # cand[w][1] /\ t # cand[w][2]
  PROVE  t \in live'
<1>1. CASE UNCHANGED vars \/ Store \/ GiveUp \/ Crash
  BY <1>1 DEF vars, tables, Store, GiveUp, Crash
<1>2. ASSUME NEW w \in Archivers,
             \/ Fetch(w) \/ Split(w) \/ SplitFails(w)
             \/ Save(w) \/ SaveFails(w) \/ EndChunk(w)
      PROVE  t \in live'
  BY <1>2 DEF Fetch, Split, SplitFails, Save, SaveFails, EndChunk, tables
<1>3. ASSUME NEW w \in Mergers,
             \/ Find(w) \/ Refuse(w) \/ Agree(w) \/ MergeFails(w) \/ EndMerging(w)
             \/ Insert(w) \/ MoveMessages(w) \/ MoveFacts(w)
      PROVE  t \in live'
  BY <1>3 DEF Find, Refuse, Agree, MergeFails, EndMerging, Insert, MoveMessages, MoveFacts, tables
<1>4. ASSUME NEW w \in Mergers, Drop(w)
      PROVE  t \in live'
  <2>1. t # cand[w][1] /\ t # cand[w][2]
    BY <1>4
  <2>. QED BY <1>4, <2>1 DEF Drop
<1>5. ASSUME NEW w \in Tellers,
             \/ Lock(w) \/ Read(w) \/ Tell(w) \/ TellFails(w) \/ Mark(w) \/ Unlock(w)
      PROVE  t \in live'
  BY <1>5 DEF Lock, Read, Tell, TellFails, Mark, Unlock, tables
<1>. QED BY <1>1, <1>2, <1>3, <1>4, <1>5 DEF Next

LEMMA SpanningStep ==
  ASSUME IInv, [Next]_vars
  PROVE  Spanning'
<1>1. TypeOK
  BY DEF IInv
<1>2. SUFFICES ASSUME NEW u \in Mergers, Moving(u)'
               PROVE  /\ new'[u] \in live'
                      /\ span'[new'[u]].from = span'[cand'[u][1]].from
                      /\ span'[new'[u]].to = span'[cand'[u][2]].to
  BY DEF Spanning
<1>3. CASE Insert(u)
  <2>1. new'[u] = NextId /\ live' = live \cup {NextId} /\ cand' = cand /\ Merging(u)
    BY <1>1, <1>3, WorkerNames DEF Insert, Merging, TypeOK, MergersOK
  <2>2. cand[u][1] \in Used /\ cand[u][2] \in Used
    BY <2>1 DEF IInv, Paired, Neighbours
  <2>. QED BY <1>3, <2>1, <2>2, InsertedRow
<1>4. CASE Moving(u) /\ new'[u] = new[u]
  <2>1. /\ new[u] \in live /\ span[new[u]].from = span[cand[u][1]].from
        /\ span[new[u]].to = span[cand[u][2]].to
    BY <1>4 DEF IInv, Spanning
  <2>2. cand'[u] = cand[u] /\ Merging(u)
    <3>1. Merging(u)' /\ ~ Agreed(u) /\ Merging(u)
      BY <1>2, <1>4 DEF Moving, Merging, Agreed
    <3>. QED BY <1>1, <3>1, CandStep
  <2>3. cand[u][1] \in Used /\ cand[u][2] \in Used /\ new[u] \in Used
    BY <2>1, <2>2 DEF IInv, Paired, Neighbours, Known
  <2>4. new[u] \in live'
    <3>1. \A w \in Mergers : Drop(w) => new[u] # cand[w][1] /\ new[u] # cand[w][2]
      BY <1>4 DEF IInv, Separate, Drop, Merging
    <3>. QED BY <2>1, <3>1, LiveStep
  <2>. QED BY <1>4, <2>1, <2>2, <2>3, <2>4, SpanStep
<1>. QED BY <1>1, <1>2, <1>3, <1>4, NewStep

(* Messages change their topic when a range is saved and when a merge moves *)
(* them.                                                                   *)
LEMMA TopicOfStep ==
  ASSUME [Next]_vars
  PROVE  \/ UNCHANGED topicOf
         \/ \E w \in Archivers : Save(w)
         \/ \E w \in Mergers : MoveMessages(w)
<1>1. CASE UNCHANGED vars \/ Store \/ GiveUp \/ Crash
  BY <1>1 DEF vars, tables, Store, GiveUp, Crash
<1>2. ASSUME NEW w \in Archivers,
             Fetch(w) \/ Split(w) \/ SplitFails(w) \/ SaveFails(w) \/ EndChunk(w)
      PROVE  UNCHANGED topicOf
  BY <1>2 DEF Fetch, Split, SplitFails, SaveFails, EndChunk, tables
<1>3. ASSUME NEW w \in Mergers,
             \/ Find(w) \/ Refuse(w) \/ Agree(w) \/ MergeFails(w) \/ EndMerging(w)
             \/ Insert(w) \/ MoveFacts(w) \/ Drop(w)
      PROVE  UNCHANGED topicOf
  BY <1>3 DEF Find, Refuse, Agree, MergeFails, EndMerging, Insert, MoveFacts, Drop, tables
<1>4. ASSUME NEW w \in Tellers,
             \/ Lock(w) \/ Read(w) \/ Tell(w) \/ TellFails(w) \/ Mark(w) \/ Unlock(w)
      PROVE  UNCHANGED topicOf
  BY <1>4 DEF Lock, Read, Tell, TellFails, Mark, Unlock, tables
<1>. QED BY <1>1, <1>2, <1>3, <1>4 DEF Next

LEMMA PlacedStep ==
  ASSUME IInv, [Next]_vars
  PROVE  Placed'
<1>1. /\ TypeOK /\ \A m \in Msgs : topicOf[m] # None =>
                     /\ topicOf[m] \in live /\ topicOf[m] \in Used
                     /\ span[topicOf[m]].from <= m /\ m <= span[topicOf[m]].to
  BY DEF IInv, Placed, Known
<1>2. SUFFICES ASSUME NEW m \in Msgs, topicOf'[m] # None
               PROVE  /\ topicOf'[m] \in live'
                      /\ span'[topicOf'[m]].from <= m /\ m <= span'[topicOf'[m]].to
  BY DEF Placed
<1>3. CASE topicOf'[m] = topicOf[m]
  <2>1. \A w \in Mergers : Drop(w) => topicOf[m] # cand[w][1] /\ topicOf[m] # cand[w][2]
    BY DEF Drop, IInv, Emptied
  <2>2. topicOf[m] \in live'
    BY <1>1, <1>2, <1>3, <2>1, LiveStep
  <2>. QED BY <1>1, <1>2, <1>3, <2>2, SpanStep
<1>4. ASSUME NEW w \in Archivers, Save(w), topicOf'[m] # topicOf[m]
      PROVE  /\ topicOf'[m] \in live'
             /\ span'[topicOf'[m]].from <= m /\ m <= span'[topicOf'[m]].to
  <2>1. /\ todo[w] # {} /\ NextId <= MaxTopics /\ live' = live \cup {NextId}
        /\ span' = [span EXCEPT ![NextId] = NewSpan(First(w), Highest(chunk[w]))]
        /\ topicOf' = Repointed(First(w), NextId)
    BY <1>4 DEF Save
  <2>2. topicOf'[m] = NextId /\ First(w).from <= m /\ m <= First(w).to
    BY <1>4, <2>1 DEF Repointed
  <2>3. span'[NextId] = NewSpan(First(w), Highest(chunk[w]))
    BY <2>1, SavedRow, WorkerNames
  <2>. QED BY <2>1, <2>2, <2>3 DEF NewSpan
<1>5. ASSUME NEW w \in Mergers, MoveMessages(w), topicOf'[m] # topicOf[m]
      PROVE  /\ topicOf'[m] \in live'
             /\ span'[topicOf'[m]].from <= m /\ m <= span'[topicOf'[m]].to
  <2>1. PICK k \in 1 .. 2 : topicOf' = Repointed(span[cand[w][k]], new[w])
    BY <1>5 DEF MoveMessages
  <2>2. topicOf'[m] = new[w] /\ span[cand[w][k]].from <= m /\ m <= span[cand[w][k]].to
    BY <1>5, <2>1 DEF Repointed
  <2>3. /\ Moving(w) /\ new[w] \in live
        /\ span[new[w]].from = span[cand[w][1]].from
        /\ span[new[w]].to = span[cand[w][2]].to
        /\ cand[w][1] \in Used /\ cand[w][2] \in Used
        /\ span[cand[w][1]].to < span[cand[w][2]].from
    BY <1>5 DEF MoveMessages, Moving, Merging, IInv, Spanning, Paired, Neighbours
  <2>4. UNCHANGED <<live, span>>
    BY <1>5 DEF MoveMessages
  <2>5. \A t \in Used : /\ span[t].from \in Nat /\ span[t].to \in Nat /\ span[t].from <= span[t].to
    BY UsedSpan, BoundsAssumption DEF Msgs
  <2>6. m \in Nat
    BY BoundsAssumption DEF Msgs
  <2>7. span[new[w]].from <= m /\ m <= span[new[w]].to
    <3>1. CASE k = 1
      BY <2>2, <2>3, <2>5, <2>6, <3>1
    <3>2. CASE k = 2
      BY <2>2, <2>3, <2>5, <2>6, <3>2
    <3>. QED BY <3>1, <3>2
  <2>. QED BY <2>2, <2>3, <2>4, <2>7
<1>. QED BY <1>3, <1>4, <1>5, TopicOfStep

LEMMA EmptiedStep ==
  ASSUME IInv, [Next]_vars
  PROVE  Emptied'
<1>1. TypeOK
  BY DEF IInv
<1> DEFINE Late1 == {"messages2", "facts1", "facts2", "drop1", "drop2"}
           Late2 == {"facts1", "facts2", "drop1", "drop2"}
<1>2. SUFFICES ASSUME NEW w \in Mergers, NEW m \in Msgs
               PROVE  /\ at'[w] \in Late1 => topicOf'[m] # cand'[w][1]
                      /\ at'[w] \in Late2 => topicOf'[m] # cand'[w][2]
  BY DEF Emptied
<1>3. SUFFICES ASSUME at'[w] \in Late1
               PROVE  /\ topicOf'[m] # cand'[w][1]
                      /\ at'[w] \in Late2 => topicOf'[m] # cand'[w][2]
  OBVIOUS
<1>4. at \in [Workers -> Phases] /\ w \in Workers
  BY <1>1, WorkerNames DEF TypeOK
<1>5. Merging(w) /\ cand'[w] = cand[w] /\ at[w] # "insert"
  <2>1. Merging(w)' /\ ~ Agreed(w) /\ at[w] # "insert"
    <3>1. CASE at'[w] = at[w]
      BY <1>3, <1>4, <3>1 DEF Merging, Agreed
    <3>2. CASE Still(w)
      BY <1>3, <1>4, <3>2 DEF Merging, Agreed, Still
    <3>3. CASE Find(w) \/ Agreed(w) \/ Insert(w)
      BY <1>3, <1>4, <3>3 DEF Find, Agreed, Insert, Goto
    <3>4. CASE MoveMessages(w) \/ MoveFacts(w) \/ Drop(w)
      BY <1>3, <1>4, <3>4 DEF Merging, Agreed, MoveMessages, MoveFacts, Drop
    <3>. QED BY <1>1, <3>1, <3>2, <3>3, <3>4, MergerStep
  <2>. QED BY <1>1, <2>1, CandStep
<1>6. cand[w][1] \in Used /\ cand[w][2] \in Used
  BY <1>5 DEF IInv, Paired, Neighbours
<1>7. \/ /\ at[w] \in Late1 /\ (at'[w] \in Late2 => at[w] \in Late2)
      \/ MoveMessages(w)
  <2>1. CASE Still(w)
    BY <1>3, <1>4, <1>5, <2>1 DEF Still, Merging
  <2>2. CASE Find(w) \/ Agreed(w) \/ Insert(w)
    BY <1>3, <1>4, <2>2 DEF Find, Agreed, Insert, Goto
  <2>3. CASE MoveFacts(w) \/ Drop(w)
    BY <1>3, <1>4, <2>3 DEF MoveFacts, Drop
  <2>. QED BY <1>1, <2>1, <2>2, <2>3, MergerStep
<1>8. CASE /\ at[w] \in Late1 /\ (at'[w] \in Late2 => at[w] \in Late2)
           /\ ~ MoveMessages(w)
  <2>1. /\ topicOf[m] # cand[w][1]
        /\ at'[w] \in Late2 => topicOf[m] # cand[w][2]
    BY <1>8 DEF IInv, Emptied
  <2>2. CASE topicOf'[m] = topicOf[m]
    BY <1>5, <2>1, <2>2
  <2>3. ASSUME NEW u \in Archivers, Save(u), topicOf'[m] # topicOf[m]
        PROVE  topicOf'[m] \notin Used
    <3>1. topicOf'[m] = NextId
      BY <2>3 DEF Save, Repointed
    <3>. QED BY <3>1, NextIdIsFresh DEF IInv
  <2>4. ASSUME NEW u \in Mergers, MoveMessages(u), topicOf'[m] # topicOf[m]
        PROVE  topicOf'[m] # cand[w][1] /\ topicOf'[m] # cand[w][2]
    <3>1. topicOf'[m] = new[u]
      BY <2>4 DEF MoveMessages, Repointed
    <3>2. Moving(u)
      BY <2>4 DEF MoveMessages, Moving, Merging
    <3>. QED BY <1>5, <3>1, <3>2 DEF IInv, Separate
  <2>. QED BY <1>5, <1>6, <2>2, <2>3, <2>4, TopicOfStep
<1>9. CASE MoveMessages(w)
  <2>1. PICK k \in 1 .. 2 :
          /\ at[w] = IF k = 1 THEN "messages1" ELSE "messages2"
          /\ at'[w] = IF k = 1 THEN "messages2" ELSE "facts1"
          /\ topicOf' = Repointed(span[cand[w][k]], new[w])
    BY <1>4, <1>9 DEF MoveMessages, Goto
  <2>2. Moving(w) /\ new[w] # cand[w][1] /\ new[w] # cand[w][2]
    BY <1>9 DEF MoveMessages, Moving, Merging, IInv, Separate
  <2>3. topicOf[m] # None => span[topicOf[m]].from <= m /\ m <= span[topicOf[m]].to
    BY DEF IInv, Placed
  <2>4. cand[w][1] # None /\ cand[w][2] # None
    BY <1>6 DEF Used, Ids, None
  <2>5. topicOf'[m] # cand[w][k]
    <3>1. CASE span[cand[w][k]].from <= m /\ m <= span[cand[w][k]].to
      BY <2>1, <2>2, <3>1 DEF Repointed
    <3>2. CASE ~ (span[cand[w][k]].from <= m /\ m <= span[cand[w][k]].to)
      BY <2>1, <2>3, <2>4, <3>2 DEF Repointed
    <3>. QED BY <3>1, <3>2
  <2>6. k = 2 => topicOf'[m] # cand[w][1]
    <3>1. k = 2 => topicOf[m] # cand[w][1]
      BY <2>1 DEF IInv, Emptied
    <3>2. topicOf'[m] \in {new[w], topicOf[m]}
      BY <2>1 DEF Repointed
    <3>. QED BY <2>2, <3>1, <3>2
  <2>. QED BY <1>5, <2>1, <2>5, <2>6
<1>. QED BY <1>7, <1>8, <1>9

(* The mark of a topic and its place on a list come from its row.           *)
LEMMA KnownStep ==
  ASSUME IInv, [Next]_vars
  PROVE  Known'
<1>1. /\ TypeOK /\ live \subseteq Used /\ extracted \subseteq Used /\ told \subseteq Used
      /\ \A m \in Msgs : topicOf[m] \in Used \cup {None}
      /\ \A w \in Workers : list[w] \subseteq Used
  BY DEF IInv, Known
<1>2. Used \subseteq Used' /\ live' \subseteq Used'
  BY <1>1, SpanStep
<1>3. ASSUME NEW m \in Msgs PROVE topicOf'[m] \in Used' \cup {None}
  <2>1. CASE topicOf'[m] = topicOf[m]
    BY <1>1, <1>2, <2>1
  <2>2. CASE topicOf'[m] # None
    <3>1. topicOf'[m] \in live'
      BY <2>2, PlacedStep DEF Placed
    <3>. QED BY <1>2, <3>1
  <2>. QED BY <2>1, <2>2
<1>4. /\ extracted' \subseteq Used' /\ told' \subseteq Used'
      /\ \A w \in Workers : list'[w] \subseteq Used'
  <2>1. CASE UNCHANGED <<extracted, told, list>>
    BY <1>1, <1>2, <2>1
  <2>2. list \in [Workers -> SUBSET Ids]
    BY <1>1 DEF TypeOK, TellersOK
  <2>3. CASE UNCHANGED vars \/ Store \/ GiveUp
    BY <2>1, <2>3 DEF vars, tables, tellVars, Store, GiveUp
  <2>4. CASE Crash
    BY <1>1, <1>2, <2>4 DEF Crash, Reset
  <2>5. ASSUME NEW w \in Archivers,
             \/ Fetch(w) \/ Split(w) \/ SplitFails(w)
             \/ Save(w) \/ SaveFails(w) \/ EndChunk(w)
        PROVE  UNCHANGED <<extracted, told, list>>
    BY <2>5 DEF Fetch, Split, SplitFails, Save, SaveFails, EndChunk, tables, tellVars
  <2>6. ASSUME NEW w \in Mergers,
             \/ Find(w) \/ Refuse(w) \/ Agree(w) \/ MergeFails(w) \/ EndMerging(w)
             \/ MoveMessages(w) \/ MoveFacts(w) \/ Drop(w)
        PROVE  UNCHANGED <<extracted, told, list>>
    BY <2>6 DEF Find, Refuse, Agree, MergeFails, EndMerging, MoveMessages, MoveFacts, Drop,
       tables, tellVars
  <2>7. ASSUME NEW w \in Mergers, Insert(w)
        PROVE  /\ extracted' \subseteq Used' /\ told' \subseteq Used'
               /\ \A u \in Workers : list'[u] \subseteq Used'
    <3>1. NextId \in Used'
      BY <2>7, InsertedRow
    <3>2. extracted' \subseteq extracted \cup {NextId} /\ told' = told /\ list' = list
      BY <2>7 DEF Insert, tellVars
    <3>. QED BY <1>1, <1>2, <3>1, <3>2
  <2>8. ASSUME NEW w \in Tellers, Lock(w)
        PROVE  /\ extracted' \subseteq Used' /\ told' \subseteq Used'
               /\ \A u \in Workers : list'[u] \subseteq Used'
    <3>1. Due(w) \subseteq live
      BY DEF Due, Pending
    <3>2. list' = [list EXCEPT ![w] = Due(w)] /\ extracted' = extracted /\ told' = told
      BY <2>8 DEF Lock, tables
    <3>. QED BY <1>1, <1>2, <2>2, <3>1, <3>2
  <2>9. ASSUME NEW w \in Tellers, Read(w)
        PROVE  /\ extracted' \subseteq Used' /\ told' \subseteq Used'
               /\ \A u \in Workers : list'[u] \subseteq Used'
    <3>1. extracted' \subseteq extracted \cup live
      BY <2>9 DEF Read
    <3>2. \A u \in Workers : list'[u] \subseteq list[u]
      BY <2>2, <2>9 DEF Read
    <3>. QED BY <1>1, <1>2, <2>9, <3>1, <3>2 DEF Read
  <2>10. ASSUME NEW w \in Tellers, Tell(w) \/ TellFails(w) \/ Mark(w)
        PROVE  /\ extracted' \subseteq Used' /\ told' \subseteq Used'
               /\ \A u \in Workers : list'[u] \subseteq Used'
    <3>1. Head(w) \in list[w]
      BY <1>1, <2>10, HeadIs, WorkerNames DEF Tell, TellFails, Mark, IInv, LockHeld
    <3>2. told' \subseteq told \cup {Head(w)} /\ extracted' \subseteq extracted \cup live
      BY <2>10 DEF Tell, TellFails, Mark
    <3>3. \A u \in Workers : list'[u] \subseteq list[u]
      BY <2>2, <2>10 DEF Tell, TellFails, Mark
    <3>. QED BY <1>1, <1>2, <3>1, <3>2, <3>3, WorkerNames
  <2>11. ASSUME NEW w \in Tellers, Unlock(w)
        PROVE  UNCHANGED <<extracted, told, list>>
    BY <2>11 DEF Unlock, tables
  <2>. QED BY <2>1, <2>3, <2>4, <2>5, <2>6, <2>7, <2>8, <2>9, <2>10, <2>11 DEF Next
<1>. QED BY <1>2, <1>3, <1>4 DEF Known

-----------------------------------------------------------------------------
(* 6. Extracting facts.                                                    *)

LEMMA HeadStays ==
  ASSUME IInv, [Next]_vars, NEW w \in Workers, list'[w] = list[w], list[w] # {}
  PROVE  Head(w)' = Head(w)
<1>1. Head(w) = HeadOf(list[w], span) /\ Head(w)' = HeadOf(list[w], span')
  BY DEF Head, HeadOf, Before, Earlier
<1>2. list[w] \in SUBSET Nat /\ \A t \in list[w] : span[t].stamp \in Nat
  BY ListIsOrdered DEF IInv
<1>3. \A t \in list[w] : span'[t] = span[t]
  BY SpanStep DEF IInv, Known
<1>4. \A t \in list[w] : span'[t].stamp = span[t].stamp
  BY <1>3
<1>. QED BY <1>1, <1>2, <1>4, HeadOfSame

(* A step of somebody else leaves the tellers alone.                        *)
Aside ==
  /\ list' = list /\ userLock' = userLock /\ told' = told
  /\ \A w \in Tellers : at'[w] = at[w] \/ (~ Telling(w) /\ ~ Telling(w)')
  /\ extracted \subseteq extracted' /\ extracted' \ extracted \subseteq Used' \ Used

LEMMA TellerStep ==
  ASSUME IInv, [Next]_vars
  PROVE  \/ Aside \/ Crash
         \/ \E w \in Tellers :
              Lock(w) \/ Read(w) \/ Tell(w) \/ TellFails(w) \/ Mark(w) \/ Unlock(w)
<1>1. at \in [Workers -> Phases]
  BY DEF IInv, TypeOK
<1>2. CASE UNCHANGED vars \/ Store
  BY <1>2 DEF vars, tables, tellVars, Store, Aside
<1>3. CASE GiveUp
  BY <1>1, <1>3 DEF GiveUp, Goto, tables, tellVars, Aside, Telling
<1>4. ASSUME NEW w \in Archivers,
             \/ Fetch(w) \/ Split(w) \/ SplitFails(w)
             \/ Save(w) \/ SaveFails(w) \/ EndChunk(w)
      PROVE  Aside
  <2>1. ASSUME NEW v \in Tellers PROVE at'[v] = at[v] \/ (~ Telling(v) /\ ~ Telling(v)')
    <3>1. CASE Fetch(w) \/ Split(w) \/ SplitFails(w)
      BY <1>1, <1>4, <3>1 DEF Fetch, Split, SplitFails, Goto, Telling, Workers
    <3>2. CASE Save(w) \/ SaveFails(w)
      BY <1>1, <1>4, <3>2 DEF Save, SaveFails, Goto, Telling, Workers
    <3>3. CASE EndChunk(w)
      BY <1>1, <1>4, <3>3 DEF EndChunk, Goto, Telling, Workers
    <3>. QED BY <1>4, <3>1, <3>2, <3>3
  <2>2. UNCHANGED <<list, userLock, told, extracted>>
    BY <1>4 DEF Fetch, Split, SplitFails, Save, SaveFails, EndChunk, tables, tellVars
  <2>. QED BY <2>1, <2>2 DEF Aside
<1>5. ASSUME NEW w \in Mergers,
             \/ Find(w) \/ Refuse(w) \/ Agree(w) \/ MergeFails(w) \/ EndMerging(w)
             \/ MoveMessages(w) \/ MoveFacts(w) \/ Drop(w)
      PROVE  Aside
  <2>1. ASSUME NEW v \in Tellers PROVE at'[v] = at[v] \/ (~ Telling(v) /\ ~ Telling(v)')
    <3>1. CASE Find(w) \/ Refuse(w) \/ Agree(w)
      BY <1>1, <1>5, <3>1 DEF Find, Refuse, Agree, Goto, Telling, Workers
    <3>2. CASE MergeFails(w) \/ EndMerging(w)
      BY <1>1, <1>5, <3>2 DEF MergeFails, EndMerging, Goto, Telling, Workers
    <3>3. CASE MoveMessages(w) \/ MoveFacts(w)
      BY <1>1, <1>5, <3>3 DEF MoveMessages, MoveFacts, Goto, Telling, Workers
    <3>4. CASE Drop(w)
      BY <1>1, <1>5, <3>4 DEF Drop, Goto, Telling, Workers
    <3>. QED BY <1>5, <3>1, <3>2, <3>3, <3>4
  <2>2. UNCHANGED <<list, userLock, told, extracted>>
    BY <1>5 DEF Find, Refuse, Agree, MergeFails, EndMerging, MoveMessages, MoveFacts, Drop,
       tables, tellVars
  <2>. QED BY <2>1, <2>2 DEF Aside
<1>6. ASSUME NEW w \in Mergers, Insert(w)
      PROVE  Aside
  <2>1. NextId \in Used' /\ NextId \notin Used
    BY <1>6, InsertedRow, NextIdIsFresh DEF IInv
  <2>. QED BY <1>1, <1>6, <2>1 DEF Insert, Goto, tellVars, Aside, Telling
<1>. QED BY <1>2, <1>3, <1>4, <1>5, <1>6 DEF Next

LEMMA LockStep ==
  ASSUME IInv, [Next]_vars
  PROVE  LockHeld'
<1>1. /\ at \in [Workers -> Phases] /\ list \in [Workers -> SUBSET Ids] /\ TypeOK
  BY DEF IInv, TypeOK, TellersOK
<1>2. \A w \in Tellers :
        /\ Telling(w) => userLock = w
        /\ ~ Telling(w) => list[w] = {}
        /\ at[w] \in {"tell", "mark"} => list[w] # {}
  BY DEF IInv, LockHeld
<1>3. CASE Aside
  BY <1>2, <1>3 DEF Aside, LockHeld, Telling
<1>4. CASE Crash
  BY <1>4, WorkerNames DEF Crash, Reset, LockHeld, Telling
<1>5. ASSUME NEW u \in Tellers,
             Lock(u) \/ Read(u) \/ Tell(u) \/ TellFails(u) \/ Mark(u) \/ Unlock(u),
             NEW w \in Tellers
      PROVE  /\ Telling(w)' => userLock' = w
             /\ ~ Telling(w)' => list'[w] = {}
             /\ at'[w] \in {"tell", "mark"} => list'[w] # {}
  <2>1. CASE w # u
    <3>1. at'[w] = at[w] /\ list'[w] = list[w]
      BY <1>1, <1>5, <2>1, WorkerNames DEF Lock, Read, Tell, TellFails, Mark, Unlock, Goto
    <3>2. ~ Telling(w)
      BY <1>2, <1>5, <2>1 DEF Lock, Read, Tell, TellFails, Mark, Unlock, Telling, Tellers
    <3>. QED BY <1>2, <3>1, <3>2 DEF Telling
  <2>2. CASE w = u
    <3>1. CASE Lock(u)
      BY <1>1, <2>2, <3>1, WorkerNames DEF Lock, Goto, Telling
    <3>2. CASE Read(u)
      <4>1. userLock = u /\ userLock' = userLock
        BY <1>2, <3>2 DEF Read, Telling
      <4>. QED BY <1>1, <2>2, <3>2, <4>1, WorkerNames DEF Read, Goto, Telling
    <3>3. CASE Tell(u) \/ TellFails(u) \/ Mark(u)
      <4>1. userLock = u /\ userLock' = userLock /\ list[u] # {}
        BY <1>2, <3>3 DEF Tell, TellFails, Mark, Telling
      <4>. QED BY <1>1, <2>2, <3>3, <4>1, WorkerNames DEF Tell, TellFails, Mark, Goto, Telling
    <3>4. CASE Unlock(u)
      BY <1>1, <2>2, <3>4, WorkerNames DEF Unlock, Goto, Telling
    <3>. QED BY <1>5, <3>1, <3>2, <3>3, <3>4
  <2>. QED BY <2>1, <2>2
<1>. QED BY <1>3, <1>4, <1>5, TellerStep DEF LockHeld

LEMMA UntoldStep ==
  ASSUME IInv, [Next]_vars
  PROVE  Untold'
<1>1. /\ at \in [Workers -> Phases] /\ list \in [Workers -> SUBSET Ids] /\ TypeOK
  BY DEF IInv, TypeOK, TellersOK
<1>2. /\ \A w \in Tellers :
           /\ list[w] \cap extracted = {}
           /\ \A t \in list[w] \cap told : at[w] = "mark" /\ t = Head(w)
      /\ \A t \in told :
           \/ t \in extracted \/ t \notin live
           \/ \E w \in Tellers : at[w] = "mark" /\ t = Head(w)
  BY DEF IInv, Untold
<1>3. \A w \in Tellers :
        /\ Telling(w) => userLock = w
        /\ ~ Telling(w) => list[w] = {}
        /\ at[w] \in {"tell", "mark"} => list[w] # {}
  BY DEF IInv, LockHeld
<1>4. \A w \in Tellers : list[w] # {} => Head(w) \in list[w]
  BY <1>1, HeadIs, WorkerNames
<1>5. told \subseteq Used /\ \A w \in Tellers : list[w] \subseteq Used
  BY WorkerNames DEF IInv, Known
<1>6. CASE Aside
  <2>1. \A w \in Tellers : list[w] # {} => Head(w)' = Head(w)
    BY <1>6, HeadStays, WorkerNames DEF Aside
  <2>2. ASSUME NEW w \in Tellers
        PROVE  /\ list'[w] \cap extracted' = {}
               /\ \A t \in list'[w] \cap told' : at'[w] = "mark" /\ t = Head(w)'
    <3>1. list'[w] \cap extracted' = {}
      BY <1>2, <1>5, <1>6 DEF Aside
    <3>2. ASSUME NEW t \in list'[w] \cap told' PROVE at'[w] = "mark" /\ t = Head(w)'
      <4>1. t \in list[w] \cap told
        BY <1>6, <3>2 DEF Aside
      <4>2. at[w] = "mark" /\ t = Head(w)
        BY <1>2, <4>1
      <4>. QED BY <1>6, <2>1, <4>1, <4>2 DEF Aside, Telling
    <3>. QED BY <3>1, <3>2
  <2>3. ASSUME NEW t \in told'
        PROVE  \/ t \in extracted' \/ t \notin live'
               \/ \E w \in Tellers : at'[w] = "mark" /\ t = Head(w)'
    <3>1. t \in told /\ t \in Used
      BY <1>5, <1>6, <2>3 DEF Aside
    <3>2. CASE t \in extracted
      BY <1>6, <3>2 DEF Aside
    <3>3. CASE t \notin live
      BY <3>1, <3>3, SpanStep
    <3>4. ASSUME NEW w \in Tellers, at[w] = "mark", t = Head(w)
          PROVE  at'[w] = "mark" /\ t = Head(w)'
      BY <1>3, <1>6, <2>1, <3>4 DEF Aside, Telling
    <3>. QED BY <1>2, <3>1, <3>2, <3>3, <3>4
  <2>. QED BY <2>2, <2>3 DEF Untold
<1>7. CASE Crash
  BY <1>7, WorkerNames DEF Crash, Reset, Untold
<1>8. ASSUME NEW u \in Tellers,
             Lock(u) \/ Read(u) \/ Tell(u) \/ TellFails(u) \/ Mark(u) \/ Unlock(u)
      PROVE  Untold'
  <2>1. u \in Workers /\ live' = live
    BY <1>8, WorkerNames DEF Lock, Read, Tell, TellFails, Mark, Unlock, tables
  <2>2. \A w \in Tellers \ {u} : at'[w] = at[w] /\ list'[w] = list[w] /\ ~ Telling(w)
    <3>1. \A w \in Tellers \ {u} : at'[w] = at[w] /\ list'[w] = list[w]
      BY <1>1, <1>8, <2>1, WorkerNames DEF Lock, Read, Tell, TellFails, Mark, Unlock, Goto
    <3>2. \A w \in Tellers \ {u} : ~ Telling(w)
      BY <1>3, <1>8 DEF Lock, Read, Tell, TellFails, Mark, Unlock, Telling, Tellers
    <3>. QED BY <3>1, <3>2
  <2>3. \A w \in Tellers \ {u} : list'[w] = {} /\ at'[w] # "mark" /\ at[w] # "mark"
    BY <1>3, <2>2 DEF Telling
  <2>4. SUFFICES /\ list'[u] \cap extracted' = {}
                 /\ \A t \in list'[u] \cap told' : at'[u] = "mark" /\ t = Head(u)'
                 /\ \A t \in told' : t \in extracted' \/ t \notin live' \/ (at'[u] = "mark" /\ t = Head(u)')
    BY <2>3 DEF Untold
  <2>5. \A t \in told : t \in extracted \/ t \notin live \/ (at[u] = "mark" /\ t = Head(u))
    BY <1>2, <2>3
  <2>6. /\ list[u] \cap extracted = {}
        /\ \A t \in list[u] \cap told : at[u] = "mark" /\ t = Head(u)
    BY <1>2
  <2>7. CASE Lock(u)
    <3>1. at[u] # "mark" /\ UNCHANGED <<extracted, told>> /\ list'[u] \subseteq live \ extracted
      BY <1>1, <2>1, <2>7 DEF Lock, Due, Pending, tables
    <3>. QED BY <2>1, <2>5, <3>1
  <2>8. CASE Read(u)
    <3>1. /\ at[u] # "mark" /\ told' = told
          /\ extracted' \subseteq extracted \cup {Head(u)} /\ extracted \subseteq extracted'
          /\ list'[u] \subseteq list[u] /\ (extracted' # extracted => Head(u) \notin list'[u])
      BY <1>1, <2>1, <2>8 DEF Read
    <3>. QED BY <2>1, <2>5, <2>6, <3>1
  <2>9. CASE Tell(u)
    <3>1. /\ at[u] = "tell" /\ at'[u] = "mark" /\ told' = told \cup {Head(u)} /\ list[u] # {}
          /\ extracted' = extracted /\ list' = list
      BY <1>1, <1>3, <2>1, <2>9 DEF Tell, Goto
    <3>2. Head(u)' = Head(u)
      BY <2>1, <3>1, HeadStays
    <3>. QED BY <2>1, <2>5, <2>6, <3>1, <3>2
  <2>10. CASE TellFails(u)
    <3>1. at[u] = "tell" /\ told' = told /\ extracted' = extracted /\ list'[u] \subseteq list[u]
      BY <1>1, <2>1, <2>10 DEF TellFails
    <3>. QED BY <2>1, <2>5, <2>6, <3>1
  <2>11. CASE Mark(u)
    <3>1. /\ list'[u] = list[u] \ {Head(u)}
          /\ \/ extracted' = extracted \cup ({Head(u)} \cap live) /\ told' = told
             \/ extracted' = extracted /\ told' = told \ {Head(u)}
      BY <1>1, <2>1, <2>11 DEF Mark
    <3>. QED BY <2>1, <2>5, <2>6, <3>1
  <2>12. CASE Unlock(u)
    <3>1. /\ at[u] = "read" /\ list[u] = {} /\ list' = list /\ told' = told /\ extracted' = extracted
      BY <1>1, <2>1, <2>12 DEF Unlock, tables
    <3>. QED BY <2>1, <2>5, <2>6, <3>1
  <2>. QED BY <1>8, <2>7, <2>8, <2>9, <2>10, <2>11, <2>12
<1>. QED BY <1>6, <1>7, <1>8, TellerStep

LEMMA ExtractedStays ==
  ASSUME IInv, [Next]_vars
  PROVE  extracted \subseteq extracted'
BY TellerStep DEF Aside, Crash, Lock, Read, Tell, TellFails, Mark, Unlock, tables

(* A topic gains facts when they move to it and when they are stored.       *)
LEMMA FactsStep ==
  ASSUME TypeOK, [Next]_vars, NEW t \in Ids
  PROVE  \/ facts'[t] \subseteq facts[t]
         \/ \E u \in Mergers : MoveFacts(u) /\ t = new[u]
         \/ \E u \in Tellers : (Tell(u) \/ TellFails(u)) /\ t = Head(u)
<1>1. facts \in [Ids -> SUBSET Msgs]
  BY DEF TypeOK, TablesOK
<1>2. CASE UNCHANGED vars \/ Store \/ GiveUp \/ Crash
  BY <1>2 DEF vars, tables, Store, GiveUp, Crash
<1>3. ASSUME NEW w \in Archivers,
             \/ Fetch(w) \/ Split(w) \/ SplitFails(w)
             \/ Save(w) \/ SaveFails(w) \/ EndChunk(w)
      PROVE  facts' = facts
  BY <1>3 DEF Fetch, Split, SplitFails, Save, SaveFails, EndChunk, tables
<1>4. ASSUME NEW w \in Mergers,
             \/ Find(w) \/ Refuse(w) \/ Agree(w) \/ MergeFails(w) \/ EndMerging(w)
             \/ Insert(w) \/ MoveMessages(w)
      PROVE  facts' = facts
  BY <1>4 DEF Find, Refuse, Agree, MergeFails, EndMerging, Insert, MoveMessages, tables
<1>5. ASSUME NEW w \in Mergers, MoveFacts(w)
      PROVE  facts'[t] \subseteq facts[t] \/ t = new[w]
  BY <1>1, <1>5 DEF MoveFacts
<1>6. ASSUME NEW w \in Mergers, Drop(w)
      PROVE  facts'[t] \subseteq facts[t]
  BY <1>1, <1>6 DEF Drop
<1>7. ASSUME NEW w \in Tellers, Lock(w) \/ Read(w) \/ Mark(w) \/ Unlock(w)
      PROVE  facts' = facts
  BY <1>7 DEF Lock, Read, Mark, Unlock, tables
<1>8. ASSUME NEW w \in Tellers, Tell(w) \/ TellFails(w)
      PROVE  facts'[t] \subseteq facts[t] \/ t = Head(w)
  BY <1>1, <1>8 DEF Tell, TellFails
<1>. QED BY <1>2, <1>3, <1>4, <1>5, <1>6, <1>7, <1>8 DEF Next

(* A topic that is merged away and was extracted gains no facts.            *)
LEMMA NoNewFacts ==
  ASSUME IInv, [Next]_vars, NEW w \in Mergers, Merging(w),
         NEW k \in 1 .. 2, cand[w][k] \in seen[w], facts[cand[w][k]] = {}
  PROVE  facts'[cand[w][k]] = {}
<1>1. TypeOK
  BY DEF IInv
<1>2. cand[w][k] \in Ids
  BY DEF IInv, Paired, Neighbours, Used
<1>3. \A u \in Mergers : MoveFacts(u) => cand[w][k] # new[u]
  BY DEF MoveFacts, Moving, Merging, IInv, Separate
<1>4. \A u \in Tellers : Tell(u) \/ TellFails(u) => cand[w][k] # Head(u)
  <2>1. SUFFICES ASSUME NEW u \in Tellers, Tell(u) \/ TellFails(u) PROVE cand[w][k] # Head(u)
    OBVIOUS
  <2>2. Head(u) \in list[u]
    BY <1>1, <2>1, HeadIs, WorkerNames DEF Tell, TellFails, IInv, LockHeld
  <2>3. list[u] \cap extracted = {} /\ cand[w][k] \in extracted
    BY DEF IInv, Untold, MovedOn
  <2>. QED BY <2>2, <2>3
<1>. QED BY <1>1, <1>2, <1>3, <1>4, FactsStep

LEMMA MovedStep ==
  ASSUME IInv, [Next]_vars
  PROVE  MovedOn'
<1>1. /\ TypeOK /\ at \in [Workers -> Phases] /\ seen \in [Workers -> SUBSET Ids]
      /\ facts \in [Ids -> SUBSET Msgs]
  BY DEF IInv, TypeOK, MergersOK, TablesOK
<1>2. SUFFICES ASSUME NEW w \in Mergers
               PROVE  /\ seen'[w] \subseteq extracted'
                      /\ at'[w] \in {"facts2", "drop1", "drop2"} /\ cand'[w][1] \in seen'[w]
                           => facts'[cand'[w][1]] = {}
                      /\ at'[w] \in {"drop1", "drop2"} /\ cand'[w][2] \in seen'[w]
                           => facts'[cand'[w][2]] = {}
  BY DEF MovedOn
<1>3. w \in Workers
  BY WorkerNames
<1>4. seen'[w] \subseteq extracted'
  <2>1. seen'[w] \subseteq seen[w] \cup extracted
    <3>1. CASE Still(w)
      BY <3>1 DEF Still
    <3>2. CASE Find(w)
      BY <1>1, <1>3, <3>2 DEF Find
    <3>3. CASE Agreed(w)
      BY <1>1, <1>3, <3>3 DEF Agreed
    <3>4. CASE Insert(w) \/ MoveMessages(w) \/ MoveFacts(w) \/ Drop(w)
      BY <3>4 DEF Insert, MoveMessages, MoveFacts, Drop, mergVars
    <3>. QED BY <1>1, <3>1, <3>2, <3>3, <3>4, MergerStep
  <2>. QED BY <2>1, ExtractedStays DEF IInv, MovedOn
<1>5. ASSUME at'[w] \in {"facts2", "drop1", "drop2"}
      PROVE  /\ Merging(w) /\ cand'[w] = cand[w] /\ seen'[w] \subseteq seen[w]
             /\ \/ /\ at[w] \in {"facts2", "drop1", "drop2"}
                   /\ at'[w] \in {"drop1", "drop2"} => at[w] \in {"drop1", "drop2"}
                \/ MoveFacts(w)
  <2>1. CASE Still(w)
    BY <1>1, <1>3, <1>5, <2>1 DEF Still, Merging
  <2>2. CASE Find(w) \/ Agreed(w) \/ Insert(w) \/ MoveMessages(w)
    BY <1>1, <1>3, <1>5, <2>2 DEF Find, Agreed, Insert, MoveMessages, Goto
  <2>3. CASE MoveFacts(w)
    BY <1>5, <2>3 DEF MoveFacts, Merging, mergVars
  <2>4. CASE Drop(w)
    <3>1. at[w] = "drop1" /\ UNCHANGED <<cand, seen>>
      BY <1>1, <1>3, <1>5, <2>4 DEF Drop, Goto
    <3>. QED BY <3>1 DEF Merging
  <2>. QED BY <1>1, <2>1, <2>2, <2>3, <2>4, MergerStep
<1>6. CASE MoveFacts(w)
  <2>1. Merging(w) /\ cand' = cand /\ seen' = seen
    BY <1>6 DEF MoveFacts, Merging, mergVars
  <2>2. cand[w][1] \in Ids /\ cand[w][2] \in Ids
    BY <2>1 DEF IInv, Paired, Neighbours, Used
  <2>3. CASE at[w] = "facts1"
    <3>1. at'[w] = "facts2"
      BY <1>1, <1>3, <1>6, <2>3 DEF MoveFacts, Goto
    <3>2. facts'[cand[w][1]] = {}
      BY <1>1, <1>6, <2>2, <2>3 DEF MoveFacts
    <3>. QED BY <1>4, <2>1, <3>1, <3>2
  <2>4. CASE at[w] = "facts2"
    <3>1. at'[w] = "drop1"
      BY <1>1, <1>3, <1>6, <2>4 DEF MoveFacts, Goto
    <3>2. facts'[cand[w][2]] = {}
      BY <1>1, <1>6, <2>2, <2>4 DEF MoveFacts
    <3>3. cand[w][1] \in seen[w] => facts'[cand[w][1]] = {}
      <4>1. cand[w][1] \in seen[w] => facts[cand[w][1]] = {}
        BY <2>4 DEF IInv, MovedOn
      <4>. QED BY <2>1, <4>1, NoNewFacts
    <3>. QED BY <1>4, <2>1, <3>1, <3>2, <3>3
  <2>. QED BY <1>6, <2>3, <2>4 DEF MoveFacts
<1>7. CASE ~ MoveFacts(w)
  <2>1. ASSUME at'[w] \in {"facts2", "drop1", "drop2"}, cand'[w][1] \in seen'[w]
        PROVE  facts'[cand'[w][1]] = {}
    <3>1. facts[cand[w][1]] = {} /\ cand[w][1] \in seen[w] /\ Merging(w) /\ cand'[w] = cand[w]
      BY <1>5, <1>7, <2>1 DEF IInv, MovedOn
    <3>. QED BY <3>1, NoNewFacts
  <2>2. ASSUME at'[w] \in {"drop1", "drop2"}, cand'[w][2] \in seen'[w]
        PROVE  facts'[cand'[w][2]] = {}
    <3>1. facts[cand[w][2]] = {} /\ cand[w][2] \in seen[w] /\ Merging(w) /\ cand'[w] = cand[w]
      BY <1>5, <1>7, <2>2 DEF IInv, MovedOn
    <3>. QED BY <3>1, NoNewFacts
  <2>. QED BY <1>4, <2>1, <2>2
<1>. QED BY <1>6, <1>7

-----------------------------------------------------------------------------
(* 7. The results.                                                         *)

LEMMA InvInit == Init => IInv
<1>1. SUFFICES ASSUME Init PROVE IInv
  OBVIOUS
<1>2. \A t \in Ids : span[t].from = None
  BY <1>1 DEF Init
<1>3. Used = {}
  BY <1>2 DEF Used
<1>4. Contiguous
  BY <1>3, BoundsAssumption DEF Contiguous
<1>5. \A w \in Workers : at[w] = "idle" /\ list[w] = {} /\ todo[w] = {} /\ pairs[w] = {}
                         /\ seen[w] = {}
  BY <1>1 DEF Init
<1>6. live = {} /\ extracted = {} /\ told = {} /\ \A m \in Msgs : topicOf[m] = None
  BY <1>1 DEF Init
<1>7. Known /\ Spanned /\ Chunked /\ Placed
  BY <1>3, <1>5, <1>6 DEF Known, Spanned, Chunked, Placed
<1>8. Paired /\ Spanning /\ Separate /\ Emptied /\ MovedOn
  BY <1>5, WorkerNames DEF Paired, Spanning, Separate, Emptied, MovedOn, Merging, Moving
<1>9. LockHeld /\ Untold
  BY <1>5, <1>6, WorkerNames DEF LockHeld, Untold, Telling
<1>. QED BY <1>1, <1>4, <1>7, <1>8, <1>9, TypeInit DEF IInv

LEMMA InvStep == IInv /\ [Next]_vars => IInv'
<1>1. SUFFICES ASSUME IInv, [Next]_vars PROVE IInv'
  OBVIOUS
<1>. QED BY <1>1, TypeStep, SpanStep, KnownStep, ChunkedStep, PairedStep, SpanningStep,
         SeparateStep, PlacedStep, EmptiedStep, LockStep, UntoldStep, MovedStep DEF IInv

(* All of section 2 holds of every reachable state.                        *)
THEOREM Invariance == Spec => []IInv
BY InvInit, InvStep, PTL DEF Spec

(* Rows, workers and the lock keep to their types, and ids are given out    *)
(* without gaps.                                                           *)
THEOREM TypeCorrect == Spec => []TypeOK
<1>1. IInv => TypeOK
  BY DEF IInv
<1>. QED BY <1>1, Invariance, PTL

(* processing.go:140: whatever archives, merges and stops do, a message     *)
(* that has a topic has one that exists.                                   *)
THEOREM MessagesAreFound == Spec => []NoMessageDangles
<1>1. IInv => NoMessageDangles
  BY DEF IInv, Placed, NoMessageDangles
<1>. QED BY <1>1, Invariance, PTL

(* tryStartProcessingUser: the facts of a topic are stored once, unless the *)
(* mark was not written.                                                   *)
THEOREM ToldOnce == Spec => NeverToldTwice
<1>1. IInv => \A w \in Tellers : at[w] = "tell" => Head(w) \notin told
  <2>1. SUFFICES ASSUME IInv, NEW w \in Tellers, at[w] = "tell" PROVE Head(w) \notin told
    OBVIOUS
  <2>2. Head(w) \in list[w]
    BY <2>1, HeadIs, WorkerNames DEF IInv, LockHeld
  <2>. QED BY <2>1, <2>2 DEF IInv, Untold
<1>2. IInv => [\A w \in Tellers : at[w] = "tell" /\ at'[w] = "mark" => Head(w) \notin told]_vars
  BY <1>1
<1>. QED BY <1>2, Invariance, PTL DEF NeverToldTwice

(* mergeTopics: a topic that was taken for extracted has no facts left when *)
(* it is deleted, so none are deleted with it.                             *)
THEOREM FactsMoveFirst == Spec => []MovedBeforeDeleted
<1>1. IInv => MovedBeforeDeleted
  BY DEF IInv, MovedOn, MovedBeforeDeleted
<1>. QED BY <1>1, Invariance, PTL

(* resolveOverlaps, resolveStragglers: in every state, of every chunk and   *)
(* answer the property ranges over.  TopicsPartition says so of all.        *)
THEOREM SplitsArePartitions == Spec => []SplitIsPartition
<1>1. SplitIsPartition
  <2>1. 3 \in Nat
    OBVIOUS
  <2>2. \A c \in SUBSET (0 .. 3) : \A answer :
          Usable(c, Disjoint(c, answer)) => Partition(c, Topics(c, answer))
    BY <2>1, TopicsPartition
  <2>. QED BY <2>2 DEF SplitIsPartition
<1>. QED BY <1>1, PTL

-----------------------------------------------------------------------------
(* 8. What a merge moves.                                                  *)
(*                                                                         *)
(* MergeMovesOnlyItsOwn is false of the pipeline.  Here it is shown for     *)
(* behaviours in which nothing goes wrong in four ways: what follows names  *)
(* them, and none can be left out.                                         *)

Archiving(w)     == at[w] \in {"split", "save"}
Consolidating(w) == at[w] = "verify" \/ Merging(w)

(* AddTopic fails, or the process stops inside it.                          *)
AddTopicFails == (\E w \in Archivers : SaveFails(w)) \/ (Crash /\ live' # live)

(* The loop and a forced run neither archive nor merge at the same time,    *)
(* as if they held processingUsers[user] for that too.                      *)
TakeTurns ==
  /\ \A w, u \in Archivers : Archiving(w) /\ Archiving(u) => w = u
  /\ \A w, u \in Mergers : Consolidating(w) /\ Consolidating(u) => w = u

(* The topic t ends before the pair p begins or begins after it ends.       *)
Beside(t, p) == span[t].to < span[p[1]].from \/ span[p[2]].to < span[t].from

(* Two topics are merged only when no third one lies between or across them.*)
NoThirdTopic ==
  \A w \in Mergers : Agreed(w) =>
    \A t \in live \ {cand'[w][1], cand'[w][2]} : Beside(t, cand'[w])

(* A topic ends before every message that is not archived.                  *)
Older == \A t \in live : span[t].to <= sent /\ \A m \in Unprocessed : span[t].to < m

(* An archiver has something left to save only while it saves.              *)
EmptyHanded == \A w \in Archivers : at[w] # "save" => todo[w] = {}

(* What it holds is not archived: ranges that share no message, then the    *)
(* messages it will split; nothing older has been left out.                 *)
InHand(w, m) == m \in rest[w] \/ \E r \in todo[w] : r.from <= m /\ m <= r.to

Held(w) ==
  /\ rest[w] \subseteq Unprocessed
  /\ \A r \in todo[w] : r.from \in Unprocessed /\ r.to \in Unprocessed
  /\ \A r \in todo[w] : \A m \in rest[w] : r.to < m
  /\ Apart(todo[w])
  /\ \A m \in Unprocessed : ~ InHand(w, m) =>
       (\A k \in rest[w] : k < m) /\ (\A r \in todo[w] : r.to < m)

Holding == \A w \in Archivers : Archiving(w) => Held(w)

(* The candidates and the pair of a merge are there until it deletes them.  *)
StillThere ==
  \A w \in Mergers :
    /\ at[w] = "verify" => pairs[w] \subseteq live \X live
    /\ Merging(w) => pairs[w] = {} /\ cand[w][2] \in live
    /\ Merging(w) /\ at[w] # "drop2" => cand[w][1] \in live

(* No third topic meets the range of a merge.                               *)
Clear ==
  \A w \in Mergers : Merging(w) =>
    \A t \in live \ {cand[w][1], cand[w][2]} :
      Beside(t, cand[w]) \/ (Moving(w) /\ t = new[w])

Tidy == Older /\ EmptyHanded /\ Holding /\ StillThere /\ Clear

LEMMA InitTidy == Init => Tidy
<1>1. SUFFICES ASSUME Init PROVE Tidy
  OBVIOUS
<1>2. live = {} /\ \A w \in Workers : at[w] = "idle" /\ todo[w] = {}
  BY <1>1 DEF Init
<1>. QED BY <1>2, WorkerNames
     DEF Tidy, Older, EmptyHanded, Holding, StillThere, Clear, Archiving, Merging

LEMMA MessageNumbers ==
  ASSUME IInv
  PROVE  /\ sent \in Nat /\ Unprocessed \in SUBSET (1 .. sent) /\ Msgs \in SUBSET Nat
         /\ \A t \in Used : span[t].from \in Nat /\ span[t].to \in Nat /\ span[t].from <= span[t].to
         /\ \A t \in live : t \in Used
         /\ \A w \in Workers : \A r \in todo[w] : r.from \in Nat /\ r.to \in Nat /\ r.from <= r.to
<1>1. \A t \in Used : span[t].from \in Msgs /\ span[t].to \in Msgs /\ span[t].from <= span[t].to
  BY UsedSpan
<1>2. Msgs \in SUBSET Nat
  BY BoundsAssumption DEF Msgs
<1>3. \A w \in Workers : todo[w] \in SUBSET Ranges(Msgs)
  BY DEF IInv, TypeOK, ArchiversOK
<1>4. \A w \in Workers : \A r \in todo[w] : r.from \in Msgs /\ r.to \in Msgs /\ r.from <= r.to
  BY <1>3 DEF Ranges
<1>5. sent \in 0 .. MaxMessages /\ live \subseteq Used /\ MaxMessages \in Nat
  BY BoundsAssumption DEF IInv, TypeOK, TablesOK, Known
<1>6. Unprocessed \in SUBSET (1 .. sent)
  BY DEF Unprocessed
<1>7. sent \in Nat
  BY <1>5
<1>8. \A m \in Msgs : m \in Nat
  BY <1>2
<1>9. \A t \in Used : span[t].from \in Nat /\ span[t].to \in Nat /\ span[t].from <= span[t].to
  BY <1>1, <1>8
<1>10. \A w \in Workers : \A r \in todo[w] : r.from \in Nat /\ r.to \in Nat /\ r.from <= r.to
  BY <1>4, <1>8
<1>. QED BY <1>2, <1>5, <1>6, <1>7, <1>9, <1>10

(* The pair of a merge: two topics that are there, one behind the other.    *)
LEMMA PairNumbers ==
  ASSUME IInv, NEW w \in Mergers, Merging(w)
  PROVE  /\ cand[w][1] \in Used /\ cand[w][2] \in Used
         /\ span[cand[w][1]].to < span[cand[w][2]].from
BY DEF IInv, Paired, Neighbours

(* Rows are added by saving a range and by merging.                         *)
LEMMA RowsStep ==
  ASSUME IInv, [Next]_vars, [~ AddTopicFails]_vars
  PROVE  \/ live' \subseteq live /\ UNCHANGED span
         \/ \E w \in Archivers : Save(w)
         \/ \E w \in Mergers : Insert(w)
<1>1. CASE UNCHANGED vars
  BY <1>1 DEF vars, tables
<1>2. CASE Store \/ GiveUp
  BY <1>2 DEF tables, Store, GiveUp
<1>3. CASE Crash /\ ~ UNCHANGED vars
  <2>1. live' = live
    BY <1>3 DEF AddTopicFails
  <2>2. NextId \notin live
    BY NextIdIsFresh DEF IInv, Known
  <2>3. UNCHANGED <<live, span>> \/ NextId \in live'
    BY <1>3 DEF Crash
  <2>. QED BY <2>1, <2>2, <2>3
<1>4. ASSUME NEW w \in Archivers,
             Fetch(w) \/ Split(w) \/ SplitFails(w) \/ EndChunk(w)
      PROVE  live' \subseteq live /\ UNCHANGED span
  BY <1>4 DEF Fetch, Split, SplitFails, EndChunk, tables
<1>5. ASSUME NEW w \in Mergers,
             \/ Find(w) \/ Refuse(w) \/ Agree(w) \/ MergeFails(w) \/ EndMerging(w)
             \/ MoveMessages(w) \/ MoveFacts(w) \/ Drop(w)
      PROVE  live' \subseteq live /\ UNCHANGED span
  BY <1>5 DEF Find, Refuse, Agree, MergeFails, EndMerging, MoveMessages, MoveFacts, Drop, tables
<1>6. ASSUME NEW w \in Tellers,
             \/ Lock(w) \/ Read(w) \/ Tell(w) \/ TellFails(w) \/ Mark(w) \/ Unlock(w)
      PROVE  live' \subseteq live /\ UNCHANGED span
  BY <1>6 DEF Lock, Read, Tell, TellFails, Mark, Unlock, tables
<1>7. ~ UNCHANGED vars => \A w \in Archivers : ~ SaveFails(w)
  BY DEF AddTopicFails
<1>. QED BY <1>1, <1>2, <1>3, <1>4, <1>5, <1>6, <1>7 DEF Next

LEMMA SaveArchives ==
  ASSUME IInv, NEW w \in Archivers, Save(w)
  PROVE  Unprocessed' = {m \in Unprocessed : ~ (First(w).from <= m /\ m <= First(w).to)}
<1>1. topicOf' = Repointed(First(w), NextId) /\ NextId # None /\ sent' = sent
  BY NextIdIsFresh DEF Save, None, IInv
<1>2. \A m \in 1 .. sent : m \in Msgs
  BY MessagesInMsgs DEF IInv
<1>. QED BY <1>1, <1>2 DEF Repointed, Unprocessed

(* Messages become unprocessed by being stored and processed by being saved.*)
LEMMA UnprocessedStep ==
  ASSUME IInv, Tidy, [Next]_vars
  PROVE  \/ Unprocessed' = Unprocessed /\ sent' = sent
         \/ /\ sent' = sent + 1 /\ Unprocessed' = Unprocessed \cup {sent + 1}
            /\ UNCHANGED <<live, span, at, rest, todo>>
         \/ \E w \in Archivers :
              /\ Save(w) /\ sent' = sent
              /\ Unprocessed' = {m \in Unprocessed : ~ (First(w).from <= m /\ m <= First(w).to)}
<1>1. CASE Store
  <2>1. /\ sent' = sent + 1 /\ UNCHANGED topicOf /\ sent + 1 \in Msgs /\ sent \in Nat
    BY <1>1, MessageNumbers, BoundsAssumption DEF Store, Msgs
  <2>2. topicOf[sent + 1] = None
    <3>1. SUFFICES ASSUME topicOf[sent + 1] # None PROVE FALSE
      OBVIOUS
    <3> DEFINE t == topicOf[sent + 1]
    <3>2. t \in live /\ sent + 1 <= span[t].to
      BY <2>1, <3>1 DEF IInv, Placed
    <3>3. span[t].to <= sent /\ span[t].to \in Nat
      BY <3>2, MessageNumbers DEF Tidy, Older
    <3>. QED BY <2>1, <3>2, <3>3
  <2>3. Unprocessed' = Unprocessed \cup {sent + 1}
    BY <2>1, <2>2 DEF Unprocessed
  <2>. QED BY <1>1, <2>1, <2>3 DEF Store, archVars
<1>2. CASE ~ Store
  <2>1. sent' = sent
    <3>1. CASE UNCHANGED vars \/ GiveUp \/ Crash
      BY <3>1 DEF vars, tables, GiveUp, Crash
    <3>2. ASSUME NEW w \in Archivers,
             \/ Fetch(w) \/ Split(w) \/ SplitFails(w)
             \/ Save(w) \/ SaveFails(w) \/ EndChunk(w)
          PROVE  sent' = sent
      BY <3>2 DEF Fetch, Split, SplitFails, Save, SaveFails, EndChunk, tables
    <3>3. ASSUME NEW w \in Mergers,
             \/ Find(w) \/ Refuse(w) \/ Agree(w) \/ MergeFails(w) \/ EndMerging(w)
             \/ Insert(w) \/ MoveMessages(w) \/ MoveFacts(w) \/ Drop(w)
          PROVE  sent' = sent
      BY <3>3 DEF Find, Refuse, Agree, MergeFails, EndMerging, Insert, MoveMessages, MoveFacts, Drop, tables
    <3>4. ASSUME NEW w \in Tellers,
             \/ Lock(w) \/ Read(w) \/ Tell(w) \/ TellFails(w) \/ Mark(w) \/ Unlock(w)
          PROVE  sent' = sent
      BY <3>4 DEF Lock, Read, Tell, TellFails, Mark, Unlock, tables
    <3>. QED BY <1>2, <3>1, <3>2, <3>3, <3>4 DEF Next
  <2>2. CASE UNCHANGED topicOf
    BY <2>1, <2>2 DEF Unprocessed
  <2>3. ASSUME NEW w \in Archivers, Save(w)
        PROVE  Unprocessed' = {m \in Unprocessed : ~ (First(w).from <= m /\ m <= First(w).to)}
    BY <2>3, SaveArchives
  <2>4. ASSUME NEW w \in Mergers, MoveMessages(w)
        PROVE  Unprocessed' = Unprocessed
    <3>1. PICK k \in 1 .. 2 : topicOf' = Repointed(span[cand[w][k]], new[w])
      BY <2>4 DEF MoveMessages
    <3>2. cand[w][k] \in live /\ new[w] \in Used
      BY <2>4 DEF MoveMessages, Tidy, StillThere, Merging, Moving, IInv, Spanning, Known
    <3>3. \A m \in Unprocessed : span[cand[w][k]].to < m /\ m \in Nat /\ span[cand[w][k]].to \in Nat
      BY <3>2, MessageNumbers DEF Tidy, Older
    <3>4. new[w] # None
      BY <3>2 DEF Used, Ids, None
    <3>5. \A m \in 1 .. sent : m \in Msgs
      BY MessagesInMsgs DEF IInv
    <3>6. ASSUME NEW m \in 1 .. sent PROVE topicOf'[m] = None <=> topicOf[m] = None
      <4>1. topicOf'[m] = IF span[cand[w][k]].from <= m /\ m <= span[cand[w][k]].to
                          THEN new[w] ELSE topicOf[m]
        BY <3>1, <3>5 DEF Repointed
      <4>2. CASE topicOf[m] = None
        <5>1. m \in Unprocessed
          BY <4>2 DEF Unprocessed
        <5>. QED BY <3>3, <4>1, <4>2, <5>1
      <4>. QED BY <3>4, <4>1, <4>2
    <3>. QED BY <2>1, <3>6 DEF Unprocessed
  <2>. QED BY <2>1, <2>2, <2>3, <2>4, TopicOfStep
<1>. QED BY <1>1, <1>2

LEMMA SavedNumbers ==
  ASSUME IInv, NEW w \in Archivers, Save(w)
  PROVE  /\ First(w) \in todo[w] /\ \A s \in todo[w] : First(w).from <= s.from
         /\ First(w).from \in Nat /\ First(w).to \in Nat /\ First(w).from <= First(w).to
         /\ live' = live \cup {NextId} /\ NextId \notin live
         /\ span'[NextId].from = First(w).from /\ span'[NextId].to = First(w).to
<1>1. /\ todo[w] # {} /\ NextId <= MaxTopics /\ live' = live \cup {NextId}
      /\ span' = [span EXCEPT ![NextId] = NewSpan(First(w), Highest(chunk[w]))]
  BY DEF Save
<1>2. todo[w] \in SUBSET Ranges(Msgs) /\ w \in Workers
  BY WorkerNames DEF IInv, TypeOK, ArchiversOK
<1>3. First(w) \in todo[w] /\ \A s \in todo[w] : First(w).from <= s.from
  BY <1>1, <1>2, FirstIs
<1>4. span'[NextId] = NewSpan(First(w), Highest(chunk[w]))
  BY <1>1, <1>2, SavedRow
<1>5. NextId \notin live
  BY NextIdIsFresh DEF IInv, Known
<1>. QED BY <1>1, <1>2, <1>3, <1>4, <1>5, MessageNumbers DEF NewSpan

LEMMA OlderStep ==
  ASSUME IInv, Tidy, [Next]_vars, [~ AddTopicFails]_vars
  PROVE  Older'
<1>1. SUFFICES ASSUME NEW t \in live'
               PROVE  span'[t].to <= sent' /\ \A m \in Unprocessed' : span'[t].to < m
  BY DEF Older
<1>2. sent \in Nat /\ sent' \in Nat /\ sent <= sent' /\ Unprocessed \in SUBSET (1 .. sent)
      /\ \A m \in Unprocessed' : m \in Unprocessed \/ m = sent + 1
  BY UnprocessedStep, MessageNumbers
<1>3. CASE t \in live
  <2>1. t \in Used /\ span'[t] = span[t] /\ span[t].to \in Nat
    BY <1>3, MessageNumbers, SpanStep
  <2>2. span[t].to <= sent /\ \A m \in Unprocessed : span[t].to < m
    BY <1>3 DEF Tidy, Older
  <2>3. ASSUME NEW m \in Unprocessed' PROVE span[t].to < m
    <3>1. m \in Unprocessed \/ m = sent + 1
      BY <1>2
    <3>2. sent \in Nat /\ span[t].to \in Nat /\ span[t].to <= sent
      BY <1>2, <2>1, <2>2
    <3>3. CASE m = sent + 1
      BY <3>2, <3>3
    <3>. QED BY <2>2, <3>1, <3>3
  <2>4. span[t].to <= sent'
    BY <1>2, <2>1, <2>2
  <2>. QED BY <2>1, <2>3, <2>4
<1>4. ASSUME NEW w \in Archivers, Save(w), t \notin live
      PROVE  span'[t].to <= sent' /\ \A m \in Unprocessed' : span'[t].to < m
  <2>1. t = NextId /\ span'[t].to = First(w).to
    BY <1>1, <1>4, SavedNumbers
  <2>2. /\ First(w) \in todo[w] /\ \A s \in todo[w] : First(w).from <= s.from
        /\ First(w).from \in Nat /\ First(w).to \in Nat /\ First(w).from <= First(w).to
    BY <1>4, SavedNumbers
  <2>3. /\ \A r \in todo[w] : r.from \in Unprocessed /\ r.to \in Unprocessed
        /\ \A r \in todo[w] : \A m \in rest[w] : r.to < m
        /\ Apart(todo[w])
        /\ \A m \in Unprocessed : ~ InHand(w, m) =>
             (\A k \in rest[w] : k < m) /\ (\A r \in todo[w] : r.to < m)
    BY <1>4 DEF Tidy, Holding, Held, Archiving, Save
  <2>4. First(w).to <= sent
    BY <1>2, <2>2, <2>3
  <2>5. ASSUME NEW m \in Unprocessed' PROVE First(w).to < m
    <3>1. sent' = sent
      BY <1>4 DEF Save
    <3>2. m \in Unprocessed /\ ~ (First(w).from <= m /\ m <= First(w).to)
      BY <1>4, SaveArchives
    <3>3. CASE m \in rest[w]
      BY <2>2, <2>3, <3>3
    <3>4. ASSUME NEW r \in todo[w], r.from <= m, m <= r.to PROVE First(w).to < m
      <4>1. r.from \in Nat /\ r.to \in Nat /\ m \in Nat
        BY <3>2, MessageNumbers, WorkerNames
      <4>2. r # First(w)
        BY <3>2, <3>4
      <4>3. First(w).to < r.from \/ r.to < First(w).from
        BY <2>2, <2>3, <4>2 DEF Apart
      <4>. QED BY <2>2, <3>4, <4>1, <4>3
    <3>. QED BY <2>2, <2>3, <3>2, <3>3, <3>4 DEF InHand
  <2>. QED BY <1>4, <2>1, <2>4, <2>5 DEF Save
<1>5. ASSUME NEW w \in Mergers, Insert(w), t \notin live
      PROVE  span'[t].to <= sent' /\ \A m \in Unprocessed' : span'[t].to < m
  <2>1. live' = live \cup {NextId} /\ Merging(w) /\ sent' = sent /\ UNCHANGED topicOf
    BY <1>5 DEF Insert, Merging
  <2>2. t = NextId /\ span'[t].to = span[cand[w][2]].to
    BY <1>1, <1>5, <2>1, InsertedRow
  <2>3. cand[w][2] \in live
    BY <2>1 DEF Tidy, StillThere
  <2>4. Unprocessed' = Unprocessed
    BY <2>1 DEF Unprocessed
  <2>. QED BY <2>1, <2>2, <2>3, <2>4 DEF Tidy, Older
<1>. QED BY <1>1, <1>3, <1>4, <1>5, RowsStep

LEMMA ArchiverStep ==
  ASSUME TypeOK, [Next]_vars, [~ AddTopicFails]_vars, NEW u \in Archivers
  PROVE  \/ /\ rest'[u] = rest[u] /\ todo'[u] = todo[u]
            /\ Archiving(u)' => Archiving(u)
            /\ at[u] = "save" => at'[u] = "save"
         \/ at'[u] = "idle" /\ todo'[u] = {}
         \/ Fetch(u) \/ Split(u) \/ SplitFails(u) \/ Save(u) \/ EndChunk(u)
<1> DEFINE Rests == /\ rest'[u] = rest[u] /\ todo'[u] = todo[u]
                    /\ Archiving(u)' => Archiving(u)
                    /\ at[u] = "save" => at'[u] = "save"
<1>1. /\ at \in [Workers -> Phases] /\ u \in Workers
      /\ rest \in [Workers -> SUBSET Msgs] /\ todo \in [Workers -> SUBSET Ranges(Msgs)]
  BY WorkerNames DEF TypeOK, ArchiversOK
<1>2. CASE UNCHANGED vars
  BY <1>2 DEF vars, archVars, Archiving
<1>3. CASE Store
  BY <1>3 DEF Store, archVars, Archiving
<1>4. CASE GiveUp
  BY <1>1, <1>4 DEF GiveUp, Goto, archVars, Archiving
<1>5. CASE Crash
  BY <1>1, <1>5 DEF Crash, Reset
<1>6. ASSUME NEW w \in Archivers, w # u,
             Fetch(w) \/ Split(w) \/ SplitFails(w) \/ Save(w) \/ EndChunk(w)
      PROVE  Rests
  BY <1>1, <1>6, WorkerNames DEF Fetch, Split, SplitFails, Save, EndChunk, Goto, Archiving
<1>7. ASSUME NEW w \in Mergers,
             \/ Find(w) \/ Refuse(w) \/ Agree(w) \/ MergeFails(w) \/ EndMerging(w)
             \/ Insert(w) \/ MoveMessages(w) \/ MoveFacts(w) \/ Drop(w)
      PROVE  Rests
  <2>1. UNCHANGED <<rest, todo>>
    BY <1>7 DEF Find, Refuse, Agree, MergeFails, EndMerging, Insert, MoveMessages, MoveFacts,
       Drop, archVars
  <2>2. /\ Archiving(u)' => Archiving(u)
        /\ at[u] = "save" => at'[u] = "save"
    BY <1>1, <1>7, WorkerNames DEF Find, Refuse, Agree, MergeFails, EndMerging, Insert,
       MoveMessages, MoveFacts, Drop, Goto, Archiving, Archivers, Mergers
  <2>. QED BY <2>1, <2>2
<1>8. ASSUME NEW w \in Tellers,
             \/ Lock(w) \/ Read(w) \/ Tell(w) \/ TellFails(w) \/ Mark(w) \/ Unlock(w)
      PROVE  Rests
  <2>1. UNCHANGED <<rest, todo>>
    BY <1>8 DEF Lock, Read, Tell, TellFails, Mark, Unlock, archVars
  <2>2. /\ Archiving(u)' => Archiving(u)
        /\ at[u] = "save" => at'[u] = "save"
    BY <1>1, <1>8, WorkerNames DEF Lock, Read, Tell, TellFails, Mark, Unlock, Goto, Archiving,
       Archivers, Tellers
  <2>. QED BY <2>1, <2>2
<1>9. ~ UNCHANGED vars => \A w \in Archivers : ~ SaveFails(w)
  BY DEF AddTopicFails
<1>. QED BY <1>2, <1>3, <1>4, <1>5, <1>6, <1>7, <1>8, <1>9 DEF Next

LEMMA EmptyHandedStep ==
  ASSUME IInv, Tidy, [Next]_vars, [~ AddTopicFails]_vars
  PROVE  EmptyHanded'
<1>1. SUFFICES ASSUME NEW u \in Archivers, at'[u] # "save" PROVE todo'[u] = {}
  BY DEF EmptyHanded
<1>2. /\ at \in [Workers -> Phases] /\ u \in Workers
  BY WorkerNames DEF IInv, TypeOK
<1>3. at[u] # "save" => todo[u] = {}
  BY DEF Tidy, EmptyHanded
<1>4. CASE Fetch(u) \/ SplitFails(u)
  BY <1>3, <1>4 DEF Fetch, SplitFails
<1>5. CASE Split(u)
  BY <1>1, <1>2, <1>5 DEF Split, Goto
<1>6. CASE Save(u)
  BY <1>1, <1>6 DEF Save
<1>7. CASE EndChunk(u)
  BY <1>7 DEF EndChunk
<1>8. TypeOK
  BY DEF IInv
<1>. QED BY <1>1, <1>3, <1>4, <1>5, <1>6, <1>7, <1>8, ArchiverStep

(* The chunk is the beginning of what is left, and its topics part it.      *)
LEMMA SplitParts ==
  ASSUME IInv, NEW w \in Archivers, Split(w)
  PROVE  \E c \in SUBSET rest[w] :
           /\ rest'[w] = rest[w] \ c /\ at'[w] = "save" /\ at[w] = "split"
           /\ \A m \in c : \A k \in rest[w] \ c : m < k
           /\ \A r \in todo'[w] : r.from \in c /\ r.to \in c
           /\ Partition(c, todo'[w])
<1>1. /\ rest \in [Workers -> SUBSET Msgs] /\ w \in Workers
      /\ todo \in [Workers -> SUBSET Ranges(Msgs)] /\ at \in [Workers -> Phases]
  BY WorkerNames DEF IInv, TypeOK, ArchiversOK
<1>2. PICK c \in Chunks(w) : \E answer \in Answers(c) :
        /\ Usable(c, Disjoint(c, answer))
        /\ todo' = [todo EXCEPT ![w] = Topics(c, answer)]
        /\ rest' = [rest EXCEPT ![w] = @ \ c]
  BY DEF Split
<1>3. PICK answer \in Answers(c) :
        /\ Usable(c, Disjoint(c, answer))
        /\ todo' = [todo EXCEPT ![w] = Topics(c, answer)]
        /\ rest' = [rest EXCEPT ![w] = @ \ c]
  BY <1>2
<1>4. c \in SUBSET rest[w] /\ \A m \in c : \A k \in rest[w] \ c : m < k
  <2>1. CASE w = "forced"
    BY <2>1 DEF Chunks
  <2>2. CASE w # "forced"
    <3>1. PICK last \in rest[w] : c = {m \in rest[w] : m <= last}
      BY <2>2 DEF Chunks
    <3>2. \A m \in rest[w] : m \in Nat
      BY <1>1, BoundsAssumption DEF Msgs
    <3>. QED BY <3>1, <3>2
  <2>. QED BY <2>1, <2>2
<1>5. c \in SUBSET Msgs
  BY <1>1, <1>4
<1>6. MaxMessages \in Nat /\ c \in SUBSET (0 .. MaxMessages)
  BY <1>5, BoundsAssumption DEF Msgs
<1>7. Partition(c, Topics(c, answer))
  BY <1>3, <1>6, TopicsPartition
<1>8. Topics(c, answer) \in SUBSET Ranges(c)
  BY <1>3, <1>5, TopicsInChunk
<1>9. todo'[w] = Topics(c, answer) /\ rest'[w] = rest[w] \ c
  BY <1>1, <1>3
<1>10. at'[w] = "save" /\ at[w] = "split"
  BY <1>1 DEF Split, Goto
<1>. QED BY <1>4, <1>7, <1>8, <1>9, <1>10 DEF Ranges

LEMMA HoldingStep ==
  ASSUME IInv, Tidy, [Next]_vars, [~ AddTopicFails]_vars, TakeTurns
  PROVE  Holding'
<1>1. SUFFICES ASSUME NEW u \in Archivers, Archiving(u)' PROVE Held(u)'
  BY DEF Holding
<1>2. /\ TypeOK /\ at \in [Workers -> Phases] /\ u \in Workers
      /\ rest \in [Workers -> SUBSET Msgs] /\ todo \in [Workers -> SUBSET Ranges(Msgs)]
  BY WorkerNames DEF IInv, TypeOK, ArchiversOK
<1>3. Archiving(u) => Held(u)
  BY DEF Tidy, Holding
<1>4. \A m \in Unprocessed : m \in Nat
  BY MessageNumbers
<1>5. CASE Fetch(u)
  <2>1. Unprocessed' = Unprocessed
    BY <1>5 DEF Fetch, tables, Unprocessed
  <2>2. todo'[u] = {}
    BY <1>5 DEF Fetch, Tidy, EmptyHanded
  <2>3. rest'[u] \subseteq Unprocessed /\ \A m \in Unprocessed \ rest'[u] : \A k \in rest'[u] : k < m
    <3>1. CASE \E last \in Unprocessed : rest' = [rest EXCEPT ![u] = {m \in Unprocessed : m <= last}]
      <4>1. PICK last \in Unprocessed : rest' = [rest EXCEPT ![u] = {m \in Unprocessed : m <= last}]
        BY <3>1
      <4>2. rest'[u] = {m \in Unprocessed : m <= last}
        BY <1>2, <4>1
      <4>. QED BY <1>4, <4>2
    <3>2. CASE rest' = [rest EXCEPT ![u] = Unprocessed]
      BY <1>2, <3>2
    <3>. QED BY <1>5, <3>1, <3>2 DEF Fetch
  <2>. QED BY <2>1, <2>2, <2>3 DEF Held, Apart, InHand
<1>6. CASE Split(u)
  <2>1. PICK c \in SUBSET rest[u] :
           /\ rest'[u] = rest[u] \ c /\ at[u] = "split"
           /\ \A m \in c : \A k \in rest[u] \ c : m < k
           /\ \A r \in todo'[u] : r.from \in c /\ r.to \in c
           /\ Partition(c, todo'[u])
    BY <1>6, SplitParts
  <2>2. Unprocessed' = Unprocessed
    BY <1>6 DEF Split, tables, Unprocessed
  <2>3. Held(u) /\ todo[u] = {}
    BY <1>3, <2>1 DEF Archiving, Tidy, EmptyHanded
  <2>4. rest[u] \subseteq Unprocessed /\ \A m \in Unprocessed \ rest[u] : \A k \in rest[u] : k < m
    BY <2>3 DEF Held, InHand
  <2>5. Apart(todo'[u]) /\ \A m \in c : \E r \in todo'[u] : r.from <= m /\ m <= r.to
    BY <2>1 DEF Partition, Apart, Inside
  <2>6. ASSUME NEW m \in Unprocessed, ~ InHand(u, m)'
        PROVE  (\A k \in rest'[u] : k < m) /\ (\A r \in todo'[u] : r.to < m)
    <3>1. m \notin rest[u]
      BY <2>1, <2>5, <2>6 DEF InHand
    <3>. QED BY <2>1, <2>4, <3>1
  <2>7. rest'[u] \subseteq Unprocessed
        /\ (\A r \in todo'[u] : r.from \in Unprocessed /\ r.to \in Unprocessed)
        /\ (\A r \in todo'[u] : \A m \in rest'[u] : r.to < m)
    BY <2>1, <2>4
  <2>. QED BY <2>2, <2>5, <2>6, <2>7 DEF Held
<1>7. CASE Save(u)
  <2>1. Unprocessed' = {m \in Unprocessed : ~ (First(u).from <= m /\ m <= First(u).to)}
    BY <1>7, SaveArchives
  <2>2. /\ First(u) \in todo[u] /\ First(u).from \in Nat /\ First(u).to \in Nat
        /\ First(u).from <= First(u).to
    BY <1>7, SavedNumbers
  <2>3. rest'[u] = rest[u] /\ todo'[u] = todo[u] \ {First(u)}
    BY <1>2, <1>7 DEF Save
  <2>4. Held(u)
    BY <1>3, <1>7 DEF Save, Archiving
  <2>5. rest'[u] \subseteq Unprocessed'
    BY <1>4, <2>1, <2>2, <2>3, <2>4 DEF Held
  <2>6. ASSUME NEW r \in todo'[u] PROVE r.from \in Unprocessed' /\ r.to \in Unprocessed'
    <3>1. r \in todo[u] /\ r # First(u)
      BY <2>3
    <3>2. r.from \in Unprocessed /\ r.to \in Unprocessed
          /\ (First(u).to < r.from \/ r.to < First(u).from)
      BY <2>2, <2>4, <3>1 DEF Held, Apart
    <3>3. r.from \in Nat /\ r.to \in Nat /\ r.from <= r.to
      BY <1>2, <3>1, MessageNumbers
    <3>. QED BY <2>1, <2>2, <3>2, <3>3
  <2>7. ASSUME NEW m \in Unprocessed', ~ InHand(u, m)'
        PROVE  (\A k \in rest'[u] : k < m) /\ (\A r \in todo'[u] : r.to < m)
    <3>1. m \in Unprocessed /\ ~ (First(u).from <= m /\ m <= First(u).to)
      BY <2>1
    <3>2. ~ InHand(u, m)
      BY <2>3, <2>7, <3>1 DEF InHand
    <3>. QED BY <2>3, <2>4, <3>1, <3>2 DEF Held
  <2>8. Apart(todo'[u]) /\ \A r \in todo'[u] : \A m \in rest'[u] : r.to < m
    BY <2>3, <2>4 DEF Held, Apart
  <2>. QED BY <2>5, <2>6, <2>7, <2>8 DEF Held
<1>8. CASE EndChunk(u)
  <2>1. Unprocessed' = Unprocessed /\ rest' = rest /\ todo' = todo /\ Archiving(u)
    BY <1>8 DEF EndChunk, tables, Unprocessed, Archiving
  <2>. QED BY <1>3, <2>1 DEF Held, InHand
<1>9. CASE /\ rest'[u] = rest[u] /\ todo'[u] = todo[u] /\ Archiving(u) /\ ~ Save(u)
  <2>1. Held(u)
    BY <1>3, <1>9
  <2>2. CASE Unprocessed' = Unprocessed
    BY <1>9, <2>1, <2>2 DEF Held, InHand
  <2>3. CASE Unprocessed' = Unprocessed \cup {sent + 1}
    <3>1. sent \in Nat /\ Unprocessed \in SUBSET (1 .. sent)
      BY MessageNumbers
    <3>2. (\A k \in rest[u] : k < sent + 1) /\ (\A r \in todo[u] : r.to < sent + 1)
      <4>1. \A k \in Unprocessed : k < sent + 1
        BY <3>1
      <4>. QED BY <2>1, <4>1 DEF Held
    <3>. QED BY <1>9, <2>1, <2>3, <3>2 DEF Held, InHand
  <2>4. ASSUME NEW w \in Archivers, Save(w) PROVE FALSE
    BY <1>9, <2>4 DEF TakeTurns, Save, Archiving
  <2>. QED BY <2>2, <2>3, <2>4, UnprocessedStep
<1>10. CASE SplitFails(u)
  BY <1>1, <1>2, <1>10 DEF SplitFails, Goto, Archiving
<1>11. CASE at'[u] = "idle"
  BY <1>1, <1>11 DEF Archiving
<1>. QED BY <1>1, <1>2, <1>5, <1>6, <1>7, <1>8, <1>9, <1>10, <1>11, ArchiverStep

(* With turns taken, a merge is alone.                                      *)
LEMMA Alone ==
  ASSUME TakeTurns, NEW u \in Mergers, Consolidating(u), NEW w \in Mergers,
         Insert(w) \/ Drop(w)
  PROVE  w = u
BY DEF TakeTurns, Insert, Drop, Consolidating, Merging

LEMMA StillThereStep ==
  ASSUME IInv, Tidy, [Next]_vars, TakeTurns
  PROVE  StillThere'
<1>1. SUFFICES ASSUME NEW u \in Mergers
               PROVE  /\ at'[u] = "verify" => pairs'[u] \subseteq live' \X live'
                      /\ Merging(u)' => pairs'[u] = {} /\ cand'[u][2] \in live'
                      /\ Merging(u)' /\ at'[u] # "drop2" => cand'[u][1] \in live'
  BY DEF StillThere
<1>2. /\ TypeOK /\ u \in Workers /\ at \in [Workers -> Phases]
      /\ pairs \in [Workers -> SUBSET (Ids \X Ids)]
      /\ cand \in [Workers -> (Ids \cup {None}) \X (Ids \cup {None})]
  BY WorkerNames DEF IInv, TypeOK, MergersOK
<1>3. /\ at[u] = "verify" => pairs[u] \subseteq live \X live
      /\ Merging(u) => pairs[u] = {} /\ cand[u][2] \in live
      /\ Merging(u) /\ at[u] # "drop2" => cand[u][1] \in live
  BY DEF Tidy, StillThere
<1>4. ASSUME Consolidating(u), NEW t \in live, ~ Drop(u) PROVE t \in live'
  BY <1>4, Alone, LiveStep
<1>5. ASSUME at'[u] = "verify" PROVE pairs'[u] \subseteq live' \X live'
  <2>1. CASE Still(u)
    <3>1. at[u] = "verify" /\ pairs'[u] \subseteq pairs[u]
      BY <1>5, <2>1 DEF Still
    <3>2. \A t \in live : t \in live'
      BY <1>4, <3>1 DEF Consolidating, Drop
    <3>. QED BY <1>3, <3>1, <3>2
  <2>2. CASE Find(u)
    <3>1. pairs'[u] \subseteq Candidates /\ UNCHANGED live
      BY <1>2, <2>2, FindPairs DEF Find
    <3>. QED BY <3>1 DEF Candidates
  <2>3. CASE Drop(u)
    <3>1. Merging(u) /\ UNCHANGED pairs
      BY <2>3 DEF Drop, Merging
    <3>. QED BY <1>3, <3>1
  <2>4. CASE Agreed(u) \/ Insert(u) \/ MoveMessages(u) \/ MoveFacts(u)
    BY <1>2, <1>5, <2>4 DEF Agreed, Insert, MoveMessages, MoveFacts, Goto
  <2>. QED BY <1>2, <2>1, <2>2, <2>3, <2>4, MergerStep
<1>6. ASSUME Merging(u)' PROVE pairs'[u] = {}
  <2>1. CASE Agreed(u)
    BY <1>2, <2>1 DEF Agreed
  <2>2. CASE Find(u)
    BY <1>2, <1>6, <2>2 DEF Find, Goto, Merging
  <2>3. CASE Still(u) /\ Merging(u)
    BY <1>3, <2>3 DEF Still
  <2>4. CASE Still(u) /\ ~ Merging(u)
    BY <1>6, <2>4 DEF Still, Merging
  <2>5. CASE Insert(u) \/ MoveMessages(u) \/ MoveFacts(u) \/ Drop(u)
    <3>1. Merging(u) /\ UNCHANGED pairs
      BY <2>5 DEF Insert, MoveMessages, MoveFacts, Drop, Merging, mergVars
    <3>. QED BY <1>3, <3>1
  <2>. QED BY <1>2, <2>1, <2>2, <2>3, <2>4, <2>5, MergerStep
<1>7. ASSUME Merging(u)' PROVE cand'[u][2] \in live' /\ (at'[u] # "drop2" => cand'[u][1] \in live')
  <2>1. CASE Agreed(u)
    <3>1. at[u] = "verify" /\ cand'[u] \in pairs[u]
      BY <1>2, <2>1 DEF Agreed
    <3>2. cand'[u][1] \in live /\ cand'[u][2] \in live
      BY <1>3, <3>1
    <3>. QED BY <1>4, <3>1, <3>2 DEF Consolidating, Drop
  <2>2. CASE Merging(u) /\ cand'[u] = cand[u] /\ ~ Drop(u)
    <3>1. \A t \in live : t \in live'
      BY <1>4, <2>2 DEF Consolidating
    <3>2. at'[u] # "drop2" => at[u] # "drop2"
      <4>1. SUFFICES ASSUME at[u] = "drop2" PROVE at'[u] = "drop2"
        OBVIOUS
      <4>2. CASE Still(u)
        BY <1>7, <4>1, <4>2 DEF Still, Merging
      <4>3. CASE Find(u) \/ Agreed(u) \/ Insert(u) \/ MoveMessages(u) \/ MoveFacts(u)
        BY <4>1, <4>3 DEF Find, Agreed, Insert, MoveMessages, MoveFacts
      <4>. QED BY <1>2, <2>2, <4>2, <4>3, MergerStep
    <3>. QED BY <1>3, <2>2, <3>1, <3>2
  <2>3. CASE Merging(u) /\ cand'[u] = cand[u] /\ Drop(u)
    <3>1. at[u] = "drop1" /\ at'[u] = "drop2"
      BY <1>2, <1>7, <2>3 DEF Drop, Goto, Merging
    <3>2. live' = live \ {cand[u][1]} /\ cand[u][1] # cand[u][2]
      BY <2>3, <3>1 DEF Drop, IInv, Paired, Neighbours
    <3>. QED BY <1>3, <2>3, <3>1, <3>2
  <2>. QED BY <1>2, <1>7, <2>1, <2>2, <2>3, CandStep
<1>. QED BY <1>5, <1>6, <1>7

LEMMA BesideStays ==
  ASSUME IInv, [Next]_vars, NEW t \in Used, NEW p, p[1] \in Used, p[2] \in Used, Beside(t, p)
  PROVE  Beside(t, p)'
BY SpanStep DEF Beside

LEMMA ClearStep ==
  ASSUME IInv, Tidy, [Next]_vars, [~ AddTopicFails]_vars, [NoThirdTopic]_vars, TakeTurns
  PROVE  Clear'
<1>1. SUFFICES ASSUME NEW u \in Mergers, Merging(u)',
                      NEW t \in live', t # cand'[u][1], t # cand'[u][2]
               PROVE  Beside(t, cand[u])' \/ (Moving(u)' /\ t = new'[u])
  BY DEF Clear
<1>2. /\ TypeOK /\ u \in Workers /\ at \in [Workers -> Phases]
      /\ pairs \in [Workers -> SUBSET (Ids \X Ids)]
      /\ cand \in [Workers -> (Ids \cup {None}) \X (Ids \cup {None})]
      /\ new \in [Workers -> Ids \cup {None}]
  BY WorkerNames DEF IInv, TypeOK, MergersOK
<1>3. CASE Agreed(u)
  <2>1. at[u] = "verify" /\ at' = [at EXCEPT ![u] = "insert"] /\ cand'[u] \in pairs[u]
    BY <1>2, <1>3 DEF Agreed
  <2>2. cand'[u][1] \in Used /\ cand'[u][2] \in Used
    BY <2>1 DEF IInv, Paired, Neighbours
  <2>3. ASSUME NEW w \in Archivers PROVE ~ Save(w)
    BY <1>2, <2>1 DEF Save
  <2>4. ASSUME NEW w \in Mergers PROVE ~ Insert(w)
    BY <1>2, <2>1, WorkerNames DEF Insert, Goto
  <2>5. t \in live /\ t \in Used
    BY <2>3, <2>4, RowsStep DEF IInv, Known
  <2>6. at' # at
    BY <1>2, <2>1
  <2>7. NoThirdTopic
    BY <2>6 DEF vars
  <2>8. span[t].to < span[cand'[u][1]].from \/ span[cand'[u][2]].to < span[t].from
    BY <1>1, <1>3, <2>5, <2>7 DEF NoThirdTopic, Beside
  <2>. QED BY <2>2, <2>5, <2>8, SpanStep DEF Beside
<1>4. CASE Merging(u) /\ cand'[u] = cand[u]
  <2>1. cand[u][1] \in Used /\ cand[u][2] \in Used /\ cand[u][2] \in live
    BY <1>4, PairNumbers DEF Tidy, StillThere
  <2>2. CASE t \in live
    <3>1. Beside(t, cand[u]) \/ (Moving(u) /\ t = new[u])
      BY <1>1, <1>4, <2>2 DEF Tidy, Clear
    <3>2. CASE Beside(t, cand[u])
      <4>1. t \in Used
        BY <2>2 DEF IInv, Known
      <4>. QED BY <1>4, <2>1, <3>2, <4>1, SpanStep DEF Beside
    <3>3. CASE Moving(u) /\ t = new[u]
      <4>1. Moving(u)'
        <5>1. SUFFICES ASSUME at'[u] = "insert" PROVE FALSE
          BY <1>1 DEF Moving
        <5>2. CASE Still(u)
          BY <3>3, <5>1, <5>2 DEF Still, Moving, Merging
        <5>3. CASE Find(u) \/ Agreed(u) \/ Insert(u) \/ MoveMessages(u) \/ MoveFacts(u) \/ Drop(u)
          BY <1>2, <3>3, <5>1, <5>3
             DEF Find, Agreed, Insert, MoveMessages, MoveFacts, Drop, Goto, Moving, Merging
        <5>. QED BY <1>2, <5>2, <5>3, MergerStep
      <4>2. new'[u] = new[u]
        BY <1>2, <3>3, <4>1, NewStep DEF Insert, Moving
      <4>. QED BY <3>3, <4>1, <4>2
    <3>. QED BY <3>1, <3>2, <3>3
  <2>3. ASSUME NEW w \in Archivers, Save(w), t \notin live
        PROVE  Beside(t, cand[u])'
    <3>1. t = NextId /\ span'[t].from = First(w).from /\ First(w) \in todo[w]
      BY <1>1, <2>3, SavedNumbers
    <3>2. First(w).from \in Unprocessed
      BY <2>3, <3>1 DEF Tidy, Holding, Held, Archiving, Save
    <3>3. span[cand[u][2]].to < First(w).from
      BY <2>1, <3>2 DEF Tidy, Older
    <3>. QED BY <1>4, <2>1, <3>1, <3>3, SpanStep DEF Beside
  <2>4. ASSUME NEW w \in Mergers, Insert(w), t \notin live
        PROVE  Moving(u)' /\ t = new'[u]
    <3>1. w = u
      BY <1>4, <2>4, Alone DEF Consolidating
    <3>2. live' = live \cup {NextId} /\ new'[u] = NextId /\ at'[u] = "messages1"
      BY <1>2, <2>4, <3>1 DEF Insert, Goto
    <3>. QED BY <1>1, <2>4, <3>2 DEF Moving
  <2>. QED BY <1>1, <2>2, <2>3, <2>4, RowsStep
<1>. QED BY <1>1, <1>2, <1>3, <1>4, CandStep

LEMMA TidyStep ==
  ASSUME IInv, Tidy, [Next]_vars, [~ AddTopicFails]_vars, [NoThirdTopic]_vars, TakeTurns
  PROVE  Tidy'
BY OlderStep, EmptyHandedStep, HoldingStep, StillThereStep, ClearStep DEF Tidy

(* A message in a range that a merge moves is the merge's already.          *)
LEMMA MoveIsOwn ==
  ASSUME IInv, Tidy, NEW w \in Mergers, MoveMessages(w), NEW m \in Msgs,
         topicOf'[m] # topicOf[m]
  PROVE  topicOf[m] \in {cand[w][1], cand[w][2]}
<1>1. PICK k \in 1 .. 2 : topicOf' = Repointed(span[cand[w][k]], new[w])
  BY DEF MoveMessages
<1>2. topicOf'[m] = new[w] /\ span[cand[w][k]].from <= m /\ m <= span[cand[w][k]].to
  BY <1>1 DEF Repointed
<1>3. Merging(w) /\ cand[w][k] \in live /\ cand[w][k] \in Used
  BY DEF MoveMessages, Merging, Tidy, StillThere, IInv, Known
<1>4. m \in Nat /\ \A t \in Used : span[t].from \in Nat /\ span[t].to \in Nat /\ span[t].from <= span[t].to
  BY MessageNumbers
<1>5. topicOf[m] # None
  <2>1. SUFFICES ASSUME topicOf[m] = None PROVE FALSE
    OBVIOUS
  <2>2. span[cand[w][k]].to <= sent /\ sent \in Nat
    BY <1>3, MessageNumbers DEF Tidy, Older
  <2>3. m \in 1 .. sent
    <3>1. m >= 1
      BY DEF Msgs
    <3>. QED BY <1>2, <1>3, <1>4, <2>2, <3>1
  <2>4. m \in Unprocessed
    BY <2>1, <2>3 DEF Unprocessed
  <2>. QED BY <1>2, <1>3, <1>4, <2>4 DEF Tidy, Older
<1> DEFINE t == topicOf[m]
<1>6. t \in live /\ t \in Used /\ span[t].from <= m /\ m <= span[t].to
  BY <1>5 DEF IInv, Placed, Known
<1>7. t # new[w]
  BY <1>2
<1>8. SUFFICES ASSUME t # cand[w][1], t # cand[w][2] PROVE FALSE
  OBVIOUS
<1>9. Beside(t, cand[w])
  BY <1>3, <1>6, <1>7, <1>8 DEF Tidy, Clear
<1>10. /\ cand[w][1] \in Used /\ cand[w][2] \in Used
       /\ span[cand[w][1]].to < span[cand[w][2]].from
  BY <1>3, PairNumbers
<1>11. span[cand[w][1]].from <= m /\ m <= span[cand[w][2]].to
  <2>1. k = 1 \/ k = 2
    OBVIOUS
  <2>2. CASE k = 1
    BY <1>2, <1>4, <1>10, <2>2
  <2>3. CASE k = 2
    BY <1>2, <1>4, <1>10, <2>3
  <2>. QED BY <2>1, <2>2, <2>3
<1>. HIDE DEF t
<1>. QED BY <1>4, <1>6, <1>9, <1>10, <1>11 DEF Beside

(* consolidation.go:345, "only messages that belonged to T1 and T2": true   *)
(* when no row is left half saved, archivers and mergers take turns, and    *)
(* nothing is merged across a third topic.                                 *)
THEOREM MergesMoveTheirOwn ==
  Spec /\ []TakeTurns /\ [][~ AddTopicFails /\ NoThirdTopic]_vars => MergeMovesOnlyItsOwn
<1> DEFINE Own == \A w \in Mergers : \A m \in Msgs :
                    /\ at[w] \in {"messages1", "messages2"} /\ at'[w] # at[w]
                    /\ topicOf'[m] # topicOf[m]
                    => topicOf[m] \in {cand[w][1], cand[w][2]}
<1>1. Init => IInv /\ Tidy
  BY InvInit, InitTidy
<1>2. ASSUME IInv, Tidy, TakeTurns, [Next]_vars, [~ AddTopicFails /\ NoThirdTopic]_vars
      PROVE  IInv' /\ Tidy'
  <2>1. [~ AddTopicFails]_vars /\ [NoThirdTopic]_vars
    BY <1>2
  <2>. QED BY <1>2, <2>1, InvStep, TidyStep
<1>3. ASSUME IInv, Tidy, [Next]_vars PROVE [Own]_vars
  <2>1. SUFFICES ASSUME NEW w \in Mergers, NEW m \in Msgs,
                        at[w] \in {"messages1", "messages2"}, at'[w] # at[w],
                        topicOf'[m] # topicOf[m]
                 PROVE  topicOf[m] \in {cand[w][1], cand[w][2]}
    OBVIOUS
  <2>2. TypeOK
    BY <1>3 DEF IInv
  <2>3. ASSUME NEW u \in Archivers PROVE ~ Save(u)
    BY <2>1 DEF Save
  <2>4. PICK u \in Mergers : MoveMessages(u)
    BY <1>3, <2>1, <2>3, TopicOfStep
  <2>5. u = w
    BY <2>1, <2>2, <2>4, WorkerNames DEF MoveMessages, Goto, TypeOK
  <2>. QED BY <1>3, <2>1, <2>4, <2>5, MoveIsOwn
<1>. HIDE DEF Own
<1>4. MergeMovesOnlyItsOwn <=> [][Own]_vars
  BY DEF MergeMovesOnlyItsOwn, Own
<1>. QED BY <1>1, <1>2, <1>3, <1>4, PTL DEF Spec

(* topics.start_msg_id, end_msg_id: whatever archives, merges, fails or      *)
(* stops, a message lies between the first and the last message of its      *)
(* topic.                                                                  *)
THEOREM MessagesLieInTheirTopic == Spec => []Placed
<1>1. IInv => Placed
  BY DEF IInv
<1>. QED BY <1>1, Invariance, PTL
==============================================================================
