---------------------------- MODULE TopicPipeline ----------------------------
(***************************************************************************)
(* How the messages of one user become topics and facts (internal/rag:     *)
(* background.go, processing.go, consolidation.go, session.go; the tables   *)
(* of internal/storage/topic.go and message.go).                           *)
(*                                                                         *)
(* Three background loops and a forced run work on the same rows.  The      *)
(* archiving loop cuts unprocessed messages into topics, the consolidation  *)
(* loop merges neighbouring topics, the facts loop extracts facts from      *)
(* topics that will not be merged any more; a forced run does all three in  *)
(* turn.  Only the extraction of facts takes a lock.  A worker reads rows,  *)
(* asks a language model and writes what follows from what it read: other   *)
(* workers, a failure or the end of the process come in between.           *)
(*                                                                         *)
(* Time is left out: a chunk may be closed, a tick come and a cooldown of   *)
(* retry_breaker.go be over at any moment.                                  *)
(***************************************************************************)
EXTENDS TopicRanges

CONSTANTS
  MaxMessages,  (* Messages the user stores (bound).                       *)
  MaxTopics,    (* Rows the topic table can hold (bound).                  *)
  MaxAnswer,    (* Ranges in an answer of the splitter (bound).            *)
  MaxForced,    (* Forced runs in a behaviour (bound).                     *)
  MaxFaults,    (* Failed calls and stops of the process in a behaviour     *)
                (* (bound).                                                *)
  Gap,          (* DefaultMergeGapThreshold                                *)
  Hidden        (* Messages stored with do_not_store.                      *)

Msgs == 1 .. MaxMessages
Ids  == 1 .. MaxTopics
None == 0                   (* No topic: topic_id is NULL.                 *)

ASSUME BoundsAssumption ==
  /\ MaxMessages \in Nat /\ MaxTopics \in Nat
  /\ MaxAnswer \in Nat /\ MaxForced \in Nat /\ MaxFaults \in Nat
ASSUME DataAssumption == Gap \in Nat /\ Hidden \subseteq Msgs

(* backgroundLoop, runConsolidationLoop, factExtractionLoop and             *)
(* ForceProcessUserWithProgress.                                           *)
Archivers == {"loop", "forced"}
Mergers   == {"merger", "forced"}
Tellers   == {"facts", "forced"}
Workers   == Archivers \cup Mergers \cup Tellers

Phases == {"idle", "split", "save", "find", "verify", "insert",
           "messages1", "messages2", "facts1", "facts2", "drop1", "drop2",
           "lock", "read", "tell", "mark"}

VARIABLES   (* The tables.                                                 *)
  sent,        (* messages stored so far: 1 .. sent                        *)
  topicOf,     (* history.topic_id                                         *)
  live,        (* ids of the rows of topics                                *)
  span,        (* start_msg_id, end_msg_id and created_at, by topic        *)
  merged,      (* is_consolidated                                          *)
  checked,     (* consolidation_checked                                    *)
  extracted,   (* facts_extracted                                          *)
  facts        (* messages whose facts hang on a topic (structured_facts)  *)

VARIABLES   (* The workers.                                                *)
  at,          (* what a worker does next                                  *)
  rest,        (* messages an archiver read and did not archive yet        *)
  chunk,       (* the chunk it works on                                    *)
  todo,        (* ranges of the chunk it has still to save                 *)
  own,         (* topics it saved from the chunk, and, forced, merged      *)
  pairs,       (* merge candidates a merger read                           *)
  seen,        (* topics that were extracted when it read them             *)
  cand,        (* the pair it merges                                       *)
  new,         (* the topic it merges into                                 *)
  list,        (* topics whose facts a teller will extract                 *)
  text,        (* messages it read for the first of them                   *)
  userLock     (* holder of processingUsers[user], or "free"               *)

VARIABLES
  told,        (* topics whose facts were stored and whose mark is due or  *)
               (* set: kept to state NeverToldTwice                        *)
  forcedRuns,  (* forced runs and faults so far                            *)
  faults

tables   == <<sent, topicOf, live, span, merged, checked, extracted, facts>>
archVars == <<rest, chunk, todo>>
mergVars == <<pairs, seen, cand, new>>
tellVars == <<list, text, userLock>>
events == <<forcedRuns, faults>>
vars == <<tables, at, archVars, own, mergVars, tellVars, told, events>>

-----------------------------------------------------------------------------
(* Reading the tables.                                                     *)

Unprocessed == {m \in 1 .. sent : topicOf[m] = None}       (* GetUnprocessedMessages *)
MessagesOf(t) == {m \in 1 .. sent : topicOf[m] = t} \ Hidden (* GetMessagesByTopicID *)
Pending == live \ extracted                                (* GetTopicsPendingFacts *)

(* The order of GetTopicsPendingFacts: created_at, then id.                 *)
Before(t, u) ==
  span[t].stamp < span[u].stamp \/ (span[t].stamp = span[u].stamp /\ t < u)

(* u starts close enough after the end of t.                               *)
Close(t, u) == 0 < span[u].from - span[t].to /\ span[u].from - span[t].to < Gap

(* GetMergeCandidates                                                      *)
Candidates ==
  {p \in (live \ checked) \X (live \ checked) : p[1] < p[2] /\ Close(p[1], p[2])}

(* Mutant: ids from zero, which is no id. *)
NextIdFromZero == Cardinality({t \in Ids : span[t].from # None})

NextId == Cardinality({t \in Ids : span[t].from # None}) + 1

(* UPDATE history SET topic_id = t over a range of ids                      *)
Repointed(r, t) == [m \in Msgs |-> IF r.from <= m /\ m <= r.to THEN t ELSE topicOf[m]]

(* A behaviour has a few forced runs, failures and stops.                   *)
Forced == forcedRuns < MaxForced /\ forcedRuns' = forcedRuns + 1 /\ UNCHANGED faults
Fault  == faults < MaxFaults /\ faults' = faults + 1 /\ UNCHANGED forcedRuns

Goto(w, phase) == at' = [at EXCEPT ![w] = phase]

-----------------------------------------------------------------------------
(* Archiving: processTopicChunking and the first part of a forced run.      *)

(* A message is stored.                                                    *)
Store ==
  /\ sent < MaxMessages
  /\ sent' = sent + 1
  /\ UNCHANGED <<topicOf, live, span, merged, checked, extracted, facts, at,
                 archVars, own, mergVars, tellVars, told, events>>

(* The loop takes the messages of the sessions that are over, a forced run  *)
(* everything.                                                             *)
Fetch(w) ==
  /\ at[w] = "idle"
  /\ Unprocessed # {}
  /\ \/ /\ w = "loop"
        /\ \E last \in Unprocessed : rest' = [rest EXCEPT ![w] = {m \in Unprocessed : m <= last}]
        /\ UNCHANGED events
     \/ /\ w = "forced" /\ Forced
        /\ rest' = [rest EXCEPT ![w] = Unprocessed]
  /\ Goto(w, "split")
  /\ UNCHANGED <<tables, chunk, todo, own, mergVars, tellVars, told>>

(* The chunk is the messages up to a gap in time or to the size limit; a    *)
(* forced run makes one chunk of everything.                               *)
Chunks(w) ==
  IF w = "forced" THEN {rest[w]}
  ELSE {{m \in rest[w] : m <= last} : last \in rest[w]}

Answers(c) == {A \in SUBSET Ranges(c) : Cardinality(A) <= MaxAnswer}

(* processChunkCore up to the embeddings: the splitter's answer becomes     *)
(* ranges to save.                                                         *)
Split(w) ==
  /\ at[w] = "split"
  /\ \E c \in Chunks(w) : \E answer \in Answers(c) :
       /\ Usable(c, Disjoint(c, answer))
       /\ chunk' = [chunk EXCEPT ![w] = c]
       /\ todo' = [todo EXCEPT ![w] = Topics(c, answer)]
       /\ rest' = [rest EXCEPT ![w] = @ \ c]
  /\ own' = [own EXCEPT ![w] = {}]
  /\ Goto(w, "save")
  /\ UNCHANGED <<tables, mergVars, tellVars, told, events>>

(* The splitter or the embeddings fail, or too little is covered: the       *)
(* loop's run for this user stops, a forced run returns the error.         *)
SplitFails(w) ==
  /\ at[w] = "split"
  /\ Fault
  /\ rest' = [rest EXCEPT ![w] = {}]
  /\ Goto(w, "idle")
  /\ UNCHANGED <<tables, chunk, todo, own, mergVars, tellVars, told>>

(* The next range in the order they are saved.                              *)
First(w) == CHOOSE r \in todo[w] : \A s \in todo[w] : r.from <= s.from

(* created_at of a topic is that of the chunk's last message.               *)
NewSpan(r, stamp) == [from |-> r.from, to |-> r.to, stamp |-> stamp]

(* AddTopic: a row, and the messages of its range are its.                  *)
Save(w) ==
  /\ at[w] = "save" /\ todo[w] # {} /\ NextId <= MaxTopics
  /\ LET r == First(w) t == NextId IN
       /\ live' = live \cup {t}
       /\ span' = [span EXCEPT ![t] = NewSpan(r, Highest(chunk[w]))]
       /\ topicOf' = Repointed(r, t)
       /\ own' = [own EXCEPT ![w] = @ \cup {t}]
       /\ todo' = [todo EXCEPT ![w] = @ \ {r}]
  /\ UNCHANGED <<sent, merged, checked, extracted, facts, at, rest, chunk, mergVars,
                 tellVars, told, events>>

(* AddTopic fails, before or after the row is there: the messages stay      *)
(* where they were and the next range is saved.                            *)
SaveFails(w) ==
  /\ at[w] = "save" /\ todo[w] # {} /\ NextId <= MaxTopics
  /\ Fault
  /\ \/ UNCHANGED <<live, span>>
     \/ /\ live' = live \cup {NextId}
        /\ span' = [span EXCEPT ![NextId] = NewSpan(First(w), Highest(chunk[w]))]
  /\ todo' = [todo EXCEPT ![w] = @ \ {First(w)}]
  /\ UNCHANGED <<sent, topicOf, merged, checked, extracted, facts, at, rest, chunk,
                 own, mergVars, tellVars, told>>

(* The chunk is done.  The loop goes on with the next one, a forced run     *)
(* with consolidation.                                                     *)
EndChunk(w) ==
  /\ at[w] = "save" /\ todo[w] = {}
  /\ chunk' = [chunk EXCEPT ![w] = {}]
  /\ \/ w = "forced" /\ Goto(w, "find") /\ UNCHANGED own
     \/ /\ w = "loop" /\ own' = [own EXCEPT ![w] = {}]
        /\ Goto(w, IF rest[w] = {} THEN "idle" ELSE "split")
  /\ UNCHANGED <<tables, rest, todo, mergVars, tellVars, told, events>>

-----------------------------------------------------------------------------
(* Merging: processConsolidationForUser and runConsolidationSync.           *)

(* A forced run looks only at candidates with a topic of its chunk.         *)
Relevant(w, p) == w = "merger" \/ p[1] \in own[w] \ merged \/ p[2] \in own[w] \ merged

(* findMergeCandidates: pairs that would be too large are checked, both of  *)
(* them; so is the first of a pair that is not alike; the rest is verified. *)
Find(w) ==
  /\ at[w] = IF w = "merger" THEN "idle" ELSE "find"
  /\ \E large \in SUBSET Candidates : \E alike \in SUBSET (Candidates \ large) :
       /\ checked' = checked \cup {p[1] : p \in Candidates \ alike} \cup {p[2] : p \in large}
       /\ pairs' = [pairs EXCEPT ![w] = {p \in alike : Relevant(w, p)}]
  /\ seen' = [seen EXCEPT ![w] = extracted \cap UNION {{p[1], p[2]} : p \in pairs'[w]}]
  /\ Goto(w, "verify")
  /\ UNCHANGED <<sent, topicOf, live, span, merged, extracted, facts, archVars, own,
                 cand, new, tellVars, told, events>>

(* The merger agent says no: the first topic is checked.                    *)
Refuse(w) ==
  /\ at[w] = "verify"
  /\ \E p \in pairs[w] :
       /\ checked' = checked \cup ({p[1]} \cap live)
       /\ pairs' = [pairs EXCEPT ![w] = @ \ {p}]
  /\ UNCHANGED <<sent, topicOf, live, span, merged, extracted, facts, at, archVars,
                 own, seen, cand, new, tellVars, told, events>>

(* The merger agent fails, or the embedding of the merged topic does.       *)
MergeFails(w) ==
  /\ at[w] = "verify"
  /\ Fault
  /\ \E p \in pairs[w] : pairs' = [pairs EXCEPT ![w] = @ \ {p}]
  /\ UNCHANGED <<tables, at, archVars, own, seen, cand, new, tellVars, told>>

(* A model call takes longer than the statements of another worker's merge  *)
(* (an assumption about time): a merged topic found as a candidate is whole *)
(* when the agent has answered.                                            *)
Whole(w, p) ==
  \A u \in Mergers \ {w} :
    at[u] \in {"messages1", "messages2", "facts1", "facts2", "drop1", "drop2"}
      => new[u] # p[1] /\ new[u] # p[2]

(* The merger agent says yes, and mergeTopics reads the messages of both.   *)
(* Without any, it fails.                                                  *)
Agree(w) ==
  /\ at[w] = "verify"
  /\ \E p \in pairs[w] :
       /\ Whole(w, p)
       /\ \/ /\ MessagesOf(p[1]) \cup MessagesOf(p[2]) = {}
             /\ pairs' = [pairs EXCEPT ![w] = @ \ {p}]
             /\ UNCHANGED <<at, cand, seen>>
          \/ /\ MessagesOf(p[1]) \cup MessagesOf(p[2]) # {}
             /\ pairs' = [pairs EXCEPT ![w] = {}]
             /\ cand' = [cand EXCEPT ![w] = p]
             /\ seen' = [seen EXCEPT ![w] = @ \cap {p[1], p[2]}]
             /\ Goto(w, "insert")
  /\ UNCHANGED <<tables, archVars, own, new, tellVars, told, events>>

(* The merged topic: extracted when both were when they were read, still    *)
(* open to further merges, dated as the second.                            *)
Insert(w) ==
  /\ at[w] = "insert" /\ NextId <= MaxTopics
  /\ LET t == NextId p == cand[w] IN
       /\ live' = live \cup {t}
       /\ span' = [span EXCEPT ![t] =
            NewSpan([from |-> span[p[1]].from, to |-> span[p[2]].to], span[p[2]].stamp)]
       /\ merged' = merged \cup {t}
       /\ extracted' = IF p[1] \in seen[w] /\ p[2] \in seen[w]
                       THEN extracted \cup {t} ELSE extracted
       /\ new' = [new EXCEPT ![w] = t]
  /\ Goto(w, "messages1")
  /\ UNCHANGED <<sent, topicOf, checked, facts, archVars, own, pairs, seen, cand,
                 tellVars, told, events>>

(* Mutant: only the messages of the first topic are moved. *)
MoveFirstMessages(w) ==
  /\ at[w] \in {"messages1", "messages2"}
  /\ topicOf' = Repointed(span[cand[w][1]], new[w])
  /\ Goto(w, IF at[w] = "messages1" THEN "messages2" ELSE "facts1")
  /\ UNCHANGED <<sent, live, span, merged, checked, extracted, facts, archVars, own,
                 mergVars, tellVars, told, events>>

(* UpdateMessagesTopicInRange for the one and for the other.                *)
MoveMessages(w) ==
  /\ at[w] \in {"messages1", "messages2"}
  /\ LET k == IF at[w] = "messages1" THEN 1 ELSE 2 IN
       /\ topicOf' = Repointed(span[cand[w][k]], new[w])
       /\ Goto(w, IF k = 1 THEN "messages2" ELSE "facts1")
  /\ UNCHANGED <<sent, live, span, merged, checked, extracted, facts, archVars, own,
                 mergVars, tellVars, told, events>>

(* Mutant: only the second topic's facts are moved. *)
MoveSecondFacts(w) ==
  /\ at[w] \in {"facts1", "facts2"}
  /\ LET t == cand[w][2] IN
       /\ facts' = [facts EXCEPT ![new[w]] = @ \cup facts[t], ![t] = {}]
       /\ Goto(w, IF at[w] = "facts1" THEN "facts2" ELSE "drop1")
  /\ UNCHANGED <<sent, topicOf, live, span, merged, checked, extracted, archVars, own,
                 mergVars, tellVars, told, events>>

(* UpdateFactsTopic for the one and for the other.                          *)
MoveFacts(w) ==
  /\ at[w] \in {"facts1", "facts2"}
  /\ LET k == IF at[w] = "facts1" THEN 1 ELSE 2
         t == cand[w][k] IN
       /\ facts' = [facts EXCEPT ![new[w]] = @ \cup facts[t], ![t] = {}]
       /\ Goto(w, IF k = 1 THEN "facts2" ELSE "drop1")
  /\ UNCHANGED <<sent, topicOf, live, span, merged, checked, extracted, archVars, own,
                 mergVars, tellVars, told, events>>

(* DeleteTopicCascade: the row and the facts that hang on it.  After a      *)
(* merge the loop drops its other candidates, a forced run reads new ones.  *)
Drop(w) ==
  /\ at[w] \in {"drop1", "drop2"}
  /\ LET k == IF at[w] = "drop1" THEN 1 ELSE 2
         t == cand[w][k] IN
       /\ live' = live \ {t}
       /\ facts' = [facts EXCEPT ![t] = {}]
       /\ IF k = 1
          THEN Goto(w, "drop2") /\ UNCHANGED <<own, cand, new>>
          ELSE /\ Goto(w, IF w = "merger" THEN "verify" ELSE "find")
               /\ own' = [own EXCEPT ![w] = IF w = "forced" THEN @ \cup {new[w]} ELSE @]
               /\ cand' = [cand EXCEPT ![w] = <<None, None>>]
               /\ new' = [new EXCEPT ![w] = None]
  /\ UNCHANGED <<sent, topicOf, span, merged, checked, extracted, archVars, pairs,
                 seen, tellVars, told, events>>

(* Mutant: a partner that is already checked counts. *)
HasAnyPartner(t) == \E u \in Pending : t < u /\ Close(t, u)

(* A later pending topic that t may still be merged with.                   *)
HasPartner(t) == \E u \in Pending \ checked : t < u /\ Close(t, u)

(* markOrphanTopicsChecked                                                 *)
Orphans == {t \in Pending : ~ HasPartner(t)}

(* No candidate is left.  The loop checks the topics that have no partner,  *)
(* a forced run those of its chunk.                                        *)
EndMerging(w) ==
  /\ at[w] = "verify" /\ pairs[w] = {}
  /\ \/ w = "merger" /\ Goto(w, "idle") /\ checked' = checked \cup Orphans
     \/ /\ w = "forced" /\ Goto(w, "lock")
        /\ checked' = checked \cup ((own[w] \ merged) \cap live)
  /\ seen' = [seen EXCEPT ![w] = {}]
  /\ UNCHANGED <<sent, topicOf, live, span, merged, extracted, facts, archVars, own,
                 pairs, cand, new, tellVars, told, events>>

-----------------------------------------------------------------------------
(* Facts: processFactExtraction and the last part of a forced run.          *)

(* The loop takes pending topics in order up to one that may still be       *)
(* merged; a forced run takes its own and all merged ones.                  *)
Settled(t) == t \in checked \cup merged
Due(w) ==
  IF w = "facts"
  THEN {t \in Pending : Settled(t) /\ \A u \in Pending : Before(u, t) => Settled(u)}
  ELSE {t \in Pending : t \in own[w] \cap checked \/ t \in merged}

(* Mutant: the lock is not looked at. *)
LockAnyway(w) ==
  /\ at[w] = IF w = "facts" THEN "idle" ELSE "lock"
  /\ (w = "facts" => Due(w) # {})
  /\ userLock' = w
  /\ list' = [list EXCEPT ![w] = Due(w)]
  /\ Goto(w, "read")
  /\ UNCHANGED <<tables, archVars, own, mergVars, text, told, events>>

(* tryStartProcessingUser and the list of topics.  A tick that finds        *)
(* nothing due returns the lock at once.                                   *)
Lock(w) ==
  /\ at[w] = IF w = "facts" THEN "idle" ELSE "lock"
  /\ userLock = "free" /\ (w = "facts" => Due(w) # {})
  /\ userLock' = w
  /\ list' = [list EXCEPT ![w] = Due(w)]
  /\ Goto(w, "read")
  /\ UNCHANGED <<tables, archVars, own, mergVars, text, told, events>>

(* A forced run waits a minute for the lock.                                *)
GiveUp ==
  /\ at["forced"] = "lock" /\ userLock # "free"
  /\ own' = [own EXCEPT !["forced"] = {}]
  /\ Goto("forced", "idle")
  /\ UNCHANGED <<tables, archVars, mergVars, tellVars, told, events>>

Head(w) == CHOOSE t \in list[w] : \A u \in list[w] \ {t} : Before(t, u)

(* Mutant: the topic is marked before its facts are stored. *)
ReadAndMark(w) ==
  /\ at[w] = "read" /\ list[w] # {}
  /\ LET t == Head(w) msgs == MessagesOf(t) IN
       /\ extracted' = extracted \cup ({t} \cap live)
       /\ \/ /\ msgs = {}
             /\ list' = [list EXCEPT ![w] = @ \ {t}]
             /\ UNCHANGED <<at, text>>
          \/ /\ msgs # {}
             /\ text' = [text EXCEPT ![w] = msgs]
             /\ Goto(w, "tell")
             /\ UNCHANGED list
  /\ UNCHANGED <<sent, topicOf, live, span, merged, checked, facts, archVars, own,
                 mergVars, userLock, told, events>>

(* The messages of the next topic; one without messages has no facts.       *)
Read(w) ==
  /\ at[w] = "read" /\ list[w] # {}
  /\ LET t == Head(w) msgs == MessagesOf(t) IN
       \/ /\ msgs = {}
          /\ extracted' = extracted \cup ({t} \cap live)
          /\ list' = [list EXCEPT ![w] = @ \ {t}]
          /\ UNCHANGED <<at, text>>
       \/ /\ msgs # {}
          /\ text' = [text EXCEPT ![w] = msgs]
          /\ Goto(w, "tell")
          /\ UNCHANGED <<extracted, list>>
  /\ UNCHANGED <<sent, topicOf, live, span, merged, checked, facts, archVars, own,
                 mergVars, userLock, told, events>>

(* The archivist fails, having stored nothing or some facts, or the topic   *)
(* is in cooldown after a failure: it stays pending.                        *)
TellFails(w) ==
  /\ at[w] = "tell"
  /\ Fault
  /\ \/ UNCHANGED facts
     \/ facts' = [facts EXCEPT ![Head(w)] = @ \cup text[w]]
  /\ list' = [list EXCEPT ![w] = @ \ {Head(w)}]
  /\ text' = [text EXCEPT ![w] = {}]
  /\ Goto(w, "read")
  /\ UNCHANGED <<sent, topicOf, live, span, merged, checked, extracted, archVars, own,
                 mergVars, userLock, told>>

(* ProcessSession: the facts of the messages are stored under the topic.    *)
Tell(w) ==
  /\ at[w] = "tell"
  /\ facts' = [facts EXCEPT ![Head(w)] = @ \cup text[w]]
  /\ told' = told \cup {Head(w)}
  /\ text' = [text EXCEPT ![w] = {}]
  /\ Goto(w, "mark")
  /\ UNCHANGED <<sent, topicOf, live, span, merged, checked, extracted, archVars, own,
                 mergVars, list, userLock, events>>

(* SetTopicFactsExtracted.  Its failure is only logged.                     *)
Mark(w) ==
  /\ at[w] = "mark"
  /\ \/ /\ extracted' = extracted \cup ({Head(w)} \cap live)
        /\ UNCHANGED <<told, events>>
     \/ /\ Fault
        /\ told' = told \ {Head(w)}
        /\ UNCHANGED extracted
  /\ list' = [list EXCEPT ![w] = @ \ {Head(w)}]
  /\ Goto(w, "read")
  /\ UNCHANGED <<sent, topicOf, live, span, merged, checked, facts, archVars, own,
                 mergVars, text, userLock>>

(* finishProcessingUser                                                    *)
Unlock(w) ==
  /\ at[w] = "read" /\ list[w] = {}
  /\ userLock' = "free"
  /\ own' = [own EXCEPT ![w] = {}]
  /\ Goto(w, "idle")
  /\ UNCHANGED <<tables, archVars, mergVars, list, text, told, events>>

-----------------------------------------------------------------------------
Reset ==
  /\ at' = [w \in Workers |-> "idle"]
  /\ rest' = [w \in Workers |-> {}] /\ chunk' = [w \in Workers |-> {}]
  /\ todo' = [w \in Workers |-> {}] /\ own' = [w \in Workers |-> {}]
  /\ pairs' = [w \in Workers |-> {}] /\ seen' = [w \in Workers |-> {}]
  /\ cand' = [w \in Workers |-> <<None, None>>] /\ new' = [w \in Workers |-> None]
  /\ list' = [w \in Workers |-> {}] /\ text' = [w \in Workers |-> {}]
  /\ userLock' = "free"

(* The process stops between two statements and starts again: the tables    *)
(* stay, the workers and the lock are gone.  It may stop inside AddTopic,   *)
(* between the row and its messages.                                       *)
Crash ==
  /\ Fault
  /\ \/ UNCHANGED <<live, span>>
     \/ \E w \in Archivers :
          /\ at[w] = "save" /\ todo[w] # {} /\ NextId <= MaxTopics
          /\ live' = live \cup {NextId}
          /\ span' = [span EXCEPT ![NextId] = NewSpan(First(w), Highest(chunk[w]))]
  /\ told' = told \cap extracted
  /\ Reset
  /\ UNCHANGED <<sent, topicOf, merged, checked, extracted, facts>>

Init ==
  /\ sent = 0 /\ topicOf = [m \in Msgs |-> None]
  /\ live = {} /\ span = [t \in Ids |-> [from |-> None, to |-> None, stamp |-> None]]
  /\ merged = {} /\ checked = {} /\ extracted = {} /\ facts = [t \in Ids |-> {}]
  /\ at = [w \in Workers |-> "idle"]
  /\ rest = [w \in Workers |-> {}] /\ chunk = [w \in Workers |-> {}]
  /\ todo = [w \in Workers |-> {}] /\ own = [w \in Workers |-> {}]
  /\ pairs = [w \in Workers |-> {}] /\ seen = [w \in Workers |-> {}]
  /\ cand = [w \in Workers |-> <<None, None>>] /\ new = [w \in Workers |-> None]
  /\ list = [w \in Workers |-> {}] /\ text = [w \in Workers |-> {}]
  /\ userLock = "free" /\ told = {}
  /\ forcedRuns = 0 /\ faults = 0

Next ==
  \/ Store \/ GiveUp \/ Crash
  \/ \E w \in Archivers :
       \/ Fetch(w) \/ Split(w) \/ SplitFails(w)
       \/ Save(w) \/ SaveFails(w) \/ EndChunk(w)
  \/ \E w \in Mergers :
       \/ Find(w) \/ Refuse(w) \/ Agree(w) \/ MergeFails(w) \/ EndMerging(w)
       \/ Insert(w) \/ MoveMessages(w) \/ MoveFacts(w) \/ Drop(w)
  \/ \E w \in Tellers :
       \/ Lock(w) \/ Read(w) \/ Tell(w) \/ TellFails(w) \/ Mark(w) \/ Unlock(w)

Spec == Init /\ [][Next]_vars

Archive(w) == Split(w) \/ Save(w) \/ EndChunk(w)
Merge(w) == \/ Find(w) \/ Refuse(w) \/ Agree(w) \/ EndMerging(w)
            \/ Insert(w) \/ MoveMessages(w) \/ MoveFacts(w) \/ Drop(w)
Extract(w) == Lock(w) \/ Read(w) \/ Tell(w) \/ Mark(w) \/ Unlock(w)

(* Every goroutine that can go on does, the tickers come and the model      *)
(* answers in the end.  Nobody has to force a run.                          *)
FairSpec ==
  /\ Spec
  /\ WF_vars(Fetch("loop") \/ Archive("loop"))
  /\ WF_vars(Merge("merger"))
  /\ WF_vars(Extract("facts"))
  /\ WF_vars(Archive("forced") \/ Merge("forced") \/ Extract("forced") \/ GiveUp)

-----------------------------------------------------------------------------
(* A topic has the columns the schema gives it, a worker works on stored    *)
(* messages and on topics, and a topic always has an id.                   *)
Spans == [from : Msgs \cup {None}, to : Msgs \cup {None}, stamp : Msgs \cup {None}]

TablesOK ==
  /\ sent \in 0 .. MaxMessages
  /\ topicOf \in [Msgs -> Ids \cup {None}]
  /\ live \in SUBSET Ids /\ merged \in SUBSET Ids
  /\ checked \in SUBSET Ids /\ extracted \in SUBSET Ids
  /\ span \in [Ids -> Spans]
  /\ facts \in [Ids -> SUBSET Msgs]

ArchiversOK ==
  /\ rest \in [Workers -> SUBSET Msgs] /\ chunk \in [Workers -> SUBSET Msgs]
  /\ todo \in [Workers -> SUBSET Ranges(Msgs)] /\ own \in [Workers -> SUBSET Ids]

MergersOK ==
  /\ pairs \in [Workers -> SUBSET (Ids \X Ids)] /\ seen \in [Workers -> SUBSET Ids]
  /\ cand \in [Workers -> (Ids \cup {None}) \X (Ids \cup {None})]
  /\ new \in [Workers -> Ids \cup {None}]

TellersOK ==
  /\ list \in [Workers -> SUBSET Ids] /\ text \in [Workers -> SUBSET Msgs]
  /\ userLock \in Tellers \cup {"free"} /\ told \in SUBSET Ids

TypeOK ==
  /\ TablesOK /\ ArchiversOK /\ MergersOK /\ TellersOK
  /\ at \in [Workers -> Phases]
  /\ forcedRuns \in 0 .. MaxForced /\ faults \in 0 .. MaxFaults

(* resolveOverlaps, resolveStragglers: whatever ranges the splitter answers *)
(* with, a chunk that is not refused becomes topics that share no message,  *)
(* leave none out and are not empty.  This is about data, not about a state *)
(* of the pipeline: it is evaluated in the initial states only.             *)
SplitIsPartition ==
  sent = 0 => \A c \in (SUBSET (0 .. 3)) \ {{}} : \A a, b, d \in Ranges(-1 .. 4) :
      LET answer == {a, b, d} IN
      Usable(c, Disjoint(c, answer)) => Partition(c, Topics(c, answer))

(* processing.go:140: a message that belongs to no topic is lost to the     *)
(* long-term memory.  A message that has a topic has one that exists, also  *)
(* while topics are merged and deleted, by two workers at once, and when    *)
(* the process stops in between.                                           *)
NoMessageDangles == \A m \in Msgs : topicOf[m] \in live \cup {None}

(* tryStartProcessingUser: the facts of a topic are not extracted twice,    *)
(* neither by the loop and a forced run at once nor from a list one of them *)
(* read before the other was done, unless the mark that says so was not     *)
(* written.                                                                *)
NeverToldTwice ==
  [][\A w \in Tellers :
       at[w] = "tell" /\ at'[w] = "mark" => Head(w) \notin told]_vars

(* mergeTopics deletes a topic with the facts that still hang on it: those  *)
(* of a topic it took for extracted have been moved by then, and nobody     *)
(* has stored new ones.                                                    *)
MovedBeforeDeleted ==
  \A w \in Mergers : \A k \in 1 .. 2 :
    /\ at[w] = "drop1" \/ (at[w] = "drop2" /\ k = 2)
    /\ cand[w][k] \in seen[w]
    => facts[cand[w][k]] = {}

(* The topic table of the instance is full, and stays so.                   *)
Full == NextId > MaxTopics

(* background.go:222: no topic blocks the queue of its user for ever.       *)
(* Again and again no topic waits for its facts: each has been checked for  *)
(* a partner, and told, or is merged away.                                  *)
QueueDrains == []<>(Full \/ Pending = {})

(* As long as no topic is merged, the facts of every message are stored in  *)
(* the end, also when a forced run, a failure or a stop interferes.         *)
EveryMessageRemembered ==
  []<>(Full \/ merged # {} \/ 1 .. sent \ Hidden \subseteq UNION {facts[t] : t \in Ids})

(* consolidation.go:345: the messages a merge moves belonged to its topics. *)
MergeMovesOnlyItsOwn ==
  [][\A w \in Mergers : \A m \in Msgs :
       /\ at[w] \in {"messages1", "messages2"} /\ at'[w] # at[w]
       /\ topicOf'[m] # topicOf[m]
       => topicOf[m] \in {cand[w][1], cand[w][2]}]_vars
=============================================================================
