------------------------------ MODULE VectorIndex ------------------------------
(***************************************************************************)
(* The in-memory vector index (internal/rag/vectorstore.go) and the loads   *)
(* that fill it from the tables (internal/rag/service.go).                  *)
(*                                                                         *)
(* Search only sees the index.  A full reload replaces its content by what  *)
(* a query returned; an incremental load samples the watermark, queries     *)
(* the rows above it and appends them, all of which other goroutines may    *)
(* come between.  A row at or below the watermark that is not in the index  *)
(* is never fetched again by an incremental load: nobody can find it until  *)
(* a full reload.                                                          *)
(*                                                                         *)
(* Topics, facts and people are loaded side by side by the same functions,  *)
(* each with a watermark of its own: a behaviour follows one of these       *)
(* tables (facts are handled as topics are), and the artifacts.  A database *)
(* call is one step, and so is a method of the store, which runs under its  *)
(* mutex.  Ids are AUTOINCREMENT, and with the one connection of SQLite     *)
(* (storage.go:455) rows appear in their order.                             *)
(***************************************************************************)
EXTENDS Integers, FiniteSets, FiniteSetsExt

CONSTANTS
  Loaders,       (* Goroutines that may be loading at one time.            *)
  Users,         (* Owners of artifacts (backgroundUserIDs).               *)
  MaxRows,       (* Rows ever stored in one table (bound).                 *)
  MaxArtifacts,  (* Artifacts ever stored (bound, at most MaxRows).        *)
  Page           (* Rows of the artifact query, 1000 in service.go:464.    *)

ASSUME BoundsAssumption ==
  MaxRows \in Nat /\ MaxArtifacts \in 0 .. MaxRows /\ Page \in Nat \ {0}

Kinds == {"topics", "people", "artifacts"}
Ids == 1 .. MaxRows

(* The next statement of a load: of ReloadVectors, of LoadNewVectors, and of *)
(* LoadNewArtifactSummaries, which both of them end with.                   *)
LoadStep ==
  {"idle",
   "fetch", "replace", "reset",
   "sample", "fetchNew", "append",
   "sampleSummaries", "query"}

Load == [at : LoadStep, since : 0 .. MaxRows, got : SUBSET Ids, left : SUBSET Users]

At(step) == [at |-> step, since |-> 0, got |-> {}, left |-> {}]
Idle == At("idle")

VARIABLES
  records,   (* the table this behaviour follows beside the artifacts      *)
  lastId,    (* highest id given out, per table                            *)
  stored,    (* rows of the table                                          *)
  embedded,  (* those that have an embedding; artifacts: state "ready"     *)
  owner,     (* user of each artifact                                      *)
  entries,   (* memoryVectorStore.entries: how often each id is listed     *)
  maxIDs,    (* memoryVectorStore.maxIDs: the watermarks                   *)
  loads,     (* the load each goroutine is in                              *)
  up         (* Start has got past its own reload                          *)

tables == <<lastId, stored, embedded, owner>>
index == <<entries, maxIDs>>
vars == <<records, tables, index, loads, up>>

Followed == {records, "artifacts"}

NoEntries == [i \in Ids |-> 0]

Init ==
  /\ records \in {"topics", "people"}
  /\ lastId = [k \in Kinds |-> 0]
  /\ stored = [k \in Kinds |-> {}]
  /\ embedded = [k \in Kinds |-> {}]
  /\ owner \in [Ids -> Users]
  /\ entries = [k \in Kinds |-> NoEntries]
  /\ maxIDs = [k \in Kinds |-> 0]
  /\ \E l \in Loaders : loads = [m \in Loaders |-> IF m = l THEN At("fetch") ELSE Idle]
  /\ up = FALSE

-----------------------------------------------------------------------------
(* The tables.                                                             *)

NextId(k) == lastId[k] + 1

(* Topics and facts are stored with their embedding, artifacts get theirs   *)
(* from the extractor; a person may be stored with one or without (bot.go,  *)
(* process_group.go).                                                      *)
BornEmbedded(k) ==
  CASE k = "topics" -> {TRUE}
    [] k = "people" -> BOOLEAN
    [] k = "artifacts" -> {FALSE}

Insert(k) ==
  /\ up /\ lastId[k] < (IF k = "artifacts" THEN MaxArtifacts ELSE MaxRows)
  /\ lastId' = [lastId EXCEPT ![k] = NextId(k)]
  /\ stored' = [stored EXCEPT ![k] = @ \cup {NextId(k)}]
  /\ \E born \in BornEmbedded(k) :
       embedded' = [embedded EXCEPT ![k] = IF born THEN @ \cup {NextId(k)} ELSE @]
  /\ UNCHANGED <<records, owner, index, loads, up>>

(* An artifact becomes ready, a person gets an embedding with an update.    *)
Embed(k, id) ==
  /\ up /\ id \in stored[k] \ embedded[k]
  /\ embedded' = [embedded EXCEPT ![k] = @ \cup {id}]
  /\ UNCHANGED <<records, lastId, stored, owner, index, loads, up>>

(* Merging, splitting, repair and the tools delete records, and reload or   *)
(* not; artifacts stay.                                                    *)
Delete(id) ==
  /\ up /\ id \in stored[records]
  /\ stored' = [stored EXCEPT ![records] = @ \ {id}]
  /\ embedded' = [embedded EXCEPT ![records] = @ \ {id}]
  /\ UNCHANGED <<records, lastId, owner, index, loads, up>>

-----------------------------------------------------------------------------
(* The store.                                                              *)

(* Mutant: the watermark is not taken back.                                *)
WatermarkKept(k, ids) == Max(ids \cup {maxIDs[k]})

ReplacedWatermark(k, ids) == Max(ids \cup {0})

ReplaceAll(k, ids) ==
  /\ entries' = [entries EXCEPT ![k] = [i \in Ids |-> IF i \in ids THEN 1 ELSE 0]]
  /\ maxIDs' = [maxIDs EXCEPT ![k] = ReplacedWatermark(k, ids)]

(* Mutant: every batch is taken.                                           *)
AnyBatch(k, since) == TRUE

(* Mutant, once the code: only a watermark that advanced makes a batch stale. *)
NotOvertaken(k, since) == maxIDs[k] <= since

(* The watermark has not moved since the caller sampled it.                *)
Fresh(k, since) == maxIDs[k] = since

(* Stale batches are discarded.                                            *)
AppendSince(k, since, ids) ==
  IF Fresh(k, since)
  THEN /\ entries' = [entries EXCEPT ![k] =
            [i \in Ids |-> IF i \in ids THEN entries[k][i] + 1 ELSE entries[k][i]]]
       /\ maxIDs' = [maxIDs EXCEPT ![k] = Max(ids \cup {@})]
  ELSE UNCHANGED index

-----------------------------------------------------------------------------
(* The loads.                                                              *)

(* A load ends; with the first one, that of Start, the loops begin.         *)
Finish(l) ==
  /\ loads' = [loads EXCEPT ![l] = Idle]
  /\ up' = TRUE

Goto(l, next) ==
  /\ loads' = [loads EXCEPT ![l] = next]
  /\ UNCHANGED up

(* Loads are started by the loops, by forced runs and by repairs, each on   *)
(* a goroutine or a request of its own: at any time, several at once.       *)
Begin(l, step) ==
  /\ up /\ loads[l].at = "idle"
  /\ Goto(l, At(step))
  /\ UNCHANGED <<records, tables, index>>

ReloadVectors(l) == Begin(l, "fetch")
LoadNewVectors(l) == Begin(l, "sample")
LoadNewArtifactSummaries(l) == Begin(l, "sampleSummaries")

Fetch(l) ==
  /\ loads[l].at = "fetch"
  /\ Goto(l, [At("replace") EXCEPT !.got = embedded[records]])
  /\ UNCHANGED <<records, tables, index>>

(* A failing query ends the load, but people are done without.             *)
FetchFails(l) ==
  /\ loads[l].at \in {"fetch", "fetchNew"}
  /\ \/ Finish(l)
     \/ /\ records = "people"
        /\ Goto(l, [loads[l] EXCEPT
             !.at = IF @ = "fetch" THEN "replace" ELSE "append"])
  /\ UNCHANGED <<records, tables, index>>

Replace(l) ==
  /\ loads[l].at = "replace"
  /\ ReplaceAll(records, loads[l].got)
  /\ Goto(l, At("reset"))
  /\ UNCHANGED <<records, tables>>

ResetArtifacts(l) ==
  /\ loads[l].at = "reset"
  /\ ReplaceAll("artifacts", {})
  /\ Goto(l, At("sampleSummaries"))
  /\ UNCHANGED <<records, tables>>

Sample(l) ==
  /\ loads[l].at = "sample"
  /\ Goto(l, [At("fetchNew") EXCEPT !.since = maxIDs[records]])
  /\ UNCHANGED <<records, tables, index>>

(* The load goes on if there is a new row, with an embedding or without, in  *)
(* this table or in one of those the model leaves out.                      *)
FetchNew(l) ==
  LET newer == {i \in stored[records] : i > loads[l].since} IN
  /\ loads[l].at = "fetchNew"
  /\ Goto(l, [loads[l] EXCEPT !.at = "append", !.got = newer \cap embedded[records]])
  /\ UNCHANGED <<records, tables, index>>

NothingNew(l) ==
  /\ loads[l].at = "fetchNew"
  /\ \A i \in stored[records] : i <= loads[l].since
  /\ Finish(l)
  /\ UNCHANGED <<records, tables, index>>

AppendRecords(l) ==
  /\ loads[l].at = "append"
  /\ AppendSince(records, loads[l].since, loads[l].got)
  /\ Goto(l, At("sampleSummaries"))
  /\ UNCHANGED <<records, tables>>

SampleSummaries(l) ==
  /\ loads[l].at = "sampleSummaries"
  /\ Goto(l, [At("query") EXCEPT !.since = maxIDs["artifacts"], !.left = Users])
  /\ UNCHANGED <<records, tables, index>>

(* GetArtifacts: the newest page of the user's ready artifacts.             *)
NewestReady(u) ==
  LET ready == {i \in embedded["artifacts"] : owner[i] = u} IN
  {i \in ready : Cardinality({j \in ready : j > i}) < Page}

(* Whatever the query returned is filtered by the sampled watermark.        *)
Unseen(l, u) == {i \in NewestReady(u) : i > loads[l].since}

QueryUser(l, u) ==
  /\ loads[l].at = "query" /\ u \in loads[l].left
  /\ Goto(l, [loads[l] EXCEPT !.got = @ \cup Unseen(l, u), !.left = @ \ {u}])
  /\ UNCHANGED <<records, tables, index>>

(* The user's query fails, or GetAllUsers did: the user is skipped.         *)
SkipUser(l, u) ==
  /\ loads[l].at = "query" /\ u \in loads[l].left
  /\ Goto(l, [loads[l] EXCEPT !.left = @ \ {u}])
  /\ UNCHANGED <<records, tables, index>>

AppendSummaries(l) ==
  /\ loads[l].at = "query" /\ loads[l].left = {}
  /\ AppendSince("artifacts", loads[l].since, loads[l].got)
  /\ Finish(l)
  /\ UNCHANGED <<records, tables>>

(* The process stops, and starts again with an empty index and a reload of  *)
(* its own before anything else runs.                                      *)
Restart ==
  /\ entries' = [k \in Kinds |-> NoEntries]
  /\ maxIDs' = [k \in Kinds |-> 0]
  /\ \E l \in Loaders : loads' = [m \in Loaders |-> IF m = l THEN At("fetch") ELSE Idle]
  /\ up' = FALSE
  /\ UNCHANGED <<records, tables>>

Step(l) ==
  \/ Fetch(l) \/ FetchFails(l) \/ Replace(l) \/ ResetArtifacts(l)
  \/ Sample(l) \/ FetchNew(l) \/ NothingNew(l) \/ AppendRecords(l)
  \/ SampleSummaries(l) \/ AppendSummaries(l)
  \/ \E u \in Users : QueryUser(l, u) \/ SkipUser(l, u)

Next ==
  \/ \E k \in Followed : Insert(k) \/ \E id \in Ids : Embed(k, id)
  \/ \E id \in Ids : Delete(id)
  \/ \E l \in Loaders :
       ReloadVectors(l) \/ LoadNewVectors(l) \/ LoadNewArtifactSummaries(l) \/ Step(l)
  \/ Restart

Spec == Init /\ [][Next]_vars

(* A load that runs goes on, its query does not fail for ever, and           *)
(* incremental loads keep being started, because every archived chunk of    *)
(* conversation starts one (processing.go:275, 300).                        *)
Fairness ==
  \A l \in Loaders :
    /\ WF_vars(Step(l))
    /\ SF_vars(FetchNew(l))
    /\ SF_vars(LoadNewVectors(l))

FairSpec == Spec /\ Fairness

-----------------------------------------------------------------------------
(* Properties.                                                             *)

TypeOK ==
  /\ records \in {"topics", "people"}
  /\ lastId \in [Kinds -> 0 .. MaxRows]
  /\ stored \in [Kinds -> SUBSET Ids]
  /\ embedded \in [Kinds -> SUBSET Ids]
  /\ owner \in [Ids -> Users]
  /\ entries \in [Kinds -> [Ids -> Nat]]
  /\ maxIDs \in [Kinds -> 0 .. MaxRows]
  /\ loads \in [Loaders -> Load]
  /\ up \in BOOLEAN

Indexed(k) == {i \in Ids : entries[k][i] > 0}

(* "no duplicates regardless of interleaving", vectorstore_test.go:275: no  *)
(* id is listed twice however loads overlap, or search would return it      *)
(* twice.                                                                  *)
NoDuplicates == \A k \in Kinds : \A i \in Ids : entries[k][i] <= 1

(* "MaxID returns the highest loaded entry ID for the kind",                *)
(* vectorstore.go:41, through appends, discards and reloads that take the   *)
(* index back to an older snapshot.                                        *)
WatermarkExact == \A k \in Kinds : maxIDs[k] = Max(Indexed(k) \cup {0})

Reachable(k) == \A i \in embedded[k] : i <= maxIDs[k] => i \in Indexed(k)

(* What AppendSince discards batches for (vectorstore.go:48): no stored      *)
(* topic or fact is at or below the watermark without being in the index,   *)
(* so the next incremental load finds whatever the index lacks.             *)
TopicsNeverHidden == Reachable("topics")

(* A stored topic comes to be searchable, though its own load was discarded  *)
(* or an older snapshot replaced it, unless it is deleted or the bot stops.  *)
TopicsBecomeSearchable ==
  \A i \in Ids :
    i \in embedded["topics"] ~>
      (i \in Indexed("topics") \/ i \notin embedded["topics"] \/ ~up)

(* "sent files become searchable" (README.md:17), and "LoadNewArtifact-     *)
(* Summaries incrementally loads only new artifact summary embeddings.      *)
(* Called after artifact processing completes" (service.go:444-445): a      *)
(* ready artifact is in the index or will be fetched by the next load.      *)
ArtifactsNeverHidden == Reachable("artifacts")
=============================================================================
