# laplaced: a verification project

TLA+ models of laplaced, a chat bot for Telegram and Mattermost with a long-term
memory, the TLC configurations that check them on small instances, and theorems about them
that TLAPS proves for every value of the constants. Paths are relative to
`src/`.

Contents: [inventory](#1-inventory) · [modules and the code](#2-the-modules-and-the-code) ·
[runs](#3-runs) · [fairness](#4-fairness) · [proofs](#5-what-is-proved) ·
[findings](#6-findings) · [limits](#7-what-is-not-covered) · [plan](#8-plan)

## 1. Inventory

One process, many goroutines, one database (SQLite or PostgreSQL). Updates come
in from a transport, messages are grouped into turns, a turn calls a language
model and sends a reply; background loops turn the stored conversation into
topics, facts, people and artifact summaries, and keep a vector index of them.

```
 poll / webhook / websocket
        |  one goroutine per update           internal/bot/bot.go
        v
  HandleIncoming -> gate, access -> MessageGrouper   (timers, per-key lock)
                                        |  one turn per batch
                                        v
                     processMessageGroup -> agent (LLM, tools) -> response_path
                                                                   |
                            delivery_plan.go (executor) <----------+
                               |  transactions      |  one request per operation
                               v                    v
                     outbound_deliveries       Telegram
 ----------------------------------------------------------------- same database
  rag.Service loops: chunking, consolidation, facts, artifacts -> vector index
```

| Component | State | Operations | What makes it hard | Correct when |
|---|---|---|---|---|
| Delivery ledger (`internal/storage/delivery.go`) | two tables: a delivery with a status and two counters, its operations with a status and an error class | create, mark sending, complete, activate fallback, persist reply, startup recovery | three writers of one derived summary; recovery looks only at deliveries that are not terminal | the summary agrees with the operations; an operation's result is never rewritten; one fallback at most |
| Delivery executor (`internal/bot/delivery_plan.go`, `response_path.go`) | index in the plan, confirmed ids, outcome | preflight, create, then mark / send / record per operation, switch to the fallback, persist history, error notice | three parties (executor, ledger, transport) of which any pair may disagree after a lost answer, a lost acknowledgement or a stop | no part twice, skipped or out of order; no report is false; no reply hangs for ever |
| Telegram client and transport (`internal/telegram`) | requests in flight | send, edit, download | an answer may be lost while the message is posted; a request that was never written is re-attempted | one request posts at most one message |
| Message grouper (`internal/bot/message_grouper.go`) | groups, timers, processing locks, wait group | AddMessage, timer callback, processGroup, Stop | a fired timer cannot be stopped; its callback races the next message and Stop | every message in one turn, in order; the wait group exact; Stop drains |
| Bot entry points (`internal/bot/bot.go`, `cmd/bot/main.go`) | handler wait group, polling offset, bot-chain counters | poll, dispatch, HandleIncoming, reaction lookup, Stop | updates acknowledged by the next poll only; a goroutine per update | an update answered once; a loop of bots bounded |
| Turn processing (`internal/bot/process_group.go`) | none of its own | prepare, gate, store, run the agent, deliver | cancellation is detached in part | a turn stores its message and delivers one reply |
| Live previews (`internal/bot/rich_streaming.go`, `streaming.go`) | snapshot, coalescing timer, heartbeat, times of the last requests, cooldown | status, delta, freeze, timer, heartbeat, finalize | a request holds the mutex while timers fire; Telegram drops a draft 30 s after its last update | nothing shown is lost; a draft outlives a failed request; nothing is sent after the end |
| Identity and access (`internal/bot/principal_resolver.go`) | profile cache, denial notices | resolve, notify | caches | at most one notice |
| Topic pipeline (`internal/rag/background.go`, `processing.go`, `session.go`, `consolidation.go`) | `messages.topic_id`, topics and their flags | chunk, salvage, resolve overlaps, merge, extract facts, forced run | loops and forced runs read the same rows without a lock; several statements where one transaction is needed | a message in one topic; nothing processed twice or never |
| Retry breaker (`internal/rag/retry_breaker.go`) | failures and cooldown per user | failure, success, cooldown | backoff that must neither overflow nor stay | a failing user waits, at most six hours |
| Vector index (`internal/rag/vectorstore.go`, `service.go`) | slices of vectors, watermarks | full reload, incremental load, append | loads that fetch and apply in different orders | every stored vector is searchable in the end |
| Artifact extraction (`internal/rag/artifacts.go`, `internal/storage/artifact.go`) | a state and a retry count per row; a round, its workers and a semaphore | upload, collect, start, extract, write the verdict, recover, stop | recovery goes by the age of the row; a cancelled round leaves workers behind | each artifact ready or given up in the end; retries bounded; Stop waits |
| Long-term memory (`internal/memory`) | facts, people | model-directed edits | ids the model was shown may be stale | no edit of a deleted or foreign row |
| Retrieval (`internal/rag/retrieval.go`), agents (`internal/agent`), LLM client (`internal/llm`) | none to speak of | scoring, prompts, tool loop, HTTP | outputs are an oracle | - |
| Mattermost (`internal/mattermost`) | websocket | reconnect, post | lost events while disconnected | - |
| Schema and dialects, web UI, metrics, rendering, configuration, test tools | - | - | - | - |

`PROJECT.json` gives the status of each component, and 40 places, each with its line,
where this code can go wrong in a way a test would hardly reach.

## 2. The modules and the code

| Module | Models |
|---|---|
| `DeliveryLedger` | `internal/storage/delivery.go`: the tables and every transaction on them |
| `ReplyDelivery` | extends `DeliveryLedger` with one bot process: executor, transport, stops and restarts |
| `ReplyContract` | abstract: what a reply promises the user, with no ledger and no executor |
| `MessageGrouper` | `internal/bot/message_grouper.go`, with the handlers before it and the order of `Bot.Stop` |
| `TurnContract` | abstract: what grouping promises a conversation, with no timer, callback or lock |
| `TopicRanges` | the range algorithms of `internal/rag/processing.go`, as operators on sets |
| `TopicPipeline` | extends `TopicRanges` with the loops and forced runs of `internal/rag` over the tables of one user |
| `ArtifactExtraction` | `internal/rag/artifacts.go` and `internal/storage/artifact.go`: the loop, its workers, the rows, stops and restarts |
| `RichDraft` | `internal/bot/rich_streaming.go`: the live preview of a reply, against the clock |
| `VectorIndex` | `internal/rag/vectorstore.go` and the loads of `internal/rag/service.go` that fill it |
| `..._proofs`, one for each of these but the two contracts | theorems and their proofs |

### DeliveryLedger

Each column that a guard or a summary reads is a variable: `status`, `ops`
(one row per ordinal, `"absent"` for none), `errorClass`, `confirmedCount`,
`operationCount`, `linked` (`history_id` is set). Each method of
`SQLiteStore` is one database transaction, hence one atomic action of the same name;
`Can...` is what may make the transaction refuse. The module lets *any* caller
make *any* call in *any* order. So what holds here the tables guarantee alone,
and what needs the executor's discipline is stated of `ReplyDelivery`.

- `RowsAfter` is the result of an operation together with the sealing of the operations
  behind it (delivery.go:266-279), `AggregateStatus` the recomputed summary.
- `ActivateOutboundDeliveryFallback` marks the rejected operation as
  `format_rejected`, skips the rest of the plan and appends a branch.
- `MarkInterruptedOutboundDeliveriesUnknown` is the startup recovery, over all
  deliveries at once.

Error classes are told apart only where a guard does. Message ids, history rows
and the owner of a delivery are left out; of the history link only whether it
exists is kept.

### ReplyDelivery

Three programs share a step relation: the executor (`pc`, `cur`, `from`,
`confirmed`, `attempted`, `answer`, `outcome`), the ledger, and the transport
(`flight`, `chat`, `told`).

- A database call has three outcomes (`Call`): it succeeds, it fails and
  leaves the tables alone, or it commits and its acknowledgement is lost.
- A request can be posted (`Land`) at any time after it was made, even after the
  executor gave up on the answer or the process stopped. The answer (`Receive`)
  tells the truth when there is one.
- `Crash` may come between any two calls. It forgets everything the process
  knew; `cur` and `from` stay only as the identity of a request that may still
  be in the air. `Boot` runs recovery, whose failure main.go only logs.
- A reply is a plan of n operations, and each operation posts one part. A
  rich operation carries a plain fallback of one operation for each part from
  its own to the last. `Row` says in which ledger row the executor files a
  part, and `Covering` which row answers for it.

### ReplyContract

Parts appear in order and never twice. A verdict is passed once. A verdict that
claims to know what the user sees is true and stays true. One that does not know
is passed with or without a part still `pending`, fixed at the verdict: at most that one
part shows up afterwards, and behind a plain "unknown" it is the first.
`ReplyDelivery` implements it under the mapping `length <- plan[d].n`, `seen <- chat`,
a verdict that is "open" until the status is terminal, and `pending` when a verdict was
passed and the last request is in the air. The one subtle point of the mapping: between a confirmed
format rejection and the switch to the fallback the ledger says *rejected*, while
the executor is about to reopen the delivery, so the verdict is still open there.
If the process stops in that window the rejection becomes final.

### MessageGrouper

Messages of a key are numbered in the order `AddMessage` accepts them, and
message m shares its number with the timer it starts. A timer is "armed", then
"fired" (its callback exists but stands in front of the mutex), then either
"over" or "waiting" (it holds a batch and wants the key's lock), then in its
"turn". What the code does under `mg.mu` is one action: `AddMessage`,
`TakeGroup` (first half of `processGroup`), `StopGroups` (first half of `Stop`). `wg` is the
wait group. A key with no group and one with an empty group are the same here,
because both make `processGroup` return.

`TurnContract` is what this amounts to: each turn is given consecutive messages that no turn had
before, a conversation has one turn at a time, and only closing gives messages up, the newest ones.
`MessageGrouper` implements it under the mapping: *due* are the messages of the group and of the
batches that wait for the lock, the *turn* is the batch of the callback that holds it. The
contract does not promise the order of turns, nor that Stop gives nothing up, because the code does
neither (see sections 5 and 6).

Contexts are left out: `processMessageGroup` detaches itself from the
one it gets (process_group.go:338). So are handlers that end before they
reach `AddMessage`.

### TopicRanges and TopicPipeline

The splitter, a language model, answers a chunk of messages with any set of ranges.
`TopicRanges` says what becomes of it: the ranges are fitted to the chunk, a range
inside another one goes, overlapping ones are trimmed (`Disjoint`, for
`resolveOverlaps`), and messages no range covers join the nearest (`Salvaged`). The
code gets there by sorting and loops over neighbours; the operators are the result in
terms of sets. An answer that misses more than half of the chunk is refused (`Usable`).

`TopicPipeline` has four workers of one user: the archiving loop, the consolidation
loop, the facts loop, and a forced run that does the work of all three in turn.
`at[w]` is the statement a worker is about to run, and each statement on the
tables is a step: what a worker read may be stale by the time it writes. Only the facts
part takes a lock (`userLock`, for `tryStartProcessingUser`).

- A merge is seven statements without a transaction (consolidation.go:340-373): insert the
  new topic, re-point the messages of either range, move the facts of either topic, delete
  both. Other workers may come between any two. The history of facts is left out.
- `SaveFails` and `Crash` may split `AddTopic` between its two statements, which leaves a
  topic without messages.
- `Whole` is an assumption about speed: a worker does not put a model call (split, verify or
  extract) between two statements of another worker's merge, for a model call takes seconds and
  the statements milliseconds. It matters to one fact, which says of which topics a
  running merge is the only one to work on.
- Times are left out. A chunk may be closed, a ticker come and a cooldown of `retry_breaker.go`
  end at any moment. Sizes and similarity of topics are free choices.
- A failed statement inside a merge is only logged by the code. That is not among the
  faults here; see the observations in section 6.

### ArtifactExtraction

A row is "absent", "pending", "retained" (kept but not extracted), "processing",
"ready" or "failed", with a retry count. The loop is idle, in a round, waiting for the
semaphore, waiting for its workers, or gone. A worker has started (and is about to mark its
row), is calling the model, or holds an answer it could not write. The process is up,
cancelled, stopping or down; graceful stops and crashes differ in what they wait for.

Recovery looks at rows that are "processing" *and* older than a threshold,
by the time of upload (artifact.go). A row that was uploaded shortly before the stop
is not recovered by the next start. `excused` keeps those rows, so that properties can say
exactly what the code does not promise. A round takes pending rows and failed ones
whose backoff is over (`Rest`).

### RichDraft

The only module about time. `Tick` moves a clock of small units: request limits, the gap
between requests, the cooldown Telegram asked for, the timer, the heartbeat, and the
life of the draft at Telegram (`ttl`) are countdowns. `sending` is the request under way; the mutex
is held meanwhile, so every callback waits (`Free`). A callback that is due runs before the clock
moves on, once the mutex is free. `Arrive` is the moment Telegram has the
request, which renews the draft even if the answer comes too late.

A snapshot is the moment of the turn it was rendered at: how many status lines had been said
and how many pieces of content had come. What it displays of them is left out: the code keeps the
first and the newest 23 lines (rich_streaming.go:284-288) and removes media directives
(line 437), so a later snapshot may display less than an earlier one. Snapshots of different moments
are taken to be displayed differently; where they are not, the code saves a request the model makes. A
stale timer callback finds another generation and does nothing, so it is no step. The
heartbeat sends the last payload that was accepted, not the newest text. Not modelled: a
sink whose very first preview failed, which stays inactive, and `StreamSink`
(streaming.go), which edits one message.

### VectorIndex

Search only sees the index, so a row that is not in it cannot be found. A load is a
little program, with `loads[l].at` as its counter: it samples the
watermark, runs a query, and applies what the query returned. Each database
call is a step and so is each method of the store, which runs under its mutex. Between
any two of them other loads, inserts, deletes and restarts may come.

- `ReloadVectors` goes through fetch, replace and reset, `LoadNewVectors` through
  sample, fetchNew and append. Both end in the steps of `LoadNewArtifactSummaries`:
  sampleSummaries, one query per user, append.
- `Fresh` is the guard that discards a batch (vectorstore.go:110).
- Topics, facts and people are loaded side by side, each with a table and a watermark of its
  own, so a behaviour follows one of them (`records`; facts are handled as topics
  are) and the artifacts. Two places depend on a table that is not followed, and
  both are nondeterministic: a load goes on when one of *three* queries found a row, and
  it ends when the query of topics or of facts fails.
- `embedded` tells rows that have a vector: a topic has one from the start, a person may
  get one later, an artifact gets one when it is ready.
- `Start` runs the first reload before anything else (`up`). A restart keeps the
  tables and empties the index.

## 3. Runs

| Run | Module, cfg | Distinct states | Question |
|---|---|---|---|
| `ledger` | `DeliveryLedger` | 24 407 | Do the tables protect themselves from any sequence of calls? |
| `delivery` | `ReplyDelivery` | 32 582 | Does one reply keep its promises under lost answers, faults and stops, implement the contract, and settle? |
| `delivery_resolves` | `ReplyDelivery`, `ReplyDelivery_resolves.cfg` | violated | Does the ledger always know what Telegram confirmed? |
| `grouper` | `MessageGrouper` | 32 623 | Is each message handed to one turn, the wait group exact, and does Stop return? |
| `grouper_stop` | `MessageGrouper`, `MessageGrouper_stop.cfg` | violated | Does Stop process all pending groups? |
| `topics` | `TopicPipeline` | 645 313 | Do loops and a forced run on the same rows lose a message or extract twice? |
| `topics_drain` | `TopicPipeline`, `TopicPipeline_drain.cfg` | 249 790 | Are all facts extracted in the end, with one failure or stop anywhere? |
| `topics_merge` | `TopicPipeline`, `TopicPipeline_merge.cfg` | violated | Does a merge move only the messages of its two topics? |
| `artifacts` | `ArtifactExtraction` | 113 521 | Is each upload ready or given up in the end, through failures, stops and crashes? |
| `preview` | `RichDraft` | 648 280 | Does a draft stay up and show what is pending, with two failing requests? |
| `vectors` | `VectorIndex` | 65 212 | Is what two overlapping loads leave behind exact, and is every topic searchable in the end? |
| `vectors_hidden` | `VectorIndex`, `VectorIndex_hidden.cfg` | violated | Can a ready artifact always be found, or be loaded by the next load? |

What the properties say:

- `SummaryAgrees`: the counters of a delivery are those of its operations and its status
  is one that fits them, although `Complete` recomputes them, `Activate` adds to them and
  recovery rewrites them. `OneFallbackBranch`, `OperationLifecycle`: the
  representation changes once, and what is known of an operation is never rewritten.
- `AtMostOnceInOrder`: the user sees a prefix of the reply, each part once.
  `LedgerNeverDenies`: a visible part is never recorded as unsent, and an
  invisible one never as confirmed. `SealedTerminal`: no terminal delivery has
  anything left to send. `NeverRefused`: executor and ledger agree at every call.
  `HonestReports`: caller, operator, history and the error message beside a reply
  tell the truth. `KeepsContract`: the refinement of `ReplyContract`, at most one part
  after a verdict that does not know included.
  `EveryDeliverySettles`: no reply stays "sending" as long as the database answers.
- `WaitGroupBalanced`: the wait group is the number of callbacks still to end. `InOneBatch`: every
  message is in its group or in one batch, whichever callbacks raced for it.
  `TurnsEndBeforeStopReturns`: no turn of an older message is left when Stop returns.
  `KeepsTurnContract`: the refinement of `TurnContract`. `EveryMessageGetsItsTurn`,
  `StopCompletes`: a message gets its turn, and Stop returns.
- `SplitIsPartition`: whatever the splitter answers, a chunk that is not refused
  becomes topics that share no message and leave none out. It is about data, not
  about a state of the pipeline: the `topics` run evaluates it in the initial states,
  for all chunks within 0..3 and all answers of up to three ranges.
  `NoMessageDangles`: no message points to a topic that does not exist, also in the
  middle of a merge. `NeverToldTwice`: the facts of a topic are stored once, unless the
  mark that says so was not written. `MovedBeforeDeleted`: a merge deletes
  no facts of a topic it took for extracted. `QueueDrains`: no topic blocks its
  user's queue for ever. `EveryMessageRemembered`: the facts of every visible message are
  stored in the end, as long as no topic is merged.
- `ProcessingIsAttended`: a row says "processing" only while a worker is on it, except for
  the rows in `excused`. `AttemptsAreBounded`: how often a model is called for a
  file. `StopWaits`: a graceful stop ends no extraction, unless the loop left in the middle of a
  round. `EveryArtifactSettles`: ready, retained, or failed for good.
- `PendingIsAttended`, `PendingIsShown`: what was said but not shown has a timer
  or a request coming for it, and is shown. `OneFailureIsSurvived`: the
  draft does not disappear while the turn goes on, unless two requests fail in a row.
  `RequestsAreSpaced`: the gap and Telegram's cooldown hold whoever sends.
  `SilentAfterClose`: nothing is sent that could cover the final message.
- `NoDuplicates`: no id is listed twice. `WatermarkExact`: the watermark is the
  highest listed id, also after a reload took the index back. `TopicsNeverHidden`:
  no stored topic is at or below the watermark without being listed, so an
  incremental load finds what is missing. `TopicsBecomeSearchable`: one does.

For each property of a passing run `PROJECT.json` names a mutant: a change of one definition
that a plausible bug in the code would make, under which TLC finds the property
violated.

### Bounds

- `MaxOps = 4` for the ledger: a plan of two and a fallback of two, so that a
  fallback starts at the first or at a later operation, and the calls before and
  behind the branch all occur. Deliveries share no column, so one is enough for
  every transaction but recovery, and recovery treats each alike. The proofs are for any
  set of deliveries.
- `MaxParts = 3`: first, middle and last part differ in what "partial" means.
  `MaxOps = 2 * MaxParts`, so no plan is refused for its length.
- `MaxFaults = 2`, `MaxCrashes = 2` for delivery: recovery itself may fail or lose its
  acknowledgement, and a second stop may hit a delivery already recovered.
- `MaxMessages = 4` on one key: three messages are needed for a callback of a
  replaced timer to take the group of its successor, a fourth for what follows.
  Keys share only the wait group and Stop. The safety properties also hold of two keys with
  three messages each (2.7 million states, over a minute; not among the runs).
- `topics`: two messages and four topics let a loop and a forced run archive side by side,
  merge what either made, and extract from both; `Gap = 2` lets neighbours merge. Faults are
  left to `topics_drain`: three messages, one of them hidden (`do_not_store`), six topics (three,
  a merge, a merge of that, and one more), one failure or stop, no forced run. `topics_merge`
  needs four messages: two topics around a third, and one for the second merge. `MaxTopics` is a
  bound of the instance; liveness is asked for only until the table is full (`Full`).
- `artifacts`: two files, one of a refused size, because files meet in the semaphore
  (`MaxConcurrent = 1`) and in the round only. `MaxRetries = 2` tells "once more" from "never
  again"; two faults and two stops let recovery fail after a stop.
- `preview`: the units keep the order of the times in the code (gap 1.2 s < timeout and backoff 5 s <
  heartbeat 15 s < life 30 s) and `RoomAssumption` with no unit to spare. `RetryAfter = {3}`
  is longer than the backoff. Two faults: one the draft survives, one it need not.
- `VectorIndex`: two loads, because the hazards are between one that samples and one that
  applies; `MaxRows = 2`, the row a load took and the one it did not see. `Page` is
  1000 in the code. In `vectors_hidden` no query reaches the page's end, so that the page is not
  the reason why a row is hidden. The proofs need none of these bounds.

Deadlock is not checked where the system may stop: all replies are done, or the
process exited.

## 4. Fairness

- A running executor takes its next step. Nothing in delivery_plan.go waits
  except for the request and the database.
- A request is answered or runs into the timeout of its context (30 s, or 3 to 30
  minutes for media): some `Receive` happens. There is *no* fairness on
  `Land`: a lost request may never be posted.
- The process is restarted (`restart: always` in docker-compose.yml): `Boot`. A
  `Crash` is never obliged.
- `EveryDeliverySettles` has the premise that the database answers (`[](faults = 0)`). With
  faults it is false, and rightly: a delivery whose last commit failed stays open
  until the next restart.
- Grouper: timers fire, goroutines run, a turn ends because its calls have
  timeouts. `BeginTurn` has strong fairness because `sync.Mutex` hands over to a
  waiter that starves. Nobody is obliged to send messages or to call Stop.
- Topics: each goroutine that can go on does, tickers come, and the model answers in the end
  (failures are bounded). Nobody has to force a run, store a message, or stop the process.
- Artifacts: the loop's ticker fires, an extraction ends because its calls have a timeout, a
  backoff elapses, a stop that began goes on, and a stopped process starts again. Nothing is
  assumed of uploads, stops, faults or the age of rows.
- Preview: the clock moves, timers run, a request arrives and ends (its context has a
  timeout), a cancelled heartbeat leaves. The agent need not say anything, nor the turn end.
- Vector index: a load that runs goes on (its statements do not wait for each
  other). Its query does not fail for ever (`SF` on `FetchNew`), and incremental loads
  keep being started, because every archived chunk of conversation starts one (`SF` on
  `LoadNewVectors`). Without new conversation a discarded batch waits for it; in
  the code too.

## 5. What is proved

The theorems about delivery hold for every set of deliveries, every length of plan and
every number of faults and stops. The assumptions are `MaxOps \in Nat \ {0}`,
`MaxParts \in Nat \ {0}`, `MaxOps >= 2 * MaxParts` (a plan and its fallback fit in
the table) and that the two bounds are natural numbers.

`DeliveryLedger_proofs`: `LedgerTypeCorrect`, `SummaryCorrect`,
`AtMostOneFallback`, `LifecycleRespected`. The properties are inductive once one fact
is added: a delivery that was not created owns no operation. The work is in
counting: `operationCount` is added to by `Activate`, so the proof needs that
the appended ordinals are new (`CountAppended`), which rests on `AppendsAt`.

`ReplyDelivery_proofs`:

1. `Places`: the executor is inside its plan and counted one confirmation for
   each part before it.
2. `ImplementsLedger`: every step of the process is a transaction of
   `DeliveryLedger` or leaves the tables alone, so all that was proved of the
   ledger holds here.
3. `TypeCorrect`.
4. `InStep` implies the safety properties, as lemmas about one state.
5. `InStep` is inductive (`AlwaysInStep`), one lemma per step.
6. `NeverTwiceNeverSkipped`, `LedgerIsCandid`, `TerminalIsSealed`,
   `ExecutorIsNeverRefused`, `ReportsAreHonest`.
7. `SettlesOnRestart`: a recovery that committed leaves nothing of an earlier run open.
8. `ImplementsContract`: `Spec => KeepsContract`. `InStep` supplies what the mapping
   needs: that a verdict in the ledger fits the parts in the chat, step by step.
9. What the process was told. `OnlyTheLastUnresolved` bounds the loss that finding 1 shows: of
   the parts whose ids reached the process all but the last are confirmed rows.
   `EndedRunsAreResolved`: an executor that reaches its end without a failing call leaves none.
   `CallerAndLedgerAgree`: without failing calls, the outcome the caller gets and the status in
   the ledger are the same, although one is computed from the executor's list and the other by
   SQL from the rows.
10. `ExecutorTerminates`: the part of `EveryDeliverySettles` that needs no fairness. `StepsLeft` is a
   natural number, at most 6n + 12 for a plan of n parts. Every step of the executor lowers it and nothing
   else raises it, so no reply is sent for ever. The one place where it might rise is the switch to the
   fallback, which goes back to the label *mark*; that the switch happens once comes from `InStep`.

Why `InStep` is needed: none of the safety properties is inductive. That no part
appears twice depends on the executor knowing how many are visible whenever it
sends, which depends on the ledger having confirmed the ones before, which
depends on it not having skipped a row, and so on in a circle. `InStep` says for
each delivery how its rows lie around the current one (confirmed before it,
planned or skipped behind it), which status the current row allows, whether
the chat has as many parts as the executor counted or one more, and what each
`pc` implies for that.

`MessageGrouper_proofs`, for every finite set of keys (`KeysAssumption`; the
cardinality of an infinite one would mean nothing) and every number of messages:

1. `Sound`: types, and that a timer beyond the last accepted message is unset.
2. `KeyInOrder`: for each key, who holds which message. The group and the
   batches are disjoint and cover what was accepted; the turns are made of the batches of
   the callbacks that are past the lock; what is still due after Stop
   returned is newer than what Stop knew of.
3. `Balanced`: the wait group is the cardinality of the set of live callbacks.
   An `AddMessage` that stops a timer swaps one element for another,
   every other step adds one, removes one or changes nothing.
4. The results: `TypeCorrect`, `WaitGroupIsExact`, `OneBatchEach`,
   `GroupAlwaysAttended`, `StopWaitsForTurns`. The second and third part meet in the
   step in which Stop returns: `wg = 0` means that no callback is left, hence
   none with an old message.
5. `ImplementsTurnContract`: `Spec => KeepsTurnContract`. The mapping needs one more invariant,
   `InRuns`: a group is the run of the newest messages, and a batch is a run.
6. Where the code promises more than it keeps, the theorem names the race.
   `PendingTimerLosesNothing` and `StopProcessesWhatItCanTake`: if no timer of a waiting group
   has fired when Stop takes the mutex (`StopCanTake`), Stop does process everything that is pending,
   so the race of finding 2 is its only cause. `InOrderIfLocksAre`: while the lock goes to the oldest
   batch that waits, messages have their turns in the order they were accepted, so the race for
   the lock (first observation in section 6) is the only way out of order.

`TopicRanges_proofs`: `TopicsPartition`, for every finite chunk and every finite
answer: the topics made of a usable answer are a partition of the chunk. Trimming is shown to
leave disjoint ranges that are not empty, and widening towards the nearest range to
keep them disjoint: if a straggler's nearest range is r, no message of another range lies between.

`TopicPipeline_proofs`, for every number of messages, topics, faults and forced runs
(`BoundsAssumption`, `DataAssumption`):

1. `IInv` is a conjunction of named parts: `TypeOK`; `Contiguous` (ids of topics have no holes, so
   `NextId` is new); `Known`, `Spanned`, `Spanning` (what a worker holds exists or existed and has a
   range); `Chunked`, `Paired` (what it is going to write fits what it read); `Separate`
   (no two workers merge the same topic at once); `Placed`, `Emptied` (how far a merge has
   come with messages and facts); `LockHeld` and `Untold` (a topic in a list under the lock was
   not told); `MovedOn`.
2. `Separate` is where `Whole` is used: nothing in the code locks a topic.
3. The results: `TypeCorrect`, `SplitsArePartitions`, `MessagesAreFound`, `ToldOnce`,
   `FactsMoveFirst`, and `MessagesLieInTheirTopic` (a message is never outside the range of its topic).
4. `MergesMoveTheirOwn`: what consolidation.go:345 says, which finding 3 refutes, is true
   of every behaviour in which no pair is merged with a third topic between or across it, no
   `AddTopic` is cut in two, and neither two archivers nor two mergers are at work at once. The
   invariant `Tidy` says that topics end before what is not archived, that a half-saved list is
   behind them, and that the rows between the two topics a merger holds stay as they were when it took
   them. TLC finds a counterexample when any of the four conditions is dropped, so the
   hypothesis says no more than is needed; merges of merged topics remain possible under it.

`ArtifactExtraction_proofs`, for any finite set of files and any limits
(`FilesAssumption`, `LimitsAssumption`): `IInv` adds to the properties that retries are left to a
row that is due (`RetriesLeft`), that a worker's row carries its mark (`Marked`), where a row of the
round may be (`Queued`), what each attempt was paid with (`Charged`: a retry, a fault or a stop), and when
workers are gone (`Drained`). Results: `TypeCorrect`, `Attended`, `AttemptsBounded`,
`LateStarts` (after Stop at most one more is started), `GracefulStop`, `DueOnly` (an extraction
never starts on a row that is not due), `VerdictsAreFinal` (once a row has its verdict and no worker
holds it, no stale round, late writer, crash or recovery changes it).

`RichDraft_proofs`, for all times that meet `TimesAssumption` and
`RoomAssumption`: `IInv` has `Phases` and `Carried` (what each phase and each request implies), `Timely`
(Telegram's clock is at most one answer behind the sink's) and `Punctual`: while nothing failed
the heartbeat wakes no later than `Beat` after the last accepted request, and after one failure
within `Beat + Timeout + Backoff`, plus a gap. Together with the room that is
`OneFailureSurvived`. Also `TypeCorrect`, `Attended`, `Spaced`, `Silent`, and
`NeverOlder`: an accepted snapshot was rendered at no earlier moment than the one it replaces, because
the accepted one, the one on its way, the frozen one and the present are always in this order
(`InSequence`). It says nothing of what a snapshot displays.

`RoomAssumption` is worth reading in seconds: 15 + 5 + 5 + 1.2 + 2 * Trip < 30. The comment that the heartbeat "leaves
room for a transient request failure" (rich_streaming.go:23) is right only while Telegram answers an
accepted request within 1.9 s.

`VectorIndex_proofs`, for any loads, users, rows and pages (`BoundsAssumption`):

1. `TypeCorrect`.
2. `StoreInv`: an id is listed once at most, the watermark is the highest listed
   id, and a batch only holds ids above the watermark its load sampled. The third
   part makes the first inductive: a batch that is appended was fetched above the very
   watermark the index still has. `ListedOnce` and `WatermarkIsExact` follow.
3. `TopicInv` adds that every load in flight is `Gapless`: what it is going to
   apply holds every stored topic between the watermark it sampled (zero for a reload)
   and the highest it fetched. Ids grow with time, so an insert leaves this
   alone, and a delete only takes rows away. `TopicsAreReachable` follows: a batch
   that is not stale closes up with the index. A load of people may lose its query's result and
   is not `Gapless`, nor is one of artifacts, and there the property is indeed false.
4. `ArtifactsAreReachable`: artifacts are never hidden as long as none of four things happens
   (`Mild`): they become ready out of the order of their ids, one becomes ready between
   the queries of two users in one load, the query of a user with something new is skipped, or a user has
   more that is new than a page. By TLC each alone hides an artifact, so these are the causes of
   finding 4, and all of them.

The four conditional theorems (`StopProcessesWhatItCanTake`, `InOrderIfLocksAre`,
`MergesMoveTheirOwn`, `ArtifactsAreReachable`) have hypotheses about steps,
`[][...]_vars`, that the code does not guarantee. They are no claims that the code is right;
they say exactly what would have to be ruled out for the promise to hold.

Only model-checked is liveness, which is out of the prover's reach:
`EveryDeliverySettles`, `EveryMessageGetsItsTurn`, `StopCompletes`, `QueueDrains`,
`EveryMessageRemembered`, `EveryArtifactSettles`, `PendingIsShown`,
`TopicsBecomeSearchable`. Every safety property of a passing run is a theorem, and so is each of the
refinements.

## 6. Findings

1. `delivery_resolves`. A comment on the reaction lookup (bot.go:524-528)
   says that the ledger still proves a message to be the bot's "when the process stopped
   after Telegram confirmed delivery but before the atomic history transaction". If
   it stops before the commit at delivery_plan.go:726, the ledger has no message
   ids and the operation becomes unknown.
2. `grouper_stop`. message_grouper.go:85 says that Stop "processes all pending
   message groups". A group whose timer has just fired is left to its
   callback, but Stop clears the map in which the callback then finds
   nothing: the messages never get a turn.
3. `topics_merge`. consolidation.go:345 says "Update only messages that belonged to T1
   and T2", and re-points by range of ids. A merged topic keeps the range from its first to its
   last message, topics in between included. Topics 1 and 3 become 4, which spans 2; merging 4
   with 5 takes the messages of 2, which keeps its summary and has none left.
4. `vectors_hidden`. README.md:17 promises that sent files become searchable, and
   service.go:444 that the load takes new artifacts "after artifact processing
   completes". It takes those with an id above the highest loaded one. Of two files in extraction at
   once the second may be ready first, and the first is then hidden until a full reload.

Observations made while modelling, which no run is about:

- Grouper: message_grouper.go:63 says that the key's locks "ensure strict FIFO ordering". The batch is taken
  and `mg.mu` released at line 230, and the lock asked for at lines 246-247. In between, a message may arrive
  and Stop may hand its group to a goroutine, which asks first: the later message has its turn first (TLC
  refutes `TurnsAscend` with two messages). The test of the order (message_grouper_test.go:196) waits for
  the first turn to begin before it adds the second message and cannot see this.
- The facts loop may read a merged topic between its insert (consolidation.go:340) and the
  re-pointing of messages (346), find no messages, and mark it as extracted. That is why
  `EveryMessageRemembered` is limited to behaviours without a merge.
- A failed re-pointing is only logged (346-369); the old topic is then deleted all the same, and with it
  the facts that still hang on it.
- `splitTopic` leaves messages that no subtopic covers pointing at the topic it deletes
  (rag/split.go, from line 151). Merge candidates without an embedding are skipped without a mark.
- A row whose extraction was interrupted soon after its upload stays "processing" until a
  later restart finds it old enough. The early return at artifacts.go:149 leaves a round without
  waiting for its workers. When the row of a good answer could not be written, the retry
  count starts again. A voice message that is uploaded again stays "retained".
- `linkArtifactsToLastMessage` (process_group.go:184-208) takes the newest message of the user, which in a
  channel may be another turn's. storage/message.go:37-39 says that turns are serialized per user; the grouper's
  key is a conversation.
- The bot-chain counter (bot.go:819) is loaded and added to while another goroutine may delete it.

## 7. What is not covered

- One process per database: recovery never runs beside a live executor of
  another process. Were two bots started on one database, recovery of
  the second would seal the replies the first is sending.
- An operation posts one part. Albums and split captions are operations of the
  code as well; what they look like is abstracted.
- Every request is made once. The client's re-attempt of a request that was never
  written (client.go:297) is a hazard on the list without a property.
- `ClearHistory` and `LinkOutboundDeliveryHistory` have no production caller and
  no action; the same is true of `MessageGrouper.ForceCloseSession`.
- Topics: splitting a large topic, `ForceProcessUser`, deletion of history from the web page, failing
  statements inside a merge, and the lengths of cooldowns.
- Artifacts: what a summary says, counters of context use, and re-binding a row to another message
  when the same file comes again.
- Rows of a table become visible in the order of their ids. SQLite is used with one
  connection; PostgreSQL with ten, where a lower id may be committed after a higher
  one was loaded, and a topic could then be hidden in the way an artifact is.
- The index keeps ids, not vectors: that an edited fact keeps its old vector until
  a full reload is a hazard on the list without a property.
- Turn processing is sequential for a key; the part of it that is concurrent with anything is
  delivery, the preview and the grouper's lock, which are modelled. Agents, the
  language model and retrieval are an oracle to everything else.
- Mattermost does not use the ledger. Web UI, metrics, rendering, prompts, configuration, and
  test tools keep no state that a property could be about; they are most of the repository's lines.

## 8. Plan

Done: all modules of section 2, with proofs of their safety properties.

Next, in this order, each with its hazards in `PROJECT.json`:

1. `UpdateIntake`: polling offset, handlers, grouper and restart composed, the
   question being which updates are answered twice or never.
2. The turn: which rows it stores before and after the agent, and what a stop between them leaves.
3. Splitting a large topic, and failing statements inside a merge, in `TopicPipeline`.
4. `StreamSink`; the caches of `internal/bot/principal_resolver.go`; edits of facts and people by a model
   that was shown stale ids (`internal/memory`).
