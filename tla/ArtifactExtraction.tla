------------------------ MODULE ArtifactExtraction -------------------------
(***************************************************************************)
(* The extraction of uploaded files (internal/rag/artifacts.go, the         *)
(* extractor agent and internal/storage/artifact.go) over one user's rows   *)
(* of the table artifacts, across graceful stops, crashes and restarts.     *)
(*                                                                         *)
(* One goroutine, the loop, collects the rows that are due and starts an    *)
(* extraction for each, at most MaxConcurrent at a time.  An extraction     *)
(* writes its row when it begins and once more with its verdict; nothing    *)
(* but the row survives the process.  A model call and a statement are one  *)
(* step each.  Clocks are left out: Age is the moment a row gets older than *)
(* the recovery threshold, Rest the end of a row's backoff, a round starts  *)
(* whenever the loop is idle.  The order of a round (oldest row first) is    *)
(* left open.  What a summary says, and loading it, is left out (see        *)
(* VectorIndex).                                                           *)
(***************************************************************************)
EXTENDS Naturals, FiniteSets

CONSTANTS
  Files,          (* Contents one user may upload: one row each.            *)
  Unfit,          (* Those of a size the extractor refuses.                 *)
  MaxRetries,     (* agents.extractor.max_retries                           *)
  MaxConcurrent,  (* agents.extractor.max_concurrent                        *)
  MaxFaults,      (* Bound: statements that fail.                           *)
  MaxStops        (* Bound: stops of the process.                           *)

ASSUME FilesAssumption == IsFiniteSet(Files) /\ Unfit \subseteq Files
ASSUME LimitsAssumption ==
  /\ MaxRetries \in Nat \ {0}
  /\ MaxConcurrent \in Nat \ {0}
  /\ MaxFaults \in Nat
  /\ MaxStops \in Nat

VARIABLES
  state,     (* artifacts.state, per file; "absent" when there is no row     *)
  retries,   (* artifacts.retry_count                                        *)
  resting,   (* Files that failed and whose backoff has not elapsed          *)
  aged,      (* Files whose created_at is older than the recovery threshold   *)
  process,   (* "up", "cancelled" (ctx is done), "stopping" (Stop was called) *)
             (* or "down"                                                    *)
  loop,      (* Where artifactExtractionLoop is                              *)
  batch,     (* allArtifacts: the files this round has still to start         *)
  worker,    (* What the extraction of a file is about to do; "none" if none   *)
  faults,    (* History: statements that failed                              *)
  stops,     (* History: stops of the process                                *)
  attempts,  (* History: model calls made for a file                          *)
  excused,   (* History: files whose interruption could not be undone         *)
  hasty,     (* History: the loop returned in the middle of a round           *)
  late       (* History: extractions started since Stop was called            *)

rowVars == <<state, retries, resting, aged>>
history == <<faults, stops, attempts, excused, hasty, late>>
vars == <<rowVars, process, loop, batch, worker, history>>

Alive == process # "down"
Busy == {f \in Files : worker[f] # "none"}

(* Mutants: the limit is off by one; failed rows are not tried again.        *)
DueOnceMore ==
  {f \in Files :
     \/ state[f] = "pending"
     \/ state[f] = "failed" /\ retries[f] <= MaxRetries /\ f \notin resting}

DueWhenNew == {f \in Files : state[f] = "pending"}

(* GetPendingArtifacts.                                                    *)
Due ==
  {f \in Files :
     \/ state[f] = "pending"
     \/ state[f] = "failed" /\ retries[f] < MaxRetries /\ f \notin resting}

-----------------------------------------------------------------------------
(* Rows come from uploads and from the clock.                               *)

(* SaveFile and AddArtifact: content that has a row is not stored again.     *)
(* Voice messages too short to index are "retained".                        *)
Save(f) ==
  /\ Alive /\ state[f] = "absent"
  /\ \E s \in {"pending", "retained"} : state' = [state EXCEPT ![f] = s]
  /\ UNCHANGED <<retries, resting, aged, process, loop, batch, worker, history>>

Age(f) ==
  /\ state[f] # "absent" /\ f \notin aged
  /\ aged' = aged \cup {f}
  /\ UNCHANGED <<state, retries, resting, process, loop, batch, worker, history>>

Rest(f) ==
  /\ f \in resting
  /\ resting' = resting \ {f}
  /\ UNCHANGED <<state, retries, aged, process, loop, batch, worker, history>>

-----------------------------------------------------------------------------
(* The loop.                                                               *)
LoopOnly == UNCHANGED <<rowVars, process, worker, faults, stops, attempts, excused>>

(* processArtifactExtraction up to the first artifact of the round.         *)
Collect ==
  /\ process = "up" /\ loop = "idle"
  /\ Due # {}
  /\ loop' = "round" /\ batch' = Due
  /\ UNCHANGED <<hasty, late>> /\ LoopOnly

(* The checks before the next artifact, and its claim.  Stop ends the round, *)
(* a done ctx leaves it at once, without waiting for what was started.       *)
Choose ==
  /\ Alive /\ loop = "round"
  /\ IF batch = {} \/ process = "stopping"
     THEN loop' = "wait" /\ batch' = {} /\ UNCHANGED hasty
     ELSE IF process = "cancelled"
     THEN loop' = "idle" /\ batch' = {} /\ hasty' = TRUE
     ELSE loop' = "acquire" /\ UNCHANGED <<batch, hasty>>
  /\ UNCHANGED late /\ LoopOnly

(* Mutant: the loop waits for a slot it is not given any more.               *)
LaunchWhileUp(f) ==
  /\ process = "up" /\ loop = "acquire" /\ f \in batch
  /\ Cardinality(Busy) < MaxConcurrent
  /\ worker' = [worker EXCEPT ![f] = "started"]
  /\ batch' = batch \ {f} /\ loop' = "round"
  /\ UNCHANGED <<rowVars, process, faults, stops, attempts, excused, hasty, late>>

(* The semaphore: the loop may wait here while Stop is called.              *)
Launch(f) ==
  /\ Alive /\ loop = "acquire" /\ f \in batch
  /\ Cardinality(Busy) < MaxConcurrent
  /\ worker' = [worker EXCEPT ![f] = "started"]
  /\ batch' = batch \ {f} /\ loop' = "round"
  /\ late' = IF process = "stopping" THEN late + 1 ELSE late
  /\ UNCHANGED <<rowVars, process, faults, stops, attempts, excused, hasty>>

(* Mutant: a round ends without waiting for the extractions it started.      *)
WaitForNone ==
  /\ Alive /\ loop = "wait"
  /\ loop' = "idle"
  /\ UNCHANGED <<batch, hasty, late>> /\ LoopOnly

Wait ==
  /\ Alive /\ loop = "wait" /\ Busy = {}
  /\ loop' = "idle"
  /\ UNCHANGED <<batch, hasty, late>> /\ LoopOnly

Leave ==
  /\ loop = "idle" /\ process \in {"cancelled", "stopping"}
  /\ loop' = "gone"
  /\ UNCHANGED <<batch, hasty, late>> /\ LoopOnly

-----------------------------------------------------------------------------
(* One extraction (Extractor.Execute).  Its context is its own, so it goes   *)
(* on when the program's is done.                                           *)
WorkerOnly == UNCHANGED <<aged, process, loop, batch, stops, hasty, late>>

(* An UpdateArtifact that returns an error may have been applied.            *)
Fault == faults < MaxFaults /\ faults' = faults + 1

(* The row is marked before the model is called.                            *)
Claim(f) ==
  /\ Alive /\ worker[f] = "started" /\ f \notin Unfit
  /\ state' = [state EXCEPT ![f] = "processing"]
  /\ worker' = [worker EXCEPT ![f] = "calling"]
  /\ attempts' = [attempts EXCEPT ![f] = @ + 1]
  /\ UNCHANGED <<retries, resting, faults, excused>> /\ WorkerOnly

ClaimFails(f) ==
  /\ Alive /\ worker[f] = "started" /\ f \notin Unfit /\ Fault
  /\ worker' = [worker EXCEPT ![f] = "none"]
  /\ \/ UNCHANGED <<state, excused>>
     \/ state' = [state EXCEPT ![f] = "processing"] /\ excused' = excused \cup {f}
  /\ UNCHANGED <<retries, resting, attempts>> /\ WorkerOnly

Ready(f) ==
  /\ Alive /\ worker[f] = "calling"
  /\ state' = [state EXCEPT ![f] = "ready"]
  /\ retries' = [retries EXCEPT ![f] = 0]
  /\ worker' = [worker EXCEPT ![f] = "none"]
  /\ UNCHANGED <<resting, faults, attempts, excused>> /\ WorkerOnly

(* The extraction's copy of the row has already forgotten the retries when    *)
(* the statement fails: the failure is recorded as the first.                *)
ReadyFails(f) ==
  /\ Alive /\ worker[f] = "calling" /\ Fault
  /\ \/ UNCHANGED <<state, retries>>
     \/ /\ state' = [state EXCEPT ![f] = "ready"]
        /\ retries' = [retries EXCEPT ![f] = 0]
  /\ worker' = [worker EXCEPT ![f] = "unsaved"]
  /\ UNCHANGED <<resting, attempts, excused>> /\ WorkerOnly

(* markFailed comes after a refused size, a failed read, call, parse or        *)
(* embedding, and after ReadyFails.                                          *)
Failing(f) ==
  \/ worker[f] = "started" /\ f \in Unfit
  \/ worker[f] \in {"calling", "unsaved"}

Remembered(f) == IF worker[f] = "unsaved" THEN 0 ELSE retries[f]

(* Mutant: a failure is recorded and not counted.                            *)
RecordUncounted(f) ==
  /\ state' = [state EXCEPT ![f] = "failed"]
  /\ retries' = retries
  /\ resting' = resting \cup {f}

RecordFailure(f) ==
  /\ state' = [state EXCEPT ![f] = "failed"]
  /\ retries' = [retries EXCEPT ![f] = Remembered(f) + 1]
  /\ resting' = resting \cup {f}

(* Mutant: a failed call returns without marking the row.                    *)
MarkRefusedOnly(f) ==
  /\ Alive /\ Failing(f)
  /\ IF worker[f] = "calling" THEN UNCHANGED rowVars
     ELSE RecordFailure(f) /\ UNCHANGED aged
  /\ worker' = [worker EXCEPT ![f] = "none"]
  /\ UNCHANGED <<faults, attempts, excused, process, loop, batch, stops, hasty, late>>

MarkFailed(f) ==
  /\ Alive /\ Failing(f)
  /\ RecordFailure(f)
  /\ worker' = [worker EXCEPT ![f] = "none"]
  /\ UNCHANGED <<faults, attempts, excused>> /\ WorkerOnly

MarkFails(f) ==
  /\ Alive /\ Failing(f) /\ Fault
  /\ worker' = [worker EXCEPT ![f] = "none"]
  /\ \/ RecordFailure(f) /\ UNCHANGED excused
     \/ /\ excused' = IF state[f] = "processing" THEN excused \cup {f} ELSE excused
        /\ UNCHANGED <<state, retries, resting>>
  /\ UNCHANGED attempts /\ WorkerOnly

-----------------------------------------------------------------------------
(* The life of the process.                                                *)

(* SIGTERM or a failed web server: the context of the program is done.        *)
Cancel ==
  /\ process = "up" /\ stops < MaxStops
  /\ process' = "cancelled"
  /\ UNCHANGED <<rowVars, loop, batch, worker, history>>

(* Service.Stop, once ingestion and the bot have stopped.                     *)
Stop ==
  /\ process = "cancelled"
  /\ process' = "stopping"
  /\ UNCHANGED <<rowVars, loop, batch, worker, history>>

(* What the process was doing is gone.                                       *)
Halt ==
  /\ process' = "down" /\ loop' = "gone" /\ batch' = {}
  /\ worker' = [f \in Files |-> "none"]
  /\ stops' = stops + 1
  /\ UNCHANGED <<rowVars, faults, attempts, excused, hasty, late>>

(* Service.Stop returns when the loop has left, and the process ends.          *)
Exit == process = "stopping" /\ loop = "gone" /\ Halt

Crash == Alive /\ stops < MaxStops /\ Halt

(* RecoverArtifactStates goes by the age of the row.                          *)
Recoverable == {f \in aged : state[f] = "processing"}

Interrupted == {f \in Files : state[f] = "processing"}

(* main: a failed recovery is logged and the start goes on.                    *)
Start ==
  /\ process = "down"
  /\ process' = "up" /\ loop' = "idle"
  /\ \/ /\ state' = [f \in Files |->
             IF f \in Recoverable THEN "pending" ELSE state[f]]
        /\ excused' = Interrupted \ Recoverable
        /\ UNCHANGED faults
     \/ Fault /\ excused' = Interrupted /\ UNCHANGED state
  /\ hasty' = FALSE /\ late' = 0
  /\ UNCHANGED <<retries, resting, aged, batch, worker, stops, attempts>>

Init ==
  /\ state = [f \in Files |-> "absent"]
  /\ retries = [f \in Files |-> 0]
  /\ resting = {} /\ aged = {}
  /\ process = "up" /\ loop = "idle" /\ batch = {}
  /\ worker = [f \in Files |-> "none"]
  /\ faults = 0 /\ stops = 0
  /\ attempts = [f \in Files |-> 0]
  /\ excused = {} /\ hasty = FALSE /\ late = 0

Loop == Collect \/ Choose \/ (\E f \in Files : Launch(f)) \/ Wait \/ Leave

(* What an extraction does next when its statements succeed.                  *)
Extract(f) == Claim(f) \/ Ready(f) \/ MarkFailed(f)

Breakdown(f) == ClaimFails(f) \/ ReadyFails(f) \/ MarkFails(f)

Next ==
  \/ \E f \in Files : Save(f) \/ Age(f) \/ Rest(f) \/ Extract(f) \/ Breakdown(f)
  \/ Loop
  \/ Cancel \/ Stop \/ Exit \/ Crash \/ Start

Spec == Init /\ [][Next]_vars

(* The loop's ticker and every extraction's timeout fire, backoffs elapse, a   *)
(* stop that began goes on, and a stopped process is started again.  Nothing   *)
(* is assumed of uploads, stops, faults or the ageing of rows.                *)
Fairness ==
  /\ WF_vars(Loop)
  /\ \A f \in Files : WF_vars(Extract(f)) /\ WF_vars(Rest(f))
  /\ WF_vars(Stop) /\ WF_vars(Exit) /\ WF_vars(Start)

FairSpec == Spec /\ Fairness

-----------------------------------------------------------------------------
TypeOK ==
  /\ state \in [Files ->
       {"absent", "pending", "retained", "processing", "ready", "failed"}]
  /\ retries \in [Files -> 0 .. MaxRetries]
  /\ resting \subseteq Files /\ aged \subseteq Files
  /\ process \in {"up", "cancelled", "stopping", "down"}
  /\ loop \in {"idle", "round", "acquire", "wait", "gone"}
  /\ batch \subseteq Files
  /\ worker \in [Files -> {"none", "started", "calling", "unsaved"}]
  /\ faults \in 0 .. MaxFaults /\ stops \in 0 .. MaxStops
  /\ attempts \in [Files -> Nat]
  /\ excused \subseteq Files /\ hasty \in BOOLEAN /\ late \in Nat

(* A row says "processing" only while an extraction works on it.  The         *)
(* exceptions are the rows whose interruption nothing could undo: their        *)
(* verdict was not written, or the last start did not recover them, for its    *)
(* statement failed or they were younger than the threshold.  Such a row is    *)
(* never due again before another start.                                     *)
ProcessingIsAttended ==
  Alive => \A f \in Files :
    state[f] = "processing" => worker[f] # "none" \/ f \in excused

(* A failed extraction is retried max_retries times in all.  A stop gives one  *)
(* attempt back, since the row does not count what was interrupted; a failed    *)
(* statement at most all of them, since the count restarts when the row of a    *)
(* good answer could not be written.                                         *)
AttemptsAreBounded ==
  \A f \in Files : attempts[f] <= MaxRetries * (1 + faults) + stops

(* Service.Stop: after it was called at most the one artifact that waits for   *)
(* the semaphore is still started.                                           *)
OneLateStart == late <= 1

(* Service.Stop "waits for in-flight operations to complete": a graceful stop  *)
(* ends no extraction, unless the loop found its context done in the middle     *)
(* of a round and returned.                                                  *)
StopWaits == [][Exit => Busy = {} \/ hasty]_vars

(* What an extraction must leave alone.                                      *)
Settled(f) ==
  \/ state[f] \in {"ready", "retained"}
  \/ state[f] = "failed" /\ retries[f] >= MaxRetries

(* Every file that was uploaded gets its summary or is given up after           *)
(* max_retries, through failures, stops and restarts, except for the rows of    *)
(* ProcessingIsAttended.                                                     *)
EveryArtifactSettles ==
  \A f \in Files : state[f] # "absent" ~> Settled(f) \/ f \in excused
=============================================================================
