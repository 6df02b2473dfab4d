-------------------- MODULE ArtifactExtraction_proofs ----------------------
(***************************************************************************)
(* Proofs about ArtifactExtraction, for any files, limits, faults and stops. *)
(*                                                                         *)
(* The invariant ties a row to the extraction that works on it (Marked,      *)
(* Attended), an attempt to the retry, the fault or the stop that pays for   *)
(* it (Charged), and the stages of the loop to what is still running         *)
(* (Drained, AtMostOneLate).  A row with a verdict is in no batch and no       *)
(* recovery looks at it, hence VerdictsAreFinal.                              *)
(***************************************************************************)
EXTENDS ArtifactExtraction, TLAPS

(* A row that can still be extracted has a retry left.                       *)
RetriesLeft ==
  \A f \in Files :
    state[f] \in {"absent", "pending", "processing"} => retries[f] < MaxRetries

Marked ==
  \A f \in Files :
    /\ worker[f] = "started" =>
         state[f] \in {"pending", "failed"} /\ retries[f] < MaxRetries
    /\ worker[f] = "calling" => state[f] = "processing"
    /\ worker[f] = "unsaved" => state[f] \in {"processing", "ready"}

(* What is left of a round has still to be started and may be.               *)
Queued ==
  \A f \in batch :
    /\ worker[f] = "none"
    /\ state[f] \in {"pending", "failed"} /\ retries[f] < MaxRetries

(* The attempts a row answers for itself.                                   *)
OwnAttempts(f) ==
  IF worker[f] = "unsaved" THEN 0
  ELSE IF state[f] = "ready" THEN MaxRetries
  ELSE IF worker[f] = "calling" THEN retries[f] + 1
  ELSE retries[f]

Charged ==
  \A f \in Files : attempts[f] <= OwnAttempts(f) + MaxRetries * faults + stops

Drained ==
  /\ process = "down" => loop = "gone"
  /\ loop \in {"idle", "wait", "gone"} => batch = {}
  /\ process = "down" => \A f \in Files : worker[f] = "none"
  /\ loop \in {"idle", "gone"} => hasty \/ \A f \in Files : worker[f] = "none"
  /\ hasty => process # "up"
  /\ process \in {"cancelled", "stopping"} => stops < MaxStops

AtMostOneLate ==
  /\ late \in {0, 1}
  /\ late = 1 => process \in {"stopping", "down"} /\ loop # "acquire"

IInv ==
  /\ TypeOK /\ RetriesLeft /\ Marked /\ Queued
  /\ ProcessingIsAttended /\ Charged /\ Drained /\ AtMostOneLate

USE DEF Alive, rowVars, history

LEMMA Limits ==
  /\ MaxRetries \in Nat /\ MaxRetries > 0
  /\ MaxFaults \in Nat /\ MaxStops \in Nat
  BY LimitsAssumption

(* One more fault pays for all the attempts a row answered for.              *)
LEMMA FaultPays ==
  ASSUME NEW n \in Nat
  PROVE  /\ MaxRetries * n \in Nat
         /\ MaxRetries * (n + 1) = MaxRetries * n + MaxRetries
         /\ MaxRetries * (1 + n) = MaxRetries * n + MaxRetries
<1>1. MaxRetries \in Nat
  BY Limits
<1>. QED BY <1>1

LEMMA InitInvariant == Init => IInv
<1>. SUFFICES ASSUME Init PROVE IInv
  OBVIOUS
<1>1. TypeOK
  <2>1. 0 \in 0 .. MaxRetries /\ 0 \in 0 .. MaxFaults /\ 0 \in 0 .. MaxStops
    BY Limits
  <2>2. late \in Nat /\ hasty \in BOOLEAN
    BY DEF Init
  <2>3. attempts \in [Files -> Nat]
    BY DEF Init
  <2>. QED BY <2>1, <2>2, <2>3 DEF Init, TypeOK
<1>2. MaxRetries * 0 = 0
  BY Limits
<1>3. Charged
  BY <1>2, Limits DEF Init, Charged, OwnAttempts
<1>4. RetriesLeft /\ Marked /\ Queued
  BY Limits DEF Init, RetriesLeft, Marked, Queued
<1>5. ProcessingIsAttended /\ Drained /\ AtMostOneLate
  BY DEF Init, ProcessingIsAttended, Drained, AtMostOneLate
<1>. QED BY <1>1, <1>3, <1>4, <1>5 DEF IInv

LEMMA SaveKeeps ==
  ASSUME IInv, NEW g \in Files, Save(g)
  PROVE  IInv'
<1>1. TypeOK'
  BY Limits DEF IInv, TypeOK, Marked, RetriesLeft, Queued, Drained, Save
<1>2. RetriesLeft'
  BY Limits DEF IInv, RetriesLeft, TypeOK, Marked, Queued, Save
<1>3. Marked'
  BY Limits DEF IInv, Marked, TypeOK, RetriesLeft, Queued, Drained, Save
<1>4. Queued'
  BY Limits DEF IInv, Queued, TypeOK, Marked, RetriesLeft, Drained, Save
<1>5. ProcessingIsAttended'
  BY Limits DEF IInv, ProcessingIsAttended, TypeOK, Marked, Drained, Save
<1>6. Charged'
  BY Limits, FaultPays, <1>1 DEF IInv, Charged, OwnAttempts, TypeOK, Marked, RetriesLeft, Save
<1>7. Drained'
  BY Limits DEF IInv, Drained, TypeOK, Save
<1>8. AtMostOneLate'
  BY Limits DEF IInv, AtMostOneLate, TypeOK, Save
<1>. QED BY <1>1, <1>2, <1>3, <1>4, <1>5, <1>6, <1>7, <1>8 DEF IInv

LEMMA AgeKeeps ==
  ASSUME IInv, NEW g \in Files, Age(g)
  PROVE  IInv'
<1>1. TypeOK'
  BY Limits DEF IInv, TypeOK, Marked, RetriesLeft, Queued, Drained, Age
<1>2. RetriesLeft'
  BY Limits DEF IInv, RetriesLeft, TypeOK, Marked, Queued, Age
<1>3. Marked'
  BY Limits DEF IInv, Marked, TypeOK, RetriesLeft, Queued, Drained, Age
<1>4. Queued'
  BY Limits DEF IInv, Queued, TypeOK, Marked, RetriesLeft, Drained, Age
<1>5. ProcessingIsAttended'
  BY Limits DEF IInv, ProcessingIsAttended, TypeOK, Marked, Drained, Age
<1>6. Charged'
  BY Limits, FaultPays, <1>1 DEF IInv, Charged, OwnAttempts, TypeOK, Marked, RetriesLeft, Age
<1>7. Drained'
  BY Limits DEF IInv, Drained, TypeOK, Age
<1>8. AtMostOneLate'
  BY Limits DEF IInv, AtMostOneLate, TypeOK, Age
<1>. QED BY <1>1, <1>2, <1>3, <1>4, <1>5, <1>6, <1>7, <1>8 DEF IInv

LEMMA RestKeeps ==
  ASSUME IInv, NEW g \in Files, Rest(g)
  PROVE  IInv'
<1>1. TypeOK'
  BY Limits DEF IInv, TypeOK, Marked, RetriesLeft, Queued, Drained, Rest
<1>2. RetriesLeft'
  BY Limits DEF IInv, RetriesLeft, TypeOK, Marked, Queued, Rest
<1>3. Marked'
  BY Limits DEF IInv, Marked, TypeOK, RetriesLeft, Queued, Drained, Rest
<1>4. Queued'
  BY Limits DEF IInv, Queued, TypeOK, Marked, RetriesLeft, Drained, Rest
<1>5. ProcessingIsAttended'
  BY Limits DEF IInv, ProcessingIsAttended, TypeOK, Marked, Drained, Rest
<1>6. Charged'
  BY Limits, FaultPays, <1>1 DEF IInv, Charged, OwnAttempts, TypeOK, Marked, RetriesLeft, Rest
<1>7. Drained'
  BY Limits DEF IInv, Drained, TypeOK, Rest
<1>8. AtMostOneLate'
  BY Limits DEF IInv, AtMostOneLate, TypeOK, Rest
<1>. QED BY <1>1, <1>2, <1>3, <1>4, <1>5, <1>6, <1>7, <1>8 DEF IInv

LEMMA CollectKeeps ==
  ASSUME IInv, Collect
  PROVE  IInv'
<1>1. TypeOK'
  BY Limits DEF IInv, TypeOK, Marked, RetriesLeft, Queued, Drained, Collect, LoopOnly, Due
<1>2. RetriesLeft'
  BY Limits DEF IInv, RetriesLeft, TypeOK, Marked, Queued, Collect, LoopOnly, Due
<1>3. Marked'
  BY Limits DEF IInv, Marked, TypeOK, RetriesLeft, Queued, Drained, Collect, LoopOnly, Due
<1>4. Queued'
  BY Limits DEF IInv, Queued, TypeOK, Marked, RetriesLeft, Drained, Collect, LoopOnly, Due
<1>5. ProcessingIsAttended'
  BY Limits DEF IInv, ProcessingIsAttended, TypeOK, Marked, Drained, Collect, LoopOnly, Due
<1>6. Charged'
  BY Limits, FaultPays, <1>1 DEF IInv, Charged, OwnAttempts, TypeOK, Marked, RetriesLeft, Collect, LoopOnly, Due
<1>7. Drained'
  BY Limits DEF IInv, Drained, TypeOK, Collect, LoopOnly, Due
<1>8. AtMostOneLate'
  BY Limits DEF IInv, AtMostOneLate, TypeOK, Collect, LoopOnly, Due
<1>. QED BY <1>1, <1>2, <1>3, <1>4, <1>5, <1>6, <1>7, <1>8 DEF IInv

LEMMA ChooseKeeps ==
  ASSUME IInv, Choose
  PROVE  IInv'
<1>1. TypeOK'
  BY Limits DEF IInv, TypeOK, Marked, RetriesLeft, Queued, Drained, Choose, LoopOnly
<1>2. RetriesLeft'
  BY Limits DEF IInv, RetriesLeft, TypeOK, Marked, Queued, Choose, LoopOnly
<1>3. Marked'
  BY Limits DEF IInv, Marked, TypeOK, RetriesLeft, Queued, Drained, Choose, LoopOnly
<1>4. Queued'
  BY Limits DEF IInv, Queued, TypeOK, Marked, RetriesLeft, Drained, Choose, LoopOnly
<1>5. ProcessingIsAttended'
  BY Limits DEF IInv, ProcessingIsAttended, TypeOK, Marked, Drained, Choose, LoopOnly
<1>6. Charged'
  BY Limits, FaultPays, <1>1 DEF IInv, Charged, OwnAttempts, TypeOK, Marked, RetriesLeft, Choose, LoopOnly
<1>7. Drained'
  BY Limits DEF IInv, Drained, TypeOK, Choose, LoopOnly
<1>8. AtMostOneLate'
  BY Limits DEF IInv, AtMostOneLate, TypeOK, Choose, LoopOnly
<1>. QED BY <1>1, <1>2, <1>3, <1>4, <1>5, <1>6, <1>7, <1>8 DEF IInv

LEMMA LaunchKeeps ==
  ASSUME IInv, NEW g \in Files, Launch(g)
  PROVE  IInv'
<1>1. TypeOK'
  BY Limits DEF IInv, TypeOK, Marked, RetriesLeft, Queued, Drained, Launch, Busy
<1>2. RetriesLeft'
  BY Limits DEF IInv, RetriesLeft, TypeOK, Marked, Queued, Launch, Busy
<1>3. Marked'
  BY Limits DEF IInv, Marked, TypeOK, RetriesLeft, Queued, Drained, Launch, Busy
<1>4. Queued'
  BY Limits DEF IInv, Queued, TypeOK, Marked, RetriesLeft, Drained, Launch, Busy
<1>5. ProcessingIsAttended'
  BY Limits DEF IInv, ProcessingIsAttended, TypeOK, Marked, Drained, Launch, Busy
<1>6. Charged'
  <2>1. /\ worker[g] = "none"
        /\ UNCHANGED <<state, retries, attempts, faults, stops>>
        /\ worker' = [worker EXCEPT ![g] = "started"]
    BY DEF IInv, Queued, Launch
  <2>2. \A f \in Files : OwnAttempts(f)' = OwnAttempts(f)
    BY <2>1 DEF IInv, TypeOK, OwnAttempts
  <2>. QED BY <2>1, <2>2 DEF IInv, Charged
<1>7. Drained'
  BY Limits DEF IInv, Drained, TypeOK, Launch, Busy
<1>8. AtMostOneLate'
  BY Limits DEF IInv, AtMostOneLate, TypeOK, Launch, Busy
<1>. QED BY <1>1, <1>2, <1>3, <1>4, <1>5, <1>6, <1>7, <1>8 DEF IInv

LEMMA WaitKeeps ==
  ASSUME IInv, Wait
  PROVE  IInv'
<1>1. TypeOK'
  BY Limits DEF IInv, TypeOK, Marked, RetriesLeft, Queued, Drained, Wait, LoopOnly, Busy
<1>2. RetriesLeft'
  BY Limits DEF IInv, RetriesLeft, TypeOK, Marked, Queued, Wait, LoopOnly, Busy
<1>3. Marked'
  BY Limits DEF IInv, Marked, TypeOK, RetriesLeft, Queued, Drained, Wait, LoopOnly, Busy
<1>4. Queued'
  BY Limits DEF IInv, Queued, TypeOK, Marked, RetriesLeft, Drained, Wait, LoopOnly, Busy
<1>5. ProcessingIsAttended'
  BY Limits DEF IInv, ProcessingIsAttended, TypeOK, Marked, Drained, Wait, LoopOnly, Busy
<1>6. Charged'
  BY Limits, FaultPays, <1>1 DEF IInv, Charged, OwnAttempts, TypeOK, Marked, RetriesLeft, Wait, LoopOnly, Busy
<1>7. Drained'
  BY Limits DEF IInv, Drained, TypeOK, Wait, LoopOnly, Busy
<1>8. AtMostOneLate'
  BY Limits DEF IInv, AtMostOneLate, TypeOK, Wait, LoopOnly, Busy
<1>. QED BY <1>1, <1>2, <1>3, <1>4, <1>5, <1>6, <1>7, <1>8 DEF IInv

LEMMA LeaveKeeps ==
  ASSUME IInv, Leave
  PROVE  IInv'
<1>1. TypeOK'
  BY Limits DEF IInv, TypeOK, Marked, RetriesLeft, Queued, Drained, Leave, LoopOnly
<1>2. RetriesLeft'
  BY Limits DEF IInv, RetriesLeft, TypeOK, Marked, Queued, Leave, LoopOnly
<1>3. Marked'
  BY Limits DEF IInv, Marked, TypeOK, RetriesLeft, Queued, Drained, Leave, LoopOnly
<1>4. Queued'
  BY Limits DEF IInv, Queued, TypeOK, Marked, RetriesLeft, Drained, Leave, LoopOnly
<1>5. ProcessingIsAttended'
  BY Limits DEF IInv, ProcessingIsAttended, TypeOK, Marked, Drained, Leave, LoopOnly
<1>6. Charged'
  BY Limits, FaultPays, <1>1 DEF IInv, Charged, OwnAttempts, TypeOK, Marked, RetriesLeft, Leave, LoopOnly
<1>7. Drained'
  BY Limits DEF IInv, Drained, TypeOK, Leave, LoopOnly
<1>8. AtMostOneLate'
  BY Limits DEF IInv, AtMostOneLate, TypeOK, Leave, LoopOnly
<1>. QED BY <1>1, <1>2, <1>3, <1>4, <1>5, <1>6, <1>7, <1>8 DEF IInv

LEMMA ClaimKeeps ==
  ASSUME IInv, NEW g \in Files, Claim(g)
  PROVE  IInv'
<1>1. TypeOK'
  BY Limits DEF IInv, TypeOK, Marked, RetriesLeft, Queued, Drained, Claim, WorkerOnly
<1>2. RetriesLeft'
  BY Limits DEF IInv, RetriesLeft, TypeOK, Marked, Queued, Claim, WorkerOnly
<1>3. Marked'
  BY Limits DEF IInv, Marked, TypeOK, RetriesLeft, Queued, Drained, Claim, WorkerOnly
<1>4. Queued'
  BY Limits DEF IInv, Queued, TypeOK, Marked, RetriesLeft, Drained, Claim, WorkerOnly
<1>5. ProcessingIsAttended'
  BY Limits DEF IInv, ProcessingIsAttended, TypeOK, Marked, Drained, Claim, WorkerOnly
<1>6. Charged'
  BY Limits, FaultPays, <1>1 DEF IInv, Charged, OwnAttempts, TypeOK, Marked, RetriesLeft, Claim, WorkerOnly
<1>7. Drained'
  BY Limits DEF IInv, Drained, TypeOK, Claim, WorkerOnly
<1>8. AtMostOneLate'
  BY Limits DEF IInv, AtMostOneLate, TypeOK, Claim, WorkerOnly
<1>. QED BY <1>1, <1>2, <1>3, <1>4, <1>5, <1>6, <1>7, <1>8 DEF IInv

LEMMA ClaimFailsKeeps ==
  ASSUME IInv, NEW g \in Files, ClaimFails(g)
  PROVE  IInv'
<1>1. TypeOK'
  BY Limits DEF IInv, TypeOK, Marked, RetriesLeft, Queued, Drained, ClaimFails, WorkerOnly, Fault
<1>2. RetriesLeft'
  BY Limits DEF IInv, RetriesLeft, TypeOK, Marked, Queued, ClaimFails, WorkerOnly, Fault
<1>3. Marked'
  BY Limits DEF IInv, Marked, TypeOK, RetriesLeft, Queued, Drained, ClaimFails, WorkerOnly, Fault
<1>4. Queued'
  BY Limits DEF IInv, Queued, TypeOK, Marked, RetriesLeft, Drained, ClaimFails, WorkerOnly, Fault
<1>5. ProcessingIsAttended'
  BY Limits DEF IInv, ProcessingIsAttended, TypeOK, Marked, Drained, ClaimFails, WorkerOnly, Fault
<1>6. Charged'
  BY Limits, FaultPays, <1>1 DEF IInv, Charged, OwnAttempts, TypeOK, Marked, RetriesLeft, ClaimFails, WorkerOnly, Fault
<1>7. Drained'
  BY Limits DEF IInv, Drained, TypeOK, ClaimFails, WorkerOnly, Fault
<1>8. AtMostOneLate'
  BY Limits DEF IInv, AtMostOneLate, TypeOK, ClaimFails, WorkerOnly, Fault
<1>. QED BY <1>1, <1>2, <1>3, <1>4, <1>5, <1>6, <1>7, <1>8 DEF IInv

LEMMA ReadyKeeps ==
  ASSUME IInv, NEW g \in Files, Ready(g)
  PROVE  IInv'
<1>1. TypeOK'
  BY Limits DEF IInv, TypeOK, Marked, RetriesLeft, Queued, Drained, Ready, WorkerOnly
<1>2. RetriesLeft'
  BY Limits DEF IInv, RetriesLeft, TypeOK, Marked, Queued, Ready, WorkerOnly
<1>3. Marked'
  BY Limits DEF IInv, Marked, TypeOK, RetriesLeft, Queued, Drained, Ready, WorkerOnly
<1>4. Queued'
  BY Limits DEF IInv, Queued, TypeOK, Marked, RetriesLeft, Drained, Ready, WorkerOnly
<1>5. ProcessingIsAttended'
  BY Limits DEF IInv, ProcessingIsAttended, TypeOK, Marked, Drained, Ready, WorkerOnly
<1>6. Charged'
  BY Limits, FaultPays, <1>1 DEF IInv, Charged, OwnAttempts, TypeOK, Marked, RetriesLeft, Ready, WorkerOnly
<1>7. Drained'
  BY Limits DEF IInv, Drained, TypeOK, Ready, WorkerOnly
<1>8. AtMostOneLate'
  BY Limits DEF IInv, AtMostOneLate, TypeOK, Ready, WorkerOnly
<1>. QED BY <1>1, <1>2, <1>3, <1>4, <1>5, <1>6, <1>7, <1>8 DEF IInv

LEMMA ReadyFailsKeeps ==
  ASSUME IInv, NEW g \in Files, ReadyFails(g)
  PROVE  IInv'
<1>1. TypeOK'
  BY Limits DEF IInv, TypeOK, Marked, RetriesLeft, Queued, Drained, ReadyFails, WorkerOnly, Fault
<1>2. RetriesLeft'
  BY Limits DEF IInv, RetriesLeft, TypeOK, Marked, Queued, ReadyFails, WorkerOnly, Fault
<1>3. Marked'
  BY Limits DEF IInv, Marked, TypeOK, RetriesLeft, Queued, Drained, ReadyFails, WorkerOnly, Fault
<1>4. Queued'
  BY Limits DEF IInv, Queued, TypeOK, Marked, RetriesLeft, Drained, ReadyFails, WorkerOnly, Fault
<1>5. ProcessingIsAttended'
  BY Limits DEF IInv, ProcessingIsAttended, TypeOK, Marked, Drained, ReadyFails, WorkerOnly, Fault
<1>6. Charged'
  BY Limits, FaultPays, <1>1 DEF IInv, Charged, OwnAttempts, TypeOK, Marked, RetriesLeft, ReadyFails, WorkerOnly, Fault
<1>7. Drained'
  BY Limits DEF IInv, Drained, TypeOK, ReadyFails, WorkerOnly, Fault
<1>8. AtMostOneLate'
  BY Limits DEF IInv, AtMostOneLate, TypeOK, ReadyFails, WorkerOnly, Fault
<1>. QED BY <1>1, <1>2, <1>3, <1>4, <1>5, <1>6, <1>7, <1>8 DEF IInv

LEMMA MarkFailedKeeps ==
  ASSUME IInv, NEW g \in Files, MarkFailed(g)
  PROVE  IInv'
<1>1. TypeOK'
  BY Limits DEF IInv, TypeOK, Marked, RetriesLeft, Queued, Drained, MarkFailed, WorkerOnly, Failing, RecordFailure, Remembered
<1>2. RetriesLeft'
  BY Limits DEF IInv, RetriesLeft, TypeOK, Marked, Queued, MarkFailed, WorkerOnly, Failing, RecordFailure, Remembered
<1>3. Marked'
  BY Limits DEF IInv, Marked, TypeOK, RetriesLeft, Queued, Drained, MarkFailed, WorkerOnly, Failing, RecordFailure, Remembered
<1>4. Queued'
  BY Limits DEF IInv, Queued, TypeOK, Marked, RetriesLeft, Drained, MarkFailed, WorkerOnly, Failing, RecordFailure, Remembered
<1>5. ProcessingIsAttended'
  BY Limits DEF IInv, ProcessingIsAttended, TypeOK, Marked, Drained, MarkFailed, WorkerOnly, Failing, RecordFailure, Remembered
<1>6. Charged'
  BY Limits, FaultPays, <1>1 DEF IInv, Charged, OwnAttempts, TypeOK, Marked, RetriesLeft, MarkFailed, WorkerOnly, Failing, RecordFailure, Remembered
<1>7. Drained'
  BY Limits DEF IInv, Drained, TypeOK, MarkFailed, WorkerOnly, Failing, RecordFailure, Remembered
<1>8. AtMostOneLate'
  BY Limits DEF IInv, AtMostOneLate, TypeOK, MarkFailed, WorkerOnly, Failing, RecordFailure, Remembered
<1>. QED BY <1>1, <1>2, <1>3, <1>4, <1>5, <1>6, <1>7, <1>8 DEF IInv

LEMMA MarkFailsKeeps ==
  ASSUME IInv, NEW g \in Files, MarkFails(g)
  PROVE  IInv'
<1>1. TypeOK'
  BY Limits DEF IInv, TypeOK, Marked, RetriesLeft, Queued, Drained, MarkFails, WorkerOnly, Fault, Failing, RecordFailure, Remembered
<1>2. RetriesLeft'
  BY Limits DEF IInv, RetriesLeft, TypeOK, Marked, Queued, MarkFails, WorkerOnly, Fault, Failing, RecordFailure, Remembered
<1>3. Marked'
  BY Limits DEF IInv, Marked, TypeOK, RetriesLeft, Queued, Drained, MarkFails, WorkerOnly, Fault, Failing, RecordFailure, Remembered
<1>4. Queued'
  BY Limits DEF IInv, Queued, TypeOK, Marked, RetriesLeft, Drained, MarkFails, WorkerOnly, Fault, Failing, RecordFailure, Remembered
<1>5. ProcessingIsAttended'
  BY Limits DEF IInv, ProcessingIsAttended, TypeOK, Marked, Drained, MarkFails, WorkerOnly, Fault, Failing, RecordFailure, Remembered
<1>6. Charged'
  BY Limits, FaultPays, <1>1 DEF IInv, Charged, OwnAttempts, TypeOK, Marked, RetriesLeft, MarkFails, WorkerOnly, Fault, Failing, RecordFailure, Remembered
<1>7. Drained'
  BY Limits DEF IInv, Drained, TypeOK, MarkFails, WorkerOnly, Fault, Failing, RecordFailure, Remembered
<1>8. AtMostOneLate'
  BY Limits DEF IInv, AtMostOneLate, TypeOK, MarkFails, WorkerOnly, Fault, Failing, RecordFailure, Remembered
<1>. QED BY <1>1, <1>2, <1>3, <1>4, <1>5, <1>6, <1>7, <1>8 DEF IInv

LEMMA CancelKeeps ==
  ASSUME IInv, Cancel
  PROVE  IInv'
<1>1. TypeOK'
  BY Limits DEF IInv, TypeOK, Marked, RetriesLeft, Queued, Drained, Cancel
<1>2. RetriesLeft'
  BY Limits DEF IInv, RetriesLeft, TypeOK, Marked, Queued, Cancel
<1>3. Marked'
  BY Limits DEF IInv, Marked, TypeOK, RetriesLeft, Queued, Drained, Cancel
<1>4. Queued'
  BY Limits DEF IInv, Queued, TypeOK, Marked, RetriesLeft, Drained, Cancel
<1>5. ProcessingIsAttended'
  BY Limits DEF IInv, ProcessingIsAttended, TypeOK, Marked, Drained, Cancel
<1>6. Charged'
  BY Limits, FaultPays, <1>1 DEF IInv, Charged, OwnAttempts, TypeOK, Marked, RetriesLeft, Cancel
<1>7. Drained'
  BY Limits DEF IInv, Drained, TypeOK, Cancel
<1>8. AtMostOneLate'
  BY Limits DEF IInv, AtMostOneLate, TypeOK, Cancel
<1>. QED BY <1>1, <1>2, <1>3, <1>4, <1>5, <1>6, <1>7, <1>8 DEF IInv

LEMMA StopKeeps ==
  ASSUME IInv, Stop
  PROVE  IInv'
<1>1. TypeOK'
  BY Limits DEF IInv, TypeOK, Marked, RetriesLeft, Queued, Drained, Stop
<1>2. RetriesLeft'
  BY Limits DEF IInv, RetriesLeft, TypeOK, Marked, Queued, Stop
<1>3. Marked'
  BY Limits DEF IInv, Marked, TypeOK, RetriesLeft, Queued, Drained, Stop
<1>4. Queued'
  BY Limits DEF IInv, Queued, TypeOK, Marked, RetriesLeft, Drained, Stop
<1>5. ProcessingIsAttended'
  BY Limits DEF IInv, ProcessingIsAttended, TypeOK, Marked, Drained, Stop
<1>6. Charged'
  BY Limits, FaultPays, <1>1 DEF IInv, Charged, OwnAttempts, TypeOK, Marked, RetriesLeft, Stop
<1>7. Drained'
  BY Limits DEF IInv, Drained, TypeOK, Stop
<1>8. AtMostOneLate'
  BY Limits DEF IInv, AtMostOneLate, TypeOK, Stop
<1>. QED BY <1>1, <1>2, <1>3, <1>4, <1>5, <1>6, <1>7, <1>8 DEF IInv

LEMMA ExitKeeps ==
  ASSUME IInv, Exit
  PROVE  IInv'
<1>1. TypeOK'
  BY Limits DEF IInv, TypeOK, Marked, RetriesLeft, Queued, Drained, Exit, Halt
<1>2. RetriesLeft'
  BY Limits DEF IInv, RetriesLeft, TypeOK, Marked, Queued, Exit, Halt
<1>3. Marked'
  BY Limits DEF IInv, Marked, TypeOK, RetriesLeft, Queued, Drained, Exit, Halt
<1>4. Queued'
  BY Limits DEF IInv, Queued, TypeOK, Marked, RetriesLeft, Drained, Exit, Halt
<1>5. ProcessingIsAttended'
  BY Limits DEF IInv, ProcessingIsAttended, TypeOK, Marked, Drained, Exit, Halt
<1>6. Charged'
  BY Limits, FaultPays, <1>1 DEF IInv, Charged, OwnAttempts, TypeOK, Marked, RetriesLeft, Exit, Halt
<1>7. Drained'
  BY Limits DEF IInv, Drained, TypeOK, Exit, Halt
<1>8. AtMostOneLate'
  BY Limits DEF IInv, AtMostOneLate, TypeOK, Exit, Halt
<1>. QED BY <1>1, <1>2, <1>3, <1>4, <1>5, <1>6, <1>7, <1>8 DEF IInv

LEMMA CrashKeeps ==
  ASSUME IInv, Crash
  PROVE  IInv'
<1>1. TypeOK'
  BY Limits DEF IInv, TypeOK, Marked, RetriesLeft, Queued, Drained, Crash, Halt
<1>2. RetriesLeft'
  BY Limits DEF IInv, RetriesLeft, TypeOK, Marked, Queued, Crash, Halt
<1>3. Marked'
  BY Limits DEF IInv, Marked, TypeOK, RetriesLeft, Queued, Drained, Crash, Halt
<1>4. Queued'
  BY Limits DEF IInv, Queued, TypeOK, Marked, RetriesLeft, Drained, Crash, Halt
<1>5. ProcessingIsAttended'
  BY Limits DEF IInv, ProcessingIsAttended, TypeOK, Marked, Drained, Crash, Halt
<1>6. Charged'
  BY Limits, FaultPays, <1>1 DEF IInv, Charged, OwnAttempts, TypeOK, Marked, RetriesLeft, Crash, Halt
<1>7. Drained'
  BY Limits DEF IInv, Drained, TypeOK, Crash, Halt
<1>8. AtMostOneLate'
  BY Limits DEF IInv, AtMostOneLate, TypeOK, Crash, Halt
<1>. QED BY <1>1, <1>2, <1>3, <1>4, <1>5, <1>6, <1>7, <1>8 DEF IInv

LEMMA StartKeeps ==
  ASSUME IInv, Start
  PROVE  IInv'
<1>1. TypeOK'
  <2>1. state' \in [Files ->
          {"absent", "pending", "retained", "processing", "ready", "failed"}]
    <3>1. CASE UNCHANGED state
      BY <3>1 DEF IInv, TypeOK
    <3>2. CASE state' = [f \in Files |->
                           IF f \in Recoverable THEN "pending" ELSE state[f]]
      <4>. DEFINE S == {"absent", "pending", "retained", "processing", "ready", "failed"}
      <4>1. \A f \in Files : (IF f \in Recoverable THEN "pending" ELSE state[f]) \in S
        BY DEF IInv, TypeOK
      <4>. QED BY <3>2, <4>1
    <3>. QED BY <3>1, <3>2 DEF Start
  <2>2. excused' \subseteq Files /\ faults' \in 0 .. MaxFaults
    BY Limits DEF IInv, TypeOK, Start, Fault, Interrupted
  <2>. QED BY <2>1, <2>2 DEF IInv, TypeOK, Start
<1>2. RetriesLeft'
  BY Limits DEF IInv, RetriesLeft, TypeOK, Marked, Queued, Start, Fault, Recoverable, Interrupted
<1>3. Marked'
  BY Limits DEF IInv, Marked, TypeOK, RetriesLeft, Queued, Drained, Start, Fault, Recoverable, Interrupted
<1>4. Queued'
  BY Limits DEF IInv, Queued, TypeOK, Marked, RetriesLeft, Drained, Start, Fault, Recoverable, Interrupted
<1>5. ProcessingIsAttended'
  BY Limits DEF IInv, ProcessingIsAttended, TypeOK, Marked, Drained, Start, Fault, Recoverable, Interrupted
<1>6. Charged'
  BY Limits, FaultPays, <1>1 DEF IInv, Charged, OwnAttempts, TypeOK, Marked, RetriesLeft, Start, Fault, Recoverable, Interrupted
<1>7. Drained'
  BY Limits DEF IInv, Drained, TypeOK, Start, Fault, Recoverable, Interrupted
<1>8. AtMostOneLate'
  BY Limits DEF IInv, AtMostOneLate, TypeOK, Start, Fault, Recoverable, Interrupted
<1>. QED BY <1>1, <1>2, <1>3, <1>4, <1>5, <1>6, <1>7, <1>8 DEF IInv

LEMMA StutterKeeps ==
  ASSUME IInv, UNCHANGED vars
  PROVE  IInv'
<1>. USE DEF vars
<1>1. (TypeOK /\ RetriesLeft /\ Marked /\ Queued)'
  BY DEF IInv, TypeOK, RetriesLeft, Marked, Queued
<1>2. (ProcessingIsAttended /\ Drained /\ AtMostOneLate)'
  BY DEF IInv, ProcessingIsAttended, Drained, AtMostOneLate
<1>3. Charged'
  BY DEF IInv, Charged, OwnAttempts
<1>. QED BY <1>1, <1>2, <1>3 DEF IInv

LEMMA NextKeeps ==
  ASSUME IInv, Next
  PROVE  IInv'
<1>1. CASE \E f \in Files : Save(f) \/ Age(f) \/ Rest(f)
  BY <1>1, SaveKeeps, AgeKeeps, RestKeeps
<1>2. CASE \E f \in Files : Extract(f)
  BY <1>2, ClaimKeeps, ReadyKeeps, MarkFailedKeeps DEF Extract
<1>3. CASE \E f \in Files : Breakdown(f)
  BY <1>3, ClaimFailsKeeps, ReadyFailsKeeps, MarkFailsKeeps DEF Breakdown
<1>4. CASE Loop
  BY <1>4, CollectKeeps, ChooseKeeps, LaunchKeeps, WaitKeeps, LeaveKeeps DEF Loop
<1>5. CASE Cancel \/ Stop \/ Exit \/ Crash \/ Start
  BY <1>5, CancelKeeps, StopKeeps, ExitKeeps, CrashKeeps, StartKeeps
<1>. QED BY <1>1, <1>2, <1>3, <1>4, <1>5 DEF Next

(* The invariant holds throughout.                                          *)
THEOREM Invariance == Spec => []IInv
<1>1. IInv /\ [Next]_vars => IInv'
  BY NextKeeps, StutterKeeps
<1>. QED BY InitInvariant, <1>1, PTL DEF Spec

(* Every variable keeps its type: in particular no row counts more failures   *)
(* than max_retries.                                                       *)
THEOREM TypeCorrect == Spec => []TypeOK
<1>1. IInv => TypeOK
  BY DEF IInv
<1>. QED BY Invariance, <1>1, PTL

(* A row is in processing only while an extraction works on it, but for the    *)
(* rows whose interruption nothing could undo.                              *)
THEOREM Attended == Spec => []ProcessingIsAttended
<1>1. IInv => ProcessingIsAttended
  BY DEF IInv
<1>. QED BY Invariance, <1>1, PTL

(* The model is called for a file max_retries times, once more per stop, and  *)
(* max_retries times more per failed statement.                             *)
THEOREM AttemptsBounded == Spec => []AttemptsAreBounded
<1>1. IInv => AttemptsAreBounded
  <2>. SUFFICES ASSUME IInv, NEW f \in Files
                PROVE  attempts[f] <= MaxRetries * (1 + faults) + stops
    BY DEF AttemptsAreBounded
  <2>1. /\ attempts[f] \in Nat /\ retries[f] \in 0 .. MaxRetries
        /\ faults \in Nat /\ stops \in Nat
    BY Limits DEF IInv, TypeOK
  <2>2. OwnAttempts(f) \in 0 .. MaxRetries
    BY <2>1, Limits DEF IInv, RetriesLeft, Marked, OwnAttempts
  <2>3. attempts[f] <= OwnAttempts(f) + MaxRetries * faults + stops
    BY DEF IInv, Charged
  <2>4. /\ MaxRetries * faults \in Nat
        /\ MaxRetries * (1 + faults) = MaxRetries * faults + MaxRetries
    BY <2>1, FaultPays
  <2>. QED BY <2>1, <2>2, <2>3, <2>4, Limits
<1>. QED BY Invariance, <1>1, PTL

(* After Stop was called at most one more extraction is started.              *)
THEOREM LateStarts == Spec => []OneLateStart
<1>1. IInv => OneLateStart
  BY DEF IInv, AtMostOneLate, OneLateStart
<1>. QED BY Invariance, <1>1, PTL

(* A graceful stop ends no extraction, unless the loop left in the middle of   *)
(* a round.                                                                *)
THEOREM GracefulStop == Spec => StopWaits
<1>1. IInv /\ [Next]_vars => [Exit => Busy = {} \/ hasty]_vars
  BY DEF IInv, Drained, Exit, Busy
<1>. QED BY Invariance, <1>1, PTL DEF Spec, StopWaits

(* What is summarised, given up or retained is never extracted again.         *)
THEOREM DueOnly ==
  Spec => [](\A f \in Files : worker[f] \in {"started", "calling"} => ~Settled(f))
<1>1. IInv => \A f \in Files :
        worker[f] \in {"started", "calling"} => ~Settled(f)
  <2>. SUFFICES ASSUME IInv, NEW f \in Files,
                       worker[f] \in {"started", "calling"}
                PROVE  ~Settled(f)
    OBVIOUS
  <2>1. retries[f] \in Nat
    BY Limits DEF IInv, TypeOK
  <2>. QED BY <2>1, Limits DEF IInv, Marked, Settled
<1>. QED BY Invariance, <1>1, PTL

(* A verdict is final: when a file is summarised, given up or retained and no     *)
(* extraction holds it, no round that was collected before, no late writer, no    *)
(* failed statement, crash or recovery changes its row or works on it again.      *)
RowStands(f) ==
  state'[f] = state[f] /\ retries'[f] = retries[f] /\ worker'[f] = "none"

VerdictIsFinal ==
  [][\A f \in Files : Settled(f) /\ worker[f] = "none" => RowStands(f)]_vars

LEMMA SettledStays ==
  ASSUME IInv, [Next]_vars, NEW f \in Files, Settled(f), worker[f] = "none"
  PROVE  RowStands(f)
<1>. USE DEF RowStands
<1>. USE Limits DEF IInv, TypeOK, Settled
<1>0. /\ state[f] \notin {"absent", "pending", "processing"}
      /\ f \notin batch
  BY DEF Queued
<1>1. ASSUME NEW g \in Files, Save(g) \/ Age(g) \/ Rest(g) PROVE RowStands(f)
  BY <1>0, <1>1 DEF Save, Age, Rest
<1>2. ASSUME NEW g \in Files, Extract(g) \/ Breakdown(g) PROVE RowStands(f)
  <2>1. worker[g] # "none" /\ g # f
    BY <1>2 DEF Extract, Breakdown, Claim, Ready, MarkFailed, ClaimFails,
                ReadyFails, MarkFails, Failing
  <2>. QED BY <1>2, <2>1 DEF Extract, Breakdown, Claim, Ready, MarkFailed,
         ClaimFails, ReadyFails, MarkFails, RecordFailure, WorkerOnly
<1>3. CASE Loop
  BY <1>0, <1>3 DEF Loop, Collect, Choose, Launch, Wait, Leave, LoopOnly
<1>4. CASE Cancel \/ Stop \/ Exit \/ Crash \/ UNCHANGED vars
  BY <1>4 DEF Cancel, Stop, Exit, Crash, Halt, vars
<1>5. CASE Start
  BY <1>0, <1>5 DEF Start, Recoverable
<1>. QED BY <1>1, <1>2, <1>3, <1>4, <1>5 DEF Next

(* Nothing moves a row away from its verdict.                                  *)
THEOREM VerdictsAreFinal == Spec => VerdictIsFinal
<1>1. IInv /\ [Next]_vars =>
        \A f \in Files : Settled(f) /\ worker[f] = "none" => RowStands(f)
  BY SettledStays
<1>. QED BY Invariance, <1>1, PTL DEF Spec, VerdictIsFinal
====
