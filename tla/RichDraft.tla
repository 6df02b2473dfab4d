----------------------------- MODULE RichDraft ------------------------------
(***************************************************************************)
(* The live preview of a reply in a private chat (bot/rich_streaming.go):    *)
(* a draft that Telegram shows until Ttl after its last update.              *)
(*                                                                         *)
(* The agent's callbacks, the callback of one coalescing timer and the       *)
(* heartbeat goroutine share a mutex, which is held during a request: what    *)
(* takes it waits while sending # "none".  Time is a number of units; Tick   *)
(* is the clock, and a callback that is due runs before the clock moves on    *)
(* once the mutex is free.  A timer callback that was overtaken by another    *)
(* holder of the mutex finds another generation and does nothing: it is no    *)
(* step.  A snapshot is the moment of the turn it was rendered at: how many    *)
(* status lines had been said and how many pieces of content had come.  What  *)
(* it displays of them (the first and the newest 23 lines, the content with   *)
(* its media directives removed) is left out, and two snapshots that differ   *)
(* are taken to be displayed differently.  Whether content waits for the      *)
(* throttle, whether a snapshot can be rendered and what Telegram answers is  *)
(* left open.                                                              *)
(***************************************************************************)
EXTENDS Integers

CONSTANTS
  Gap,          (* richDraftMinUpdateInterval                              *)
  Beat,         (* richDraftHeartbeatInterval                              *)
  Timeout,      (* richDraftRequestTimeout                                 *)
  Backoff,      (* richDraftTransientBackoff                               *)
  CatchUp,      (* richDraftTerminalCatchupBudget                          *)
  Ttl,          (* After so long without an update Telegram drops a draft.   *)
  Trip,         (* A request that is accepted is answered within this time.  *)
  RetryAfter,   (* What Telegram may ask for when it is called too often.    *)
  MaxStatuses,  (* Bound: status lines that are said.                       *)
  MaxContent,   (* Bound: pieces of content.                                *)
  MaxFaults     (* Bound: requests that fail and may be repeated.           *)

ASSUME TimesAssumption ==
  /\ Gap \in Nat \ {0} /\ Beat \in Nat /\ Timeout \in Nat /\ Backoff \in Nat
  /\ CatchUp \in Nat /\ Ttl \in Nat /\ Trip \in 0 .. Timeout
  /\ RetryAfter \subseteq Nat
  /\ Gap <= Backoff /\ Gap < Beat

ASSUME BoundsAssumption ==
  MaxStatuses \in Nat /\ MaxContent \in Nat /\ MaxFaults \in Nat

(* A heartbeat, one request that fails, its backoff and two answers fit into   *)
(* the life of a draft.                                                    *)
ASSUME RoomAssumption == Beat + Timeout + Backoff + Gap + Trip + Trip < Ttl

VARIABLES
  phase,       (* "live", "disabled", "closing" (the catch-up is under way)   *)
               (* or "closed"                                              *)
  statuses,    (* Lines said: appended to statusLog, dropped again or not   *)
  content,     (* Pieces received into buf                                 *)
  overflow,
  frozen,      (* frozenPayload                                            *)
  shown,       (* lastPayload: the last snapshot known to be accepted        *)
  armed,       (* refreshTimer # nil                                       *)
  timer,       (* Time until it fires                                      *)
  force,       (* refreshForce                                             *)
  beating,     (* The heartbeat goroutine runs.                             *)
  beat,        (* Time until it wakes                                      *)
  sending,     (* Why a request is under way; "none" if there is none        *)
  snapshot,    (* What it carries                                          *)
  again,       (* It is repeated when it fails, although nothing changed.     *)
  arrived,     (* Telegram has it.                                         *)
  age,         (* How long it is under way                                 *)
  accepted,    (* Time since lastDraftAt                                   *)
  attempted,   (* Time since lastAttemptAt                                 *)
  cooldown,    (* Time until cooldownTill                                  *)
  ttl,         (* Time until Telegram drops the draft                       *)
  failed,      (* History: requests that failed since the last accepted one  *)
  patient,     (* History: Telegram asked for more than Backoff since then    *)
  skipped,     (* History: the last snapshot could not be rendered.          *)
  faults       (* History: requests that failed                             *)

source == <<statuses, content, overflow, frozen>>
refresh == <<armed, timer, force>>
heart == <<beating, beat>>
request == <<sending, snapshot, again, arrived, age>>
clocks == <<accepted, attempted, cooldown, ttl>>
history == <<failed, patient, skipped, faults>>
vars == <<phase, source, shown, refresh, heart, request, clocks, history>>

Snapshots == (0 .. MaxStatuses) \X (0 .. MaxContent)

Free == sending = "none"

Until(span, elapsed) == IF elapsed < span THEN span - elapsed ELSE 0

Larger(a, b) == IF a < b THEN b ELSE a

(* nextSendDelayLocked, and without the server's cooldown (mutant).          *)
GapOnly == Until(Gap, attempted)
SendDelay == Larger(Until(Gap, attempted), cooldown)

(* Mutant: the callbacks of a closed preview go on.                          *)
AlwaysAllowed == TRUE
CallbackAllowed == phase = "live"

Current == <<statuses, content>>

-----------------------------------------------------------------------------
(* Requests and the timer.                                                 *)

Begin(why, what, repeat) ==
  /\ sending' = why /\ snapshot' = what /\ again' = repeat
  /\ arrived' = FALSE /\ age' = 0

End ==
  /\ sending' = "none" /\ snapshot' = <<0, 0>> /\ again' = FALSE
  /\ arrived' = FALSE /\ age' = 0

(* scheduleRefreshLocked: a timer that is still armed keeps its time.         *)
Schedule(still, delay, f) ==
  /\ armed' = TRUE
  /\ timer' = IF still THEN timer ELSE delay
  /\ force' = ((still /\ force) \/ f)

(* cancelRefreshLocked                                                     *)
CancelRefresh == armed' = FALSE /\ timer' = 0 /\ force' = FALSE

Keep(still) ==
  IF still THEN UNCHANGED refresh ELSE CancelRefresh

(* Mutants of refreshLocked: a change that comes too early is left to the      *)
(* heartbeat; the server's cooldown is not waited for.                       *)
RefreshOrForget(still, f) ==
  /\ CallbackAllowed
  /\ IF SendDelay > 0
     THEN Keep(still) /\ skipped' = FALSE /\ UNCHANGED request
     ELSE /\ CancelRefresh
          /\ Begin("snapshot", IF overflow' THEN frozen' ELSE Current', f)
          /\ skipped' = FALSE

RefreshInCooldown(still, f) ==
  /\ CallbackAllowed
  /\ IF GapOnly > 0
     THEN Schedule(still, GapOnly, f) /\ skipped' = FALSE /\ UNCHANGED request
     ELSE /\ CancelRefresh
          /\ Begin("snapshot", IF overflow' THEN frozen' ELSE Current', f)
          /\ skipped' = FALSE

(* refreshLocked, with the timer still armed or not.                         *)
Refresh(still, f) ==
  /\ CallbackAllowed
  /\ \/ /\ SendDelay > 0
        /\ Schedule(still, SendDelay, f)
        /\ skipped' = FALSE /\ UNCHANGED request
     \/ /\ SendDelay = 0 /\ ~overflow' /\ content' > 0
        /\ Keep(still)
        /\ skipped' = TRUE /\ UNCHANGED request
     \/ /\ SendDelay = 0
        /\ LET what == IF overflow' THEN frozen' ELSE Current' IN
             IF what = shown /\ ~f
             THEN Keep(still) /\ UNCHANGED request
             ELSE CancelRefresh /\ Begin("snapshot", what, f)
        /\ skipped' = FALSE

-----------------------------------------------------------------------------
(* The agent's callbacks.                                                  *)
CallbackOnly == UNCHANGED <<phase, shown, heart, clocks, failed, patient, faults>>

(* Status and RAG, for a line that is not the last one again.  The oldest     *)
(* line that makes room for it was said all the same.                        *)
Status ==
  /\ Free /\ CallbackAllowed /\ ~overflow /\ statuses < MaxStatuses
  /\ statuses' = statuses + 1
  /\ UNCHANGED <<content, overflow, frozen>>
  /\ Refresh(armed, FALSE) /\ CallbackOnly

(* Delta: the first piece is shown at once, others may wait for more.         *)
Delta ==
  /\ Free /\ CallbackAllowed /\ ~overflow /\ content < MaxContent
  /\ content' = content + 1
  /\ UNCHANGED <<statuses, overflow, frozen>>
  /\ \/ Refresh(armed, FALSE)
     \/ content > 0 /\ UNCHANGED <<refresh, request, skipped>>
  /\ CallbackOnly

(* Delta beyond maxSourceBytes: what fits is kept and frozen.                 *)
FreezeOverflow ==
  /\ Free /\ CallbackAllowed /\ ~overflow
  /\ overflow' = TRUE
  /\ content' \in {content, content + 1} \cap (1 .. MaxContent)
  /\ frozen' \in {<<statuses, content'>>, shown}
  /\ UNCHANGED statuses
  /\ Refresh(armed, FALSE) /\ CallbackOnly

(* runRefreshTimer                                                         *)
TimerRuns ==
  /\ Free /\ armed /\ timer = 0
  /\ UNCHANGED source
  /\ Refresh(FALSE, force) /\ CallbackOnly

-----------------------------------------------------------------------------
(* The heartbeat.  Mutant: it goes by a ticker of its own.                    *)
FixedBeat(acc, att, cool, arm) == Larger(Beat, 1)

(* nextHeartbeatDelayLocked                                                *)
NextBeat(acc, att, cool, arm) ==
  LET next == Larger(Larger(Until(Beat, acc), Until(Gap, att)), cool)
  IN  IF next = 0 /\ arm THEN Gap ELSE next

(* heartbeatLocked, and the next wake when nothing is sent.                   *)
BeatWakes ==
  /\ Free /\ CallbackAllowed /\ beating /\ beat = 0
  /\ IF armed \/ accepted < Beat
     THEN /\ beat' = NextBeat(accepted, attempted, cooldown, armed)
          /\ UNCHANGED <<refresh, request>>
     ELSE IF SendDelay > 0
     THEN /\ Schedule(FALSE, SendDelay, TRUE)
          /\ beat' = NextBeat(accepted, attempted, cooldown, TRUE)
          /\ UNCHANGED request
     ELSE /\ CancelRefresh /\ Begin("heartbeat", shown, TRUE)
          /\ UNCHANGED beat
  /\ UNCHANGED <<phase, source, shown, beating, clocks, history>>

(* Its context is done, or it finds the preview closed.                       *)
BeatLeaves ==
  /\ beating /\ phase # "live" /\ sending # "heartbeat"
  /\ beating' = FALSE /\ beat' = 0
  /\ UNCHANGED <<phase, source, shown, refresh, request, clocks, history>>

-----------------------------------------------------------------------------
(* What becomes of a request.                                              *)
Arrive ==
  /\ ~Free /\ ~arrived
  /\ arrived' = TRUE /\ ttl' = Ttl
  /\ UNCHANGED <<phase, source, shown, refresh, heart, sending, snapshot, again,
                 age, accepted, attempted, cooldown, history>>

BeatAfter(acc, cool, arm) ==
  IF sending = "heartbeat" THEN beat' = NextBeat(acc, 0, cool, arm)
  ELSE UNCHANGED beat

Accept ==
  /\ sending \in {"snapshot", "heartbeat"} /\ arrived /\ age <= Trip
  /\ shown' = snapshot
  /\ accepted' = 0 /\ attempted' = 0 /\ cooldown' = 0
  /\ failed' = 0 /\ patient' = FALSE
  /\ BeatAfter(0, 0, FALSE)
  /\ End
  /\ UNCHANGED <<phase, source, refresh, beating, ttl, skipped, faults>>

(* Mutant: a request that fails is not repeated.                             *)
FailForGood ==
  /\ sending \in {"snapshot", "heartbeat"} /\ faults < MaxFaults
  /\ attempted' = 0 /\ cooldown' = Backoff
  /\ BeatAfter(accepted, Backoff, FALSE)
  /\ failed' = failed + 1 /\ faults' = faults + 1
  /\ End
  /\ UNCHANGED <<phase, source, shown, refresh, beating, accepted, ttl, patient,
                 skipped>>

(* A time-out, a failed server or too many requests: try again later.          *)
Fail ==
  /\ sending \in {"snapshot", "heartbeat"} /\ faults < MaxFaults
  /\ \E pause \in {Backoff} \cup {Larger(r, Gap) : r \in RetryAfter} :
       /\ attempted' = 0 /\ cooldown' = pause
       /\ Schedule(FALSE, pause, again)
       /\ patient' = (patient \/ pause > Backoff)
       /\ BeatAfter(accepted, pause, TRUE)
  /\ failed' = failed + 1 /\ faults' = faults + 1
  /\ End
  /\ UNCHANGED <<phase, source, shown, beating, accepted, ttl, skipped>>

(* Telegram refuses the request: no preview for the rest of the turn.          *)
Reject ==
  /\ sending \in {"snapshot", "heartbeat"} /\ ~arrived
  /\ phase' = "disabled"
  /\ CancelRefresh /\ End
  /\ attempted' = 0
  /\ UNCHANGED <<source, shown, heart, accepted, cooldown, ttl, history>>

-----------------------------------------------------------------------------
(* The end of the turn.                                                    *)

(* FinalizePreview: the one request after the end is the catch-up of content    *)
(* that was not shown; it does not wait for the gap.                         *)
Finalize ==
  /\ Free /\ phase \in {"live", "disabled"}
  /\ CancelRefresh
  /\ \/ phase' = "closed" /\ UNCHANGED request
     \/ LET what == IF overflow THEN frozen ELSE Current IN
          /\ phase = "live" /\ content > shown[2] /\ cooldown = 0
          /\ what # shown
          /\ phase' = "closing" /\ Begin("catchup", what, FALSE)
  /\ UNCHANGED <<source, shown, heart, clocks, history>>

CatchUpEnds ==
  /\ sending = "catchup"
  /\ phase' = "closed" /\ End
  /\ attempted' = 0
  /\ \/ arrived /\ shown' = snapshot /\ accepted' = 0
     \/ UNCHANGED <<shown, accepted>>
  /\ UNCHANGED <<source, refresh, heart, cooldown, ttl, history>>

-----------------------------------------------------------------------------
Down(n) == IF n > 0 THEN n - 1 ELSE 0

(* Mutant: a request has no time limit of its own.                            *)
NoLimit == age + 1

(* A request that must not fail any more (bound) is answered in time.         *)
Limit ==
  IF sending = "catchup" THEN CatchUp
  ELSE IF faults < MaxFaults THEN Timeout ELSE Trip

(* The clock.  It waits for what is due while the mutex is free, and for a     *)
(* request at its time limit.                                              *)
Tick ==
  /\ IF Free
     THEN phase = "live" /\ (armed => timer > 0) /\ (beating => beat > 0)
     ELSE age < Limit
  /\ age' = IF Free THEN 0 ELSE age + 1
  /\ timer' = Down(timer) /\ beat' = Down(beat)
  /\ accepted' = accepted + 1 /\ attempted' = attempted + 1
  /\ cooldown' = Down(cooldown) /\ ttl' = Down(ttl)
  /\ UNCHANGED <<phase, source, shown, armed, force, beating, sending, snapshot,
                 again, arrived, history>>

(* newRichDraftSink, when its first preview was accepted.                      *)
Init ==
  /\ phase = "live"
  /\ statuses = 0 /\ content = 0 /\ overflow = FALSE
  /\ frozen = <<0, 0>> /\ shown = <<0, 0>>
  /\ armed = FALSE /\ timer = 0 /\ force = FALSE
  /\ beating = TRUE /\ beat = Larger(Beat, Gap)
  /\ sending = "none" /\ snapshot = <<0, 0>> /\ again = FALSE
  /\ arrived = FALSE /\ age = 0
  /\ accepted = 0 /\ attempted = 0 /\ cooldown = 0
  /\ ttl \in {t \in 1 .. Ttl : t >= Ttl - Trip}
  /\ failed = 0 /\ patient = FALSE /\ skipped = FALSE /\ faults = 0

Callbacks == Status \/ Delta \/ FreezeOverflow

Answer == Accept \/ Fail \/ Reject \/ CatchUpEnds

Next ==
  \/ Callbacks \/ TimerRuns \/ BeatWakes \/ BeatLeaves
  \/ Arrive \/ Answer \/ Finalize \/ Tick

Spec == Init /\ [][Next]_vars

(* Time passes, timers run, requests end and goroutines that are cancelled    *)
(* leave; the agent need not say anything, nor the turn end.                  *)
Fairness ==
  /\ WF_vars(Tick) /\ WF_vars(TimerRuns) /\ WF_vars(BeatWakes)
  /\ WF_vars(BeatLeaves) /\ WF_vars(Arrive) /\ WF_vars(Answer)

FairSpec == Spec /\ Fairness

-----------------------------------------------------------------------------
TypeOK ==
  /\ phase \in {"live", "disabled", "closing", "closed"}
  /\ statuses \in 0 .. MaxStatuses /\ content \in 0 .. MaxContent
  /\ overflow \in BOOLEAN
  /\ frozen \in Snapshots /\ shown \in Snapshots /\ snapshot \in Snapshots
  /\ armed \in BOOLEAN /\ timer \in Nat /\ force \in BOOLEAN
  /\ beating \in BOOLEAN /\ beat \in Nat
  /\ sending \in {"none", "snapshot", "heartbeat", "catchup"}
  /\ again \in BOOLEAN /\ arrived \in BOOLEAN
  /\ age \in 0 .. Larger(Timeout, CatchUp)
  /\ accepted \in Nat /\ attempted \in Nat /\ cooldown \in Nat
  /\ ttl \in 0 .. Ttl
  /\ failed \in 0 .. MaxFaults /\ patient \in BOOLEAN
  /\ skipped \in BOOLEAN /\ faults \in 0 .. MaxFaults

(* "Instead of losing it until the heartbeat": a status line, or the frozen    *)
(* snapshot, that is not shown yet has a timer or a request coming for it,      *)
(* unless the last attempt could not be rendered.                            *)
Pending == IF overflow THEN frozen # shown ELSE statuses # shown[1]

PendingIsAttended ==
  phase = "live" /\ Pending => armed \/ sending = "snapshot" \/ skipped

(* "Leaves room for a transient request failure", rich_streaming.go:23: while  *)
(* the turn goes on the draft does not disappear, unless two requests in a row  *)
(* fail (one that takes longer than Trip is about to) or Telegram asks for a    *)
(* longer pause.                                                           *)
Failures == failed + (IF ~Free /\ age > Trip THEN 1 ELSE 0)

OneFailureIsSurvived ==
  phase = "live" /\ Failures <= 1 /\ ~patient => ttl > 0

(* "One call per 1.2 seconds": requests keep their distance and Telegram's     *)
(* cooldown whoever sends them, except for the catch-up.                      *)
RequestsAreSpaced ==
  [][Free /\ sending' \in {"snapshot", "heartbeat"}
       => attempted >= Gap /\ cooldown = 0]_vars

(* After the end nothing is sent any more that could cover the final message,   *)
(* by whatever callback was waiting for the mutex.                           *)
SilentAfterClose ==
  [][(phase \in {"disabled", "closed"} /\ Free) => (sending' = "none")]_vars

(* What is pending gets shown while the turn goes on, unless it cannot be      *)
(* rendered.                                                               *)
PendingIsShown ==
  phase = "live" /\ Pending ~> ~Pending \/ phase # "live" \/ skipped
=============================================================================
