----------------------- MODULE RichDraft_proofs -----------------------------
(***************************************************************************)
(* Proofs about RichDraft, for any times that leave the room RoomAssumption   *)
(* asks for, any lengths and any number of failures.                        *)
(*                                                                         *)
(* That a draft survives one failed request is an invariant about clocks:      *)
(* Telegram's is at most one answer behind the sink's (Timely), the heartbeat  *)
(* never wakes later than Beat after the last accepted request while nothing   *)
(* fails, and after one failure the retry or the next heartbeat comes within    *)
(* Deadline (Punctual).  The last part, InSequence, is about the order in which   *)
(* snapshots are accepted; what each of them displays is not modelled.        *)
(***************************************************************************)
EXTENDS RichDraft, TLAPS

Live == phase = "live"

Phases ==
  /\ Live => beating
  /\ sending = "catchup" <=> phase = "closing"
  /\ phase \in {"disabled", "closed"} => Free
  /\ armed => Live /\ Free

(* What a request carries.                                                  *)
Carried ==
  /\ sending = "snapshot" =>
       snapshot = IF overflow THEN frozen ELSE <<statuses, content>>
  /\ sending = "heartbeat" => snapshot = shown

Timely ==
  /\ ~Free => age <= IF sending = "catchup" THEN CatchUp ELSE Timeout
  /\ armed => timer = SendDelay
  /\ beat <= Larger(Beat, cooldown)
  /\ ~Free /\ arrived => ttl >= Ttl - age
  /\ Live => ttl >= Ttl - Trip - accepted
  /\ Live /\ failed = 0 => attempted = accepted /\ cooldown = 0
  /\ Live /\ ~Free => cooldown = 0
  /\ Live /\ Free /\ failed > 0 /\ ~armed => SendDelay = 0
  /\ failed <= faults

Deadline == Beat + Timeout + Backoff

Punctual ==
  /\ Live /\ Free /\ failed = 0 =>
       accepted + beat <= Beat /\ (armed => accepted + timer <= Gap)
  /\ Live /\ ~Free /\ failed = 0 => accepted + beat <= Beat + age
  /\ Live /\ Free /\ failed = 1 /\ ~patient =>
       /\ accepted + beat <= Deadline + Gap
       /\ armed => accepted + timer <= Deadline
  /\ Live /\ ~Free /\ failed = 1 /\ ~patient => accepted <= Deadline + Gap + age

IInv == TypeOK /\ Phases /\ Carried /\ PendingIsAttended /\ Timely /\ Punctual

(* The parts of TypeOK.                                                    *)
Shapes == frozen \in Snapshots /\ shown \in Snapshots /\ snapshot \in Snapshots

Flags ==
  /\ overflow \in BOOLEAN /\ armed \in BOOLEAN /\ force \in BOOLEAN
  /\ beating \in BOOLEAN /\ again \in BOOLEAN /\ arrived \in BOOLEAN
  /\ patient \in BOOLEAN /\ skipped \in BOOLEAN

Names ==
  /\ phase \in {"live", "disabled", "closing", "closed"}
  /\ sending \in {"none", "snapshot", "heartbeat", "catchup"}

Numbers ==
  /\ statuses \in 0 .. MaxStatuses /\ content \in 0 .. MaxContent
  /\ timer \in Nat /\ beat \in Nat
  /\ age \in 0 .. Larger(Timeout, CatchUp)
  /\ accepted \in Nat /\ attempted \in Nat /\ cooldown \in Nat
  /\ ttl \in 0 .. Ttl
  /\ failed \in 0 .. MaxFaults /\ faults \in 0 .. MaxFaults

LEMMA Times ==
  /\ Gap \in Nat /\ Gap > 0 /\ Beat \in Nat /\ Timeout \in Nat /\ Backoff \in Nat
  /\ CatchUp \in Nat /\ Ttl \in Nat /\ Trip \in Nat /\ Trip <= Timeout
  /\ Gap <= Backoff /\ Gap < Beat
  /\ Beat + Timeout + Backoff + Gap + Trip + Trip < Ttl
  /\ MaxStatuses \in Nat /\ MaxContent \in Nat /\ MaxFaults \in Nat
  BY TimesAssumption, BoundsAssumption, RoomAssumption

LEMMA Pairs ==
  /\ \A a \in 0 .. MaxStatuses, b \in 0 .. MaxContent : <<a, b>> \in Snapshots
  /\ <<0, 0>> \in Snapshots
<1>1. \A a \in 0 .. MaxStatuses, b \in 0 .. MaxContent : <<a, b>> \in Snapshots
  BY DEF Snapshots
<1>2. 0 \in 0 .. MaxStatuses /\ 0 \in 0 .. MaxContent
  BY Times
<1>. QED BY <1>1, <1>2

LEMMA InitInvariant == Init => IInv
<1>. SUFFICES ASSUME Init PROVE IInv
  OBVIOUS
<1>. USE Times DEF Init, Free, Live, Larger, Until
<1>1. TypeOK
  <2>1. Shapes
    BY Pairs DEF Shapes
  <2>2. Flags
    BY DEF Flags
  <2>3. Names
    BY DEF Names
  <2>4. Numbers
    BY DEF Numbers
  <2>. QED BY <2>1, <2>2, <2>3, <2>4 DEF TypeOK, Shapes, Flags, Names, Numbers
<1>2. Phases /\ Carried /\ PendingIsAttended
  BY DEF Phases, Carried, PendingIsAttended, Pending
<1>3. Timely /\ Punctual
  BY DEF Timely, Punctual, SendDelay
<1>. QED BY <1>1, <1>2, <1>3 DEF IInv

LEMMA StatusKeeps ==
  ASSUME IInv, Status
  PROVE  IInv'
<1>. USE Times DEF IInv, Free, Live, Larger, Until, Status
<1>1. TypeOK'
  <2>1. Shapes'
    BY Pairs DEF Shapes, TypeOK, Phases, Timely, SendDelay, Refresh, Schedule, CancelRefresh, Keep, Begin, CallbackOnly, CallbackAllowed, Current, refresh, request, heart, clocks, source
  <2>2. Flags'
    BY DEF Flags, TypeOK, Phases, Timely, SendDelay, Refresh, Schedule, CancelRefresh, Keep, Begin, CallbackOnly, CallbackAllowed, Current, refresh, request, heart, clocks, source
  <2>3. Names'
    BY DEF Names, TypeOK, Phases, Timely, SendDelay, Refresh, Schedule, CancelRefresh, Keep, Begin, CallbackOnly, CallbackAllowed, Current, refresh, request, heart, clocks, source
  <2>4. Numbers'
    BY DEF Numbers, TypeOK, Phases, Timely, SendDelay, Refresh, Schedule, CancelRefresh, Keep, Begin, CallbackOnly, CallbackAllowed, Current, refresh, request, heart, clocks, source
  <2>. QED BY <2>1, <2>2, <2>3, <2>4 DEF TypeOK, Shapes, Flags, Names, Numbers
<1>2. Phases'
  BY DEF Phases, TypeOK, Refresh, Schedule, CancelRefresh, Keep, Begin, CallbackOnly, CallbackAllowed, Current, refresh, request, heart, clocks, source
<1>3. Carried'
  BY DEF Carried, TypeOK, Phases, Refresh, Schedule, CancelRefresh, Keep, Begin, CallbackOnly, CallbackAllowed, Current, refresh, request, heart, clocks, source
<1>4. PendingIsAttended'
  BY DEF PendingIsAttended, TypeOK, Phases, Carried, Pending, Refresh, Schedule, CancelRefresh, Keep, Begin, CallbackOnly, CallbackAllowed, Current, refresh, request, heart, clocks, source
<1>5. Timely'
  BY DEF Timely, TypeOK, Phases, SendDelay, Refresh, Schedule, CancelRefresh, Keep, Begin, CallbackOnly, CallbackAllowed, Current, refresh, request, heart, clocks, source
<1>6. Punctual'
  BY DEF Punctual, TypeOK, Phases, Timely, SendDelay, Deadline, Refresh, Schedule, CancelRefresh, Keep, Begin, CallbackOnly, CallbackAllowed, Current, refresh, request, heart, clocks, source
<1>. QED BY <1>1, <1>2, <1>3, <1>4, <1>5, <1>6

LEMMA DeltaKeeps ==
  ASSUME IInv, Delta
  PROVE  IInv'
<1>. USE Times DEF IInv, Free, Live, Larger, Until, Delta
<1>1. TypeOK'
  <2>1. Shapes'
    BY Pairs DEF Shapes, TypeOK, Phases, Timely, SendDelay, Refresh, Schedule, CancelRefresh, Keep, Begin, CallbackOnly, CallbackAllowed, Current, refresh, request, heart, clocks, source
  <2>2. Flags'
    BY DEF Flags, TypeOK, Phases, Timely, SendDelay, Refresh, Schedule, CancelRefresh, Keep, Begin, CallbackOnly, CallbackAllowed, Current, refresh, request, heart, clocks, source
  <2>3. Names'
    BY DEF Names, TypeOK, Phases, Timely, SendDelay, Refresh, Schedule, CancelRefresh, Keep, Begin, CallbackOnly, CallbackAllowed, Current, refresh, request, heart, clocks, source
  <2>4. Numbers'
    BY DEF Numbers, TypeOK, Phases, Timely, SendDelay, Refresh, Schedule, CancelRefresh, Keep, Begin, CallbackOnly, CallbackAllowed, Current, refresh, request, heart, clocks, source
  <2>. QED BY <2>1, <2>2, <2>3, <2>4 DEF TypeOK, Shapes, Flags, Names, Numbers
<1>2. Phases'
  BY DEF Phases, TypeOK, Refresh, Schedule, CancelRefresh, Keep, Begin, CallbackOnly, CallbackAllowed, Current, refresh, request, heart, clocks, source
<1>3. Carried'
  BY DEF Carried, TypeOK, Phases, Refresh, Schedule, CancelRefresh, Keep, Begin, CallbackOnly, CallbackAllowed, Current, refresh, request, heart, clocks, source
<1>4. PendingIsAttended'
  BY DEF PendingIsAttended, TypeOK, Phases, Carried, Pending, Refresh, Schedule, CancelRefresh, Keep, Begin, CallbackOnly, CallbackAllowed, Current, refresh, request, heart, clocks, source
<1>5. Timely'
  BY DEF Timely, TypeOK, Phases, SendDelay, Refresh, Schedule, CancelRefresh, Keep, Begin, CallbackOnly, CallbackAllowed, Current, refresh, request, heart, clocks, source
<1>6. Punctual'
  BY DEF Punctual, TypeOK, Phases, Timely, SendDelay, Deadline, Refresh, Schedule, CancelRefresh, Keep, Begin, CallbackOnly, CallbackAllowed, Current, refresh, request, heart, clocks, source
<1>. QED BY <1>1, <1>2, <1>3, <1>4, <1>5, <1>6

LEMMA FreezeOverflowKeeps ==
  ASSUME IInv, FreezeOverflow
  PROVE  IInv'
<1>. USE Times DEF IInv, Free, Live, Larger, Until, FreezeOverflow
<1>1. TypeOK'
  <2>1. Shapes'
    BY Pairs DEF Shapes, TypeOK, Phases, Timely, SendDelay, Refresh, Schedule, CancelRefresh, Keep, Begin, CallbackOnly, CallbackAllowed, Current, refresh, request, heart, clocks, source
  <2>2. Flags'
    BY DEF Flags, TypeOK, Phases, Timely, SendDelay, Refresh, Schedule, CancelRefresh, Keep, Begin, CallbackOnly, CallbackAllowed, Current, refresh, request, heart, clocks, source
  <2>3. Names'
    BY DEF Names, TypeOK, Phases, Timely, SendDelay, Refresh, Schedule, CancelRefresh, Keep, Begin, CallbackOnly, CallbackAllowed, Current, refresh, request, heart, clocks, source
  <2>4. Numbers'
    BY DEF Numbers, TypeOK, Phases, Timely, SendDelay, Refresh, Schedule, CancelRefresh, Keep, Begin, CallbackOnly, CallbackAllowed, Current, refresh, request, heart, clocks, source
  <2>. QED BY <2>1, <2>2, <2>3, <2>4 DEF TypeOK, Shapes, Flags, Names, Numbers
<1>2. Phases'
  BY DEF Phases, TypeOK, Refresh, Schedule, CancelRefresh, Keep, Begin, CallbackOnly, CallbackAllowed, Current, refresh, request, heart, clocks, source
<1>3. Carried'
  BY DEF Carried, TypeOK, Phases, Refresh, Schedule, CancelRefresh, Keep, Begin, CallbackOnly, CallbackAllowed, Current, refresh, request, heart, clocks, source
<1>4. PendingIsAttended'
  BY DEF PendingIsAttended, TypeOK, Phases, Carried, Pending, Refresh, Schedule, CancelRefresh, Keep, Begin, CallbackOnly, CallbackAllowed, Current, refresh, request, heart, clocks, source
<1>5. Timely'
  BY DEF Timely, TypeOK, Phases, SendDelay, Refresh, Schedule, CancelRefresh, Keep, Begin, CallbackOnly, CallbackAllowed, Current, refresh, request, heart, clocks, source
<1>6. Punctual'
  BY DEF Punctual, TypeOK, Phases, Timely, SendDelay, Deadline, Refresh, Schedule, CancelRefresh, Keep, Begin, CallbackOnly, CallbackAllowed, Current, refresh, request, heart, clocks, source
<1>. QED BY <1>1, <1>2, <1>3, <1>4, <1>5, <1>6

LEMMA TimerRunsKeeps ==
  ASSUME IInv, TimerRuns
  PROVE  IInv'
<1>. USE Times DEF IInv, Free, Live, Larger, Until, TimerRuns
<1>1. TypeOK'
  <2>1. Shapes'
    BY Pairs DEF Shapes, TypeOK, Phases, Timely, SendDelay, Refresh, Schedule, CancelRefresh, Keep, Begin, CallbackOnly, CallbackAllowed, Current, refresh, request, heart, clocks, source
  <2>2. Flags'
    BY DEF Flags, TypeOK, Phases, Timely, SendDelay, Refresh, Schedule, CancelRefresh, Keep, Begin, CallbackOnly, CallbackAllowed, Current, refresh, request, heart, clocks, source
  <2>3. Names'
    BY DEF Names, TypeOK, Phases, Timely, SendDelay, Refresh, Schedule, CancelRefresh, Keep, Begin, CallbackOnly, CallbackAllowed, Current, refresh, request, heart, clocks, source
  <2>4. Numbers'
    BY DEF Numbers, TypeOK, Phases, Timely, SendDelay, Refresh, Schedule, CancelRefresh, Keep, Begin, CallbackOnly, CallbackAllowed, Current, refresh, request, heart, clocks, source
  <2>. QED BY <2>1, <2>2, <2>3, <2>4 DEF TypeOK, Shapes, Flags, Names, Numbers
<1>2. Phases'
  BY DEF Phases, TypeOK, Refresh, Schedule, CancelRefresh, Keep, Begin, CallbackOnly, CallbackAllowed, Current, refresh, request, heart, clocks, source
<1>3. Carried'
  BY DEF Carried, TypeOK, Phases, Refresh, Schedule, CancelRefresh, Keep, Begin, CallbackOnly, CallbackAllowed, Current, refresh, request, heart, clocks, source
<1>4. PendingIsAttended'
  BY DEF PendingIsAttended, TypeOK, Phases, Carried, Pending, Refresh, Schedule, CancelRefresh, Keep, Begin, CallbackOnly, CallbackAllowed, Current, refresh, request, heart, clocks, source
<1>5. Timely'
  BY DEF Timely, TypeOK, Phases, SendDelay, Refresh, Schedule, CancelRefresh, Keep, Begin, CallbackOnly, CallbackAllowed, Current, refresh, request, heart, clocks, source
<1>6. Punctual'
  BY DEF Punctual, TypeOK, Phases, Timely, SendDelay, Deadline, Refresh, Schedule, CancelRefresh, Keep, Begin, CallbackOnly, CallbackAllowed, Current, refresh, request, heart, clocks, source
<1>. QED BY <1>1, <1>2, <1>3, <1>4, <1>5, <1>6

LEMMA BeatWakesKeeps ==
  ASSUME IInv, BeatWakes
  PROVE  IInv'
<1>. USE Times DEF IInv, Free, Live, Larger, Until, BeatWakes
<1>1. TypeOK'
  <2>1. Shapes'
    BY Pairs DEF Shapes, TypeOK, Phases, Timely, SendDelay, Schedule, CancelRefresh, Begin, NextBeat, CallbackAllowed, refresh, request, clocks, source, history
  <2>2. Flags'
    BY DEF Flags, TypeOK, Phases, Timely, SendDelay, Schedule, CancelRefresh, Begin, NextBeat, CallbackAllowed, refresh, request, clocks, source, history
  <2>3. Names'
    BY DEF Names, TypeOK, Phases, Timely, SendDelay, Schedule, CancelRefresh, Begin, NextBeat, CallbackAllowed, refresh, request, clocks, source, history
  <2>4. Numbers'
    BY DEF Numbers, TypeOK, Phases, Timely, SendDelay, Schedule, CancelRefresh, Begin, NextBeat, CallbackAllowed, refresh, request, clocks, source, history
  <2>. QED BY <2>1, <2>2, <2>3, <2>4 DEF TypeOK, Shapes, Flags, Names, Numbers
<1>2. Phases'
  BY DEF Phases, TypeOK, Schedule, CancelRefresh, Begin, NextBeat, CallbackAllowed, refresh, request, clocks, source, history
<1>3. Carried'
  BY DEF Carried, TypeOK, Phases, Schedule, CancelRefresh, Begin, NextBeat, CallbackAllowed, refresh, request, clocks, source, history
<1>4. PendingIsAttended'
  BY DEF PendingIsAttended, TypeOK, Phases, Carried, Pending, Schedule, CancelRefresh, Begin, NextBeat, CallbackAllowed, refresh, request, clocks, source, history
<1>5. Timely'
  BY DEF Timely, TypeOK, Phases, SendDelay, Schedule, CancelRefresh, Begin, NextBeat, CallbackAllowed, refresh, request, clocks, source, history
<1>6. Punctual'
  BY DEF Punctual, TypeOK, Phases, Timely, SendDelay, Deadline, Schedule, CancelRefresh, Begin, NextBeat, CallbackAllowed, refresh, request, clocks, source, history
<1>. QED BY <1>1, <1>2, <1>3, <1>4, <1>5, <1>6

LEMMA BeatLeavesKeeps ==
  ASSUME IInv, BeatLeaves
  PROVE  IInv'
<1>. USE Times DEF IInv, Free, Live, Larger, Until, BeatLeaves
<1>1. TypeOK'
  <2>1. Shapes'
    BY Pairs DEF Shapes, TypeOK, Phases, Timely, SendDelay, refresh, request, clocks, source, history
  <2>2. Flags'
    BY DEF Flags, TypeOK, Phases, Timely, SendDelay, refresh, request, clocks, source, history
  <2>3. Names'
    BY DEF Names, TypeOK, Phases, Timely, SendDelay, refresh, request, clocks, source, history
  <2>4. Numbers'
    BY DEF Numbers, TypeOK, Phases, Timely, SendDelay, refresh, request, clocks, source, history
  <2>. QED BY <2>1, <2>2, <2>3, <2>4 DEF TypeOK, Shapes, Flags, Names, Numbers
<1>2. Phases'
  BY DEF Phases, TypeOK, refresh, request, clocks, source, history
<1>3. Carried'
  BY DEF Carried, TypeOK, Phases, refresh, request, clocks, source, history
<1>4. PendingIsAttended'
  BY DEF PendingIsAttended, TypeOK, Phases, Carried, Pending, refresh, request, clocks, source, history
<1>5. Timely'
  BY DEF Timely, TypeOK, Phases, SendDelay, refresh, request, clocks, source, history
<1>6. Punctual'
  BY DEF Punctual, TypeOK, Phases, Timely, SendDelay, Deadline, refresh, request, clocks, source, history
<1>. QED BY <1>1, <1>2, <1>3, <1>4, <1>5, <1>6

LEMMA ArriveKeeps ==
  ASSUME IInv, Arrive
  PROVE  IInv'
<1>. USE Times DEF IInv, Free, Live, Larger, Until, Arrive
<1>1. TypeOK'
  <2>1. Shapes'
    BY Pairs DEF Shapes, TypeOK, Phases, Timely, SendDelay, refresh, heart, source, history
  <2>2. Flags'
    BY DEF Flags, TypeOK, Phases, Timely, SendDelay, refresh, heart, source, history
  <2>3. Names'
    BY DEF Names, TypeOK, Phases, Timely, SendDelay, refresh, heart, source, history
  <2>4. Numbers'
    BY DEF Numbers, TypeOK, Phases, Timely, SendDelay, refresh, heart, source, history
  <2>. QED BY <2>1, <2>2, <2>3, <2>4 DEF TypeOK, Shapes, Flags, Names, Numbers
<1>2. Phases'
  BY DEF Phases, TypeOK, refresh, heart, source, history
<1>3. Carried'
  BY DEF Carried, TypeOK, Phases, refresh, heart, source, history
<1>4. PendingIsAttended'
  BY DEF PendingIsAttended, TypeOK, Phases, Carried, Pending, refresh, heart, source, history
<1>5. Timely'
  BY DEF Timely, TypeOK, Phases, SendDelay, refresh, heart, source, history
<1>6. Punctual'
  BY DEF Punctual, TypeOK, Phases, Timely, SendDelay, Deadline, refresh, heart, source, history
<1>. QED BY <1>1, <1>2, <1>3, <1>4, <1>5, <1>6

LEMMA AcceptKeeps ==
  ASSUME IInv, Accept
  PROVE  IInv'
<1>. USE Times DEF IInv, Free, Live, Larger, Until, Accept
<1>1. TypeOK'
  <2>1. Shapes'
    BY Pairs DEF Shapes, TypeOK, Phases, Timely, SendDelay, End, BeatAfter, NextBeat, refresh, source
  <2>2. Flags'
    BY DEF Flags, TypeOK, Phases, Timely, SendDelay, End, BeatAfter, NextBeat, refresh, source
  <2>3. Names'
    BY DEF Names, TypeOK, Phases, Timely, SendDelay, End, BeatAfter, NextBeat, refresh, source
  <2>4. Numbers'
    BY DEF Numbers, TypeOK, Phases, Timely, SendDelay, End, BeatAfter, NextBeat, refresh, source
  <2>. QED BY <2>1, <2>2, <2>3, <2>4 DEF TypeOK, Shapes, Flags, Names, Numbers
<1>2. Phases'
  BY DEF Phases, TypeOK, End, BeatAfter, NextBeat, refresh, source
<1>3. Carried'
  BY DEF Carried, TypeOK, Phases, End, BeatAfter, NextBeat, refresh, source
<1>4. PendingIsAttended'
  BY DEF PendingIsAttended, TypeOK, Phases, Carried, Pending, End, BeatAfter, NextBeat, refresh, source
<1>5. Timely'
  BY DEF Timely, TypeOK, Phases, SendDelay, End, BeatAfter, NextBeat, refresh, source
<1>6. Punctual'
  BY DEF Punctual, TypeOK, Phases, Timely, SendDelay, Deadline, End, BeatAfter, NextBeat, refresh, source
<1>. QED BY <1>1, <1>2, <1>3, <1>4, <1>5, <1>6

LEMMA FailKeeps ==
  ASSUME IInv, Fail
  PROVE  IInv'
<1>. USE Times DEF IInv, Free, Live, Larger, Until, Fail
<1>1. TypeOK'
  <2>1. Shapes'
    BY Pairs DEF Shapes, TypeOK, Phases, Timely, SendDelay, End, BeatAfter, NextBeat, Schedule, source
  <2>2. Flags'
    BY DEF Flags, TypeOK, Phases, Timely, SendDelay, End, BeatAfter, NextBeat, Schedule, source
  <2>3. Names'
    BY DEF Names, TypeOK, Phases, Timely, SendDelay, End, BeatAfter, NextBeat, Schedule, source
  <2>4. Numbers'
    <3>1. PICK pause \in {Backoff} \cup {Larger(r, Gap) : r \in RetryAfter} :
            /\ attempted' = 0 /\ cooldown' = pause
            /\ Schedule(FALSE, pause, again)
            /\ BeatAfter(accepted, pause, TRUE)
      OBVIOUS
    <3>2. pause \in Nat
      BY TimesAssumption
    <3>3. timer' \in Nat /\ beat' \in Nat
      BY <3>1, <3>2 DEF Schedule, BeatAfter, NextBeat, TypeOK
    <3>4. failed' \in 0 .. MaxFaults /\ faults' \in 0 .. MaxFaults
      BY DEF Timely, TypeOK
    <3>. QED BY <3>1, <3>2, <3>3, <3>4 DEF Numbers, TypeOK, End, source
  <2>. QED BY <2>1, <2>2, <2>3, <2>4 DEF TypeOK, Shapes, Flags, Names, Numbers
<1>2. Phases'
  BY DEF Phases, TypeOK, End, BeatAfter, NextBeat, Schedule, source
<1>3. Carried'
  BY DEF Carried, TypeOK, Phases, End, BeatAfter, NextBeat, Schedule, source
<1>4. PendingIsAttended'
  BY DEF PendingIsAttended, TypeOK, Phases, Carried, Pending, End, BeatAfter, NextBeat, Schedule, source
<1>5. Timely'
  BY DEF Timely, TypeOK, Phases, SendDelay, End, BeatAfter, NextBeat, Schedule, source
<1>6. Punctual'
  BY DEF Punctual, TypeOK, Phases, Timely, SendDelay, Deadline, End, BeatAfter, NextBeat, Schedule, source
<1>. QED BY <1>1, <1>2, <1>3, <1>4, <1>5, <1>6

LEMMA RejectKeeps ==
  ASSUME IInv, Reject
  PROVE  IInv'
<1>. USE Times DEF IInv, Free, Live, Larger, Until, Reject
<1>1. TypeOK'
  <2>1. Shapes'
    BY Pairs DEF Shapes, TypeOK, Phases, Timely, SendDelay, End, CancelRefresh, source, heart, history
  <2>2. Flags'
    BY DEF Flags, TypeOK, Phases, Timely, SendDelay, End, CancelRefresh, source, heart, history
  <2>3. Names'
    BY DEF Names, TypeOK, Phases, Timely, SendDelay, End, CancelRefresh, source, heart, history
  <2>4. Numbers'
    BY DEF Numbers, TypeOK, Phases, Timely, SendDelay, End, CancelRefresh, source, heart, history
  <2>. QED BY <2>1, <2>2, <2>3, <2>4 DEF TypeOK, Shapes, Flags, Names, Numbers
<1>2. Phases'
  BY DEF Phases, TypeOK, End, CancelRefresh, source, heart, history
<1>3. Carried'
  BY DEF Carried, TypeOK, Phases, End, CancelRefresh, source, heart, history
<1>4. PendingIsAttended'
  BY DEF PendingIsAttended, TypeOK, Phases, Carried, Pending, End, CancelRefresh, source, heart, history
<1>5. Timely'
  BY DEF Timely, TypeOK, Phases, SendDelay, End, CancelRefresh, source, heart, history
<1>6. Punctual'
  BY DEF Punctual, TypeOK, Phases, Timely, SendDelay, Deadline, End, CancelRefresh, source, heart, history
<1>. QED BY <1>1, <1>2, <1>3, <1>4, <1>5, <1>6

LEMMA FinalizeKeeps ==
  ASSUME IInv, Finalize
  PROVE  IInv'
<1>. USE Times DEF IInv, Free, Live, Larger, Until, Finalize
<1>1. TypeOK'
  <2>1. Shapes'
    BY Pairs DEF Shapes, TypeOK, Phases, Timely, SendDelay, CancelRefresh, Begin, Current, source, heart, clocks, request, history
  <2>2. Flags'
    BY DEF Flags, TypeOK, Phases, Timely, SendDelay, CancelRefresh, Begin, Current, source, heart, clocks, request, history
  <2>3. Names'
    BY DEF Names, TypeOK, Phases, Timely, SendDelay, CancelRefresh, Begin, Current, source, heart, clocks, request, history
  <2>4. Numbers'
    BY DEF Numbers, TypeOK, Phases, Timely, SendDelay, CancelRefresh, Begin, Current, source, heart, clocks, request, history
  <2>. QED BY <2>1, <2>2, <2>3, <2>4 DEF TypeOK, Shapes, Flags, Names, Numbers
<1>2. Phases'
  BY DEF Phases, TypeOK, CancelRefresh, Begin, Current, source, heart, clocks, request, history
<1>3. Carried'
  BY DEF Carried, TypeOK, Phases, CancelRefresh, Begin, Current, source, heart, clocks, request, history
<1>4. PendingIsAttended'
  BY DEF PendingIsAttended, TypeOK, Phases, Carried, Pending, CancelRefresh, Begin, Current, source, heart, clocks, request, history
<1>5. Timely'
  BY DEF Timely, TypeOK, Phases, SendDelay, CancelRefresh, Begin, Current, source, heart, clocks, request, history
<1>6. Punctual'
  BY DEF Punctual, TypeOK, Phases, Timely, SendDelay, Deadline, CancelRefresh, Begin, Current, source, heart, clocks, request, history
<1>. QED BY <1>1, <1>2, <1>3, <1>4, <1>5, <1>6

LEMMA CatchUpEndsKeeps ==
  ASSUME IInv, CatchUpEnds
  PROVE  IInv'
<1>. USE Times DEF IInv, Free, Live, Larger, Until, CatchUpEnds
<1>1. TypeOK'
  <2>1. Shapes'
    BY Pairs DEF Shapes, TypeOK, Phases, Timely, SendDelay, End, source, refresh, heart, history
  <2>2. Flags'
    BY DEF Flags, TypeOK, Phases, Timely, SendDelay, End, source, refresh, heart, history
  <2>3. Names'
    BY DEF Names, TypeOK, Phases, Timely, SendDelay, End, source, refresh, heart, history
  <2>4. Numbers'
    BY DEF Numbers, TypeOK, End, source, refresh, heart, history
  <2>. QED BY <2>1, <2>2, <2>3, <2>4 DEF TypeOK, Shapes, Flags, Names, Numbers
<1>2. Phases'
  BY DEF Phases, TypeOK, End, source, refresh, heart, history
<1>3. Carried'
  BY DEF Carried, TypeOK, Phases, End, source, refresh, heart, history
<1>4. PendingIsAttended'
  BY DEF PendingIsAttended, TypeOK, Phases, Carried, Pending, End, source, refresh, heart, history
<1>5. Timely'
  BY DEF Timely, TypeOK, Phases, SendDelay, End, source, refresh, heart, history
<1>6. Punctual'
  BY DEF Punctual, TypeOK, Phases, Timely, SendDelay, Deadline, End, source, refresh, heart, history
<1>. QED BY <1>1, <1>2, <1>3, <1>4, <1>5, <1>6

LEMMA TickKeeps ==
  ASSUME IInv, Tick
  PROVE  IInv'
<1>. USE Times DEF IInv, Free, Live, Larger, Until, Tick
<1>1. TypeOK'
  <2>1. Shapes'
    BY Pairs DEF Shapes, TypeOK, Phases, Timely, SendDelay, Down, Limit, source, history
  <2>2. Flags'
    BY DEF Flags, TypeOK, Phases, Timely, SendDelay, Down, Limit, source, history
  <2>3. Names'
    BY DEF Names, TypeOK, Phases, Timely, SendDelay, Down, Limit, source, history
  <2>4. Numbers'
    BY DEF Numbers, TypeOK, Phases, Timely, SendDelay, Down, Limit, source, history
  <2>. QED BY <2>1, <2>2, <2>3, <2>4 DEF TypeOK, Shapes, Flags, Names, Numbers
<1>2. Phases'
  BY DEF Phases, TypeOK, Down, Limit, source, history
<1>3. Carried'
  BY DEF Carried, TypeOK, Phases, Down, Limit, source, history
<1>4. PendingIsAttended'
  BY DEF PendingIsAttended, TypeOK, Phases, Carried, Pending, Down, Limit, source, history
<1>5. Timely'
  BY DEF Timely, TypeOK, Phases, SendDelay, Down, Limit, source, history
<1>6. Punctual'
  BY DEF Punctual, TypeOK, Phases, Timely, SendDelay, Deadline, Down, Limit, source, history
<1>. QED BY <1>1, <1>2, <1>3, <1>4, <1>5, <1>6

LEMMA StutterKeeps ==
  ASSUME IInv, UNCHANGED vars
  PROVE  IInv'
<1>. USE DEF IInv, vars, source, refresh, heart, request, clocks, history
<1>1. TypeOK'
  BY DEF TypeOK
<1>2. Phases' /\ Carried'
  BY DEF Phases, Carried, Live, Free
<1>3. PendingIsAttended'
  BY DEF PendingIsAttended, Pending
<1>4. Timely'
  BY DEF Timely, SendDelay, Live, Free
<1>5. Punctual'
  BY DEF Punctual, Live, Free
<1>. QED BY <1>1, <1>2, <1>3, <1>4, <1>5

LEMMA NextKeeps ==
  ASSUME IInv, [Next]_vars
  PROVE  IInv'
<1>1. CASE Callbacks
  BY <1>1, StatusKeeps, DeltaKeeps, FreezeOverflowKeeps DEF Callbacks
<1>2. CASE TimerRuns \/ BeatWakes \/ BeatLeaves
  BY <1>2, TimerRunsKeeps, BeatWakesKeeps, BeatLeavesKeeps
<1>3. CASE Arrive \/ Answer
  BY <1>3, ArriveKeeps, AcceptKeeps, FailKeeps, RejectKeeps, CatchUpEndsKeeps
     DEF Answer
<1>4. CASE Finalize \/ Tick
  BY <1>4, FinalizeKeeps, TickKeeps
<1>5. CASE UNCHANGED vars
  BY <1>5, StutterKeeps
<1>. QED BY <1>1, <1>2, <1>3, <1>4, <1>5 DEF Next

-----------------------------------------------------------------------------
(* The inductive invariant holds in every behaviour of the preview.          *)
THEOREM Invariance == Spec => []IInv
<1>1. Init => IInv
  BY InitInvariant
<1>2. IInv /\ [Next]_vars => IInv'
  BY NextKeeps
<1>. QED BY <1>1, <1>2, PTL DEF Spec

(* Every variable keeps its type: no failure count or clock of the draft leaves  *)
(* its range, whatever the times.                                           *)
THEOREM TypeCorrect == Spec => []TypeOK
<1>1. IInv => TypeOK
  BY DEF IInv
<1>. QED BY <1>1, Invariance, PTL

(* A status line or a frozen snapshot that refreshLocked put off is not left to  *)
(* the next heartbeat: a timer or a request is coming for it.                  *)
THEOREM Attended == Spec => []PendingIsAttended
<1>1. IInv => PendingIsAttended
  BY DEF IInv
<1>. QED BY <1>1, Invariance, PTL

(* The room the constants leave is enough: while the turn goes on the draft does *)
(* not disappear after one failed request, whichever callbacks, timers and      *)
(* heartbeats came in between.                                              *)
THEOREM OneFailureSurvived == Spec => []OneFailureIsSurvived
<1>1. ASSUME IInv PROVE OneFailureIsSurvived
  <2>. SUFFICES ASSUME Live, Failures <= 1, ~patient
                PROVE  ttl > 0
    BY DEF OneFailureIsSurvived, Live
  <2>1. /\ ttl \in Nat /\ accepted \in Nat /\ beat \in Nat /\ failed \in Nat
        /\ age \in Nat /\ ttl >= Ttl - Trip - accepted
    BY <1>1, Times DEF IInv, TypeOK, Timely
  <2>2. ~Free => age <= Timeout
    BY <1>1 DEF IInv, Timely, Phases, Live
  <2>3. CASE Free
    <3>1. failed = 0 => accepted + beat <= Beat
      BY <2>3, <1>1 DEF IInv, Punctual
    <3>2. failed = 1 => accepted + beat <= Beat + Timeout + Backoff + Gap
      BY <2>3, <1>1 DEF IInv, Punctual, Deadline
    <3>3. failed <= 1
      BY <2>1, <2>3 DEF Failures
    <3>. QED BY <2>1, <3>1, <3>2, <3>3, Times
  <2>4. CASE ~Free
    <3>1. failed = 0 => accepted + beat <= Beat + age
      BY <2>4, <1>1 DEF IInv, Punctual
    <3>2. failed = 1 => accepted <= Beat + Timeout + Backoff + Gap + age
      BY <2>4, <1>1 DEF IInv, Punctual, Deadline
    <3>3. failed <= 1 /\ (failed = 1 => age <= Trip)
      BY <2>4, <2>1, Times DEF Failures
    <3>. QED BY <2>1, <2>2, <2>4, <3>1, <3>2, <3>3, Times
  <2>. QED BY <2>3, <2>4
<1>2. IInv => OneFailureIsSurvived
  BY <1>1
<1>. QED BY <1>2, Invariance, PTL

(* No callback, timer or heartbeat sends before the gap and the cooldown the      *)
(* server asked for are over, however they overtake each other at the mutex.      *)
THEOREM Spaced == Spec => RequestsAreSpaced
<1>1. ASSUME IInv, [Next]_vars,
             Free, sending' \in {"snapshot", "heartbeat"}
      PROVE  attempted >= Gap /\ cooldown = 0
  <2>. USE <1>1 DEF Free
  <2>0. (SendDelay = 0 \/ ~(SendDelay > 0)) => attempted >= Gap /\ cooldown = 0
    BY Times DEF IInv, TypeOK, SendDelay, Until, Larger
  <2>1. CASE Callbacks
    BY <2>0, <2>1 DEF Callbacks, Status, Delta, FreezeOverflow, Refresh, request
  <2>2. CASE TimerRuns
    BY <2>0, <2>2 DEF TimerRuns, Refresh, request
  <2>3. CASE BeatWakes
    BY <2>0, <2>3 DEF BeatWakes, request
  <2>4. CASE BeatLeaves \/ UNCHANGED vars
    BY <2>4 DEF BeatLeaves, vars, request
  <2>5. CASE Arrive \/ Answer
    BY <2>5 DEF Arrive, Answer, Accept, Fail, Reject, CatchUpEnds
  <2>6. CASE Finalize
    BY <2>6 DEF Finalize, Begin, request
  <2>7. CASE Tick
    BY <2>7 DEF Tick
  <2>. QED BY <2>1, <2>2, <2>3, <2>4, <2>5, <2>6, <2>7 DEF Next
<1>2. IInv /\ [Next]_vars
        => (Free /\ sending' \in {"snapshot", "heartbeat"}
              => attempted >= Gap /\ cooldown = 0)
  BY <1>1
<1>. QED BY <1>2, Invariance, PTL DEF Spec, RequestsAreSpaced

(* Once the turn ended or the preview was given up, nothing that waited for the    *)
(* mutex sends any more.                                                    *)
THEOREM Silent == Spec => SilentAfterClose
<1>1. ASSUME [Next]_vars, phase \in {"disabled", "closed"}, Free
      PROVE  sending' = "none"
  <2>. USE <1>1 DEF Free, CallbackAllowed
  <2>1. CASE Callbacks \/ TimerRuns \/ BeatWakes
    BY <2>1 DEF Callbacks, Status, Delta, FreezeOverflow, TimerRuns, BeatWakes, Refresh
  <2>2. CASE BeatLeaves \/ UNCHANGED vars
    BY <2>2 DEF BeatLeaves, vars, request
  <2>3. CASE Arrive \/ Answer
    BY <2>3 DEF Arrive, Answer, Accept, Fail, Reject, CatchUpEnds
  <2>4. CASE Finalize
    BY <2>4 DEF Finalize, request
  <2>5. CASE Tick
    BY <2>5 DEF Tick
  <2>. QED BY <2>1, <2>2, <2>3, <2>4, <2>5 DEF Next
<1>2. [Next]_vars
        => (phase \in {"disabled", "closed"} /\ Free => sending' = "none")
  BY <1>1
<1>. QED BY <1>2, PTL DEF Spec, SilentAfterClose

-----------------------------------------------------------------------------
(* Snapshots are accepted in the order in which they were rendered.            *)

(* s was rendered no earlier in the turn than t.                               *)
NotOlder(s, t) == s[1] >= t[1] /\ s[2] >= t[2]

(* t was rendered from what the sink has by now.                               *)
Past(t) == statuses >= t[1] /\ content >= t[2]

(* The accepted snapshot, the one on its way, the frozen one and the present,     *)
(* in the order of their moments.                                            *)
InSequence ==
  /\ Past(shown)
  /\ overflow => Past(frozen) /\ NotOlder(frozen, shown)
  /\ ~Free => NotOlder(snapshot, shown) /\ Past(snapshot)
  /\ ~Free /\ overflow => NotOlder(frozen, snapshot)

(* Whatever timer, heartbeat, retry or catch-up sends it: a snapshot that is       *)
(* accepted was rendered no earlier than the one it replaces (what it displays    *)
(* may be less: the oldest of more than 24 lines and media directives go).        *)
NeverOutOfDate == [][NotOlder(shown', shown)]_vars

LEMMA SnapshotsArePairs ==
  ASSUME NEW s \in Snapshots
  PROVE  s[1] \in Nat /\ s[2] \in Nat /\ s = <<s[1], s[2]>>
  BY Times DEF Snapshots

(* refreshLocked sends what the sink knows or what it froze.                     *)
LEMMA RefreshSends ==
  ASSUME Callbacks \/ TimerRuns
  PROVE  /\ shown' = shown
         /\ \/ sending' = sending /\ snapshot' = snapshot
            \/ overflow' /\ snapshot' = frozen'
            \/ ~overflow' /\ snapshot'[1] = statuses' /\ snapshot'[2] = content'
<1>1. /\ shown' = shown
      /\ \/ sending' = sending /\ snapshot' = snapshot
         \/ snapshot' = IF overflow' THEN frozen' ELSE <<statuses', content'>>
  BY DEF Callbacks, Status, Delta, FreezeOverflow, TimerRuns, Refresh, Begin,
         Current, CallbackOnly, request
<1>. QED BY <1>1

Numbered ==
  /\ statuses \in Nat /\ content \in Nat
  /\ frozen[1] \in Nat /\ frozen[2] \in Nat
  /\ shown[1] \in Nat /\ shown[2] \in Nat
  /\ snapshot[1] \in Nat /\ snapshot[2] \in Nat

LEMMA SequenceStep ==
  ASSUME IInv, InSequence, [Next]_vars
  PROVE  InSequence' /\ NotOlder(shown', shown)
<1>1. Numbered
  BY SnapshotsArePairs, Times DEF IInv, TypeOK, Numbered
<1>. USE <1>1 DEF Numbered, InSequence, NotOlder, Past, Free
<1>2. CASE Callbacks \/ TimerRuns
  <2>1. Free /\ statuses' \in {statuses, statuses + 1}
    BY <1>2 DEF Callbacks, Status, Delta, FreezeOverflow, TimerRuns, source
  <2>3. content' \in {content, content + 1}
    BY <1>2 DEF Callbacks, Status, Delta, FreezeOverflow, TimerRuns, source
  <2>2. \/ overflow' = overflow /\ frozen' = frozen
        \/ frozen' = shown
        \/ frozen'[1] = statuses' /\ frozen'[2] = content'
    <3>1. \/ overflow' = overflow /\ frozen' = frozen
          \/ frozen' \in {<<statuses, content'>>, shown} /\ statuses' = statuses
      BY <1>2 DEF Callbacks, Status, Delta, FreezeOverflow, TimerRuns, source
    <3>. QED BY <3>1
  <2>. QED BY <2>1, <2>2, <2>3, <1>2, RefreshSends
<1>3. CASE BeatWakes \/ BeatLeaves \/ Arrive \/ Fail \/ Reject \/ Tick \/ UNCHANGED vars
  <2>1. UNCHANGED <<statuses, content, overflow, frozen, shown>>
    BY <1>3 DEF BeatWakes, BeatLeaves, Arrive, Fail, Reject, Tick, source, vars
  <2>2. \/ sending' = sending /\ snapshot' = snapshot
        \/ sending' = "none"
        \/ snapshot' = shown
    BY <1>3 DEF BeatWakes, BeatLeaves, Arrive, Fail, Reject, Tick, vars, Begin,
                End, request
  <2>. QED BY <2>1, <2>2
<1>4. CASE Accept \/ CatchUpEnds
  <2>1. /\ UNCHANGED <<statuses, content, overflow, frozen>>
        /\ sending # "none" /\ sending' = "none"
        /\ shown' = snapshot \/ shown' = shown
    BY <1>4 DEF Accept, CatchUpEnds, End, source
  <2>. QED BY <2>1
<1>5. CASE Finalize
  <2>1. UNCHANGED <<statuses, content, overflow, frozen, shown>>
    BY <1>5 DEF Finalize, source
  <2>2. \/ sending' = sending /\ snapshot' = snapshot
        \/ overflow /\ snapshot' = frozen
        \/ ~overflow /\ snapshot'[1] = statuses /\ snapshot'[2] = content
    <3>1. \/ sending' = sending /\ snapshot' = snapshot
          \/ snapshot' = IF overflow THEN frozen ELSE <<statuses, content>>
      BY <1>5 DEF Finalize, Begin, Current, request
    <3>. QED BY <3>1
  <2>. QED BY <2>1, <2>2
<1>. QED BY <1>2, <1>3, <1>4, <1>5 DEF Next, Answer

(* No accepted snapshot is overtaken by one rendered before it, a frozen, retried   *)
(* or repeated payload included (rich_streaming.go:264, 336, 591, 632-642).        *)
THEOREM NeverOlder == Spec => NeverOutOfDate
<1>1. Init => InSequence
  BY DEF Init, InSequence, NotOlder, Past, Free
<1>2. IInv /\ InSequence /\ [Next]_vars => InSequence' /\ NotOlder(shown', shown)
  BY SequenceStep
<1>. QED BY <1>1, <1>2, Invariance, PTL DEF Spec, NeverOutOfDate
=============================================================================
