------------------------------- MODULE PiMonitor -------------------------------
(***************************************************************************)
(* What the firmware does with a block of audio                            *)
(* (urban_acoustics/supervisor.py, _handle_block): it keeps it in the ring *)
(* buffer, publishes the sample or queues it, hands a frame to the paced   *)
(* spectrogram publisher, drives the breach LED, feeds the event detector  *)
(* and cuts the audio of the events whose post-roll has passed.  What      *)
(* becomes of a cut clip is EventDevice.                                   *)
(*                                                                         *)
(* Time is counted in blocks.  The handler awaits between these steps;     *)
(* commands, the drain loop and the spectrogram task run meanwhile.        *)
(***************************************************************************)
EXTENDS Integers, Sequences, FiniteSets

CONSTANTS
  PreRoll, PostRoll, MinDuration, MaxDuration, Cooldown,   \* config.py, in blocks
  Hysteresis, Threshold,   \* thresholds an operator may set; the first is the least
  Level,         \* LAFmax of a block
  SpectMax,      \* SpectrogramPublisher._QUEUE_MAX
  PruneBatch,    \* rows the queue deletes at a time when its file is too large
  Command,       \* LED commands
  Scenario       \* bound: how many blocks, how many disturbances of which kinds

\* Audio lost or a block that fails, the LED, the broker, a PUBACK or a frame that is late,
\* the queue at its size cap.
Disturbance == {"audio", "threshold", "led", "link", "health", "lag", "cap"}

MonitorAssumption ==
  /\ {PreRoll, PostRoll, Cooldown} \subseteq Nat
  /\ MinDuration \in Nat \ {0} /\ MaxDuration \in Nat \ {0} /\ MinDuration <= MaxDuration
  /\ Level \subseteq Int /\ Threshold \subseteq Int /\ Threshold # {} /\ Hysteresis \in Nat
  /\ SpectMax \in Nat \ {0} /\ PruneBatch \in Nat \ {0} /\ "capture" \notin Command
  /\ \A s \in Scenario : s.blocks \in Nat /\ s.faults \in Nat /\ s.kinds \subseteq Disturbance
ASSUME MonitorAssumption

\* Mutant: the ring holds no more than the longest event.
RingOfOneEvent == MaxDuration

\* The ring holds pre-roll, the longest event, post-roll and two seconds more.
Margin == 2
RingBlocks == PreRoll + MaxDuration + PostRoll + Margin

None == -1
Writer == Command \cup {"capture"}

VARIABLES
  now,       \* ts of the last block, at the start 0
  step,      \* the await _handle_block stands at: idle | led | write | feed
  level,     \* LAFmax of the block in hand
  ring,      \* AudioRingBuffer: the ts of its blocks
  evicted,   \* history: ts of the last block evicted
  threshold, \* event_threshold_db
  openAt, closedAt,          \* EventDetector: _open_at, _last_event_closed_at
  pending,   \* _pending_events
  events,    \* history: <<triggered, closed, cut whole>> of the events cut
  mode, ledState, pin,       \* _led_mode, _led_state, the line itself
  flight,    \* Writer -> the value it is writing: thread, or written
  raced,     \* history: two LED writes overlapped, or one failed
  link, outbox, handed, emitted,  \* connected; messages queued, published, all of them
  pruned,    \* history: messages deleted from the queue at its size cap
  frames, hand, sent,  \* the frames waiting, the one in hand, the last one published
  scenario, faults

block == <<now, step, level, ring, evicted>>
detector == <<openAt, closedAt, pending, events>>
led == <<mode, ledState, pin, flight, raced>>
telemetry == <<link, outbox, handed, emitted, pruned>>
spectrogram == <<frames, hand, sent>>
vars == <<block, threshold, detector, led, telemetry, spectrogram, scenario, faults>>

Grounded == [value |-> FALSE, at |-> "none"]

Init ==
  /\ now = 0 /\ step = "idle" /\ level = None /\ ring = <<>> /\ evicted = 0
  /\ threshold = CHOOSE t \in Threshold : \A u \in Threshold : t <= u
  /\ openAt = None /\ closedAt = None /\ pending = {} /\ events = {}
  /\ mode = "auto" /\ ledState = FALSE /\ pin = FALSE /\ raced = FALSE
  /\ flight = [w \in Writer |-> Grounded]
  /\ link = TRUE /\ outbox = {} /\ handed = {} /\ emitted = {} /\ pruned = {}
  /\ frames = <<>> /\ hand = None /\ sent = 0
  /\ scenario \in Scenario /\ faults = 0

Disturbed(kind) ==
  /\ kind \in scenario.kinds /\ faults < scenario.faults
  /\ faults' = faults + 1 /\ UNCHANGED scenario
Undisturbed == UNCHANGED <<scenario, faults>>

-----------------------------------------------------------------------------
(* _handle_block                                                           *)

\* AudioRingBuffer.append: at least RingBlocks stay.
Kept(blocks) ==
  IF Len(blocks) > RingBlocks THEN SubSeq(blocks, Len(blocks) - RingBlocks + 1, Len(blocks)) ELSE blocks

\* ORDER BY priority ASC, id ASC; rows of one kind are queued in the order of their time.
Rank(m) == IF m[1] = "tlm" THEN 0 ELSE 1
Before(m, n) == Rank(m) < Rank(n) \/ (Rank(m) = Rank(n) /\ m[2] < n[2])

\* QueueStore._enforce_cap: what may be deleted, batch after batch, until the file is
\* small enough or the queue is empty.  The event messages come after these.
Prunings ==
  IF "cap" \in scenario.kinds
  THEN {p \in SUBSET outbox :
          /\ \A m \in p, n \in outbox \ p : Before(m, n)
          /\ p = outbox \/ Cardinality(p) % PruneBatch = 0}
  ELSE {{}}

\* enqueue_mqtt: prune, then insert.
Enqueue(m) ==
  \E p \in Prunings : outbox' = (outbox \ p) \cup {m} /\ pruned' = pruned \cup p

\* Published while connected, queued otherwise.
Emit(m) ==
  /\ emitted' = emitted \cup {m}
  /\ IF link THEN handed' = handed \cup {m} /\ UNCHANGED <<outbox, pruned>>
             ELSE Enqueue(m) /\ UNCHANGED handed
  /\ UNCHANGED link

\* TelemetryPublisher.emit, QoS 0.
EmitSample(t) == Emit(<<"tlm", t>>)

\* SpectrogramPublisher.emit sheds the oldest frame, never blocks.
EmitFrame(t) ==
  /\ frames' = Append(IF Len(frames) < SpectMax THEN frames ELSE Tail(frames), t)
  /\ UNCHANGED <<hand, sent>>

\* A block, at once or after audio was lost (arecord exited, an overrun).
Block(t) ==
  /\ step = "idle" /\ t <= scenario.blocks
  /\ (frames # <<>> \/ hand # None) => "lag" \in scenario.kinds
  /\ now' = t /\ step' = "led"
  /\ level' \in Level
  /\ LET all == Append(ring, t) IN
     /\ ring' = Kept(all)
     /\ evicted' = IF Len(all) > Len(ring') THEN Head(all) ELSE evicted
  /\ UNCHANGED <<threshold, detector, led>>

NextBlock ==
  /\ Block(now + 1) /\ EmitSample(now + 1) /\ EmitFrame(now + 1)
  /\ Undisturbed

BlockAfterGap ==
  /\ Disturbed("audio")
  /\ Block(now + 2) /\ EmitSample(now + 2) /\ EmitFrame(now + 2)

\* A full disk or a failing DSP: the exception ends the handling of the block.
BlockFails ==
  /\ EmitSample(now + 1) \/ UNCHANGED telemetry
  /\ Disturbed("audio")
  /\ step = "idle" /\ now < scenario.blocks /\ now' = now + 1
  /\ ring' = Kept(Append(ring, now + 1))
  /\ evicted' = IF Len(ring) = RingBlocks THEN Head(ring) ELSE evicted
  /\ UNCHANGED <<step, level, threshold, detector, led, spectrogram>>

-----------------------------------------------------------------------------
(* The LED: _set_led_state compares, hands the write to a thread and notes *)
(* the new state when it is back.                                          *)

Flying == {w \in Writer : flight[w].at # "none"}

SetLed(w, on) ==
  flight' = IF on = ledState THEN flight
            ELSE [flight EXCEPT ![w] = [value |-> on, at |-> "thread"]]

\* Mutant: the latch is not looked at.
UpdateBreachLedAlways ==
  /\ step = "led"
  /\ IF (IF ledState THEN level < threshold - Hysteresis ELSE level >= threshold)
     THEN SetLed("capture", ~ledState)
     ELSE UNCHANGED flight
  /\ step' = IF flight' = flight THEN "feed" ELSE "write"
  /\ UNCHANGED <<now, level, ring, evicted, threshold, detector, mode, ledState, pin, raced,
                 telemetry, spectrogram, scenario, faults>>

\* _update_breach_led
UpdateBreachLed ==
  /\ step = "led"
  /\ IF mode = "auto" /\ (IF ledState THEN level < threshold - Hysteresis ELSE level >= threshold)
     THEN SetLed("capture", ~ledState)
     ELSE UNCHANGED flight
  /\ step' = IF flight' = flight THEN "feed" ELSE "write"
  /\ UNCHANGED <<now, level, ring, evicted, threshold, detector, mode, ledState, pin, raced,
                 telemetry, spectrogram, scenario, faults>>

\* PUT /devices/{id}/led publishes without retaining: an offline Pi misses it.
CommandArrives == link

\* _apply_led_command
LedCommand(c, m) ==
  /\ CommandArrives
  /\ flight[c].at = "none"
  /\ Disturbed("led")
  /\ mode' = m
  /\ raced' = (raced \/ Flying # {})
  /\ IF m = "auto" THEN UNCHANGED flight ELSE SetLed(c, m = "on")
  /\ UNCHANGED <<block, threshold, detector, ledState, pin, telemetry, spectrogram>>

\* The capture task goes on once its own write is over.
GoesOn(w) == step' = IF w = "capture" /\ flight'[w].at = "none" THEN "feed" ELSE step

\* LedController.set_state, in its thread and under its lock.
WriteGpio(w) ==
  /\ flight[w].at = "thread"
  /\ \/ /\ pin' = flight[w].value
        /\ flight' = [flight EXCEPT ![w].at = "written"]
        /\ Undisturbed /\ UNCHANGED raced
     \/ /\ Disturbed("led") /\ raced' = TRUE
        /\ flight' = [flight EXCEPT ![w] = Grounded]
        /\ UNCHANGED pin
  /\ GoesOn(w)
  /\ UNCHANGED <<now, level, ring, evicted, threshold, detector, mode, ledState, telemetry, spectrogram>>

LedWritten(w) ==
  /\ flight[w].at = "written"
  /\ ledState' = flight[w].value
  /\ flight' = [flight EXCEPT ![w] = Grounded]
  /\ GoesOn(w)
  /\ UNCHANGED <<now, level, ring, evicted, threshold, detector, mode, pin, raced, telemetry, spectrogram, scenario, faults>>

-----------------------------------------------------------------------------
(* EventDetector.feed, then _flush_pending_events.                         *)

Loud  == level >= threshold
Quiet == level < threshold - Hysteresis
\* Mutant: the cool-down counts from when the event opened.
CooldownSinceOpening == closedAt # None /\ now - (closedAt - MinDuration) < Cooldown

InCooldown == closedAt # None /\ now - closedAt < Cooldown

\* The event that is open once the sample has been looked at.
Opened == IF openAt = None /\ Loud /\ ~InCooldown THEN now ELSE openAt
TooLong  == Opened # None /\ now - Opened >= MaxDuration
Ends     == Opened # None /\ Quiet
LongEnough == now - Opened >= MinDuration

Candidate ==
  [start |-> Opened - PreRoll, end |-> now + PostRoll, triggered |-> Opened, closed |-> now]
Closes == TooLong \/ (Ends /\ LongEnough)
Candidates == pending \cup (IF Closes THEN {Candidate} ELSE {})

\* A block at t covers [t, t + 1).
Due == {c \in Candidates : now + 1 >= c.end}
Whole(c) == evicted + 1 <= c.start \/ evicted = 0

Feed ==
  /\ step = "feed" /\ step' = "idle" /\ level' = None
  /\ openAt' = IF Closes \/ Ends THEN None ELSE Opened
  /\ closedAt' = IF Closes THEN now ELSE closedAt
  /\ pending' = Candidates \ Due
  /\ events' = events \cup {<<c.triggered, c.closed, Whole(c)>> : c \in Due}
  /\ UNCHANGED <<now, ring, evicted, threshold, led, telemetry, spectrogram, scenario, faults>>

-----------------------------------------------------------------------------
(* The other tasks.  What commutes with the handling of a block is taken   *)
(* between two blocks.                                                     *)

SetThreshold ==
  /\ Disturbed("threshold")
  /\ \E t \in Threshold \ {threshold} : threshold' = t
  /\ UNCHANGED <<block, detector, led, telemetry, spectrogram>>

LinkChanges ==
  /\ step = "idle"
  /\ link' = ~link
  /\ IF link THEN Disturbed("link") ELSE Undisturbed
  /\ UNCHANGED <<block, threshold, detector, led, outbox, handed, emitted, pruned, spectrogram>>

\* _health_loop.  Bound: one report per block.
Report == <<"health", now>>
ReportDue == step = "idle" /\ "health" \in scenario.kinds /\ Report \notin emitted

\* HealthPublisher.emit, QoS 1: without a PUBACK in time the report is queued too,
\* though the client may still deliver it.
HealthReport ==
  LET m == Report IN
  /\ ReportDue
  /\ \/ Emit(m) /\ Undisturbed
     \/ /\ link /\ Disturbed("health")
        /\ emitted' = emitted \cup {m} /\ Enqueue(m)
        /\ handed' \in {handed, handed \cup {m}}
        /\ UNCHANGED link
  /\ UNCHANGED <<block, threshold, detector, led, spectrogram>>

\* The event messages and uploads that are stored make room as well.
EventStored ==
  /\ step = "idle"
  /\ \E p \in Prunings \ {{}} : outbox' = outbox \ p /\ pruned' = pruned \cup p
  /\ UNCHANGED <<block, threshold, detector, led, link, handed, emitted, spectrogram, scenario, faults>>

\* _drain_mqtt_loop: published first, deleted then.
Drain ==
  /\ step = "idle" /\ link
  /\ \E m \in outbox \ handed : handed' = handed \cup {m}
  /\ UNCHANGED <<block, threshold, detector, led, link, outbox, emitted, pruned, spectrogram, scenario, faults>>

\* Mutant: what could not be published is deleted too.
AckAll ==
  /\ step = "idle"
  /\ \E m \in outbox : outbox' = outbox \ {m}
  /\ UNCHANGED <<block, threshold, detector, led, link, handed, emitted, pruned, spectrogram, scenario, faults>>

Ack ==
  /\ step = "idle"
  /\ \E m \in outbox \cap handed : outbox' = outbox \ {m}
  /\ UNCHANGED <<block, threshold, detector, led, link, handed, emitted, pruned, spectrogram, scenario, faults>>

\* SpectrogramPublisher.run: a frame is taken, waits for its time, is published.
TakeFrame ==
  /\ step = "idle" /\ hand = None /\ frames # <<>>
  /\ hand' = Head(frames) /\ frames' = Tail(frames)
  /\ UNCHANGED <<block, threshold, detector, led, telemetry, sent, scenario, faults>>

\* Mutant: a frame that could not be published is queued again.
PublishFrameAgain ==
  /\ step = "idle" /\ hand # None /\ hand' = None
  /\ IF link THEN sent' = hand /\ UNCHANGED frames
             ELSE frames' = Append(frames, hand) /\ UNCHANGED sent
  /\ UNCHANGED <<block, threshold, detector, led, telemetry, scenario, faults>>

PublishFrame ==
  /\ step = "idle" /\ hand # None /\ hand' = None
  /\ sent' = IF link THEN hand ELSE sent
  /\ UNCHANGED <<block, threshold, detector, led, telemetry, frames, scenario, faults>>

Next ==
  \/ NextBlock \/ BlockAfterGap \/ BlockFails
  \/ UpdateBreachLed \/ Feed
  \/ \E c \in Command, m \in {"auto", "on", "off"} : LedCommand(c, m)
  \/ \E w \in Writer : WriteGpio(w) \/ LedWritten(w)
  \/ SetThreshold \/ LinkChanges \/ HealthReport \/ EventStored \/ Drain \/ Ack \/ TakeFrame \/ PublishFrame

Spec == Init /\ [][Next]_vars

-----------------------------------------------------------------------------
\* Types and bounds: the buffers stay within their sizes.
MonitorTypeOK ==
  /\ now \in 0..scenario.blocks /\ step \in {"idle", "led", "write", "feed"}
  /\ Len(ring) <= RingBlocks /\ Len(frames) <= SpectMax
  /\ openAt \in -1..now /\ closedAt \in -1..now
  /\ \A c \in pending : c.triggered \in 1..c.closed /\ c.closed <= now
  /\ mode \in {"auto", "on", "off"}

\* When the audio of an event is cut, everything that was captured from its
\* pre-roll to its post-roll is still in the ring: the margin of two blocks
\* makes up for blocks whose handling failed, which close an event late or cut
\* it late, as long as there are no more of them than that.
ClipIsWhole == faults <= Margin => \A e \in events : e[3]

\* Events are as long as they must be and do not crowd: the next one opens no
\* sooner than the cool-down after the last one closed, whatever the level and
\* the threshold did.
EventsApart ==
  \A a, b \in {<<c.triggered, c.closed>> : c \in pending} \cup {<<e[1], e[2]>> : e \in events} :
    /\ a[2] - a[1] >= MinDuration
    /\ a # b => a[1] - b[2] >= Cooldown \/ b[1] - a[2] >= Cooldown

\* The supervisor's promise for "on" and "off": a latched LED stays as it was
\* latched, and _led_state mirrors the line, unless a command overtook a write
\* that was still in its thread, or a write failed.
LatchHolds ==
  Flying = {} /\ ~raced =>
    /\ pin = ledState
    /\ mode \in {"on", "off"} => pin = (mode = "on")

\* Every sample and every health report was handed to the broker's client, waits in the
\* queue, or fell to its size cap, whatever the connection did between publishing and
\* deleting it; and the cap takes samples before reports and the oldest first: what
\* is kept of the kind it took, or of a lesser one, came later.
SamplesAccounted ==
  /\ emitted \subseteq handed \cup outbox \cup pruned
  /\ \A p \in pruned, m \in outbox : Rank(m) <= Rank(p) => m[2] > p[2]

\* The spectrogram is live: frames go out in the order of their time, none
\* twice and none older than one already out.
FramesLive ==
  LET all == (IF hand = None THEN <<>> ELSE <<hand>>) \o frames IN
  \A i \in DOMAIN all : all[i] > sent /\ \A j \in 1..(i - 1) : all[j] < all[i]
=============================================================================
