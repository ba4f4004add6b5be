--------------------------- MODULE PiMonitorProofs ---------------------------
(* Theorems about PiMonitor, for any durations, levels, thresholds, commands *)
(* and scenarios.                                                            *)
EXTENDS PiMonitor, SequenceTheorems, TLAPS

USE MonitorAssumption DEF MonitorAssumption

-----------------------------------------------------------------------------
(* Steps.                                                                    *)

\* A step that is about neither the blocks nor the events.
Aside ==
  /\ UNCHANGED <<now, ring, evicted, detector, scenario>>
  /\ faults' >= faults /\ (step' = "idle" <=> step = "idle")
  /\ step' \in {"idle", "led", "write", "feed"}

Clock ==
  /\ scenario \in Scenario /\ faults \in Nat /\ now \in 0..scenario.blocks
  /\ step \in {"idle", "led", "write", "feed"} /\ (step # "idle" => now >= 1)

Flight == [value : BOOLEAN, at : {"none", "thread", "written"}]
LedTypes ==
  /\ flight \in [Writer -> Flight] /\ ledState \in BOOLEAN /\ pin \in BOOLEAN /\ raced \in BOOLEAN
  /\ mode \in {"auto", "on", "off"}
  /\ step = "write" <=> flight["capture"].at # "none"

LEMMA SetLedFacts ==
  ASSUME LedTypes, NEW w \in Writer, NEW on \in BOOLEAN, SetLed(w, on)
  PROVE  /\ flight' \in [Writer -> Flight]
         /\ \A x \in Writer \ {w} : flight'[x] = flight[x]
         /\ \/ flight' = flight /\ on = ledState
            \/ /\ flight'[w].value = on /\ flight'[w].at = "thread" /\ on # ledState
               /\ flight'[w] # flight[w] \/ flight[w].at # "none"
<1>1. CASE on = ledState BY <1>1 DEF SetLed, LedTypes
<1>2. CASE on # ledState
  <2>1. flight' = [flight EXCEPT ![w] = [value |-> on, at |-> "thread"]] BY <1>2 DEF SetLed
  <2>2. [value |-> on, at |-> "thread"] \in Flight BY DEF Flight
  <2>3. flight'[w] = [value |-> on, at |-> "thread"] /\ \A x \in Writer \ {w} : flight'[x] = flight[x]
    BY <2>1 DEF LedTypes
  <2>4. flight' \in [Writer -> Flight] BY <2>1, <2>2 DEF LedTypes
  <2>5. flight[w] = [value |-> on, at |-> "thread"] => flight[w].at # "none" OBVIOUS
  <2> QED BY <1>2, <2>3, <2>4, <2>5
<1> QED BY <1>1, <1>2

LEMMA GroundFacts ==
  ASSUME LedTypes, NEW w \in Writer, NEW r \in Flight, flight' = [flight EXCEPT ![w] = r]
  PROVE  /\ flight' \in [Writer -> Flight] /\ flight'[w] = r
         /\ \A x \in Writer \ {w} : flight'[x] = flight[x]
BY DEF LedTypes

LEMMA LedInit == Init => LedTypes
<1> SUFFICES ASSUME Init PROVE LedTypes OBVIOUS
<1>1. Grounded \in Flight BY DEF Grounded, Flight
<1>2. "capture" \in Writer BY DEF Writer
<1> QED BY <1>1, <1>2 DEF Init, LedTypes, Grounded

LEMMA LedStep == LedTypes /\ [Next]_vars => LedTypes'
<1> SUFFICES ASSUME LedTypes, [Next]_vars PROVE LedTypes' OBVIOUS
<1>0. "capture" \in Writer BY DEF Writer
<1>1. CASE NextBlock \/ BlockAfterGap
  <2>1. UNCHANGED led /\ step = "idle" /\ step' = "led" BY <1>1 DEF NextBlock, BlockAfterGap, Block
  <2> QED BY <2>1 DEF LedTypes, led
<1>2. CASE BlockFails \/ SetThreshold \/ LinkChanges \/ HealthReport \/ EventStored \/ Drain \/ Ack
           \/ TakeFrame \/ PublishFrame \/ UNCHANGED vars
  <2>1. UNCHANGED <<led, step>>
    BY <1>2 DEF BlockFails, SetThreshold, LinkChanges, HealthReport, EventStored, Drain, Ack, TakeFrame,
                PublishFrame, vars, block
  <2> QED BY <2>1 DEF LedTypes, led
<1>3. CASE Feed
  <2>1. UNCHANGED led /\ step = "feed" /\ step' = "idle" BY <1>3 DEF Feed
  <2> QED BY <2>1 DEF LedTypes, led
<1>4. CASE UpdateBreachLed
  <2>1. /\ step = "led" /\ UNCHANGED <<mode, ledState, pin, raced>>
        /\ step' = IF flight' = flight THEN "feed" ELSE "write"
        /\ SetLed("capture", ~ledState) \/ UNCHANGED flight
    BY <1>4 DEF UpdateBreachLed
  <2>2. flight["capture"].at = "none" BY <2>1 DEF LedTypes
  <2>3. CASE UNCHANGED flight BY <2>1, <2>2, <2>3 DEF LedTypes
  <2>4. CASE SetLed("capture", ~ledState)
    <3>1. /\ flight' \in [Writer -> Flight] /\ flight'["capture"].at = "thread"
          /\ flight'["capture"] # flight["capture"]
      BY <1>0, <2>2, <2>4, SetLedFacts DEF LedTypes
    <3>2. step' = "write" BY <2>1, <3>1
    <3> QED BY <2>1, <3>1, <3>2 DEF LedTypes
  <2> QED BY <2>1, <2>3, <2>4
<1>5. ASSUME NEW c \in Command, NEW m \in {"auto", "on", "off"}, LedCommand(c, m) PROVE LedTypes'
  <2>1. /\ c \in Writer /\ UNCHANGED <<ledState, pin, step>> /\ mode' = m
        /\ raced' = (raced \/ Flying # {}) /\ flight[c].at = "none"
        /\ SetLed(c, m = "on") \/ UNCHANGED flight
    BY <1>5 DEF LedCommand, Writer, block
  <2>2. CASE UNCHANGED flight BY <2>1, <2>2 DEF LedTypes
  <2>3. CASE SetLed(c, m = "on")
    <3>1. /\ flight' \in [Writer -> Flight]
          /\ \A x \in Writer \ {c} : flight'[x] = flight[x]
      BY <2>1, <2>3, SetLedFacts
    <3>2. flight'["capture"] = flight["capture"] BY <1>0, <3>1
    <3> QED BY <2>1, <3>1, <3>2 DEF LedTypes
  <2> QED BY <2>1, <2>2, <2>3
<1>6. ASSUME NEW w \in Writer, WriteGpio(w) PROVE LedTypes'
  <2>1. /\ flight[w] \in Flight /\ flight[w].at = "thread" /\ UNCHANGED <<mode, ledState>>
        /\ step' = IF w = "capture" /\ flight'[w].at = "none" THEN "feed" ELSE step
    BY <1>6 DEF WriteGpio, GoesOn, LedTypes
  <2>2. CASE pin' = flight[w].value /\ flight' = [flight EXCEPT ![w].at = "written"] /\ raced' = raced
    <3> DEFINE r == [flight[w] EXCEPT !.at = "written"]
    <3>1. r \in Flight /\ r.at = "written" BY <2>1 DEF Flight
    <3>2. flight' = [flight EXCEPT ![w] = r] BY <2>2
    <3> HIDE DEF r
    <3>3. /\ flight' \in [Writer -> Flight] /\ flight'[w].at = "written"
          /\ \A x \in Writer \ {w} : flight'[x] = flight[x]
      BY <3>1, <3>2, GroundFacts
    <3>4. flight'["capture"].at # "none" <=> flight["capture"].at # "none" BY <1>0, <2>1, <3>3
    <3>5. step' = step /\ pin' \in BOOLEAN BY <2>1, <2>2, <3>3 DEF Flight
    <3> QED BY <2>1, <2>2, <3>3, <3>4, <3>5 DEF LedTypes
  <2>3. CASE raced' = TRUE /\ flight' = [flight EXCEPT ![w] = Grounded] /\ pin' = pin
    <3>1. Grounded \in Flight /\ Grounded.at = "none" BY DEF Grounded, Flight
    <3>2. /\ flight' \in [Writer -> Flight] /\ flight'[w].at = "none"
          /\ \A x \in Writer \ {w} : flight'[x] = flight[x]
      BY <2>3, <3>1, GroundFacts
    <3>3. CASE w = "capture" BY <2>1, <2>3, <3>2, <3>3 DEF LedTypes
    <3>4. CASE w # "capture"
      <4>1. flight'["capture"] = flight["capture"] BY <1>0, <3>2, <3>4
      <4> QED BY <2>1, <2>3, <3>2, <3>4, <4>1 DEF LedTypes
    <3> QED BY <3>3, <3>4
  <2> QED BY <1>6, <2>2, <2>3 DEF WriteGpio
<1>7. ASSUME NEW w \in Writer, LedWritten(w) PROVE LedTypes'
  <2>1. /\ flight[w] \in Flight /\ UNCHANGED <<mode, pin, raced>> /\ ledState' = flight[w].value
        /\ flight' = [flight EXCEPT ![w] = Grounded]
        /\ step' = IF w = "capture" /\ flight'[w].at = "none" THEN "feed" ELSE step
    BY <1>7 DEF LedWritten, GoesOn, LedTypes
  <2>2. Grounded \in Flight /\ Grounded.at = "none" BY DEF Grounded, Flight
  <2>3. /\ flight' \in [Writer -> Flight] /\ flight'[w].at = "none"
        /\ \A x \in Writer \ {w} : flight'[x] = flight[x]
    BY <2>1, <2>2, GroundFacts
  <2>4. ledState' \in BOOLEAN BY <2>1 DEF Flight
  <2>5. CASE w = "capture" BY <2>1, <2>3, <2>4, <2>5 DEF LedTypes
  <2>6. CASE w # "capture"
    <3>1. flight'["capture"] = flight["capture"] BY <1>0, <2>3, <2>6
    <3> QED BY <2>1, <2>3, <2>4, <2>6, <3>1 DEF LedTypes
  <2> QED BY <2>5, <2>6
<1> QED BY <1>1, <1>2, <1>3, <1>4, <1>5, <1>6, <1>7 DEF Next

LEMMA WriteStep ==
  ASSUME Clock, LedTypes, NEW w \in Writer, WriteGpio(w) \/ LedWritten(w)
  PROVE  (step' = "idle" <=> step = "idle") /\ step' \in {"idle", "led", "write", "feed"}
<1>1. flight[w].at # "none" /\ GoesOn(w) BY DEF WriteGpio, LedWritten
<1>2. step' = step \/ (w = "capture" /\ step' = "feed") BY <1>1 DEF GoesOn
<1>3. step \in {"idle", "led", "write", "feed"} BY DEF Clock
<1>4. w = "capture" => step = "write" BY <1>1 DEF LedTypes
<1> QED BY <1>2, <1>3, <1>4

\* Every step: a block, the detector, or aside of them.
LEMMA StepCases ==
  ASSUME Clock, LedTypes, [Next]_vars
  PROVE  NextBlock \/ BlockAfterGap \/ BlockFails \/ Feed \/ Aside
<1>0. /\ (Undisturbed => faults' = faults /\ scenario' = scenario)
      /\ \A k : Disturbed(k) => faults' >= faults /\ scenario' = scenario
      /\ faults >= faults /\ step \in {"idle", "led", "write", "feed"}
  BY DEF Undisturbed, Disturbed, Clock
<1>1. CASE UpdateBreachLed BY <1>0, <1>1 DEF UpdateBreachLed, Aside, detector
<1>2. CASE \E c \in Command, m \in {"auto", "on", "off"} : LedCommand(c, m)
  BY <1>0, <1>2 DEF LedCommand, Aside, block
<1>3. ASSUME NEW w \in Writer, WriteGpio(w) \/ LedWritten(w) PROVE Aside
  <2>1. UNCHANGED <<now, ring, evicted, detector>> /\ faults' >= faults /\ scenario' = scenario
    BY <1>0, <1>3 DEF WriteGpio, LedWritten
  <2> QED BY <1>3, <2>1, WriteStep DEF Aside
<1>4. CASE SetThreshold \/ LinkChanges \/ HealthReport \/ EventStored \/ Drain \/ Ack \/ TakeFrame
           \/ PublishFrame \/ UNCHANGED vars
  <2>1. UNCHANGED <<block, detector>> /\ (faults' >= faults) /\ scenario' = scenario
    BY <1>0, <1>4 DEF SetThreshold, LinkChanges, HealthReport, EventStored, Drain, Ack, TakeFrame,
                       PublishFrame, vars
  <2> QED BY <1>0, <2>1 DEF Aside, block
<1> QED BY <1>1, <1>2, <1>3, <1>4 DEF Next

-----------------------------------------------------------------------------
(* The ring.                                                                 *)

\* The i-th block from the end is at least i - 1 blocks old.
RingOK ==
  /\ ring \in Seq(Int) /\ Len(ring) <= RingBlocks
  /\ \A i \in 1..Len(ring) : ring[i] <= now - (Len(ring) - i)
  /\ evicted \in Int /\ (evicted = 0 \/ evicted <= now - RingBlocks)

LEMMA RingBlocksNat == RingBlocks \in Nat /\ RingBlocks > 2
BY DEF RingBlocks, Margin

LEMMA KeptFacts ==
  ASSUME RingOK, now \in Nat, NEW t \in Int, t > now
  PROVE  LET all == Append(ring, t) IN
         /\ Kept(all) \in Seq(Int) /\ Len(Kept(all)) <= RingBlocks
         /\ \A i \in 1..Len(Kept(all)) : Kept(all)[i] <= t - (Len(Kept(all)) - i)
         /\ Len(all) > Len(Kept(all)) => Head(all) \in Int /\ Head(all) <= t - RingBlocks
         /\ Len(ring) = RingBlocks => Head(ring) \in Int /\ Head(ring) <= t - RingBlocks
<1> DEFINE all == Append(ring, t)
           n == Len(ring)
<1>0. ring \in Seq(Int) /\ n \in Nat /\ n <= RingBlocks BY DEF RingOK
<1>1. /\ all \in Seq(Int) /\ Len(all) = n + 1 /\ all[n + 1] = t
      /\ \A i \in 1..n : all[i] = ring[i]
  BY <1>0, AppendProperties
<1>2. \A i \in 1..Len(all) : all[i] \in Int BY <1>1, ElementOfSeq
<1>3. \A i \in 1..(n + 1) : all[i] <= t - (n + 1 - i)
  <2> SUFFICES ASSUME NEW i \in 1..(n + 1) PROVE all[i] <= t - (n + 1 - i) OBVIOUS
  <2>1. CASE i = n + 1 BY <1>0, <1>1, <2>1
  <2>2. CASE i \in 1..n
    <3>1. ring[i] <= now - (n - i) /\ ring[i] \in Int BY <1>0, <2>2, ElementOfSeq DEF RingOK
    <3> QED BY <1>0, <1>1, <2>2, <3>1
  <2> QED BY <1>0, <2>1, <2>2
<1>4. Head(all) = all[1] BY <1>1
<1> HIDE DEF all, n
<1>5. CASE ~(Len(all) > RingBlocks)
  <2>1. Kept(all) = all BY <1>5 DEF Kept
  <2>2. Len(all) <= RingBlocks BY <1>0, <1>1, <1>5, RingBlocksNat
  <2>3. n # RingBlocks /\ ~(Len(all) > Len(Kept(all))) BY <1>0, <1>1, <1>5, <2>1, RingBlocksNat
  <2> QED BY <1>1, <1>3, <2>1, <2>2, <2>3 DEF all, n
<1>6. CASE Len(all) > RingBlocks
  <2>0. n = RingBlocks BY <1>0, <1>1, <1>6, RingBlocksNat
  <2>1. Kept(all) = SubSeq(all, 2, n + 1)
    <3>1. Kept(all) = SubSeq(all, Len(all) - RingBlocks + 1, Len(all)) BY <1>6 DEF Kept
    <3>2. Len(all) - RingBlocks + 1 = 2 BY <1>0, <1>1, <2>0
    <3> QED BY <1>1, <3>1, <3>2
  <2>2. \A i \in 2..(n + 1) : all[i] \in Int BY <1>0, <1>1, <1>2
  <2>3. /\ Kept(all) \in Seq(Int) /\ Len(Kept(all)) = n
        /\ \A i \in 1..n : Kept(all)[i] = all[i + 1]
    <3>1. /\ SubSeq(all, 2, n + 1) \in Seq(Int)
          /\ Len(SubSeq(all, 2, n + 1)) = IF 2 <= n + 1 THEN n + 1 - 2 + 1 ELSE 0
          /\ \A i \in 1..(n + 1 - 2 + 1) : SubSeq(all, 2, n + 1)[i] = all[2 + i - 1]
      BY <1>0, <2>2, SubSeqProperties
    <3>2. n + 1 - 2 + 1 = n /\ 2 <= n + 1 /\ \A i \in 1..n : 2 + i - 1 = i + 1
      BY <1>0, <2>0, RingBlocksNat
    <3> QED BY <2>1, <3>1, <3>2
  <2>4. ASSUME NEW i \in 1..n PROVE Kept(all)[i] <= t - (n - i)
    <3>1. i + 1 \in 1..(n + 1) BY <1>0
    <3>2. all[i + 1] <= t - (n + 1 - (i + 1)) BY <1>3, <3>1
    <3>3. n + 1 - (i + 1) = n - i BY <1>0
    <3> QED BY <2>3, <3>2, <3>3
  <2>5. all[1] \in Int /\ all[1] <= t - RingBlocks
    <3>1. 1 \in 1..(n + 1) /\ n + 1 - 1 = RingBlocks BY <1>0, <2>0
    <3>2. all[1] \in Int BY <1>1, <1>2, <3>1
    <3>3. all[1] <= t - (n + 1 - 1) BY <1>3, <3>1
    <3> QED BY <3>1, <3>2, <3>3
  <2>6. Head(ring) = ring[1] /\ ring[1] = all[1]
    BY <1>0, <1>1, <2>0, RingBlocksNat DEF n
  <2> QED BY <1>4, <2>0, <2>3, <2>4, <2>5, <2>6 DEF all
<1> QED BY <1>5, <1>6

-----------------------------------------------------------------------------
(* The detector.                                                             *)

Cut == [start : Int, end : Int, triggered : Int, closed : Int]

\* A block that is being handled has aged everything by one.
Handling == IF step = "idle" THEN 0 ELSE 1

\* What is open or waits to be cut is late by no more than the blocks that went wrong.
Timely ==
  /\ openAt \in -1..now /\ openAt # 0 /\ closedAt \in -1..now
  /\ openAt # None => now - openAt <= MaxDuration - 1 + faults + Handling
  /\ \A c \in pending :
       /\ c \in Cut /\ c.triggered >= 1 /\ c.triggered <= c.closed /\ c.closed <= now
       /\ c.start = c.triggered - PreRoll /\ c.end = c.closed + PostRoll
       /\ c.closed - c.triggered <= MaxDuration + faults
       /\ now + 1 - c.triggered <= MaxDuration + PostRoll - 1 + faults + Handling

Pairs == {<<c.triggered, c.closed>> : c \in pending} \cup {<<e[1], e[2]>> : e \in events}

\* The event that is open, too, is a cool-down away from the last.
Spaced ==
  /\ \A a \in Pairs :
       /\ a[1] \in Int /\ a[2] \in Int /\ a[2] - a[1] >= MinDuration
       /\ closedAt # None /\ a[2] <= closedAt
       /\ openAt # None => openAt - a[2] >= Cooldown
  /\ EventsApart

Tracked == Clock /\ RingOK /\ Timely /\ Spaced

LEMMA TrackedInit == Init => Tracked
<1> SUFFICES ASSUME Init PROVE Tracked OBVIOUS
<1>1. Clock BY DEF Init, Clock
<1>2. RingOK
  <2>1. ring = <<>> /\ ring \in Seq(Int) /\ Len(ring) = 0 BY EmptySeq DEF Init
  <2> QED BY <2>1, RingBlocksNat DEF Init, RingOK
<1>3. Pairs = {} BY DEF Init, Pairs
<1>4. Timely BY DEF Init, Timely, None
<1>5. Spaced BY <1>3 DEF Spaced, EventsApart, Pairs
<1> QED BY <1>1, <1>2, <1>4, <1>5 DEF Tracked

LEMMA BlockStep ==
  ASSUME Tracked, LedTypes, NextBlock \/ BlockAfterGap \/ BlockFails
  PROVE  Tracked'
<1>0. Clock /\ RingOK /\ Timely /\ Spaced /\ now \in Nat /\ faults \in Nat
  BY DEF Tracked, Clock
<1>1. /\ UNCHANGED detector /\ step = "idle" /\ scenario' = scenario
      /\ \/ now' = now + 1 /\ faults' = faults /\ step' = "led"
         \/ now' = now + 2 /\ faults' = faults + 1 /\ step' = "led"
         \/ now' = now + 1 /\ faults' = faults + 1 /\ step' = "idle"
      /\ now' <= scenario.blocks
  <2>1. CASE NextBlock BY <2>1 DEF NextBlock, Block, Undisturbed
  <2>2. CASE BlockAfterGap BY <2>2 DEF BlockAfterGap, Block, Disturbed
  <2>3. CASE BlockFails BY <1>0, <2>3 DEF BlockFails, Disturbed, Clock
  <2> QED BY <2>1, <2>2, <2>3
<1>2. now' \in Nat /\ now' > now /\ faults' \in Nat BY <1>0, <1>1
\* The clock and the count after the step, as values.
<1>a. PICK n \in Nat, f \in Nat, h \in Int, g \in Int :
        /\ now' = n /\ faults' = f /\ Handling = h /\ Handling' = g
        /\ n > now /\ f >= faults /\ n - now + h <= f - faults + g
  BY <1>0, <1>1, <1>2 DEF Handling
<1>b. NextBlock \/ BlockAfterGap \/ BlockFails OBVIOUS
<1>3. Clock' BY <1>0, <1>1, <1>2 DEF Clock
<1>4. RingOK'
  <2> DEFINE all == Append(ring, now')
  <2>1. /\ Kept(all) \in Seq(Int) /\ Len(Kept(all)) <= RingBlocks
        /\ \A i \in 1..Len(Kept(all)) : Kept(all)[i] <= now' - (Len(Kept(all)) - i)
        /\ Len(all) > Len(Kept(all)) => Head(all) \in Int /\ Head(all) <= now' - RingBlocks
        /\ Len(ring) = RingBlocks => Head(ring) \in Int /\ Head(ring) <= now' - RingBlocks
    BY <1>0, <1>2, KeptFacts
  <2>2. /\ ring' = Kept(all)
        /\ \/ evicted' = evicted
           \/ Len(all) > Len(Kept(all)) /\ evicted' = Head(all)
           \/ Len(ring) = RingBlocks /\ evicted' = Head(ring)
    <3>1. ASSUME NEW t, Block(t)
          PROVE  /\ now' = t /\ ring' = Kept(Append(ring, t))
                 /\ \/ evicted' = evicted
                    \/ Len(Append(ring, t)) > Len(ring') /\ evicted' = Head(Append(ring, t))
      BY <3>1 DEF Block
    <3>2. CASE NextBlock \/ BlockAfterGap
      <4>1. PICK t : Block(t) BY <3>2 DEF NextBlock, BlockAfterGap
      <4>2. /\ now' = t /\ ring' = Kept(Append(ring, t))
            /\ \/ evicted' = evicted
               \/ Len(Append(ring, t)) > Len(ring') /\ evicted' = Head(Append(ring, t))
        BY <3>1, <4>1
      <4>3. all = Append(ring, t) BY <4>2
      <4> QED BY <4>2, <4>3
    <3>3. CASE BlockFails
      <4>1. now' = now + 1 /\ ring' = Kept(Append(ring, now + 1))
            /\ evicted' = IF Len(ring) = RingBlocks THEN Head(ring) ELSE evicted
        BY <3>3 DEF BlockFails
      <4>2. all = Append(ring, now + 1) BY <4>1
      <4> QED BY <4>1, <4>2
    <3> QED BY <1>b, <3>2, <3>3
  <2> HIDE DEF all
  <2>3. evicted \in Int /\ (evicted = 0 \/ evicted <= now' - RingBlocks)
    <3>1. evicted \in Int /\ (evicted = 0 \/ evicted <= now - RingBlocks) BY <1>0 DEF RingOK
    <3>2. evicted = 0 \/ evicted <= n - RingBlocks BY <1>0, <1>a, <3>1, RingBlocksNat
    <3> QED BY <1>a, <3>1, <3>2
  <2> QED BY <2>1, <2>2, <2>3 DEF RingOK
<1>5. Timely'
  <2>1. pending' = pending /\ openAt' = openAt /\ closedAt' = closedAt BY <1>1 DEF detector
  <2>3. openAt \in Int /\ closedAt \in Int BY <1>0 DEF Timely
  <2>4. ASSUME NEW c \in pending
        PROVE  /\ c \in Cut /\ c.triggered >= 1 /\ c.triggered <= c.closed /\ c.closed <= now'
               /\ c.start = c.triggered - PreRoll /\ c.end = c.closed + PostRoll
               /\ c.closed - c.triggered <= MaxDuration + faults'
               /\ now' + 1 - c.triggered <= MaxDuration + PostRoll - 1 + faults' + Handling'
    <3>1. /\ c \in Cut /\ c.triggered >= 1 /\ c.triggered <= c.closed /\ c.closed <= now
          /\ c.start = c.triggered - PreRoll /\ c.end = c.closed + PostRoll
          /\ c.closed - c.triggered <= MaxDuration + faults
          /\ now + 1 - c.triggered <= MaxDuration + PostRoll - 1 + faults + Handling
      BY <1>0 DEF Timely
    <3>2. c.triggered \in Int /\ c.closed \in Int BY <3>1 DEF Cut
    <3>3. /\ n + 1 - c.triggered <= MaxDuration + PostRoll - 1 + f + g
          /\ c.closed <= n
          /\ c.closed - c.triggered <= MaxDuration + f
      BY <1>0, <1>a, <3>1, <3>2
    <3> QED BY <1>a, <3>1, <3>2, <3>3
  <2>5. openAt # None => now' - openAt <= MaxDuration - 1 + faults' + Handling'
    <3>1. openAt # None => now - openAt <= MaxDuration - 1 + faults + Handling BY <1>0 DEF Timely
    <3>2. openAt # None => n - openAt <= MaxDuration - 1 + f + g BY <1>0, <1>a, <2>3, <3>1
    <3> QED BY <1>a, <3>2
  <2>6. openAt \in -1..now' /\ openAt # 0 /\ closedAt \in -1..now' BY <1>0, <1>2 DEF Timely
  <2> QED BY <2>1, <2>4, <2>5, <2>6 DEF Timely
<1>6. Spaced' BY <1>0, <1>1 DEF Spaced, EventsApart, Pairs, detector
<1> QED BY <1>3, <1>4, <1>5, <1>6 DEF Tracked

LEMMA AsideStep == ASSUME Tracked, Aside, faults' \in Nat PROVE Tracked'
<1>0. Clock /\ RingOK /\ Timely /\ Spaced /\ now \in Nat /\ faults \in Nat
  BY DEF Tracked, Clock
<1>1. Clock' BY <1>0 DEF Clock, Aside
<1>2. RingOK' BY <1>0 DEF RingOK, Aside
<1>3. Spaced' BY <1>0 DEF Spaced, EventsApart, Pairs, Aside, detector
<1>4. Handling' = Handling /\ Handling \in Int /\ faults' >= faults
  BY DEF Handling, Aside
<1>5. UNCHANGED <<now, openAt, closedAt, pending>> BY DEF Aside, detector
<1>6. Timely'
  <2>1. openAt \in Int BY <1>0 DEF Timely
  <2>2. openAt # None => now - openAt <= MaxDuration - 1 + faults' + Handling
    BY <1>0, <1>4, <2>1 DEF Timely
  <2>3. \A c \in pending : /\ now + 1 - c.triggered <= MaxDuration + PostRoll - 1 + faults' + Handling
                           /\ c.closed - c.triggered <= MaxDuration + faults'
    BY <1>0, <1>4 DEF Timely, Cut
  <2> QED BY <1>0, <1>4, <1>5, <2>2, <2>3 DEF Timely
<1> QED BY <1>1, <1>2, <1>3, <1>6 DEF Tracked

\* What the detector makes of the sample in hand.
LEMMA FeedFacts ==
  ASSUME Tracked, Feed
  PROVE  /\ now \in Nat /\ now >= 1 /\ faults \in Nat
         /\ Opened \in -1..now /\ Opened # 0
         /\ \/ Opened = openAt
            \/ Opened = now /\ openAt = None /\ ~InCooldown
         /\ Opened # None => now - Opened <= MaxDuration + faults
         /\ Closes => /\ Opened >= 1 /\ now - Opened >= MinDuration
                      /\ Candidate \in Cut /\ Candidate.triggered = Opened /\ Candidate.closed = now
                      /\ Candidate.start = Opened - PreRoll /\ Candidate.end = now + PostRoll
<1>0. Clock /\ Timely /\ now \in Nat /\ faults \in Nat BY DEF Tracked, Clock
<1>1. step = "feed" /\ now >= 1 BY <1>0 DEF Feed, Clock
<1>2. openAt \in -1..now /\ openAt # 0 BY <1>0 DEF Timely
<1>3. \/ Opened = openAt
      \/ Opened = now /\ openAt = None /\ ~InCooldown
  BY DEF Opened
<1>4. Opened \in -1..now /\ Opened # 0 BY <1>0, <1>1, <1>2, <1>3
<1>5. openAt # None => now - openAt <= MaxDuration - 1 + faults + 1 BY <1>0, <1>1 DEF Timely, Handling
<1>6. Opened # None => now - Opened <= MaxDuration + faults BY <1>0, <1>2, <1>3, <1>5
<1>7. ASSUME Closes
      PROVE  /\ Opened >= 1 /\ now - Opened >= MinDuration
             /\ Candidate \in Cut /\ Candidate.triggered = Opened /\ Candidate.closed = now
             /\ Candidate.start = Opened - PreRoll /\ Candidate.end = now + PostRoll
  <2>1. Opened # None /\ (now - Opened >= MaxDuration \/ now - Opened >= MinDuration)
    BY <1>7 DEF Closes, TooLong, Ends, LongEnough
  <2>2. Opened >= 1 /\ now - Opened >= MinDuration BY <1>0, <1>4, <2>1 DEF None
  <2>3. /\ Opened \in Int /\ now \in Int /\ Opened - PreRoll \in Int /\ now + PostRoll \in Int
    BY <1>0, <1>4
  <2> HIDE DEF Opened
  <2> QED BY <2>2, <2>3 DEF Candidate, Cut
<1> QED BY <1>0, <1>1, <1>3, <1>4, <1>6, <1>7

LEMMA FeedStep == ASSUME Tracked, Feed PROVE Tracked'
<1>0. Clock /\ RingOK /\ Timely /\ Spaced /\ now \in Nat /\ faults \in Nat
  BY DEF Tracked, Clock
<1>1. /\ step = "feed" /\ step' = "idle" /\ UNCHANGED <<now, ring, evicted, scenario, faults>>
      /\ openAt' = (IF Closes \/ Ends THEN None ELSE Opened)
      /\ closedAt' = (IF Closes THEN now ELSE closedAt)
      /\ pending' = Candidates \ Due
      /\ events' = events \cup {<<c.triggered, c.closed, Whole(c)>> : c \in Due}
  BY DEF Feed
<1>2. Clock' BY <1>0, <1>1 DEF Clock
<1>3. RingOK' BY <1>0, <1>1 DEF RingOK
<1>4. /\ now >= 1 /\ Opened \in -1..now /\ Opened # 0
      /\ \/ Opened = openAt
         \/ Opened = now /\ openAt = None /\ ~InCooldown
      /\ Opened # None => now - Opened <= MaxDuration + faults
      /\ Closes => /\ Opened >= 1 /\ now - Opened >= MinDuration
                   /\ Candidate \in Cut /\ Candidate.triggered = Opened /\ Candidate.closed = now
                   /\ Candidate.start = Opened - PreRoll /\ Candidate.end = now + PostRoll
  BY FeedFacts
<1>5. Timely'
  <2>1. Handling' = 0 /\ Handling = 1 BY <1>1 DEF Handling
  <2>2. openAt' \in -1..now /\ openAt' # 0 /\ closedAt' \in -1..now
    BY <1>0, <1>1, <1>4 DEF Timely, None
  <2>3. ~Closes /\ ~Ends /\ Opened # None => now - Opened <= MaxDuration - 1 + faults
    <3>1. ~Closes /\ Opened # None => ~(now - Opened >= MaxDuration) BY DEF Closes, TooLong
    <3> QED BY <1>0, <1>4, <3>1
  <2>4. PICK o \in -1..now, q \in -1..now :
          /\ openAt' = o /\ o # 0 /\ closedAt' = q
          /\ o # None => now - o <= MaxDuration - 1 + faults
    BY <1>1, <2>2, <2>3
  <2>5. ASSUME NEW c \in pending'
        PROVE  /\ c \in Cut /\ c.triggered >= 1 /\ c.triggered <= c.closed /\ c.closed <= now
               /\ c.start = c.triggered - PreRoll /\ c.end = c.closed + PostRoll
               /\ c.closed - c.triggered <= MaxDuration + faults
               /\ now + 1 - c.triggered <= MaxDuration + PostRoll - 1 + faults
    <3>1. c \in Candidates /\ ~(now + 1 >= c.end) BY <1>1, <2>5 DEF Due
    <3>2. /\ c \in Cut /\ c.triggered >= 1 /\ c.triggered <= c.closed /\ c.closed <= now
          /\ c.start = c.triggered - PreRoll /\ c.end = c.closed + PostRoll
          /\ c.closed - c.triggered <= MaxDuration + faults
      <4>1. CASE c \in pending BY <1>0, <4>1 DEF Timely
      <4>2. CASE Closes /\ c = Candidate
        <5>1. Opened \in Int /\ Opened <= now /\ Opened # None BY <1>0, <1>4, <4>2 DEF None
        <5> QED BY <1>0, <1>4, <4>2, <5>1
      <4> QED BY <3>1, <4>1, <4>2 DEF Candidates
    <3>3. c.triggered \in Int /\ c.closed \in Int /\ c.end \in Int BY <3>2 DEF Cut
    <3> QED BY <1>0, <3>1, <3>2, <3>3
  <2>6. now' = now /\ faults' = faults /\ Handling' = 0 BY <1>1, <2>1
  <2>7. MaxDuration - 1 + faults + 0 = MaxDuration - 1 + faults
        /\ MaxDuration + PostRoll - 1 + faults + 0 = MaxDuration + PostRoll - 1 + faults
    BY <1>0
  <2> QED BY <2>4, <2>5, <2>6, <2>7 DEF Timely
<1>6. Spaced'
  <2> DEFINE new == <<Opened, now>>
  <2>1. \A a \in Pairs' : a \in Pairs \/ (Closes /\ a = new)
    <3>1. ASSUME NEW c \in Candidates
          PROVE  <<c.triggered, c.closed>> \in Pairs \/ (Closes /\ <<c.triggered, c.closed>> = new)
      BY <1>4, <3>1 DEF Candidates, Pairs
    <3>2. Due \subseteq Candidates BY DEF Due
    <3>3. \A e \in events' : <<e[1], e[2]>> \in Pairs \/ (Closes /\ <<e[1], e[2]>> = new)
      <4> SUFFICES ASSUME NEW e \in events'
                   PROVE  <<e[1], e[2]>> \in Pairs \/ (Closes /\ <<e[1], e[2]>> = new)
        OBVIOUS
      <4>1. CASE e \in events BY <4>1 DEF Pairs
      <4>2. ASSUME NEW c \in Due, e = <<c.triggered, c.closed, Whole(c)>>
            PROVE  <<e[1], e[2]>> \in Pairs \/ (Closes /\ <<e[1], e[2]>> = new)
        <5>1. e[1] = c.triggered /\ e[2] = c.closed BY <4>2
        <5> QED BY <3>1, <3>2, <5>1
      <4> QED BY <1>1, <4>1, <4>2
    <3> QED BY <1>1, <3>1, <3>3 DEF Pairs
  <2>2. new[1] = Opened /\ new[2] = now OBVIOUS
  <2> HIDE DEF new
  <2>3. \A a \in Pairs : /\ a[1] \in Int /\ a[2] \in Int /\ a[2] - a[1] >= MinDuration
                         /\ closedAt # None /\ a[2] <= closedAt /\ closedAt \in Int /\ closedAt <= now
                         /\ openAt # None => openAt - a[2] >= Cooldown
    BY <1>0 DEF Spaced, Timely
  <2>4. \A a \in Pairs : Opened # None => Opened - a[2] >= Cooldown
    <3> SUFFICES ASSUME NEW a \in Pairs, Opened # None PROVE Opened - a[2] >= Cooldown OBVIOUS
    <3>1. CASE Opened = openAt BY <2>3, <3>1
    <3>2. CASE Opened = now /\ ~InCooldown
      <4>1. ~(now - closedAt < Cooldown) BY <2>3, <3>2 DEF InCooldown
      <4> QED BY <1>0, <2>3, <3>2, <4>1
    <3> QED BY <1>4, <3>1, <3>2
  <2>5. ASSUME NEW a \in Pairs'
        PROVE  /\ a[1] \in Int /\ a[2] \in Int /\ a[2] - a[1] >= MinDuration
               /\ closedAt' # None /\ a[2] <= closedAt'
               /\ openAt' # None => openAt' - a[2] >= Cooldown
    <3>1. CASE a \in Pairs
      <4>1. closedAt' # None /\ a[2] <= closedAt' BY <1>0, <1>1, <2>3, <3>1 DEF None
      <4>2. openAt' # None => openAt' = Opened BY <1>1
      <4> QED BY <2>3, <2>4, <3>1, <4>1, <4>2
    <3>2. CASE Closes /\ a = new
      BY <1>0, <1>1, <1>4, <2>2, <3>2 DEF None
    <3> QED BY <2>1, <3>1, <3>2
  <2>6. EventsApart'
    <3>1. ASSUME NEW a \in Pairs', NEW b \in Pairs'
          PROVE  /\ a[2] - a[1] >= MinDuration
                 /\ a # b => a[1] - b[2] >= Cooldown \/ b[1] - a[2] >= Cooldown
      <4>1. CASE a \in Pairs /\ b \in Pairs BY <1>0, <4>1 DEF Spaced, EventsApart, Pairs
      <4>2. CASE a \in Pairs /\ Closes /\ b = new BY <1>4, <2>2, <2>3, <2>4, <4>2 DEF None
      <4>3. CASE b \in Pairs /\ Closes /\ a = new BY <1>0, <1>4, <2>2, <2>4, <4>3 DEF None
      <4>4. CASE Closes /\ a = new /\ b = new BY <1>0, <1>4, <2>2, <4>4
      <4> QED BY <2>1, <4>1, <4>2, <4>3, <4>4
    <3> QED BY <3>1 DEF EventsApart, Pairs
  <2> QED BY <2>5, <2>6 DEF Spaced
<1> QED BY <1>2, <1>3, <1>5, <1>6 DEF Tracked

LEMMA FaultsGrow == ASSUME faults \in Nat, [Next]_vars PROVE faults' \in Nat /\ faults' >= faults
<1>1. Undisturbed => faults' = faults BY DEF Undisturbed
<1>2. \A k : Disturbed(k) => faults' = faults + 1 BY DEF Disturbed
<1>3. faults' = faults \/ faults' = faults + 1
  <2>1. CASE NextBlock \/ BlockAfterGap \/ BlockFails
    BY <1>1, <1>2, <2>1 DEF NextBlock, BlockAfterGap, BlockFails
  <2>2. CASE UpdateBreachLed \/ Feed BY <2>2 DEF UpdateBreachLed, Feed
  <2>3. CASE \E c \in Command, m \in {"auto", "on", "off"} : LedCommand(c, m)
    BY <1>2, <2>3 DEF LedCommand
  <2>4. CASE \E w \in Writer : WriteGpio(w) \/ LedWritten(w)
    BY <1>1, <1>2, <2>4 DEF WriteGpio, LedWritten
  <2>5. CASE SetThreshold \/ LinkChanges \/ HealthReport
    BY <1>1, <1>2, <2>5 DEF SetThreshold, LinkChanges, HealthReport
  <2>6. CASE EventStored \/ Drain \/ Ack \/ TakeFrame \/ PublishFrame \/ UNCHANGED vars
    BY <2>6 DEF Drain, EventStored, Ack, TakeFrame, PublishFrame, vars
  <2> QED BY <2>1, <2>2, <2>3, <2>4, <2>5, <2>6 DEF Next
<1> QED BY <1>3

LEMMA TrackedStep == Tracked /\ LedTypes /\ [Next]_vars => Tracked'
<1> SUFFICES ASSUME Tracked, LedTypes, [Next]_vars PROVE Tracked' OBVIOUS
<1>1. NextBlock \/ BlockAfterGap \/ BlockFails \/ Feed \/ Aside BY StepCases DEF Tracked
<1>2. faults' \in Nat BY FaultsGrow DEF Tracked, Clock
<1> QED BY <1>1, <1>2, BlockStep, AsideStep, FeedStep

\* The ring is long enough for the events that are cut, if it has not gone wrong too often.
LEMMA WholeStep ==
  ASSUME PostRoll # 0, Tracked, LedTypes, ClipIsWhole, [Next]_vars
  PROVE  ClipIsWhole'
<1>0. Timely /\ RingOK /\ faults \in Nat /\ faults' \in Nat /\ faults' >= faults /\ now \in Nat
  BY FaultsGrow DEF Tracked, Clock
<1>1. CASE events' = events BY <1>0, <1>1 DEF ClipIsWhole, Margin
<1>2. CASE Feed
  <2>1. /\ faults' = faults /\ step = "feed"
        /\ events' = events \cup {<<c.triggered, c.closed, Whole(c)>> : c \in Due}
    BY <1>2 DEF Feed
  <2>2. ASSUME faults <= Margin, NEW c \in Due PROVE Whole(c)
    <3>1. c \in Candidates BY DEF Due
    <3>2. c \in Cut /\ c.start = c.triggered - PreRoll
          /\ now + 1 - c.triggered <= MaxDuration + PostRoll + faults
      <4>1. CASE c \in pending
        <5>1. Handling = 1 BY <2>1 DEF Handling
        <5>2. c \in Cut /\ c.start = c.triggered - PreRoll
              /\ now + 1 - c.triggered <= MaxDuration + PostRoll - 1 + faults + 1
          BY <1>0, <4>1, <5>1 DEF Timely
        <5>3. c.triggered \in Int BY <5>2 DEF Cut
        <5> QED BY <1>0, <5>2, <5>3
      <4>2. CASE Closes /\ c = Candidate
        <5>1. /\ c \in Cut /\ c.triggered = Opened /\ c.start = Opened - PreRoll
              /\ Opened >= 1 /\ Opened \in -1..now
              /\ Opened # None => now - Opened <= MaxDuration + faults
          BY <1>2, <4>2, FeedFacts
        <5>2. Opened # None BY <1>0, <5>1 DEF None
        <5>3. PostRoll >= 1 OBVIOUS
        <5> QED BY <1>0, <5>1, <5>2, <5>3
      <4> QED BY <3>1, <4>1, <4>2 DEF Candidates
    <3>3. evicted = 0 \/ evicted <= now - RingBlocks BY <1>0 DEF RingOK
    <3>4. c.triggered \in Int /\ evicted \in Int BY <1>0, <3>2 DEF Cut, RingOK
    <3>5. RingBlocks = PreRoll + MaxDuration + PostRoll + 2 /\ faults <= 2
      BY <2>2 DEF RingBlocks, Margin
    <3>6. now - RingBlocks + 1 <= c.triggered - PreRoll BY <1>0, <3>2, <3>4, <3>5
    <3> QED BY <1>0, <3>2, <3>3, <3>4, <3>5, <3>6 DEF Whole
  <2> QED BY <2>1, <2>2 DEF ClipIsWhole
<1>3. NextBlock \/ BlockAfterGap \/ BlockFails \/ Feed \/ Aside BY StepCases DEF Tracked
<1>4. Feed \/ events' = events
  BY <1>3 DEF NextBlock, BlockAfterGap, BlockFails, Block, Aside, detector
<1> QED BY <1>1, <1>2, <1>4

\* Detector and ring for any durations: if the post-roll is not empty, no more than two
\* blocks that were lost, failed or came late never cost an event some of its audio.
THEOREM ClipsAreWhole == ASSUME PostRoll # 0 PROVE Spec => []ClipIsWhole
<1>1. Init => Tracked /\ LedTypes /\ ClipIsWhole
  <2>1. Init => ClipIsWhole BY DEF Init, ClipIsWhole
  <2> QED BY <2>1, TrackedInit, LedInit
<1>2. Tracked /\ LedTypes /\ ClipIsWhole /\ [Next]_vars => (Tracked /\ LedTypes /\ ClipIsWhole)'
  BY TrackedStep, LedStep, WholeStep
<1> QED BY <1>1, <1>2, PTL DEF Spec

\* EventDetector, for any levels and whatever thresholds an operator sets meanwhile.
THEOREM EventsStayApart == Spec => []EventsApart
<1>1. Init => Tracked /\ LedTypes BY TrackedInit, LedInit
<1>2. Tracked /\ LedTypes /\ [Next]_vars => (Tracked /\ LedTypes)' BY TrackedStep, LedStep
<1>3. Tracked => EventsApart BY DEF Tracked, Spaced
<1> QED BY <1>1, <1>2, <1>3, PTL DEF Spec

-----------------------------------------------------------------------------
(* The LED.                                                                  *)

\* Without a race there is one write at a time, of what the mode asks for.
Latched ==
  ~raced =>
    /\ \A v, w \in Flying : v = w
    /\ Flying = {} => pin = ledState /\ (mode # "auto" => pin = (mode = "on"))
    /\ \A w \in Flying :
         /\ flight[w].at = "thread" => pin = ledState
         /\ flight[w].at = "written" => pin = flight[w].value
         /\ mode = "auto" => w = "capture"
         /\ mode # "auto" => flight[w].value = (mode = "on")

LEMMA LatchedStep == LedTypes /\ Latched /\ [Next]_vars => Latched'
<1> SUFFICES ASSUME LedTypes, Latched, [Next]_vars PROVE Latched' OBVIOUS
<1>0. "capture" \in Writer BY DEF Writer
<1>1. CASE UNCHANGED <<mode, ledState, pin, flight, raced>>
  BY <1>1 DEF Latched, Flying
<1>2. CASE UpdateBreachLed
  <2>1. /\ step = "led" /\ UNCHANGED <<mode, ledState, pin, raced>>
        /\ (mode = "auto" /\ SetLed("capture", ~ledState)) \/ UNCHANGED flight
    BY <1>2 DEF UpdateBreachLed
  <2>2. flight["capture"].at = "none" BY <2>1 DEF LedTypes
  <2>3. CASE UNCHANGED flight BY <2>1, <2>3, <1>1
  <2>4. CASE mode = "auto" /\ SetLed("capture", ~ledState) /\ ~raced
    <3>1. /\ \A x \in Writer \ {"capture"} : flight'[x] = flight[x]
          /\ flight'["capture"].at = "thread"
      BY <1>0, <2>4, SetLedFacts DEF LedTypes
    <3>2. Flying = {} BY <2>2, <2>4 DEF Latched, Flying
    <3>3. Flying' = {"capture"} BY <1>0, <3>1, <3>2 DEF Flying
    <3>4. pin = ledState BY <2>4, <3>2 DEF Latched
    <3> QED BY <2>1, <2>4, <3>1, <3>3, <3>4 DEF Latched
  <2> QED BY <2>1, <2>3, <2>4 DEF Latched
<1>3. ASSUME NEW c \in Command, NEW m \in {"auto", "on", "off"}, LedCommand(c, m) PROVE Latched'
  <2>1. /\ c \in Writer /\ UNCHANGED <<ledState, pin>> /\ mode' = m
        /\ raced' = (raced \/ Flying # {})
        /\ IF m = "auto" THEN UNCHANGED flight ELSE SetLed(c, m = "on")
    BY <1>3 DEF LedCommand, Writer
  <2> SUFFICES ASSUME ~raced, Flying = {} PROVE Latched' BY <2>1 DEF Latched
  <2>2. pin = ledState BY DEF Latched
  <2>3. CASE flight' = flight /\ (m # "auto" => (m = "on") = ledState)
    <3>1. Flying' = {} BY <2>3 DEF Flying
    <3> QED BY <2>1, <2>2, <2>3, <3>1 DEF Latched
  <2>4. CASE m # "auto" /\ flight' # flight
    <3>1. SetLed(c, m = "on") /\ (m = "on") \in BOOLEAN BY <2>1, <2>4
    <3>2. /\ \A x \in Writer \ {c} : flight'[x] = flight[x]
          /\ flight'[c].value = (m = "on") /\ flight'[c].at = "thread"
      BY <2>1, <2>4, <3>1, SetLedFacts
    <3>3. Flying' = {c} BY <2>1, <3>2 DEF Flying
    <3> QED BY <2>1, <2>2, <2>4, <3>2, <3>3 DEF Latched
  <2>5. m # "auto" /\ flight' = flight => (m = "on") = ledState
    BY <2>1, SetLedFacts DEF LedTypes, Flying
  <2> QED BY <2>1, <2>3, <2>4, <2>5
<1>4. ASSUME NEW w \in Writer, WriteGpio(w) PROVE Latched'
  <2>1. flight[w] \in Flight /\ flight[w].at = "thread" /\ UNCHANGED <<mode, ledState>>
    BY <1>4 DEF WriteGpio, LedTypes
  <2>2. CASE pin' = flight[w].value /\ flight' = [flight EXCEPT ![w].at = "written"] /\ raced' = raced
             /\ ~raced
    <3> DEFINE r == [flight[w] EXCEPT !.at = "written"]
    <3>1. r \in Flight /\ r.at = "written" /\ r.value = flight[w].value BY <2>1 DEF Flight
    <3>2. flight' = [flight EXCEPT ![w] = r] BY <2>2
    <3> HIDE DEF r
    <3>3. flight'[w] = r /\ \A x \in Writer \ {w} : flight'[x] = flight[x]
      BY <3>1, <3>2, GroundFacts
    <3>4. Flying' = Flying /\ w \in Flying BY <2>1, <3>1, <3>3 DEF Flying
    <3>5. Flying = {w} BY <2>2, <3>4 DEF Latched
    <3> QED BY <2>1, <2>2, <3>1, <3>3, <3>4, <3>5 DEF Latched
  <2>3. CASE raced' = TRUE BY <2>3 DEF Latched
  <2> QED BY <1>4, <2>2, <2>3 DEF WriteGpio, Latched
<1>5. ASSUME NEW w \in Writer, LedWritten(w) PROVE Latched'
  <2>1. /\ flight[w].at = "written" /\ UNCHANGED <<mode, pin, raced>> /\ ledState' = flight[w].value
        /\ flight' = [flight EXCEPT ![w] = Grounded]
    BY <1>5 DEF LedWritten
  <2>2. Grounded \in Flight /\ Grounded.at = "none" BY DEF Grounded, Flight
  <2>3. flight'[w].at = "none" /\ \A x \in Writer \ {w} : flight'[x] = flight[x]
    BY <2>1, <2>2, GroundFacts
  <2>4. CASE ~raced
    <3>1. w \in Flying BY <2>1 DEF Flying
    <3>2. Flying = {w} BY <2>4, <3>1 DEF Latched
    <3>3. Flying' = {} BY <2>3, <3>2 DEF Flying
    <3> QED BY <2>1, <2>4, <3>1, <3>3 DEF Latched
  <2> QED BY <2>1, <2>4 DEF Latched
<1>6. CASE NextBlock \/ BlockAfterGap \/ BlockFails \/ Feed \/ SetThreshold \/ LinkChanges
           \/ HealthReport \/ EventStored \/ Drain \/ Ack \/ TakeFrame \/ PublishFrame \/ UNCHANGED vars
  <2>1. UNCHANGED led
    BY <1>6 DEF NextBlock, BlockAfterGap, BlockFails, Block, Feed, SetThreshold, LinkChanges,
                HealthReport, EventStored, Drain, Ack, TakeFrame, PublishFrame, vars
  <2> QED BY <2>1, <1>1 DEF led
<1> QED BY <1>2, <1>3, <1>4, <1>5, <1>6 DEF Next

\* led_controller.py and _set_led_state, for any number of commands: without overlapping
\* writes the line shows what _led_state says, and what a latch asked for.
THEOREM LatchStays == Spec => []LatchHolds
<1>1. Init => LedTypes /\ Latched
  <2>0. Grounded.at = "none" BY DEF Grounded
  <2>1. Init => Flying = {} /\ pin = ledState /\ mode = "auto" BY <2>0 DEF Init, Flying
  <2>2. Init => Latched BY <2>1 DEF Latched
  <2> QED BY <2>2, LedInit
<1>2. LedTypes /\ Latched /\ [Next]_vars => (LedTypes /\ Latched)' BY LedStep, LatchedStep
<1>3. LedTypes /\ Latched => LatchHolds BY DEF LedTypes, Latched, LatchHolds
<1> QED BY <1>1, <1>2, <1>3, PTL DEF Spec

-----------------------------------------------------------------------------
(* Samples and frames.                                                       *)

\* What is queued or pruned was emitted, and nothing is from the future.
Accounts ==
  /\ now \in Nat
  /\ outbox \subseteq emitted /\ pruned \subseteq emitted
  /\ emitted \subseteq {"tlm", "health"} \X Int /\ \A m \in emitted : m[2] <= now
  /\ SamplesAccounted

\* _enforce_cap: nothing older of the kind it takes, or of a lesser one, is left.
LEMMA PruneFacts ==
  ASSUME Accounts, NEW p \in Prunings
  PROVE  /\ p \subseteq outbox
         /\ \A q \in pruned \cup p, n \in outbox \ p : Rank(n) <= Rank(q) => n[2] > q[2]
<1>1. p \subseteq outbox /\ \A q \in p, n \in outbox \ p : Before(q, n) BY DEF Prunings
<1>2. ASSUME NEW q \in p, NEW n \in outbox \ p, Rank(n) <= Rank(q) PROVE n[2] > q[2]
  <2>1. n[2] \in Int /\ q[2] \in Int BY <1>1 DEF Accounts
  <2>2. Before(q, n) BY <1>1
  <2> QED BY <1>2, <2>1, <2>2 DEF Before, Rank
<1> QED BY <1>1, <1>2 DEF Accounts, SamplesAccounted

\* enqueue_mqtt: what is new is younger than all that was taken of its kind.
LEMMA EmitStep ==
  ASSUME Accounts, NEW m \in {"tlm", "health"} \X Int, m[2] <= now',
         now' \in Nat, now' >= now,
         \A q \in emitted : Rank(m) <= Rank(q) => m[2] > q[2],
         emitted' = emitted \cup {m}, handed \subseteq handed',
         Enqueue(m) \/ (UNCHANGED <<outbox, pruned>> /\ m \in handed')
  PROVE  Accounts'
<1>1. emitted' \subseteq {"tlm", "health"} \X Int /\ \A n \in emitted' : n[2] <= now'
  <2>1. ASSUME NEW n \in emitted PROVE n[2] <= now' BY DEF Accounts
  <2> QED BY <2>1 DEF Accounts
<1>2. CASE Enqueue(m)
  <2>1. PICK p \in Prunings : outbox' = (outbox \ p) \cup {m} /\ pruned' = pruned \cup p
    BY <1>2 DEF Enqueue
  <2>2. /\ p \subseteq outbox
        /\ \A q \in pruned \cup p, n \in outbox \ p : Rank(n) <= Rank(q) => n[2] > q[2]
    BY PruneFacts
  <2>3. outbox' \subseteq emitted' /\ pruned' \subseteq emitted BY <2>1, <2>2 DEF Accounts
  <2>4. \A q \in pruned', n \in outbox' : Rank(n) <= Rank(q) => n[2] > q[2]
    BY <2>1, <2>2, <2>3
  <2>5. emitted' \subseteq handed' \cup outbox' \cup pruned'
    BY <2>1 DEF Accounts, SamplesAccounted
  <2> QED BY <1>1, <2>3, <2>4, <2>5 DEF Accounts, SamplesAccounted
<1>3. CASE UNCHANGED <<outbox, pruned>> /\ m \in handed'
  BY <1>1, <1>3 DEF Accounts, SamplesAccounted
<1> QED BY <1>2, <1>3

LEMMA AccountsStep == Accounts /\ [Next]_vars => Accounts'
<1> SUFFICES ASSUME Accounts, [Next]_vars PROVE Accounts' OBVIOUS
<1>0. now \in Nat BY DEF Accounts
<1>1. CASE UNCHANGED <<outbox, handed, emitted, pruned>> /\ now' \in Nat /\ now' >= now
  BY <1>0, <1>1 DEF Accounts, SamplesAccounted
<1>2. CASE NextBlock \/ BlockAfterGap \/ (BlockFails /\ EmitSample(now + 1))
  <2>0. /\ NextBlock \/ BlockFails => now' = now + 1
        /\ BlockAfterGap => now' = now + 2 /\ EmitSample(now + 2)
        /\ NextBlock => EmitSample(now + 1)
    BY DEF NextBlock, BlockAfterGap, BlockFails, Block
  <2>1. PICK t \in Nat : t > now /\ now' = t /\ Emit(<<"tlm", t>>)
    <3>1. CASE now' = now + 1 /\ EmitSample(now + 1)
      <4>1. now + 1 \in Nat /\ now + 1 > now BY <1>0
      <4> QED BY <3>1, <4>1 DEF EmitSample
    <3>2. CASE now' = now + 2 /\ EmitSample(now + 2)
      <4>1. now + 2 \in Nat /\ now + 2 > now BY <1>0
      <4> QED BY <3>2, <4>1 DEF EmitSample
    <3> QED BY <1>2, <2>0, <3>1, <3>2
  <2> DEFINE m == <<"tlm", t>>
  <2>2. /\ emitted' = emitted \cup {m} /\ handed \subseteq handed'
        /\ Enqueue(m) \/ (UNCHANGED <<outbox, pruned>> /\ m \in handed')
    BY <2>1 DEF Emit
  <2>3. \A q \in emitted : m[2] > q[2] BY <1>0, <2>1 DEF Accounts
  <2>4. m \in {"tlm", "health"} \X Int /\ m[2] <= now' /\ now' \in Nat /\ now' >= now
    BY <1>0, <2>1
  <2> HIDE DEF m
  <2> QED BY <2>2, <2>3, <2>4, EmitStep
<1>3. CASE BlockFails /\ UNCHANGED telemetry
  <2>1. now' = now + 1 BY <1>3 DEF BlockFails
  <2> QED BY <1>0, <1>1, <1>3, <2>1 DEF telemetry
<1>4. CASE HealthReport
  <2> DEFINE m == Report
  <2>1. /\ emitted' = emitted \cup {m} /\ handed \subseteq handed' /\ now' = now /\ m \notin emitted
        /\ Enqueue(m) \/ (UNCHANGED <<outbox, pruned>> /\ m \in handed')
    BY <1>4 DEF HealthReport, ReportDue, Emit, block
  <2>2. m = <<"health", now>> BY DEF Report
  <2>3. ASSUME NEW q \in emitted, Rank(m) <= Rank(q) PROVE m[2] > q[2]
    <3>1. q \in {"tlm", "health"} \X Int /\ q[2] <= now BY DEF Accounts
    <3>2. q[1] = "health" BY <2>2, <2>3, <3>1 DEF Rank
    <3>3. CASE q[2] = now
      <4>1. q = <<"health", now>> BY <3>1, <3>2, <3>3
      <4> QED BY <2>1, <2>2, <4>1
    <3> QED BY <1>0, <2>2, <3>1, <3>3
  <2>4. m \in {"tlm", "health"} \X Int /\ m[2] <= now' /\ now' \in Nat /\ now' >= now
    BY <1>0, <2>1, <2>2
  <2> HIDE DEF m
  <2> QED BY <2>1, <2>3, <2>4, EmitStep
<1>5. CASE EventStored
  <2>1. PICK p \in Prunings : outbox' = outbox \ p /\ pruned' = pruned \cup p
    BY <1>5 DEF EventStored
  <2>2. /\ p \subseteq outbox
        /\ \A q \in pruned \cup p, n \in outbox \ p : Rank(n) <= Rank(q) => n[2] > q[2]
    BY PruneFacts
  <2>3. UNCHANGED <<now, handed, emitted>> BY <1>5 DEF EventStored, block
  <2> QED BY <2>1, <2>2, <2>3 DEF Accounts, SamplesAccounted
<1>6. CASE Drain BY <1>6 DEF Drain, block, Accounts, SamplesAccounted
<1>7. CASE Ack BY <1>7 DEF Ack, block, Accounts, SamplesAccounted
<1>8. CASE UpdateBreachLed \/ Feed \/ SetThreshold \/ LinkChanges \/ TakeFrame \/ PublishFrame \/ UNCHANGED vars
  BY <1>0, <1>1, <1>8 DEF UpdateBreachLed, Feed, SetThreshold, LinkChanges, TakeFrame, PublishFrame, vars,
                    telemetry, block
<1>9. CASE \E c \in Command, m \in {"auto", "on", "off"} : LedCommand(c, m)
  BY <1>0, <1>1, <1>9 DEF LedCommand, telemetry, block
<1>10. CASE \E w \in Writer : WriteGpio(w) \/ LedWritten(w)
  BY <1>0, <1>1, <1>10 DEF WriteGpio, LedWritten, telemetry
<1>11. BlockFails => EmitSample(now + 1) \/ UNCHANGED telemetry BY DEF BlockFails
<1> QED BY <1>2, <1>3, <1>4, <1>5, <1>6, <1>7, <1>8, <1>9, <1>10, <1>11 DEF Next

\* Publishers, queue, size cap and drain loop together: only what was handed over is
\* acknowledged, and the cap takes the least and the oldest first.
THEOREM SamplesStayAccounted == Spec => []SamplesAccounted
<1>1. Init => Accounts BY DEF Init, Accounts, SamplesAccounted
<1>2. Accounts => SamplesAccounted BY DEF Accounts
<1> QED BY <1>1, <1>2, AccountsStep, PTL DEF Spec

\* Frames go out in the order in which they came, and none is from the future.
Ordered ==
  /\ now \in Nat
  /\ frames \in Seq(Int) /\ Len(frames) <= SpectMax
  /\ hand \in Int /\ hand <= now /\ sent \in Int /\ sent <= now
  /\ hand # None => hand > sent
  /\ \A i \in 1..Len(frames) :
       /\ frames[i] <= now /\ frames[i] > sent /\ (hand # None => frames[i] > hand)
       /\ \A j \in 1..(i - 1) : frames[j] < frames[i]

LEMMA TailOrdered ==
  ASSUME Ordered, frames # <<>>
  PROVE  /\ Tail(frames) \in Seq(Int) /\ Len(Tail(frames)) = Len(frames) - 1
         /\ Head(frames) = frames[1] /\ Head(frames) \in Int /\ Head(frames) <= now
         /\ Head(frames) > sent
         /\ \A i \in 1..Len(Tail(frames)) :
              /\ i + 1 \in 1..Len(frames) /\ Tail(frames)[i] = frames[i + 1]
              /\ Tail(frames)[i] \in Int /\ Tail(frames)[i] > Head(frames)
              /\ \A j \in 1..(i - 1) : Tail(frames)[j] < Tail(frames)[i]
<1>1. frames \in Seq(Int) /\ Len(frames) \in Nat /\ Len(frames) >= 1 BY EmptySeq DEF Ordered
<1>2. /\ Head(frames) \in Int /\ Tail(frames) \in Seq(Int) /\ Len(Tail(frames)) = Len(frames) - 1
      /\ \A i \in 1..Len(Tail(frames)) : Tail(frames)[i] = frames[i + 1]
  BY <1>1, HeadTailProperties
<1>3. Head(frames) = frames[1] BY <1>1
<1>4. ASSUME NEW i \in 1..Len(Tail(frames))
      PROVE  /\ i + 1 \in 1..Len(frames) /\ Tail(frames)[i] = frames[i + 1]
             /\ Tail(frames)[i] \in Int /\ Tail(frames)[i] > Head(frames)
             /\ \A j \in 1..(i - 1) : Tail(frames)[j] < Tail(frames)[i]
  <2>1. i \in Nat /\ i >= 1 /\ i + 1 \in 1..Len(frames) /\ Tail(frames)[i] = frames[i + 1]
    <3>1. i \in Nat /\ i >= 1 /\ i <= Len(frames) - 1 BY <1>1, <1>2
    <3>2. Tail(frames)[i] = frames[i + 1] BY <1>2
    <3> QED BY <1>1, <3>1, <3>2
  <2>2. frames[i + 1] \in Int BY <1>1, <2>1, ElementOfSeq
  <2>3. \A j \in 1..((i + 1) - 1) : frames[j] < frames[i + 1] BY <2>1 DEF Ordered
  <2>4. 1 \in 1..((i + 1) - 1) BY <2>1
  <2>5. frames[1] \in Int BY <1>1, ElementOfSeq
  <2>6. ASSUME NEW j \in 1..(i - 1) PROVE Tail(frames)[j] < Tail(frames)[i]
    <3>1. j \in Int /\ 1 <= j /\ j <= i - 1 BY <2>1
    <3>2. Len(Tail(frames)) \in Int /\ i <= Len(Tail(frames)) BY <1>1, <1>2
    <3>3. j \in 1..Len(Tail(frames)) BY <2>1, <3>1, <3>2
    <3>4. j + 1 \in 1..((i + 1) - 1) BY <2>1, <3>1
    <3>5. Tail(frames)[j] = frames[j + 1] BY <1>2, <3>3
    <3>6. frames[j + 1] < frames[i + 1] BY <2>3, <3>4
    <3> QED BY <2>1, <3>5, <3>6
  <2> QED BY <1>3, <2>1, <2>2, <2>3, <2>4, <2>5, <2>6
<1>5. Head(frames) <= now /\ Head(frames) > sent BY <1>1, <1>3 DEF Ordered
<1> QED BY <1>2, <1>3, <1>4, <1>5

LEMMA AppendOrdered ==
  ASSUME NEW q \in Seq(Int), NEW t \in Int,
         \A i \in 1..Len(q) : q[i] < t /\ \A j \in 1..(i - 1) : q[j] < q[i]
  PROVE  /\ Append(q, t) \in Seq(Int) /\ Len(Append(q, t)) = Len(q) + 1
         /\ \A i \in 1..Len(Append(q, t)) :
              /\ (i \in 1..Len(q) /\ Append(q, t)[i] = q[i]) \/ Append(q, t)[i] = t
              /\ \A j \in 1..(i - 1) : Append(q, t)[j] < Append(q, t)[i]
<1>1. Len(q) \in Nat BY LenProperties
<1>2. /\ Append(q, t) \in Seq(Int) /\ Len(Append(q, t)) = Len(q) + 1
      /\ \A i \in 1..Len(q) : Append(q, t)[i] = q[i]
      /\ Append(q, t)[Len(q) + 1] = t
  BY AppendProperties
<1>3. ASSUME NEW i \in 1..Len(Append(q, t))
      PROVE  /\ (i \in 1..Len(q) /\ Append(q, t)[i] = q[i]) \/ Append(q, t)[i] = t
             /\ \A j \in 1..(i - 1) : Append(q, t)[j] < Append(q, t)[i]
  <2>1. CASE i \in 1..Len(q)
    <3>1. \A j \in 1..(i - 1) : j \in 1..Len(q) BY <1>1, <2>1
    <3> QED BY <1>2, <2>1, <3>1
  <2>2. CASE i = Len(q) + 1
    <3>1. \A j \in 1..(i - 1) : j \in 1..Len(q) BY <1>1, <2>2
    <3> QED BY <1>2, <2>2, <3>1
  <2> QED BY <1>1, <1>2, <2>1, <2>2
<1> QED BY <1>2, <1>3

LEMMA EmitOrdered ==
  ASSUME Ordered, NEW t \in Nat, t > now, EmitFrame(t), now' = t
  PROVE  Ordered'
<1> DEFINE kept == IF Len(frames) < SpectMax THEN frames ELSE Tail(frames)
<1>1. /\ frames \in Seq(Int) /\ Len(frames) \in Nat /\ Len(frames) <= SpectMax /\ now \in Nat
      /\ hand \in Int /\ hand <= now /\ sent \in Int /\ sent <= now
  BY LenProperties DEF Ordered
<1>2. /\ kept \in Seq(Int) /\ Len(kept) + 1 <= SpectMax /\ Len(kept) \in Nat
      /\ \A i \in 1..Len(kept) :
           /\ kept[i] \in Int /\ kept[i] <= now /\ kept[i] > sent /\ (hand # None => kept[i] > hand)
           /\ \A j \in 1..(i - 1) : kept[j] < kept[i]
  <2>1. CASE Len(frames) < SpectMax
    <3>1. \A i \in 1..Len(frames) : frames[i] \in Int BY <1>1, ElementOfSeq
    <3> QED BY <1>1, <2>1, <3>1 DEF Ordered
  <2>2. CASE ~(Len(frames) < SpectMax)
    <3>1. kept = Tail(frames) /\ frames # <<>> BY <1>1, <2>2, EmptySeq
    <3>2. Len(Tail(frames)) = Len(frames) - 1 BY <3>1, TailOrdered
    <3> HIDE DEF kept
    <3>3. Len(frames) - 1 + 1 <= SpectMax /\ Len(frames) - 1 \in Nat BY <1>1, <3>1, <3>2, LenProperties, TailOrdered
    <3>4. ASSUME NEW i \in 1..Len(Tail(frames))
          PROVE  /\ Tail(frames)[i] \in Int /\ Tail(frames)[i] <= now /\ Tail(frames)[i] > sent
                 /\ hand # None => Tail(frames)[i] > hand
                 /\ \A j \in 1..(i - 1) : Tail(frames)[j] < Tail(frames)[i]
      <4>1. i + 1 \in 1..Len(frames) /\ Tail(frames)[i] = frames[i + 1] BY <3>1, TailOrdered
      <4>2. frames[i + 1] <= now /\ frames[i + 1] > sent /\ (hand # None => frames[i + 1] > hand)
        BY <4>1 DEF Ordered
      <4> QED BY <3>1, <4>1, <4>2, TailOrdered
    <3> QED BY <3>1, <3>2, <3>3, <3>4, TailOrdered
  <2> QED BY <2>1, <2>2
<1>3. frames' = Append(kept, t) /\ UNCHANGED <<hand, sent>> BY DEF EmitFrame
<1> HIDE DEF kept
<1>4. \A i \in 1..Len(kept) : kept[i] < t /\ \A j \in 1..(i - 1) : kept[j] < kept[i]
  <2>1. ASSUME NEW i \in 1..Len(kept) PROVE kept[i] < t
    <3>1. kept[i] \in Int /\ kept[i] <= now BY <1>2
    <3> QED BY <1>1, <3>1
  <2> QED BY <1>2, <2>1
<1>5. /\ Append(kept, t) \in Seq(Int) /\ Len(Append(kept, t)) = Len(kept) + 1
      /\ \A i \in 1..Len(Append(kept, t)) :
           /\ (i \in 1..Len(kept) /\ Append(kept, t)[i] = kept[i]) \/ Append(kept, t)[i] = t
           /\ \A j \in 1..(i - 1) : Append(kept, t)[j] < Append(kept, t)[i]
  <2>1. kept \in Seq(Int) /\ t \in Int BY <1>2
  <2> HIDE DEF Ordered
  <2> QED BY ONLY <1>4, <2>1, AppendOrdered
<1>6. PICK f \in Seq(Int) : frames' = f /\ f = Append(kept, t) BY <1>3, <1>5
<1>7. /\ Len(f) <= SpectMax
      /\ \A i \in 1..Len(f) :
           /\ f[i] <= t /\ f[i] > sent /\ (hand # None => f[i] > hand)
           /\ \A j \in 1..(i - 1) : f[j] < f[i]
  <2>1. Len(f) <= SpectMax BY <1>2, <1>5, <1>6
  <2>2. ASSUME NEW i \in 1..Len(f)
        PROVE  f[i] <= t /\ f[i] > sent /\ (hand # None => f[i] > hand)
    <3>1. CASE f[i] = t BY <1>1, <3>1
    <3>2. CASE i \in 1..Len(kept) /\ f[i] = kept[i]
      <4>1. /\ kept[i] \in Int /\ kept[i] <= now /\ kept[i] > sent
            /\ hand # None => kept[i] > hand
        BY <1>2, <3>2
      <4>2. kept[i] <= t BY ONLY <1>1, <4>1, t \in Nat, t > now
      <4> QED BY <3>2, <4>1, <4>2
    <3> QED BY <1>5, <1>6, <3>1, <3>2
  <2> QED BY <1>5, <1>6, <2>1, <2>2
<1>8. hand <= t /\ sent <= t BY <1>1
<1> QED BY <1>1, <1>3, <1>6, <1>7, <1>8 DEF Ordered

LEMMA OrderedStep == Ordered /\ [Next]_vars => Ordered'
<1> SUFFICES ASSUME Ordered, [Next]_vars PROVE Ordered' OBVIOUS
<1>0. now \in Nat /\ sent \in Int /\ hand \in Int BY DEF Ordered
<1>1. CASE UNCHANGED <<now, frames, hand, sent>> BY <1>1 DEF Ordered
<1>2. CASE NextBlock \/ BlockAfterGap
  <2>1. PICK t \in Nat : t > now /\ now' = t /\ EmitFrame(t)
    BY <1>0, <1>2 DEF NextBlock, BlockAfterGap, Block
  <2> QED BY <2>1, EmitOrdered
<1>3. CASE BlockFails
  <2>1. PICK t \in Nat : now' = t /\ t > now BY <1>0, <1>3 DEF BlockFails
  <2>2. UNCHANGED <<frames, hand, sent>> BY <1>3 DEF BlockFails, spectrogram
  <2>3. \A i \in 1..Len(frames) : frames[i] <= t
    <3>1. \A i \in 1..Len(frames) : frames[i] <= now /\ frames[i] \in Int
      BY ElementOfSeq DEF Ordered
    <3> QED BY <1>0, <2>1, <3>1
  <2>4. hand <= t /\ sent <= t BY <1>0, <2>1 DEF Ordered
  <2> QED BY <2>1, <2>2, <2>3, <2>4 DEF Ordered
<1>4. CASE TakeFrame
  <2>1. /\ hand = None /\ frames # <<>> /\ hand' = Head(frames) /\ frames' = Tail(frames)
        /\ UNCHANGED <<now, sent>>
    BY <1>4 DEF TakeFrame, block
  <2>2. \A i \in 1..Len(frames) : frames[i] <= now /\ frames[i] > sent BY DEF Ordered
  <2>3. Len(frames) \in Nat /\ Len(frames) <= SpectMax BY LenProperties DEF Ordered
  <2>4. Len(Tail(frames)) <= SpectMax BY <2>1, <2>3, TailOrdered
  <2> QED BY <1>0, <2>1, <2>2, <2>4, TailOrdered DEF Ordered
<1>5. CASE PublishFrame
  <2>1. /\ hand # None /\ hand' = None /\ frames' = frames /\ now' = now
        /\ sent' = hand \/ sent' = sent
    BY <1>5 DEF PublishFrame, block
  <2>2. \A i \in 1..Len(frames) : frames[i] > hand /\ frames[i] > sent BY <2>1 DEF Ordered
  <2>3. hand' \in Int /\ hand' <= now /\ sent' \in Int /\ sent' <= now
    BY <1>0, <2>1 DEF Ordered, None
  <2> QED BY <2>1, <2>2, <2>3 DEF Ordered
<1>6. CASE UpdateBreachLed \/ Feed \/ SetThreshold \/ LinkChanges \/ HealthReport \/ EventStored \/ Drain
           \/ Ack \/ UNCHANGED vars
  BY <1>1, <1>6 DEF UpdateBreachLed, Feed, SetThreshold, LinkChanges, HealthReport, EventStored, Drain, Ack,
                    vars,
                    block, spectrogram
<1>7. CASE \E c \in Command, m \in {"auto", "on", "off"} : LedCommand(c, m)
  BY <1>1, <1>7 DEF LedCommand, block, spectrogram
<1>8. CASE \E w \in Writer : WriteGpio(w) \/ LedWritten(w)
  BY <1>1, <1>8 DEF WriteGpio, LedWritten, spectrogram
<1> QED BY <1>2, <1>3, <1>4, <1>5, <1>6, <1>7, <1>8 DEF Next

LEMMA OrderedInit == Init => Ordered
<1> SUFFICES ASSUME Init PROVE Ordered OBVIOUS
<1>1. frames = <<>> /\ frames \in Seq(Int) /\ Len(frames) = 0 BY EmptySeq DEF Init
<1> QED BY <1>1 DEF Init, Ordered, None

\* SpectrogramPublisher, for any queue and connection: frames leave in order, none twice.
THEOREM FramesStayLive == Spec => []FramesLive
<1>1. Ordered => FramesLive
  <2> SUFFICES ASSUME Ordered PROVE FramesLive OBVIOUS
  <2> DEFINE pre == IF hand = None THEN <<>> ELSE <<hand>>
             all == pre \o frames
  <2>1. frames \in Seq(Int) /\ Len(frames) \in Nat BY LenProperties DEF Ordered
  <2>2. pre \in Seq(Int) /\ Len(pre) = (IF hand = None THEN 0 ELSE 1)
        /\ (hand # None => pre[1] = hand)
    <3>1. CASE hand = None BY <3>1, EmptySeq
    <3>2. CASE hand # None
      <4>1. hand \in Int BY DEF Ordered
      <4> QED BY <3>2, <4>1
    <3> QED BY <3>1, <3>2
  <2> HIDE DEF pre
  <2>3. /\ all \in Seq(Int) /\ Len(all) = Len(pre) + Len(frames)
        /\ \A i \in 1..(Len(pre) + Len(frames)) :
             all[i] = IF i <= Len(pre) THEN pre[i] ELSE frames[i - Len(pre)]
    BY <2>1, <2>2, ConcatProperties
  <2>4. DOMAIN all = 1..Len(all) BY <2>3, LenProperties
  <2> HIDE DEF all
  <2>5. ASSUME NEW i \in 1..Len(all) PROVE all[i] > sent /\ \A j \in 1..(i - 1) : all[j] < all[i]
    <3>1. CASE hand = None
      <4>1. Len(pre) = 0 /\ \A k \in 1..Len(all) : all[k] = frames[k] /\ k \in 1..Len(frames)
        BY <2>1, <2>2, <2>3, <3>1
      <4>2. \A j \in 1..(i - 1) : j \in 1..Len(all) BY <2>1, <2>3, <4>1
      <4> QED BY <4>1, <4>2 DEF Ordered
    <3>2. CASE hand # None
      <4>0. Len(pre) = 1 /\ pre[1] = hand /\ 1 \in 1..(1 + Len(frames)) BY <2>1, <2>2, <3>2
      <4>1. Len(pre) = 1 /\ all[1] = hand /\ Len(all) = Len(frames) + 1
        BY <2>1, <2>3, <4>0
      <4>2. \A k \in 2..Len(all) : all[k] = frames[k - 1] /\ k - 1 \in 1..Len(frames)
        <5> SUFFICES ASSUME NEW k \in 2..Len(all)
                     PROVE all[k] = frames[k - 1] /\ k - 1 \in 1..Len(frames)
          OBVIOUS
        <5>1. k \in Int /\ 2 <= k /\ k <= Len(frames) + 1 BY <2>1, <4>1
        <5>2. k \in 1..(1 + Len(frames)) /\ ~(k <= 1) /\ k - 1 \in 1..Len(frames) BY <2>1, <5>1
        <5> QED BY <2>3, <4>1, <5>2
      <4>3. \A k \in 2..Len(all) : all[k] > sent /\ all[k] > hand /\ all[k] \in Int
        <5> SUFFICES ASSUME NEW k \in 2..Len(all)
                     PROVE all[k] > sent /\ all[k] > hand /\ all[k] \in Int
          OBVIOUS
        <5>1. all[k] = frames[k - 1] /\ k - 1 \in 1..Len(frames) BY <4>2
        <5>2. frames[k - 1] \in Int BY <2>1, <5>1, ElementOfSeq
        <5>3. frames[k - 1] > sent /\ frames[k - 1] > hand BY <3>2, <5>1 DEF Ordered
        <5> QED BY <5>1, <5>2, <5>3
      <4>4. hand > sent /\ hand \in Int BY <3>2 DEF Ordered
      <4>5. CASE i = 1 BY <4>1, <4>4, <4>5
      <4>6. CASE i \in 2..Len(all)
        <5>1. ASSUME NEW j \in 1..(i - 1) PROVE all[j] < all[i]
          <6>1. CASE j = 1 BY <4>1, <4>3, <4>4, <4>6, <6>1
          <6>2. CASE j # 1
            <7>1. j \in 2..Len(all) /\ j - 1 \in 1..((i - 1) - 1) BY <2>1, <4>1, <4>6, <6>2
            <7>2. frames[j - 1] < frames[i - 1] BY <4>2, <4>6, <7>1 DEF Ordered
            <7> QED BY <4>2, <4>6, <7>1, <7>2
          <6> QED BY <6>1, <6>2
        <5> QED BY <4>3, <4>6, <5>1
      <4> QED BY <2>1, <4>1, <4>5, <4>6
    <3> QED BY <3>1, <3>2
  <2> QED BY <2>4, <2>5 DEF FramesLive, pre, all
<1> QED BY <1>1, OrderedInit, OrderedStep, PTL DEF Spec

\* Types and bounds, for any durations and queue lengths.
THEOREM MonitorTypeCorrect == Spec => []MonitorTypeOK
<1>1. Init => Tracked /\ LedTypes /\ Ordered BY TrackedInit, LedInit, OrderedInit
<1>2. Tracked /\ LedTypes /\ Ordered /\ [Next]_vars => (Tracked /\ LedTypes /\ Ordered)'
  BY TrackedStep, LedStep, OrderedStep
<1>3. Tracked /\ LedTypes /\ Ordered => MonitorTypeOK
  <2> SUFFICES ASSUME Tracked, LedTypes, Ordered PROVE MonitorTypeOK OBVIOUS
  <2>1. Clock /\ Timely /\ RingOK BY DEF Tracked
  <2>2. \A c \in pending : c.triggered \in 1..c.closed /\ c.closed <= now
    BY <2>1 DEF Timely, Cut
  <2> QED BY <2>1, <2>2 DEF Clock, Timely, RingOK, LedTypes, Ordered, MonitorTypeOK
<1> QED BY <1>1, <1>2, <1>3, PTL DEF Spec
=============================================================================
