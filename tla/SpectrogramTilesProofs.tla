----------------------- MODULE SpectrogramTilesProofs -----------------------
(* Theorems about the ingest worker and its two readers, the live feed and   *)
(* the tiles, for any messages, queue and batch sizes, viewers, requests and *)
(* failures.                                                                 *)
EXTENDS SpectrogramTiles, SequenceTheorems, FiniteSetTheorems, WellFoundedInduction, TLAPS

USE IngestAssumption, LiveAssumption, TilesAssumption
    DEF IngestAssumption, LiveAssumption, TilesAssumption

-----------------------------------------------------------------------------
(* Numbers and sequences.                                                    *)

\* A bounded set of numbers has a greatest element: the least of its upper bounds.
LEMMA BoundedHasMax ==
  ASSUME NEW S \in SUBSET Nat, S # {}, NEW b \in Nat, \A s \in S : s <= b
  PROVE  \E m \in S : \A s \in S : s <= m
<1> DEFINE Upper == {u \in Nat : \A s \in S : s <= u}
<1>1. Upper \subseteq Nat /\ Upper # {} OBVIOUS
<1>2. PICK u \in Upper : \A v \in Upper : <<v, u>> \notin OpToRel(<, Nat)
  <2> HIDE DEF Upper
  <2> QED BY <1>1, WFMin, NatLessThanWellFounded, Zenon
<1>3. \A v \in Upper : ~(v < u) BY <1>1, <1>2, Zenon DEF OpToRel
<1>4. u \in S
  <2> SUFFICES ASSUME u \notin S PROVE FALSE OBVIOUS
  <2>1. PICK s \in S : TRUE OBVIOUS
  <2>2. u \in Nat /\ s \in Nat /\ s <= u /\ s # u OBVIOUS
  <2>3. u - 1 \in Nat /\ u - 1 < u BY <2>2
  <2>4. \A x \in S : x <= u - 1 OBVIOUS
  <2>5. u - 1 \in Upper BY <2>3, <2>4
  <2> QED BY <1>3, <2>3, <2>5
<1> QED BY <1>4

LEMMA ItemsAppend ==
  ASSUME NEW S, NEW s \in Seq(S), NEW e \in S
  PROVE  /\ Append(s, e) \in Seq(S) /\ Len(Append(s, e)) = Len(s) + 1
         /\ Items(Append(s, e)) = Items(s) \cup {e}
BY AppendProperties DEF Items

LEMMA ItemsTail ==
  ASSUME NEW S, NEW s \in Seq(S), s # <<>>
  PROVE  /\ Head(s) \in S /\ Tail(s) \in Seq(S) /\ Len(Tail(s)) = Len(s) - 1
         /\ Items(s) = {Head(s)} \cup Items(Tail(s))
<1>1. /\ Head(s) \in S /\ Tail(s) \in Seq(S) /\ Len(Tail(s)) = Len(s) - 1
      /\ Head(s) = s[1] /\ \A i \in 1..Len(Tail(s)) : Tail(s)[i] = s[i + 1]
  BY HeadTailProperties
<1>2. Len(s) \in Nat /\ Len(s) # 0 /\ DOMAIN s = 1..Len(s) /\ DOMAIN Tail(s) = 1..(Len(s) - 1)
  BY <1>1, LenProperties, EmptySeq
<1>3. \A x \in Items(s) : x = Head(s) \/ x \in Items(Tail(s))
  <2> TAKE x \in Items(s)
  <2>1. PICK i \in 1..Len(s) : x = s[i] BY <1>2 DEF Items
  <2>2. CASE i = 1 BY <1>1, <2>1, <2>2
  <2>3. CASE i # 1
    <3>1. i - 1 \in 1..(Len(s) - 1) /\ (i - 1) + 1 = i BY <1>2, <2>3
    <3>2. Tail(s)[i - 1] = x BY <1>1, <2>1, <3>1
    <3> QED BY <1>2, <3>1, <3>2 DEF Items
  <2> QED BY <2>2, <2>3
<1>4. Items(Tail(s)) \subseteq Items(s)
  <2> SUFFICES ASSUME NEW i \in 1..(Len(s) - 1) PROVE Tail(s)[i] \in Items(s) BY <1>2 DEF Items
  <2>1. i + 1 \in 1..Len(s) /\ Tail(s)[i] = s[i + 1] BY <1>1, <1>2
  <2> QED BY <1>2, <2>1 DEF Items
<1>5. Head(s) \in Items(s) BY <1>1, <1>2 DEF Items
<1> QED BY <1>1, <1>3, <1>4, <1>5

LEMMA ItemsEmpty == Items(<<>>) = {}
BY DEF Items


-----------------------------------------------------------------------------
(* The ingest worker.                                                        *)

\* Where a sample is: what a buffer holds came through the queue.
Typed ==
  /\ delivered \subseteq Message /\ queue \in Seq(Message) /\ buf \in [Batched -> Seq(Message)]
  /\ Items(queue) \subseteq delivered
  /\ \A k \in Batched : \A m \in Items(buf[k]) : m.kind = k /\ m \in delivered
  /\ stored \in [Batched -> Table] /\ channel \in Seq(Notification)
  /\ faults \in Nat /\ restarts \in Nat /\ dropped \in Nat
  /\ Len(queue) <= QueueMax /\ known \subseteq Registered

\* The rows are of samples that were delivered, and those have a latest one.
Dated ==
  /\ \E b \in Nat : \A m \in delivered : m.ts <= b
  /\ \A k \in Batched : \A x \in stored[k] : \E m \in delivered : m.ts = x[2]

Kept ==
  faults = 0 /\ restarts = 0 /\ dropped = 0 =>
    \A m \in delivered :
      m.valid /\ m.kind \in Batched /\ m.device \in Registered
        => \/ m \in Items(queue) \/ m \in Items(buf[m.kind])
           \/ <<m.device, m.ts>> \in stored[m.kind]

IngestInv == Typed /\ Dated /\ Kept /\ SeenNotForgotten

LEMMA IngestInit == InitIngest => IngestInv
<1> SUFFICES ASSUME InitIngest PROVE IngestInv OBVIOUS
<1>1. <<>> \in Seq(Message) /\ <<>> \in Seq(Notification) /\ Len(<<>>) = 0 OBVIOUS
<1>2. Items(queue) = {} /\ \A k \in Batched : Items(buf[k]) = {} BY ItemsEmpty DEF InitIngest
<1>3. Typed BY <1>1, <1>2 DEF InitIngest, Typed, Table
<1>4. Dated BY DEF InitIngest, Dated
<1>5. Kept BY DEF InitIngest, Kept
<1>6. SeenNotForgotten BY DEF InitIngest, SeenNotForgotten, Batched
<1> QED BY <1>3, <1>4, <1>5, <1>6 DEF IngestInv

\* What a step of the worker does to the two readers.
Feeding ==
  /\ \A k \in Batched : stored[k] \subseteq stored'[k]
  /\ \/ UNCHANGED channel /\ stored'["tlm"] = stored["tlm"]
     \/ \E n \in Notification :
          /\ channel' = Append(channel, n)
          /\ \A d \in Device, t \in Ts :
               <<d, t>> \in stored'["tlm"] \ stored["tlm"] => n.type = "telemetry" /\ d \in n.devices

LEMMA ReceiveStep == IngestInv /\ Receive => IngestInv' /\ Feeding
<1> SUFFICES ASSUME IngestInv, Receive PROVE IngestInv' /\ Feeding OBVIOUS
<1>0. Typed /\ Dated /\ Kept /\ SeenNotForgotten BY DEF IngestInv
<1>1. UNCHANGED <<buf, consumer, known, seenDirty, stored, lastSeen, channel, faults, restarts>>
  BY DEF Receive, database
<1>2. PICK m \in Published :
        /\ delivered' = delivered \cup {m}
        /\ IF Len(queue) < QueueMax
           THEN queue' = Append(queue, m) /\ UNCHANGED dropped
           ELSE dropped' = dropped + 1 /\ UNCHANGED queue
  BY DEF Receive
<1>3. m \in Message /\ m.ts \in Nat BY DEF Message
<1>4. /\ queue' \in Seq(Message) /\ Len(queue') <= QueueMax
      /\ \/ Items(queue') = Items(queue) \cup {m} /\ dropped' = dropped
         \/ Items(queue') = Items(queue) /\ dropped' = dropped + 1
  <2>1. Len(queue) \in Nat BY <1>0, LenProperties DEF Typed
  <2>2. CASE Len(queue) < QueueMax
    <3>1. queue' = Append(queue, m) BY <1>2, <2>2
    <3>2. queue' \in Seq(Message) /\ Len(queue') = Len(queue) + 1 /\ Items(queue') = Items(queue) \cup {m}
      BY <1>0, <1>3, <3>1, ItemsAppend DEF Typed
    <3> QED BY <1>2, <2>1, <2>2, <3>2
  <2>3. CASE ~(Len(queue) < QueueMax) BY <1>0, <1>2, <2>3 DEF Typed
  <2> QED BY <2>2, <2>3
<1>5. Typed' BY <1>0, <1>1, <1>2, <1>3, <1>4 DEF Typed
<1>6. Dated'
  <2>1. PICK b \in Nat : \A x \in delivered : x.ts <= b BY <1>0 DEF Dated
  <2>2. \A x \in delivered : x.ts \in Nat BY <1>0 DEF Typed, Message
  <2>3. CASE m.ts <= b BY <1>0, <1>1, <1>2, <2>1, <2>3 DEF Dated
  <2>4. CASE ~(m.ts <= b)
    <3>1. \A x \in delivered' : x.ts <= m.ts BY <1>2, <1>3, <2>1, <2>2, <2>4
    <3> QED BY <1>0, <1>1, <1>2, <1>3, <3>1 DEF Dated
  <2> QED BY <2>3, <2>4
<1>7. Kept'
  <2>1. dropped' # dropped + 1 => Items(queue') = Items(queue) \cup {m} /\ dropped' = dropped BY <1>4
  <2>2. dropped' = dropped + 1 => dropped' # 0 BY <1>0 DEF Typed
  <2> QED BY <1>0, <1>1, <1>2, <2>1, <2>2 DEF Kept
<1>8. SeenNotForgotten' BY <1>0, <1>1 DEF SeenNotForgotten
<1>9. Feeding BY <1>1 DEF Feeding
<1> QED BY <1>5, <1>6, <1>7, <1>8, <1>9 DEF IngestInv

LEMMA TakingFacts ==
  ASSUME Typed, NEW kind, Taking(kind)
  PROVE  /\ Head(queue) \in Message /\ Head(queue) \in delivered /\ Head(queue).kind = kind
         /\ queue' \in Seq(Message) /\ Len(queue') <= QueueMax
         /\ Items(queue) = {Head(queue)} \cup Items(queue')
<1>1. queue # <<>> /\ queue' = Tail(queue) /\ Head(queue).kind = kind BY DEF Taking
<1>2. /\ Head(queue) \in Message /\ queue' \in Seq(Message) /\ Len(queue') = Len(queue) - 1
      /\ Items(queue) = {Head(queue)} \cup Items(queue')
  BY <1>1, ItemsTail DEF Typed
<1>3. Len(queue) \in Nat BY LenProperties DEF Typed
<1>4. Len(queue') <= QueueMax
  <2>1. PICK n \in Nat : Len(queue) = n BY <1>3
  <2>2. n <= QueueMax /\ n - 1 <= QueueMax BY <2>1 DEF Typed
  <2> QED BY <1>2, <2>1, <2>2
<1> QED BY <1>1, <1>2, <1>4 DEF Typed

LEMMA BufferFacts ==
  ASSUME Typed, NEW kind \in Batched, NEW m \in Message, m \in delivered, m.kind = kind, Buffer(kind, m)
  PROVE  /\ buf' \in [Batched -> Seq(Message)]
         /\ Items(buf'[kind]) = Items(buf[kind]) \cup {m}
         /\ \A k \in Batched \ {kind} : buf'[k] = buf[k]
         /\ \A k \in Batched : \A x \in Items(buf'[k]) : x.kind = k /\ x \in delivered
<1>1. buf[kind] \in Seq(Message) BY DEF Typed
<1>2. /\ Append(buf[kind], m) \in Seq(Message)
      /\ Items(Append(buf[kind], m)) = Items(buf[kind]) \cup {m}
  BY <1>1, ItemsAppend
<1>3. buf' = [buf EXCEPT ![kind] = Append(buf[kind], m)] BY DEF Buffer
<1>4. buf'[kind] = Append(buf[kind], m) /\ \A k \in Batched \ {kind} : buf'[k] = buf[k]
  BY <1>3 DEF Typed
<1>5. buf' \in [Batched -> Seq(Message)] BY <1>2, <1>3 DEF Typed
<1>6. ASSUME NEW k \in Batched, NEW x \in Items(buf'[k]) PROVE x.kind = k /\ x \in delivered
  <2>1. x \in Items(buf[k]) \/ (k = kind /\ x = m) BY <1>2, <1>4
  <2> QED BY <2>1 DEF Typed
<1> QED BY <1>2, <1>4, <1>5, <1>6

\* The consumer that dies leaves the tables as they are and remembers nothing it must keep.
LEMMA DeathStep ==
  ASSUME IngestInv, Dies, queue' \in Seq(Message), Len(queue') <= QueueMax,
         Items(queue') \subseteq Items(queue),
         UNCHANGED <<delivered, received, dropped, known, stored, lastSeen, channel>>
  PROVE  IngestInv' /\ Feeding
<1>0. Typed /\ Dated BY DEF IngestInv
<1>1. /\ faults' = faults + 1 /\ restarts' = restarts /\ consumer' = "dead"
      /\ buf' = [k \in Batched |-> <<>>]
  BY DEF Dies, Fails
<1>2. faults' \in Nat /\ faults' # 0 BY <1>0, <1>1 DEF Typed
<1>3. buf' \in [Batched -> Seq(Message)] /\ \A k \in Batched : Items(buf'[k]) = {}
  BY <1>1, ItemsEmpty
<1>4. Typed' BY <1>0, <1>1, <1>2, <1>3 DEF Typed
<1>5. Dated' BY <1>0 DEF Dated
<1>6. Kept' /\ SeenNotForgotten' BY <1>1, <1>2 DEF Kept, SeenNotForgotten
<1>7. Feeding BY DEF Feeding
<1> QED BY <1>4, <1>5, <1>6, <1>7 DEF IngestInv

LEMMA TakeSampleStep == IngestInv /\ TakeSample => IngestInv' /\ Feeding
<1> SUFFICES ASSUME IngestInv, TakeSample PROVE IngestInv' /\ Feeding OBVIOUS
<1>0. Typed /\ Dated /\ Kept /\ SeenNotForgotten BY DEF IngestInv
<1>1. /\ UNCHANGED <<delivered, received, dropped, known, seenDirty, stored, lastSeen, channel>>
      /\ UNCHANGED <<consumer, faults, restarts>>
  BY DEF TakeSample, inbox, database
<1>2. PICK kind \in {"tlm", "health"} : Taking(kind) /\ Buffer(kind, Head(queue)) BY DEF TakeSample
<1>3. kind \in Batched BY DEF Batched
<1>4. /\ Head(queue) \in Message /\ Head(queue) \in delivered /\ Head(queue).kind = kind
      /\ queue' \in Seq(Message) /\ Len(queue') <= QueueMax
      /\ Items(queue) = {Head(queue)} \cup Items(queue')
  BY <1>0, <1>2, TakingFacts
<1>5. /\ buf' \in [Batched -> Seq(Message)]
      /\ Items(buf'[kind]) = Items(buf[kind]) \cup {Head(queue)}
      /\ \A k \in Batched \ {kind} : buf'[k] = buf[k]
      /\ \A k \in Batched : \A x \in Items(buf'[k]) : x.kind = k /\ x \in delivered
  BY <1>0, <1>2, <1>3, <1>4, BufferFacts
<1>6. Typed' BY <1>0, <1>1, <1>4, <1>5 DEF Typed
<1>7. Dated' BY <1>0, <1>1 DEF Dated
<1>8. Kept'
  <2>1. \A k \in Batched : Items(buf[k]) \subseteq Items(buf'[k]) BY <1>5
  <2>2. \A m \in Items(queue) : m \in Items(queue') \/ (m.kind = kind /\ m \in Items(buf'[m.kind]))
    BY <1>4, <1>5
  <2> QED BY <1>0, <1>1, <2>1, <2>2 DEF Kept
<1>9. SeenNotForgotten' BY <1>0, <1>1 DEF SeenNotForgotten
<1>10. Feeding BY <1>1 DEF Feeding
<1> QED BY <1>6, <1>7, <1>8, <1>9, <1>10 DEF IngestInv

LEMMA TakeSpectStep == IngestInv /\ TakeSpect => IngestInv' /\ Feeding
<1> SUFFICES ASSUME IngestInv, TakeSpect PROVE IngestInv' /\ Feeding OBVIOUS
<1>0. Typed /\ Dated /\ Kept /\ SeenNotForgotten BY DEF IngestInv
<1> DEFINE m == Head(queue)
           n == [type |-> "spect", devices |-> {m.device}, ts |-> m.ts]
<1>1. /\ UNCHANGED <<delivered, received, dropped, known, seenDirty, stored, lastSeen>>
      /\ Taking("spect") /\ "spect" \in Batched
  BY DEF TakeSpect, inbox, Batched
<1>2. /\ m \in Message /\ m \in delivered /\ m.kind = "spect"
      /\ queue' \in Seq(Message) /\ Len(queue') <= QueueMax
      /\ Items(queue) = {m} \cup Items(queue')
  BY <1>0, <1>1, TakingFacts
<1>3. n \in Notification BY <1>2 DEF Message, Notification
<1>4. \/ ~m.valid /\ UNCHANGED <<buf, consumer, channel, faults, restarts>>
      \/ /\ m.valid /\ Buffer("spect", m) /\ UNCHANGED <<consumer, faults, restarts>>
         /\ channel' = Append(channel, n)
      \/ /\ m.valid /\ Buffer("spect", m) /\ faults' = faults + 1
         /\ UNCHANGED <<consumer, channel, restarts>>
      \/ Dies /\ UNCHANGED channel
  BY DEF TakeSpect, Succeeds, Fails
<1> HIDE DEF m, n
<1>a. CASE Dies /\ UNCHANGED channel BY <1>1, <1>2, <1>a, DeathStep
<1>b. ASSUME ~(Dies /\ UNCHANGED channel) PROVE IngestInv' /\ Feeding
  <2>1. Dated' BY <1>0, <1>1 DEF Dated
  <2>2. SeenNotForgotten' BY <1>0, <1>1, <1>4, <1>b DEF SeenNotForgotten
  <2>3. channel' \in Seq(Notification) /\ Feeding
    <3>1. UNCHANGED channel \/ channel' = Append(channel, n) BY <1>4
    <3>2. Append(channel, n) \in Seq(Notification) BY <1>0, <1>3, ItemsAppend DEF Typed
    <3>3. channel' \in Seq(Notification) BY <1>0, <3>1, <3>2 DEF Typed
    <3> QED BY <1>1, <1>3, <3>1, <3>3 DEF Feeding
  <2>4. CASE ~m.valid
    <3>1. UNCHANGED <<buf, faults, restarts>> BY <1>4, <1>b, <2>4
    <3>2. Typed' BY <1>0, <1>1, <1>2, <2>3, <3>1 DEF Typed
    <3>3. Kept' BY <1>0, <1>1, <1>2, <2>4, <3>1 DEF Kept
    <3> QED BY <2>1, <2>2, <2>3, <3>2, <3>3 DEF IngestInv
  <2>5. CASE m.valid
    <3>1. /\ Buffer("spect", m) /\ restarts' = restarts /\ (faults' = faults \/ faults' = faults + 1)
      BY <1>4, <1>b, <2>5
    <3>2. /\ buf' \in [Batched -> Seq(Message)]
          /\ Items(buf'["spect"]) = Items(buf["spect"]) \cup {m}
          /\ \A k \in Batched \ {"spect"} : buf'[k] = buf[k]
          /\ \A k \in Batched : \A x \in Items(buf'[k]) : x.kind = k /\ x \in delivered
      BY <1>0, <1>1, <1>2, <3>1, BufferFacts
    <3>3. faults' \in Nat /\ (faults' = 0 => faults = 0) BY <1>0, <3>1 DEF Typed
    <3>4. Typed' BY <1>0, <1>1, <1>2, <2>3, <3>1, <3>2, <3>3 DEF Typed
    <3>5. Kept'
      <4>1. \A k \in Batched : Items(buf[k]) \subseteq Items(buf'[k]) BY <3>2
      <4>2. \A x \in Items(queue) :
              x \in Items(queue') \/ (x.kind = "spect" /\ x \in Items(buf'[x.kind]))
        BY <1>2, <3>2
      <4> QED BY <1>0, <1>1, <3>1, <3>3, <4>1, <4>2 DEF Kept
    <3> QED BY <2>1, <2>2, <2>3, <3>4, <3>5 DEF IngestInv
  <2> QED BY <2>4, <2>5
<1> QED BY <1>a, <1>b

LEMMA TakeEventStep == IngestInv /\ (TakeEvent \/ TakeLwt) => IngestInv' /\ Feeding
<1> SUFFICES ASSUME IngestInv, TakeEvent \/ TakeLwt PROVE IngestInv' /\ Feeding OBVIOUS
<1>0. Typed /\ Dated /\ Kept /\ SeenNotForgotten BY DEF IngestInv
<1>1. UNCHANGED <<delivered, received, dropped, stored, lastSeen, channel>>
  BY DEF TakeEvent, TakeLwt, inbox, database
<1>2. PICK kind \in {"event", "lwt"} : Taking(kind) BY DEF TakeEvent, TakeLwt
<1>3. kind \notin Batched BY DEF Batched
<1>4. /\ Head(queue) \in Message /\ Head(queue).kind = kind
      /\ queue' \in Seq(Message) /\ Len(queue') <= QueueMax
      /\ Items(queue) = {Head(queue)} \cup Items(queue')
  BY <1>0, <1>2, TakingFacts
<1>5. CASE Dies /\ UNCHANGED known BY <1>1, <1>4, <1>5, DeathStep
<1>6. CASE ~(Dies /\ UNCHANGED known)
  <2>1. /\ known' \subseteq Registered /\ seenDirty \subseteq seenDirty' /\ UNCHANGED <<buf, consumer>>
        /\ restarts' = restarts /\ (faults' = faults \/ faults' = faults + 1)
    BY <1>0, <1>6 DEF TakeEvent, TakeLwt, Fails, Succeeds, Typed
  <2>2. faults' \in Nat /\ (faults' = 0 => faults = 0) BY <1>0, <2>1 DEF Typed
  <2>3. Typed' BY <1>0, <1>1, <1>4, <2>1, <2>2 DEF Typed
  <2>4. Dated' BY <1>0, <1>1 DEF Dated
  <2>5. Kept' BY <1>0, <1>1, <1>3, <1>4, <2>1, <2>2 DEF Kept
  <2>6. SeenNotForgotten' BY <1>0, <1>1, <2>1 DEF SeenNotForgotten
  <2>7. Feeding BY <1>1 DEF Feeding
  <2> QED BY <2>3, <2>4, <2>5, <2>6, <2>7 DEF IngestInv
<1> QED BY <1>5, <1>6

LEMMA SweepStep == IngestInv /\ Sweep => IngestInv' /\ Feeding
<1> SUFFICES ASSUME IngestInv, Sweep PROVE IngestInv' /\ Feeding OBVIOUS
<1>1. UNCHANGED <<delivered, queue, buf, stored, lastSeen, channel, faults, restarts, dropped>>
      /\ UNCHANGED <<consumer, known, seenDirty>>
  BY DEF Sweep, inbox, database
<1> QED BY <1>1 DEF IngestInv, Typed, Dated, Kept, SeenNotForgotten, Feeding

LEMMA FlushStep ==
  ASSUME IngestInv, NEW kind \in Batched, NEW seen \in BOOLEAN, NEW notice \in BOOLEAN,
         Flush(kind, seen, notice), kind # "spect" => seen, kind = "tlm" => notice
  PROVE  IngestInv' /\ Feeding
<1>0. Typed /\ Dated /\ Kept /\ SeenNotForgotten BY DEF IngestInv
<1> DEFINE batch   == {m \in {buf[kind][i] : i \in DOMAIN buf[kind]} : m.valid}
           senders == {m.device : m \in batch}
           rows    == {<<m.device, m.ts>> : m \in {n \in batch : n.device \in Recognised(senders)}}
           note    == [type |-> "telemetry", devices |-> senders, ts |-> 0]
<1>0a. CASE Dies /\ UNCHANGED <<known, stored, channel>>
  <2>1. UNCHANGED <<delivered, received, dropped, queue, lastSeen>> BY DEF Flush, inbox
  <2>2. queue' \in Seq(Message) /\ Len(queue') <= QueueMax BY <1>0, <2>1 DEF Typed
  <2> QED BY <1>0a, <2>1, <2>2, DeathStep
<1>0b. SUFFICES ASSUME ~(Dies /\ UNCHANGED <<known, stored, channel>>) PROVE IngestInv' /\ Feeding
  BY <1>0a
<1>1. /\ UNCHANGED <<delivered, received, dropped, queue, lastSeen, consumer>>
      /\ buf' = [buf EXCEPT ![kind] = <<>>]
      /\ seenDirty' = (IF seen THEN seenDirty \cup senders ELSE seenDirty)
      /\ known' = Recognised(senders)
      /\ \/ /\ Succeeds
            /\ stored' = [stored EXCEPT ![kind] = @ \cup rows]
            /\ channel' = IF notice /\ rows # {} THEN Append(channel, note) ELSE channel
         \/ rows # {} /\ Fails /\ UNCHANGED <<stored, channel>>
  BY <1>0b DEF Flush, inbox
<1>2. batch = {m \in Items(buf[kind]) : m.valid} BY DEF Items
<1>3. batch \subseteq Message /\ \A m \in batch : m \in delivered /\ m.kind = kind
  BY <1>0, <1>2 DEF Typed
<1>4. senders \subseteq Device BY <1>3 DEF Message
<1>5. Recognised(senders) \subseteq Registered /\ senders \cap Registered \subseteq Recognised(senders)
  BY <1>0 DEF Recognised, Typed
<1>6. \A x \in rows : \E m \in batch : x = <<m.device, m.ts>> /\ m.device \in Registered
  BY <1>5
<1>7. rows \subseteq Registered \X Ts
  <2> HIDE DEF rows, batch
  <2> SUFFICES ASSUME NEW x \in rows PROVE x \in Registered \X Ts OBVIOUS
  <2>1. PICK m \in batch : x = <<m.device, m.ts>> /\ m.device \in Registered BY <1>6
  <2>2. m.ts \in Ts BY <1>3 DEF Message
  <2> QED BY <2>1, <2>2
<1>8. \A m \in Items(buf[kind]) : m.valid /\ m.device \in Registered => <<m.device, m.ts>> \in rows
  BY <1>2, <1>5
<1>9. note \in Notification /\ note.type = "telemetry" /\ note.devices = senders
  BY <1>4 DEF Notification
<1>10. \A d, t : <<d, t>> \in rows => d \in senders BY <1>6
<1> HIDE DEF batch, senders, rows, note
<1>11. buf' \in [Batched -> Seq(Message)] /\ Items(buf'[kind]) = {}
       /\ \A k \in Batched \ {kind} : buf'[k] = buf[k]
  <2>1. <<>> \in Seq(Message) OBVIOUS
  <2> QED BY <1>0, <1>1, <2>1, ItemsEmpty DEF Typed
<1>12. \A k \in Batched : Items(buf'[k]) \subseteq Items(buf[k]) BY <1>11
<1>13. CASE Succeeds /\ stored' = [stored EXCEPT ![kind] = @ \cup rows]
       /\ channel' = (IF notice /\ rows # {} THEN Append(channel, note) ELSE channel)
       /\ known' = Recognised(senders)
  <2>1. UNCHANGED <<faults, restarts>> BY <1>13 DEF Succeeds
  <2>2. /\ stored' \in [Batched -> Table] /\ stored'[kind] = stored[kind] \cup rows
        /\ \A k \in Batched \ {kind} : stored'[k] = stored[k]
    BY <1>0, <1>7, <1>13 DEF Typed, Table
  <2>3. channel' \in Seq(Notification) BY <1>0, <1>9, <1>13, AppendProperties DEF Typed
  <2>4. Typed' BY <1>0, <1>1, <1>5, <1>11, <1>12, <1>13, <2>1, <2>2, <2>3 DEF Typed
  <2>5. Dated'
    <3>1. \A x \in rows : \E m \in delivered : m.ts = x[2] BY <1>3, <1>6
    <3> QED BY <1>0, <1>1, <2>2, <3>1 DEF Dated
  <2>6. Kept'
    <3>1. \A m \in Items(buf[kind]) : m.kind = kind BY <1>0 DEF Typed
    <3>2. \A k \in Batched : stored[k] \subseteq stored'[k] BY <2>2
    <3> SUFFICES ASSUME faults = 0, restarts = 0, dropped = 0, NEW m \in delivered,
                        m.valid, m.kind \in Batched, m.device \in Registered
                 PROVE  \/ m \in Items(queue) \/ m \in Items(buf'[m.kind])
                        \/ <<m.device, m.ts>> \in stored'[m.kind]
      BY <1>1, <2>1 DEF Kept
    <3>3. \/ m \in Items(queue) \/ m \in Items(buf[m.kind])
          \/ <<m.device, m.ts>> \in stored[m.kind]
      BY <1>0 DEF Kept
    <3>4. CASE m \in Items(buf[m.kind]) /\ m.kind = kind BY <1>8, <2>2, <3>4
    <3>5. CASE m \in Items(buf[m.kind]) /\ m.kind # kind BY <1>11, <3>5
    <3> QED BY <3>2, <3>3, <3>4, <3>5
  <2>7. SeenNotForgotten'
    <3> SUFFICES ASSUME restarts = 0, consumer # "dead", NEW k \in {"tlm", "health"},
                        NEW d \in Device, NEW t \in Ts, <<d, t>> \in stored'[k]
                 PROVE  d \in lastSeen \cup seenDirty'
      BY <1>1, <2>1 DEF SeenNotForgotten
    <3>1. k \in Batched /\ k # "spect" BY DEF Batched
    <3>2. CASE <<d, t>> \in stored[k] BY <1>0, <1>1, <3>2 DEF SeenNotForgotten
    <3>3. CASE <<d, t>> \notin stored[k]
      <4>1. k = kind /\ <<d, t>> \in rows BY <2>2, <3>1, <3>3
      <4> QED BY <1>1, <1>10, <3>1, <4>1
    <3> QED BY <3>2, <3>3
  <2>8. Feeding
    <3>1. \A k \in Batched : stored[k] \subseteq stored'[k] BY <2>2
    <3>2. "tlm" \in Batched BY DEF Batched
    <3>3. CASE kind = "tlm" /\ rows # {}
      <4>1. channel' = Append(channel, note) BY <1>13, <3>3
      <4>2. \A d \in Device, t \in Ts : <<d, t>> \in stored'["tlm"] \ stored["tlm"] => d \in senders
        BY <1>10, <2>2, <3>3
      <4> QED BY <1>9, <3>1, <4>1, <4>2 DEF Feeding
    <3>4. CASE ~(kind = "tlm" /\ rows # {})
      <4>1. stored'["tlm"] = stored["tlm"] BY <2>2, <3>2, <3>4
      <4> QED BY <1>9, <1>13, <3>1, <4>1 DEF Feeding
    <3> QED BY <3>3, <3>4
  <2> QED BY <2>4, <2>5, <2>6, <2>7, <2>8 DEF IngestInv
<1>14. CASE UNCHANGED <<stored, channel>> /\ Fails /\ known' \subseteq Registered
  <2>1. faults' = faults + 1 /\ restarts' = restarts /\ faults' \in Nat /\ faults' # 0
    BY <1>0, <1>14 DEF Fails, Typed
  <2>2. Typed' BY <1>0, <1>1, <1>11, <1>12, <1>14, <2>1 DEF Typed
  <2>3. Dated' BY <1>0, <1>1, <1>14 DEF Dated
  <2>4. Kept' BY <2>1 DEF Kept
  <2>5. SeenNotForgotten' BY <1>0, <1>1, <1>14, <2>1 DEF SeenNotForgotten
  <2>6. Feeding BY <1>14 DEF Feeding
  <2> QED BY <2>2, <2>3, <2>4, <2>5, <2>6 DEF IngestInv
<1> QED BY <1>1, <1>5, <1>13, <1>14

LEMMA LastSeenStep == IngestInv /\ FlushLastSeen => IngestInv' /\ Feeding
<1> SUFFICES ASSUME IngestInv, FlushLastSeen PROVE IngestInv' /\ Feeding OBVIOUS
<1>0. Typed /\ Dated /\ Kept /\ SeenNotForgotten BY DEF IngestInv
<1>0a. CASE Dies /\ UNCHANGED lastSeen
  <2>1. UNCHANGED <<delivered, received, dropped, queue, known, stored, channel>>
    BY DEF FlushLastSeen, inbox
  <2>2. queue' \in Seq(Message) /\ Len(queue') <= QueueMax BY <1>0, <2>1 DEF Typed
  <2> QED BY <1>0a, <2>1, <2>2, DeathStep
<1>0b. SUFFICES ASSUME ~(Dies /\ UNCHANGED lastSeen) PROVE IngestInv' /\ Feeding BY <1>0a
<1>1. /\ UNCHANGED <<delivered, received, dropped, queue, buf, consumer, known, stored, channel>>
      /\ restarts' = restarts
      /\ \/ faults' = faults /\ lastSeen' = lastSeen \cup (seenDirty \cap Registered)
         \/ faults' = faults + 1 /\ UNCHANGED <<lastSeen, seenDirty>>
  BY <1>0b DEF FlushLastSeen, inbox, Succeeds, Fails
<1>2. faults' \in Nat /\ (faults' = 0 => faults = 0) BY <1>0, <1>1 DEF Typed
<1>3. Typed' BY <1>0, <1>1, <1>2 DEF Typed
<1>4. Dated' BY <1>0, <1>1 DEF Dated
<1>5. Kept' BY <1>0, <1>1, <1>2 DEF Kept
<1>6. SeenNotForgotten'
  <2> SUFFICES ASSUME restarts = 0, consumer # "dead", NEW k \in {"tlm", "health"},
                      NEW d \in Device, NEW t \in Ts, <<d, t>> \in stored[k]
               PROVE  d \in lastSeen' \cup seenDirty'
    BY <1>1 DEF SeenNotForgotten
  <2>1. d \in lastSeen \cup seenDirty BY <1>0 DEF SeenNotForgotten
  <2>2. d \in Registered BY <1>0 DEF Typed, Table, Batched
  <2> QED BY <1>1, <2>1, <2>2
<1>7. Feeding BY <1>1 DEF Feeding
<1> QED BY <1>3, <1>4, <1>5, <1>6, <1>7 DEF IngestInv

LEMMA RestartStep == IngestInv /\ (Shutdown \/ Run) => IngestInv' /\ Feeding
<1> SUFFICES ASSUME IngestInv, Shutdown \/ Run PROVE IngestInv' /\ Feeding OBVIOUS
<1>0. Typed /\ Dated /\ Kept /\ SeenNotForgotten BY DEF IngestInv
<1>1. UNCHANGED <<delivered, received, dropped, stored, lastSeen, channel>>
  BY DEF Shutdown, Run, inbox, database
<1>2. Dated' /\ Feeding BY <1>0, <1>1 DEF Dated, Feeding
<1>3. CASE Shutdown
  <2>1. /\ queue' = <<>> /\ buf' = [k \in Batched |-> <<>>] /\ known' = {} /\ faults' = faults
        /\ restarts' = restarts + 1
    BY <1>3 DEF Shutdown
  <2>2. Items(queue') = {} /\ \A k \in Batched : Items(buf'[k]) = {} BY <2>1, ItemsEmpty
  <2>3. restarts' \in Nat /\ restarts' # 0 BY <1>0, <2>1 DEF Typed
  <2>4. queue' \in Seq(Message) /\ Len(queue') = 0 /\ buf' \in [Batched -> Seq(Message)] BY <2>1
  <2>5. Typed' BY <1>0, <1>1, <2>1, <2>2, <2>3, <2>4 DEF Typed
  <2> QED BY <1>2, <2>3, <2>5 DEF IngestInv, Kept, SeenNotForgotten
<1>4. CASE Run
  <2>1. /\ UNCHANGED <<queue, buf, seenDirty>> /\ known' \subseteq Registered /\ restarts' = restarts
        /\ (faults' = faults \/ faults' = faults + 1) /\ consumer = "stopped"
    BY <1>4 DEF Run, Succeeds, Fails
  <2>2. faults' \in Nat /\ (faults' = 0 => faults = 0) BY <1>0, <2>1 DEF Typed
  <2>3. Typed' BY <1>0, <1>1, <2>1, <2>2 DEF Typed
  <2>4. Kept' BY <1>0, <1>1, <2>1, <2>2 DEF Kept
  <2>5. SeenNotForgotten' BY <1>0, <1>1, <2>1 DEF SeenNotForgotten
  <2> QED BY <1>2, <2>3, <2>4, <2>5 DEF IngestInv
<1> QED BY <1>3, <1>4

LEMMA IngestStep == IngestInv /\ IngestNext => IngestInv' /\ Feeding
<1> SUFFICES ASSUME IngestInv, IngestNext PROVE IngestInv' /\ Feeding OBVIOUS
<1>1. "tlm" \in Batched /\ "spect" \in Batched /\ "health" \in Batched BY DEF Batched
<1>2. CASE FlushTelemetry BY <1>1, <1>2, FlushStep DEF FlushTelemetry
<1>3. CASE FlushSpect BY <1>1, <1>3, FlushStep DEF FlushSpect
<1>4. CASE FlushHealth BY <1>1, <1>4, FlushStep DEF FlushHealth
<1> QED BY <1>2, <1>3, <1>4, ReceiveStep, TakeSampleStep, TakeSpectStep, TakeEventStep, SweepStep,
           LastSeenStep, RestartStep DEF IngestNext, Consume

-----------------------------------------------------------------------------
(* The live feed.                                                            *)

Item == [wake : BOOLEAN, ts : Nat]
FrameIndices(q) == {i \in DOMAIN q : q[i] # Wake}

ViewerTypes ==
  /\ at \in [Viewer -> {"closed", "catchup", "waiting", "sending"}] /\ heard \in [Viewer -> Nat]
  /\ notifyQ \in [Viewer -> Seq(Item)] /\ pending \in [Viewer -> Seq(Item)]
  /\ mark \in [Viewer -> Nat] /\ shed \in [Viewer -> BOOLEAN]

\* Only while it sends a handler has items aside.
Attended(v) ==
  /\ heard[v] <= Len(channel) /\ Len(notifyQ[v]) <= NotifyMax
  /\ at[v] # "sending" => pending[v] = <<>>
  /\ Cardinality(FrameIndices(notifyQ[v])) <= SoftCap
  /\ Cardinality(FrameIndices(pending[v])) <= SoftCap
  /\ at[v] \in {"waiting", "sending"} /\ RowsAbove(mark[v]) # {} => Announced(v) \/ shed[v]

ViewerInv == ViewerTypes /\ \A v \in Viewer : Attended(v)

LEMMA FramesCount == ASSUME NEW q \in Seq(Item) PROVE Cardinality(FrameIndices(q)) \in Nat
<1>1. Len(q) \in Nat /\ DOMAIN q = 1..Len(q) BY LenProperties
<1>2. PICK n \in Nat : Len(q) = n BY <1>1
<1>3. IsFiniteSet(1..n) BY FS_Interval
<1>4. FrameIndices(q) \in SUBSET (1..n) BY <1>1, <1>2 DEF FrameIndices
<1>5. IsFiniteSet(FrameIndices(q)) BY <1>3, <1>4, FS_Subset
<1> QED BY <1>5, FS_CardinalityType

LEMMA FewFrames ==
  ASSUME NEW q \in Seq(Item), Len(q) <= SoftCap
  PROVE  Cardinality(FrameIndices(q)) <= SoftCap
<1>1. Len(q) \in Nat /\ DOMAIN q = 1..Len(q) BY LenProperties
<1>2. PICK n \in Nat : Len(q) = n BY <1>1
<1>3. IsFiniteSet(1..n) /\ Cardinality(1..n) = n BY FS_Interval
<1>4. FrameIndices(q) \in SUBSET (1..n) BY <1>1, <1>2 DEF FrameIndices
<1>5. IsFiniteSet(FrameIndices(q)) /\ Cardinality(FrameIndices(q)) <= n BY <1>3, <1>4, FS_Subset
<1>6. Cardinality(FrameIndices(q)) \in Nat BY <1>5, FS_CardinalityType
<1> QED BY <1>2, <1>5, <1>6

LEMMA WakeIsNoFrame ==
  ASSUME NEW q \in Seq(Item)
  PROVE  FrameIndices(Append(q, Wake)) = FrameIndices(q)
<1>1. Wake \in Item BY DEF Wake, Item
<1>2. /\ Append(q, Wake) \in Seq(Item) /\ Len(Append(q, Wake)) = Len(q) + 1
      /\ \A i \in 1..Len(q) : Append(q, Wake)[i] = q[i]
      /\ Append(q, Wake)[Len(q) + 1] = Wake
  BY <1>1, AppendProperties
<1>3. Len(q) \in Nat /\ DOMAIN q = 1..Len(q) /\ DOMAIN Append(q, Wake) = 1..(Len(q) + 1)
  BY <1>2, LenProperties
<1> QED BY <1>2, <1>3 DEF FrameIndices

LEMMA ShortenedFacts ==
  ASSUME NEW q \in Seq(Item)
  PROVE  Shortened(q) \in Seq(Item) /\ Len(Shortened(q)) + 1 <= SoftCap
<1>1. Len(q) \in Nat /\ DOMAIN q = 1..Len(q) BY LenProperties
<1>2. PICK n \in Nat : Len(q) = n BY <1>1
<1>3. CASE n >= SoftCap
  <2>1. /\ n - SoftCap + 2 \in 1..(n + 1) /\ n \in (n - SoftCap + 1)..n
        /\ n - (n - SoftCap + 2) + 1 = SoftCap - 1
    BY <1>3
  <2>2. Shortened(q) = SubSeq(q, n - SoftCap + 2, n) BY <1>2, <1>3 DEF Shortened
  <2>3. SubSeq(q, n - SoftCap + 2, n) \in Seq(Item) /\ Len(SubSeq(q, n - SoftCap + 2, n)) = SoftCap - 1
    BY <1>2, <2>1, SubSeqProperties
  <2> QED BY <2>2, <2>3
<1>4. CASE ~(n >= SoftCap) BY <1>2, <1>4 DEF Shortened
<1> QED BY <1>3, <1>4

\* A SELECT leaves no row above the mark.
LEMMA PushFacts ==
  ASSUME IngestInv, ViewerTypes, NEW v \in Viewer, PushNewRows(v)
  PROVE  /\ mark' \in [Viewer -> Nat] /\ RowsAbove(mark'[v]) = {}
         /\ \A w \in Viewer \ {v} : mark'[w] = mark[w]
         /\ shed' \in [Viewer -> BOOLEAN] /\ \A w \in Viewer \ {v} : shed'[w] = shed[w]
<1> DEFINE t == mark[v]
           next == CHOOSE r \in RowsAbove(t) : \A s \in RowsAbove(t) : s <= r
<1>1. t \in Nat BY DEF ViewerTypes
<1>2. /\ mark' = [mark EXCEPT ![v] = IF RowsAbove(t) = {} THEN t ELSE next]
      /\ shed' = [shed EXCEPT ![v] = FALSE]
  BY DEF PushNewRows
<1>3. RowsAbove(t) \in SUBSET Nat BY DEF RowsAbove
<1>4. CASE RowsAbove(t) = {} BY <1>1, <1>2, <1>4 DEF ViewerTypes
<1>5. CASE RowsAbove(t) # {}
  <2>1. PICK b \in Nat : \A s \in RowsAbove(t) : s <= b
    <3>1. PICK b \in Nat : \A m \in delivered : m.ts <= b BY DEF IngestInv, Dated
    <3>2. \A x \in stored["tlm"] : \E m \in delivered : m.ts = x[2] BY DEF IngestInv, Dated, Batched
    <3>3. ASSUME NEW s \in RowsAbove(t) PROVE s <= b
      <4>1. <<Watched, s>> \in stored["tlm"] /\ <<Watched, s>>[2] = s BY DEF RowsAbove
      <4>2. PICK m \in delivered : m.ts = s BY <3>2, <4>1
      <4> QED BY <3>1, <4>2
    <3> QED BY <3>3
  <2>2. \E m \in RowsAbove(t) : \A s \in RowsAbove(t) : s <= m BY <1>3, <1>5, <2>1, BoundedHasMax
  <2>3. next \in RowsAbove(t) /\ \A s \in RowsAbove(t) : s <= next BY <2>2
  <2>4. next \in Nat /\ next > t BY <2>3, <1>3 DEF RowsAbove
  <2> HIDE DEF next, t
  <2>5. mark'[v] = next BY <1>2, <1>5 DEF ViewerTypes
  <2>6. RowsAbove(next) = {}
    <3> SUFFICES ASSUME NEW s \in RowsAbove(next) PROVE FALSE OBVIOUS
    <3>1. s \in Nat /\ s > next /\ s \in Ts /\ <<Watched, s>> \in stored["tlm"] BY DEF RowsAbove
    <3>2. s \in RowsAbove(t) BY <1>1, <2>4, <3>1 DEF RowsAbove
    <3> QED BY <2>3, <2>4, <3>1, <3>2
  <2> QED BY <1>2, <1>5, <2>4, <2>5, <2>6 DEF ViewerTypes
<1> QED BY <1>4, <1>5

LEMMA ViewersInit == Init => ViewerInv
<1> SUFFICES ASSUME Init PROVE ViewerInv OBVIOUS
<1>1. <<>> \in Seq(Item) /\ Len(<<>>) = 0 /\ Len(<<>>) <= SoftCap OBVIOUS
<1>2. Cardinality(FrameIndices(<<>>)) <= SoftCap BY <1>1, FewFrames
<1> QED BY <1>1, <1>2 DEF Init, InitIngest, ViewerInv, ViewerTypes, Attended

\* The worker's steps: a new row comes with a wake-up on the channel.
LEMMA ViewersWhileFed ==
  ASSUME IngestInv, ViewerInv, Feeding, UNCHANGED viewerVars, channel' \in Seq(Notification)
  PROVE  ViewerInv'
<1>1. UNCHANGED <<at, heard, notifyQ, pending, mark, shed>> BY DEF viewerVars
<1>2. ViewerTypes' BY <1>1 DEF ViewerInv, ViewerTypes
<1>3. channel \in Seq(Notification) /\ Len(channel) \in Nat BY LenProperties DEF IngestInv, Typed
<1> SUFFICES ASSUME NEW v \in Viewer PROVE Attended(v)' BY <1>2 DEF ViewerInv
<1>4. Attended(v) /\ heard[v] \in Nat BY DEF ViewerInv, ViewerTypes
<1>5. CASE UNCHANGED channel /\ stored'["tlm"] = stored["tlm"]
  <2>1. (RowsAbove(mark[v]))' = RowsAbove(mark[v]) BY <1>1, <1>5 DEF RowsAbove
  <2>2. Announced(v)' = Announced(v) BY <1>1, <1>5 DEF Announced, Unread
  <2> QED BY <1>1, <1>4, <1>5, <2>1, <2>2 DEF Attended
<1>6. ASSUME NEW n \in Notification, channel' = Append(channel, n),
             \A d \in Device, t \in Ts :
               <<d, t>> \in stored'["tlm"] \ stored["tlm"] => n.type = "telemetry" /\ d \in n.devices
      PROVE  Attended(v)'
  <2>1. /\ Len(channel') = Len(channel) + 1 /\ channel'[Len(channel) + 1] = n
        /\ \A i \in 1..Len(channel) : channel'[i] = channel[i]
    BY <1>3, <1>6, AppendProperties
  <2>2. Unread(v)' = Unread(v) \cup {n}
    <3>1. (heard[v] + 1)..(Len(channel) + 1) = ((heard[v] + 1)..Len(channel)) \cup {Len(channel) + 1}
      BY <1>3, <1>4 DEF Attended
    <3>2. \A i \in (heard[v] + 1)..Len(channel) : i \in 1..Len(channel) BY <1>3, <1>4
    <3> QED BY <1>1, <2>1, <3>1, <3>2 DEF Unread
  <2>3. Announced(v) => Announced(v)' BY <1>1, <2>2 DEF Announced
  <2>4. (RowsAbove(mark[v]))' # {} /\ RowsAbove(mark[v]) = {} => Announced(v)'
    <3> SUFFICES ASSUME NEW s \in Ts, s > mark[v], <<Watched, s>> \in stored'["tlm"],
                        RowsAbove(mark[v]) = {}
                 PROVE  Announced(v)'
      BY <1>1 DEF RowsAbove
    <3>1. <<Watched, s>> \notin stored["tlm"] BY DEF RowsAbove
    <3>2. n.type = "telemetry" /\ Watched \in n.devices BY <1>6, <3>1
    <3> QED BY <2>2, <3>2 DEF Announced
  <2>5. heard'[v] <= Len(channel') BY <1>1, <1>3, <1>4, <2>1 DEF Attended
  <2> QED BY <1>1, <1>4, <2>3, <2>4, <2>5 DEF Attended
<1> QED BY <1>5, <1>6 DEF Feeding

\* One viewer's step leaves the others alone.
LEMMA OtherViewers ==
  ASSUME ViewerInv, NEW v \in Viewer, NEW w \in Viewer \ {v}, UNCHANGED ingestVars,
         at'[w] = at[w], heard'[w] = heard[w], notifyQ'[w] = notifyQ[w],
         pending'[w] = pending[w], mark'[w] = mark[w], shed'[w] = shed[w]
  PROVE  Attended(w)'
<1>1. UNCHANGED <<stored, channel>> BY DEF ingestVars, database
<1>2. (RowsAbove(mark[w]))' = RowsAbove(mark[w]) BY <1>1 DEF RowsAbove
<1>3. Announced(w)' = Announced(w) BY <1>1 DEF Announced, Unread
<1> QED BY <1>1, <1>2, <1>3 DEF ViewerInv, Attended

LEMMA EmptyQueue == <<>> \in Seq(Item) /\ Len(<<>>) <= NotifyMax /\ Cardinality(FrameIndices(<<>>)) <= SoftCap
<1>1. <<>> \in Seq(Item) /\ Len(<<>>) <= SoftCap /\ Len(<<>>) <= NotifyMax OBVIOUS
<1> QED BY <1>1, FewFrames

LEMMA ConnectStep ==
  ASSUME IngestInv, ViewerInv, NEW v \in Viewer, Connect(v)
  PROVE  ViewerInv'
<1>0. ViewerTypes /\ Attended(v) BY DEF ViewerInv
<1>1. /\ UNCHANGED <<ingestVars, notifyQ, pending, shed>> /\ at[v] = "closed"
      /\ at' = [at EXCEPT ![v] = "catchup"] /\ heard' = [heard EXCEPT ![v] = Len(channel)]
      /\ \E t \in CatchUpFrom : mark' = [mark EXCEPT ![v] = t]
  BY DEF Connect
<1>2. UNCHANGED channel /\ Len(channel) \in Nat
  BY <1>1, LenProperties DEF ingestVars, database, IngestInv, Typed
<1>3. mark' \in [Viewer -> Nat] /\ \A w \in Viewer \ {v} : mark'[w] = mark[w]
  BY <1>0, <1>1 DEF ViewerTypes
<1>4. ViewerTypes' BY <1>0, <1>1, <1>2, <1>3 DEF ViewerTypes
<1>5. Attended(v)'
  <2>1. at'[v] = "catchup" /\ heard'[v] = Len(channel) BY <1>0, <1>1 DEF ViewerTypes
  <2> QED BY <1>0, <1>1, <1>2, <2>1 DEF Attended
<1>6. \A w \in Viewer \ {v} : Attended(w)' BY <1>0, <1>1, <1>3, OtherViewers DEF ViewerTypes
<1> QED BY <1>4, <1>5, <1>6 DEF ViewerInv

LEMMA CatchUpStep ==
  ASSUME IngestInv, ViewerInv, NEW v \in Viewer, CatchUp(v)
  PROVE  ViewerInv'
<1>0. ViewerTypes /\ Attended(v) BY DEF ViewerInv
<1>1. /\ UNCHANGED <<ingestVars, heard, notifyQ, pending>> /\ at[v] = "catchup"
      /\ at' = [at EXCEPT ![v] = "waiting"] /\ PushNewRows(v)
  BY DEF CatchUp
<1>2. UNCHANGED <<channel, stored>> BY <1>1 DEF ingestVars, database
<1>3. /\ mark' \in [Viewer -> Nat] /\ RowsAbove(mark'[v]) = {}
      /\ \A w \in Viewer \ {v} : mark'[w] = mark[w]
      /\ shed' \in [Viewer -> BOOLEAN] /\ \A w \in Viewer \ {v} : shed'[w] = shed[w]
  BY <1>0, <1>1, PushFacts
<1>4. ViewerTypes' BY <1>0, <1>1, <1>3 DEF ViewerTypes
<1>5. (RowsAbove(mark[v]))' = {} BY <1>2, <1>3 DEF RowsAbove
<1>6. Attended(v)' BY <1>0, <1>1, <1>2, <1>5 DEF Attended
<1>7. \A w \in Viewer \ {v} : Attended(w)' BY <1>0, <1>1, <1>3, OtherViewers DEF ViewerTypes
<1> QED BY <1>4, <1>6, <1>7 DEF ViewerInv

LEMMA NotifiedStep ==
  ASSUME IngestInv, ViewerInv, NEW v \in Viewer, Notified(v)
  PROVE  ViewerInv'
<1>0. ViewerTypes /\ Attended(v) BY DEF ViewerInv
<1> DEFINE n == channel[heard[v] + 1]
           q == notifyQ[v]
<1>1. /\ UNCHANGED <<ingestVars, at, pending, mark>> /\ heard[v] < Len(channel)
      /\ heard' = [heard EXCEPT ![v] = @ + 1]
      /\ \/ Watched \notin n.devices /\ UNCHANGED <<notifyQ, shed>>
         \/ /\ Watched \in n.devices /\ n.type = "telemetry"
            /\ IF Len(q) < NotifyMax
               THEN notifyQ' = [notifyQ EXCEPT ![v] = Append(q, Wake)] /\ UNCHANGED shed
               ELSE shed' = [shed EXCEPT ![v] = TRUE] /\ UNCHANGED notifyQ
         \/ /\ Watched \in n.devices /\ n.type = "spect"
            /\ notifyQ' = [notifyQ EXCEPT ![v] = Append(Shortened(q), Frame(n.ts))]
            /\ shed' = [shed EXCEPT ![v] =
                          @ \/ (Wake \in Items(q) /\ Wake \notin Items(Shortened(q)))]
  BY DEF Notified
<1>2. UNCHANGED <<channel, stored>> BY <1>1 DEF ingestVars, database
<1>3. channel \in Seq(Notification) /\ Len(channel) \in Nat /\ heard[v] \in Nat /\ q \in Seq(Item)
  BY <1>0, LenProperties DEF IngestInv, Typed, ViewerTypes
<1>4. heard[v] + 1 \in 1..Len(channel) BY <1>1, <1>3
<1>5. n \in Notification BY <1>3, <1>4, ElementOfSeq
<1>6. n.ts \in Nat BY <1>5 DEF Notification
<1>7. /\ heard' \in [Viewer -> Nat] /\ heard'[v] = heard[v] + 1 /\ heard'[v] <= Len(channel)
      /\ \A w \in Viewer \ {v} : heard'[w] = heard[w]
  BY <1>0, <1>1, <1>3 DEF ViewerTypes
<1>8. Unread(v) = Unread(v)' \cup {n}
  <2>1. (heard[v] + 1)..Len(channel) = {heard[v] + 1} \cup ((heard[v] + 1 + 1)..Len(channel))
    BY <1>3, <1>4
  <2> QED BY <1>2, <1>7, <2>1 DEF Unread
<1>9. (RowsAbove(mark[v]))' = RowsAbove(mark[v]) BY <1>1, <1>2 DEF RowsAbove
<1> HIDE DEF n
<1>10. ASSUME NEW r \in Seq(Item), NEW s \in BOOLEAN,
              notifyQ' = [notifyQ EXCEPT ![v] = r], shed' = [shed EXCEPT ![v] = s],
              Len(r) <= NotifyMax, Cardinality(FrameIndices(r)) <= SoftCap,
              Announced(v) \/ shed[v] => Announced(v)' \/ s
       PROVE  ViewerInv'
  <2>1. /\ notifyQ' \in [Viewer -> Seq(Item)] /\ notifyQ'[v] = r /\ shed'[v] = s
        /\ \A w \in Viewer \ {v} : notifyQ'[w] = notifyQ[w] /\ shed'[w] = shed[w]
        /\ shed' \in [Viewer -> BOOLEAN]
    BY <1>0, <1>10 DEF ViewerTypes
  <2>2. ViewerTypes' BY <1>0, <1>1, <1>7, <2>1 DEF ViewerTypes
  <2>3. Attended(v)' BY <1>0, <1>1, <1>2, <1>7, <1>9, <1>10, <2>1 DEF Attended
  <2>4. \A w \in Viewer \ {v} : Attended(w)' BY <1>1, <1>7, <2>1, OtherViewers
  <2> QED BY <2>2, <2>3, <2>4 DEF ViewerInv
<1>11. CASE Watched \notin n.devices /\ UNCHANGED <<notifyQ, shed>>
  <2>1. Announced(v)' = Announced(v) BY <1>1, <1>8, <1>11 DEF Announced
  <2>2. notifyQ' = [notifyQ EXCEPT ![v] = q] /\ shed' = [shed EXCEPT ![v] = shed[v]] /\ shed[v] \in BOOLEAN
    BY <1>0, <1>11 DEF ViewerTypes
  <2> QED BY <1>0, <1>3, <1>10, <2>1, <2>2 DEF Attended
<1>12. CASE n.type = "telemetry" /\ Len(q) < NotifyMax /\ UNCHANGED shed
            /\ notifyQ' = [notifyQ EXCEPT ![v] = Append(q, Wake)]
  <2>1. Wake \in Item BY DEF Wake, Item
  <2>2. /\ Append(q, Wake) \in Seq(Item) /\ Len(Append(q, Wake)) = Len(q) + 1
        /\ Wake \in Items(Append(q, Wake))
    BY <1>3, <2>1, ItemsAppend
  <2>3. Len(q) \in Nat BY <1>3, LenProperties
  <2>4. Len(Append(q, Wake)) <= NotifyMax BY <1>12, <2>2, <2>3
  <2>5. Cardinality(FrameIndices(Append(q, Wake))) <= SoftCap BY <1>0, <1>3, WakeIsNoFrame DEF Attended
  <2>6. notifyQ'[v] = Append(q, Wake) BY <1>0, <1>12 DEF ViewerTypes
  <2>7. Announced(v)' BY <2>2, <2>6 DEF Announced
  <2>8. shed' = [shed EXCEPT ![v] = shed[v]] /\ shed[v] \in BOOLEAN BY <1>0, <1>12 DEF ViewerTypes
  <2> HIDE DEF q
  <2> QED BY <1>10, <1>12, <2>2, <2>4, <2>5, <2>7, <2>8
<1>13. CASE shed' = [shed EXCEPT ![v] = TRUE] /\ UNCHANGED notifyQ
  <2>1. notifyQ' = [notifyQ EXCEPT ![v] = q] BY <1>0, <1>13 DEF ViewerTypes
  <2> QED BY <1>0, <1>3, <1>10, <1>13, <2>1 DEF Attended
<1>14. CASE /\ n.type = "spect" /\ notifyQ' = [notifyQ EXCEPT ![v] = Append(Shortened(q), Frame(n.ts))]
            /\ shed' = [shed EXCEPT ![v] =
                          @ \/ (Wake \in Items(q) /\ Wake \notin Items(Shortened(q)))]
  <2> DEFINE kept == Shortened(q)
             s == shed[v] \/ (Wake \in Items(q) /\ Wake \notin Items(kept))
  <2>1. kept \in Seq(Item) /\ Len(kept) + 1 <= SoftCap BY <1>3, ShortenedFacts
  <2>2. Frame(n.ts) \in Item BY <1>6 DEF Frame, Item
  <2> HIDE DEF kept
  <2>3. /\ Append(kept, Frame(n.ts)) \in Seq(Item) /\ Len(Append(kept, Frame(n.ts))) = Len(kept) + 1
        /\ Items(kept) \subseteq Items(Append(kept, Frame(n.ts)))
    BY <2>1, <2>2, ItemsAppend
  <2>4. Cardinality(FrameIndices(Append(kept, Frame(n.ts)))) <= SoftCap BY <2>1, <2>3, FewFrames
  <2>5. Len(kept) \in Nat BY <2>1, LenProperties
  <2>6. Len(Append(kept, Frame(n.ts))) <= NotifyMax BY <2>1, <2>3, <2>5
  <2>7. notifyQ'[v] = Append(kept, Frame(n.ts)) BY <1>0, <1>14 DEF ViewerTypes, kept
  <2>8. Announced(v) => Announced(v)' \/ s
    <3>1. \A x : x \in Unread(v) /\ x.type = "telemetry" => x \in Unread(v)' BY <1>8, <1>14
    <3> QED BY <1>1, <2>3, <2>7, <3>1 DEF Announced
  <2>9. s \in BOOLEAN /\ shed' = [shed EXCEPT ![v] = s] BY <1>0, <1>14 DEF ViewerTypes, kept
  <2>10. notifyQ' = [notifyQ EXCEPT ![v] = Append(kept, Frame(n.ts))] BY <1>14 DEF kept
  <2>11. Announced(v) \/ shed[v] => Announced(v)' \/ s BY <2>8
  <2> HIDE DEF s
  <2> QED BY <1>10, <2>3, <2>4, <2>6, <2>9, <2>10, <2>11
<1> HIDE DEF q
<1> QED BY <1>1, <1>11, <1>12, <1>13, <1>14

LEMMA DrainStep ==
  ASSUME IngestInv, ViewerInv, NEW v \in Viewer, Drain(v)
  PROVE  ViewerInv'
<1>0. ViewerTypes /\ Attended(v) BY DEF ViewerInv
<1>1. /\ UNCHANGED <<ingestVars, heard, mark, shed>> /\ at[v] = "waiting"
      /\ at' = [at EXCEPT ![v] = "sending"] /\ pending' = [pending EXCEPT ![v] = notifyQ[v]]
      /\ notifyQ' = [notifyQ EXCEPT ![v] = <<>>]
  BY DEF Drain
<1>2. UNCHANGED <<channel, stored>> BY <1>1 DEF ingestVars, database
<1>3. ViewerTypes' BY <1>0, <1>1, EmptyQueue DEF ViewerTypes
<1>4. at'[v] = "sending" /\ pending'[v] = notifyQ[v] /\ notifyQ'[v] = <<>> BY <1>0, <1>1 DEF ViewerTypes
<1>5. pending[v] = <<>> BY <1>0, <1>1 DEF Attended
<1>6. Announced(v) => Announced(v)'
  <2>1. Unread(v)' = Unread(v) BY <1>1, <1>2 DEF Unread
  <2> QED BY <1>4, <1>5, <2>1, ItemsEmpty DEF Announced
<1>7. (RowsAbove(mark[v]))' = RowsAbove(mark[v]) BY <1>1, <1>2 DEF RowsAbove
<1>8. Attended(v)' BY <1>0, <1>1, <1>2, <1>4, <1>6, <1>7, EmptyQueue DEF Attended
<1>9. \A w \in Viewer \ {v} : Attended(w)' BY <1>0, <1>1, OtherViewers DEF ViewerTypes
<1> QED BY <1>3, <1>8, <1>9 DEF ViewerInv

LEMMA SendStep ==
  ASSUME IngestInv, ViewerInv, NEW v \in Viewer, Send(v)
  PROVE  ViewerInv'
<1>0. ViewerTypes /\ Attended(v) BY DEF ViewerInv
<1>1. /\ UNCHANGED <<ingestVars, heard, notifyQ>> /\ at[v] = "sending"
      /\ at' = [at EXCEPT ![v] = "waiting"] /\ pending' = [pending EXCEPT ![v] = <<>>]
      /\ \/ Wake \in Items(pending[v]) /\ PushNewRows(v)
         \/ Wake \notin Items(pending[v]) /\ UNCHANGED <<mark, shed>>
  BY DEF Send
<1>2. UNCHANGED <<channel, stored>> BY <1>1 DEF ingestVars, database
<1>3. at'[v] = "waiting" /\ pending'[v] = <<>> BY <1>0, <1>1 DEF ViewerTypes
<1>4. /\ mark' \in [Viewer -> Nat] /\ shed' \in [Viewer -> BOOLEAN]
      /\ \A w \in Viewer \ {v} : mark'[w] = mark[w] /\ shed'[w] = shed[w]
      /\ \/ RowsAbove(mark'[v]) = {}
         \/ Wake \notin Items(pending[v]) /\ UNCHANGED <<mark, shed>>
  <2>1. CASE PushNewRows(v) BY <1>0, <2>1, PushFacts
  <2>2. CASE Wake \notin Items(pending[v]) /\ UNCHANGED <<mark, shed>> BY <1>0, <2>2 DEF ViewerTypes
  <2> QED BY <1>1, <2>1, <2>2
<1>5. ViewerTypes' BY <1>0, <1>1, <1>4, EmptyQueue DEF ViewerTypes
<1>6. (RowsAbove(mark[v]))' = RowsAbove(mark'[v]) BY <1>2 DEF RowsAbove
<1>7. Wake \notin Items(pending[v]) /\ Announced(v) => Announced(v)'
  <2>1. Unread(v)' = Unread(v) BY <1>1, <1>2 DEF Unread
  <2> QED BY <1>1, <2>1 DEF Announced
<1>8. Attended(v)' BY <1>0, <1>1, <1>2, <1>3, <1>4, <1>6, <1>7, EmptyQueue DEF Attended
<1>9. \A w \in Viewer \ {v} : Attended(w)' BY <1>0, <1>1, <1>4, OtherViewers DEF ViewerTypes
<1> QED BY <1>5, <1>8, <1>9 DEF ViewerInv

LEMMA DisconnectStep ==
  ASSUME IngestInv, ViewerInv, NEW v \in Viewer, Disconnect(v)
  PROVE  ViewerInv'
<1>0. ViewerTypes /\ Attended(v) BY DEF ViewerInv
<1>1. /\ UNCHANGED ingestVars /\ at' = [at EXCEPT ![v] = "closed"]
      /\ heard' = [heard EXCEPT ![v] = 0] /\ mark' = [mark EXCEPT ![v] = 0]
      /\ notifyQ' = [notifyQ EXCEPT ![v] = <<>>] /\ pending' = [pending EXCEPT ![v] = <<>>]
      /\ shed' = [shed EXCEPT ![v] = FALSE]
  BY DEF Disconnect
<1>2. UNCHANGED channel /\ Len(channel) \in Nat
  BY <1>1, LenProperties DEF ingestVars, database, IngestInv, Typed
<1>3. ViewerTypes' BY <1>0, <1>1, EmptyQueue DEF ViewerTypes
<1>4. at'[v] = "closed" /\ heard'[v] = 0 /\ pending'[v] = <<>> /\ notifyQ'[v] = <<>>
  BY <1>0, <1>1 DEF ViewerTypes
<1>5. Attended(v)' BY <1>2, <1>4, EmptyQueue DEF Attended
<1>6. \A w \in Viewer \ {v} : Attended(w)' BY <1>0, <1>1, OtherViewers DEF ViewerTypes
<1> QED BY <1>3, <1>5, <1>6 DEF ViewerInv

LEMMA FeedStep ==
  ASSUME IngestInv, ViewerInv, Next
  PROVE  IngestInv' /\ ViewerInv' /\ stored["spect"] \subseteq stored'["spect"]
<1>1. CASE IngestNext /\ UNCHANGED <<viewerVars, connects>>
  <2>1. IngestInv' /\ Feeding BY <1>1, IngestStep
  <2>2. channel' \in Seq(Notification) BY <2>1 DEF IngestInv, Typed
  <2> QED BY <1>1, <2>1, <2>2, ViewersWhileFed DEF Feeding, Batched
<1>2. ASSUME NEW v \in Viewer, Connect(v) \/ Handler(v) \/ Disconnect(v)
      PROVE  IngestInv' /\ ViewerInv' /\ stored["spect"] \subseteq stored'["spect"]
  <2>1. UNCHANGED ingestVars
    BY <1>2 DEF Connect, Handler, CatchUp, Notified, Drain, Send, Disconnect
  <2>2. IngestInv'
    BY <2>1 DEF ingestVars, inbox, worker, database, IngestInv, Typed, Dated, Kept, SeenNotForgotten
  <2>3. ViewerInv'
    BY <1>2, ConnectStep, CatchUpStep, NotifiedStep, DrainStep, SendStep, DisconnectStep DEF Handler
  <2> QED BY <2>1, <2>2, <2>3 DEF ingestVars, database
<1> QED BY <1>1, <1>2 DEF Next

-----------------------------------------------------------------------------
(* The tiles.                                                                *)

Request == [at : {"none", "asked", "missed", "rendered", "answered"}, hour : Nat,
            closed : BOOLEAN, png : SUBSET Ts]

TileTypes ==
  /\ tiles \in [Hour -> (SUBSET Ts) \cup {NoTile}] /\ onTime \in [Hour -> SUBSET Ts]
  /\ asked \in [Ask -> Request]
  /\ focus = "tiles" => hour \in Nat

\* A request that found its hour closed, and the one that will be.
Sound(q) ==
  /\ q.at \in {"missed", "rendered"} => q.closed
  /\ q.closed => q.hour \in Hour /\ q.hour < hour
  /\ q.closed /\ q.at \in {"rendered", "answered"} =>
       onTime[q.hour] \subseteq q.png /\ q.png \subseteq FramesOf(q.hour)

TilesInv ==
  /\ TileTypes
  /\ \A h \in Hour : onTime[h] \subseteq FramesOf(h)
  /\ \A h \in Hour : tiles[h] # NoTile =>
       h < hour /\ onTime[h] \subseteq tiles[h] /\ tiles[h] \subseteq FramesOf(h)
  /\ \A r \in Ask : Sound(asked[r])

LEMMA HourNat == Hour \subseteq Nat
<1> SUFFICES ASSUME NEW t \in Ts PROVE t \div PerHour \in Nat BY DEF Hour, HourOf
<1>1. t \in Nat /\ PerHour \in Nat /\ PerHour > 0 OBVIOUS
<1> QED BY <1>1

LEMMA TilesInitial == TilesInit => TilesInv
<1> SUFFICES ASSUME TilesInit PROVE TilesInv OBVIOUS
<1>1. Unasked \in Request /\ Unasked.at = "none" /\ ~Unasked.closed BY DEF Unasked, Request
<1>2. /\ tiles = [h \in Hour |-> NoTile] /\ onTime = [h \in Hour |-> {}]
      /\ asked = [r \in Ask |-> Unasked] /\ (focus = "tiles" => hour = 0)
  BY DEF TilesInit
<1>3. \A r \in Ask : Sound(asked[r]) BY <1>1, <1>2 DEF Sound
<1>4. tiles \in [Hour -> (SUBSET Ts) \cup {NoTile}] /\ \A h \in Hour : tiles[h] = NoTile BY <1>2
<1>5. onTime \in [Hour -> SUBSET Ts] /\ \A h \in Hour : onTime[h] = {} BY <1>2
<1>6. TileTypes BY <1>1, <1>2, <1>4, <1>5 DEF TileTypes
<1> QED BY <1>3, <1>4, <1>5, <1>6 DEF TilesInv

\* The frames of an hour only become more.
LEMMA TilesWhileFed ==
  ASSUME TilesInv, stored["spect"] \subseteq stored'["spect"], UNCHANGED tileVars
  PROVE  TilesInv'
<1>1. UNCHANGED <<focus, hour, tiles, asked, onTime>> BY DEF tileVars
<1>2. \A h : FramesOf(h) \subseteq FramesOf(h)' BY DEF FramesOf
<1>3. TileTypes' BY <1>1 DEF TilesInv, TileTypes
<1>4. \A r \in Ask : Sound(asked[r])' BY <1>1, <1>2 DEF TilesInv, Sound
<1> QED BY <1>1, <1>2, <1>3, <1>4 DEF TilesInv

\* A request moves on; the tiles stay.
LEMMA RequestMoves ==
  ASSUME TilesInv, UNCHANGED <<vars, focus, hour, tiles, onTime>>, NEW r \in Ask, NEW q \in Request,
         asked' = [asked EXCEPT ![r] = q], Sound(q)
  PROVE  TilesInv'
<1>1. asked' \in [Ask -> Request] /\ \A x \in Ask : asked'[x] = IF x = r THEN q ELSE asked[x]
  BY DEF TilesInv, TileTypes
<1>2. UNCHANGED stored BY DEF vars, ingestVars, database
<1>3. \A h : FramesOf(h)' = FramesOf(h) BY <1>2 DEF FramesOf
<1>4. \A x \in Ask : Sound(asked[x])' BY <1>1, <1>3 DEF TilesInv, Sound
<1>5. TileTypes' BY <1>1 DEF TilesInv, TileTypes
<1> QED BY <1>3, <1>4, <1>5 DEF TilesInv

LEMMA AskStep ==
  ASSUME TilesInv, NEW r \in Ask, NEW h \in Hour, AskTile(r, h)
  PROVE  TilesInv'
<1> DEFINE q == [at |-> "asked", hour |-> h, closed |-> h < hour, png |-> {}]
<1>1. /\ focus = "tiles" /\ asked' = [asked EXCEPT ![r] = q]
      /\ UNCHANGED <<vars, focus, hour, tiles, onTime>>
  BY DEF AskTile
<1>2. hour \in Nat /\ h \in Nat BY <1>1, HourNat DEF TilesInv, TileTypes
<1>3. PICK c \in BOOLEAN : c <=> h < hour OBVIOUS
<1>4. q = [at |-> "asked", hour |-> h, closed |-> c, png |-> {}] BY <1>3
<1> HIDE DEF q
<1>5. q \in Request BY <1>2, <1>4 DEF Request
<1>6. Sound(q) BY <1>3, <1>4 DEF Sound
<1> QED BY <1>1, <1>5, <1>6, RequestMoves

LEMMA LookUpStep ==
  ASSUME TilesInv, NEW r \in Ask, LookUp(r)
  PROVE  TilesInv'
<1> DEFINE h == asked[r].hour
           missed == [asked[r] EXCEPT !.at = "missed"]
           found == [asked[r] EXCEPT !.at = "answered", !.png = tiles[h]]
<1>1. /\ asked[r].at = "asked" /\ asked[r].closed
      /\ UNCHANGED <<vars, focus, hour, tiles, onTime>>
      /\ asked' = [asked EXCEPT ![r] = IF tiles[h] = NoTile THEN missed ELSE found]
  BY DEF LookUp
<1>2. asked[r] \in Request /\ Sound(asked[r]) BY DEF TilesInv, TileTypes
<1>3. h \in Hour /\ h < hour BY <1>1, <1>2 DEF Sound
<1>4. CASE tiles[h] = NoTile
  <2>1. missed \in Request /\ Sound(missed) BY <1>1, <1>2 DEF Request, Sound
  <2> HIDE DEF missed, found
  <2> QED BY <1>1, <1>4, <2>1, RequestMoves
<1>5. CASE tiles[h] # NoTile
  <2> HIDE DEF h
  <2>1. /\ tiles[h] \in (SUBSET Ts) \cup {NoTile}
        /\ onTime[h] \subseteq tiles[h] /\ tiles[h] \subseteq FramesOf(h)
    BY <1>3, <1>5 DEF TilesInv, TileTypes
  <2>2. tiles[h] \in SUBSET Ts BY <1>5, <2>1
  <2> USE DEF h
  <2>3. found \in Request /\ Sound(found) BY <1>1, <1>2, <2>1, <2>2 DEF Request, Sound
  <2> HIDE DEF missed, found
  <2> QED BY <1>1, <1>5, <2>3, RequestMoves
<1> QED BY <1>4, <1>5

LEMMA RenderStep ==
  ASSUME TilesInv, NEW r \in Ask, RenderTile(r)
  PROVE  TilesInv'
<1> DEFINE q == [asked[r] EXCEPT !.at = IF asked[r].closed THEN "rendered" ELSE "answered",
                                 !.png = FramesOf(asked[r].hour)]
<1>1. /\ UNCHANGED <<vars, focus, hour, tiles, onTime>> /\ asked' = [asked EXCEPT ![r] = q]
  BY DEF RenderTile
<1>2. asked[r] \in Request /\ Sound(asked[r]) BY DEF TilesInv, TileTypes
<1>3. FramesOf(asked[r].hour) \in SUBSET Ts BY DEF FramesOf
<1>4. q \in Request BY <1>2, <1>3 DEF Request
<1>5. Sound(q)
  <2>1. q.closed = asked[r].closed /\ q.hour = asked[r].hour /\ q.png = FramesOf(asked[r].hour)
        /\ q.at = IF asked[r].closed THEN "rendered" ELSE "answered"
    BY <1>2 DEF Request
  <2>2. asked[r].closed => asked[r].hour \in Hour /\ asked[r].hour < hour BY <1>2 DEF Sound
  <2>3. asked[r].closed => onTime[asked[r].hour] \subseteq FramesOf(asked[r].hour)
    BY <2>2 DEF TilesInv
  <2> HIDE DEF q
  <2> QED BY <2>1, <2>2, <2>3 DEF Sound
<1> HIDE DEF q
<1> QED BY <1>1, <1>4, <1>5, RequestMoves

LEMMA PutStep ==
  ASSUME TilesInv, NEW r \in Ask, PutTile(r)
  PROVE  TilesInv'
<1> DEFINE h == asked[r].hour
           q == [asked[r] EXCEPT !.at = "answered"]
<1>1. /\ asked[r].at = "rendered" /\ asked' = [asked EXCEPT ![r] = q]
      /\ tiles' = [tiles EXCEPT ![h] = asked[r].png]
      /\ UNCHANGED <<vars, focus, hour, onTime>>
  BY DEF PutTile
<1>2. asked[r] \in Request /\ Sound(asked[r]) BY DEF TilesInv, TileTypes
<1>3. /\ h \in Hour /\ h < hour /\ asked[r].closed /\ asked[r].png \in SUBSET Ts
      /\ onTime[h] \subseteq asked[r].png /\ asked[r].png \subseteq FramesOf(h)
  BY <1>1, <1>2 DEF Sound, Request
<1>4. q \in Request /\ Sound(q) BY <1>2, <1>3 DEF Request, Sound
<1> HIDE DEF q, h
<1>5. asked' \in [Ask -> Request] /\ \A x \in Ask : asked'[x] = IF x = r THEN q ELSE asked[x]
  BY <1>1, <1>4 DEF TilesInv, TileTypes
<1>6. /\ tiles' \in [Hour -> (SUBSET Ts) \cup {NoTile}] /\ tiles'[h] = asked[r].png
      /\ \A g \in Hour \ {h} : tiles'[g] = tiles[g]
  BY <1>1, <1>3 DEF TilesInv, TileTypes
<1>7. UNCHANGED stored BY <1>1 DEF vars, ingestVars, database
<1>8. \A g : FramesOf(g)' = FramesOf(g) BY <1>7 DEF FramesOf
<1>9. \A x \in Ask : Sound(asked[x])' BY <1>1, <1>4, <1>5, <1>8 DEF TilesInv, Sound
<1>10. TileTypes' BY <1>1, <1>5, <1>6 DEF TilesInv, TileTypes
<1>11. ASSUME NEW g \in Hour, tiles'[g] # NoTile
       PROVE  g < hour /\ onTime[g] \subseteq tiles'[g] /\ tiles'[g] \subseteq FramesOf(g)
  <2>1. CASE g = h BY <1>3, <1>6, <2>1
  <2>2. CASE g # h BY <1>6, <1>11, <2>2 DEF TilesInv
  <2> QED BY <2>1, <2>2
<1> QED BY <1>1, <1>8, <1>9, <1>10, <1>11 DEF TilesInv

LEMMA TileFailsStep ==
  ASSUME TilesInv, NEW r \in Ask, TileFails(r)
  PROVE  TilesInv'
<1>1. asked' = [asked EXCEPT ![r] = Unasked] /\ UNCHANGED <<vars, focus, hour, tiles, onTime>>
  BY DEF TileFails
<1>2. Unasked \in Request /\ Sound(Unasked) BY DEF Unasked, Request, Sound
<1> QED BY <1>1, <1>2, RequestMoves

LEMMA HourEndsStep == ASSUME TilesInv, HourEnds PROVE TilesInv'
<1>1. /\ focus = "tiles" /\ hour' = hour + 1 /\ onTime' = [onTime EXCEPT ![hour] = FramesOf(hour)]
      /\ UNCHANGED <<vars, focus, tiles, asked>>
  BY DEF HourEnds
<1>2. PICK n \in Nat : hour = n BY <1>1 DEF TilesInv, TileTypes
<1>3. hour' \in Nat /\ \A g \in Hour : g < hour => g < hour' /\ g # hour BY <1>1, <1>2, HourNat
<1>4. UNCHANGED stored BY <1>1 DEF vars, ingestVars, database
<1>5. \A g : FramesOf(g)' = FramesOf(g) BY <1>4 DEF FramesOf
<1>6. /\ onTime' \in [Hour -> SUBSET Ts] /\ \A g \in Hour \ {hour} : onTime'[g] = onTime[g]
      /\ hour \in Hour => onTime'[hour] = FramesOf(hour)
  <2>1. FramesOf(hour) \in SUBSET Ts BY DEF FramesOf
  <2> QED BY <1>1, <2>1 DEF TilesInv, TileTypes
<1>7. TileTypes' BY <1>1, <1>3, <1>6 DEF TilesInv, TileTypes
<1>8. \A g \in Hour : onTime'[g] \subseteq FramesOf(g) BY <1>6 DEF TilesInv
<1>9. ASSUME NEW r \in Ask PROVE Sound(asked[r])'
  <2>1. Sound(asked[r]) BY DEF TilesInv
  <2>2. asked'[r] = asked[r] BY <1>1
  <2>3. asked[r].closed => asked[r].hour < hour' /\ asked[r].hour \in Hour \ {hour}
    BY <1>3, <2>1 DEF Sound
  <2> QED BY <1>5, <1>6, <2>1, <2>2, <2>3 DEF Sound
<1>10. \A g \in Hour : tiles[g] # NoTile =>
         g < hour' /\ onTime'[g] \subseteq tiles[g] /\ tiles[g] \subseteq FramesOf(g)
  BY <1>3, <1>6 DEF TilesInv
<1> QED BY <1>1, <1>5, <1>7, <1>8, <1>9, <1>10 DEF TilesInv

-----------------------------------------------------------------------------
(* The theorems.                                                             *)

Inv == IngestInv /\ ViewerInv /\ TilesInv

LEMMA InvInit == TilesInit => Inv
<1> SUFFICES ASSUME TilesInit PROVE Inv OBVIOUS
<1>1. Init /\ InitIngest BY DEF TilesInit, Init
<1> QED BY <1>1, IngestInit, ViewersInit, TilesInitial DEF Inv

LEMMA InvStep == Inv /\ [TilesNext]_allVars => Inv'
<1> SUFFICES ASSUME Inv, [TilesNext]_allVars PROVE Inv' OBVIOUS
<1>0. IngestInv /\ ViewerInv /\ TilesInv BY DEF Inv
<1>1. CASE Feeds
  <2>1. Next /\ UNCHANGED tileVars BY <1>1 DEF Feeds
  <2> QED BY <1>0, <2>1, FeedStep, TilesWhileFed DEF Inv
<1>2. ASSUME UNCHANGED vars PROVE IngestInv' /\ ViewerInv'
  <2>1. UNCHANGED ingestVars /\ UNCHANGED viewerVars BY <1>2 DEF vars
  <2>2. UNCHANGED <<channel, stored>> BY <2>1 DEF ingestVars, database
  <2>3. IngestInv'
    BY <1>0, <2>1 DEF ingestVars, inbox, worker, database, IngestInv, Typed, Dated, Kept, SeenNotForgotten
  <2>4. Feeding BY <2>2 DEF Feeding
  <2>5. channel' \in Seq(Notification) BY <2>3 DEF IngestInv, Typed
  <2> QED BY <1>0, <2>1, <2>3, <2>4, <2>5, ViewersWhileFed
<1>3. CASE HourEnds
  <2>1. UNCHANGED vars BY <1>3 DEF HourEnds
  <2> QED BY <1>0, <1>2, <1>3, <2>1, HourEndsStep DEF Inv
<1>4. ASSUME NEW r \in Ask,
             (\E h \in Hour : AskTile(r, h)) \/ LookUp(r) \/ RenderTile(r) \/ PutTile(r) \/ TileFails(r)
      PROVE  Inv'
  <2>1. UNCHANGED vars BY <1>4 DEF AskTile, LookUp, RenderTile, PutTile, TileFails
  <2>2. TilesInv' BY <1>0, <1>4, AskStep, LookUpStep, RenderStep, PutStep, TileFailsStep
  <2> QED BY <1>2, <2>1, <2>2 DEF Inv
<1>5. CASE UNCHANGED allVars
  <2>1. UNCHANGED vars /\ UNCHANGED tileVars BY <1>5 DEF allVars
  <2>2. UNCHANGED stored BY <2>1 DEF vars, ingestVars, database
  <2>3. TilesInv' BY <1>0, <2>1, <2>2, TilesWhileFed
  <2> QED BY <1>2, <2>1, <2>3 DEF Inv
<1> QED BY <1>1, <1>3, <1>4, <1>5 DEF TilesNext

THEOREM FeedInvariant == TilesSpec => []Inv
BY InvInit, InvStep, PTL DEF TilesSpec

\* Nothing that was acknowledged is lost without a failure, a restart or a full queue, for
\* any messages, batch sizes and interleavings of the paho thread with the consumer
\* (ingest/mqtt.py: _on_message, _enqueue_or_drop, the handlers and the flushes).
THEOREM AcknowledgedIsKept == TilesSpec => []NothingLost
<1>1. Inv => NothingLost
  <2>1. Kept => NothingLost
    <3> SUFFICES ASSUME Kept, faults = 0, restarts = 0, dropped = 0, NEW m \in delivered,
                        m.valid, m.kind \in Batched, m.device \in Registered
                 PROVE  m \in Waiting \/ <<m.device, m.ts>> \in stored[m.kind]
      BY DEF NothingLost
    <3>1. m \in Items(queue) \/ m \in Items(buf[m.kind]) \/ <<m.device, m.ts>> \in stored[m.kind]
      BY DEF Kept
    <3> QED BY <3>1 DEF Waiting, InBuffers, Items
  <2> QED BY <2>1 DEF Inv, IngestInv
<1> QED BY <1>1, FeedInvariant, PTL

\* As long as the consumer task lives, a device with a stored sample has its last_seen or
\* will get it, for any interleaving of batches, sweeps and caught failures of the UPDATE
\* (ingest/mqtt.py: _flush_last_seen).
THEOREM SeenIsRemembered == TilesSpec => []SeenNotForgotten
<1>1. Inv => SeenNotForgotten BY DEF Inv, IngestInv
<1> QED BY <1>1, FeedInvariant, PTL

\* A slow viewer has at most SPECT_QUEUE_SOFTCAP frames queued and at most twice as many to
\* wait for, counting the batch that is being sent to it, for any number of viewers and any
\* order of wake-ups, frames and drains (api/v1/live.py: the two callbacks and the loop).
THEOREM FramesStayBounded == TilesSpec => []FramesBounded
<1>1. Inv => FramesBounded
  <2> SUFFICES ASSUME Inv, NEW v \in Viewer
               PROVE  /\ FramesIn(notifyQ[v]) <= SoftCap
                      /\ FramesIn(notifyQ[v]) + FramesIn(pending[v]) <= 2 * SoftCap
    BY DEF FramesBounded
  <2>1. /\ notifyQ[v] \in Seq(Item) /\ pending[v] \in Seq(Item)
        /\ Cardinality(FrameIndices(notifyQ[v])) <= SoftCap
        /\ Cardinality(FrameIndices(pending[v])) <= SoftCap
    BY DEF Inv, ViewerInv, ViewerTypes, Attended
  <2>2. FramesIn(notifyQ[v]) <= SoftCap /\ FramesIn(pending[v]) <= SoftCap
    BY <2>1 DEF FramesIn, FrameIndices
  <2>3. FramesIn(notifyQ[v]) \in Nat /\ FramesIn(pending[v]) \in Nat
    BY <2>1, FramesCount DEF FramesIn, FrameIndices
  <2>4. SoftCap \in Nat BY LiveAssumption
  <2> QED BY <2>2, <2>3, <2>4
<1> QED BY <1>1, FeedInvariant, PTL

\* No viewer that has caught up misses a row without a wake-up on its way, unless one was
\* shed, for any batches, queue sizes and viewers (api/v1/live.py: the callbacks, the drain
\* and _push_new_rows).
THEOREM RowsStayAnnounced == TilesSpec => []NoRowUnannounced
<1>1. Inv => NoRowUnannounced BY DEF Inv, ViewerInv, Attended, NoRowUnannounced
<1> QED BY <1>1, FeedInvariant, PTL

\* A kept tile is of a closed hour and misses only what came after it, for any requests,
\* hours and failures (spectrogram_tiles.py: get_or_generate_tile).
THEOREM TilesStayComplete == TilesSpec => []TilesComplete
<1>1. Inv => TilesComplete BY DEF Inv, TilesInv, Sound, TilesComplete
<1> QED BY <1>1, FeedInvariant, PTL

\* Queues keep their limits; the cache and the tables hold registered devices only.
THEOREM LiveTypeCorrect == TilesSpec => []LiveTypeOK
<1>1. Inv => LiveTypeOK BY DEF Inv, IngestInv, Typed, ViewerInv, Attended, LiveTypeOK
<1> QED BY <1>1, FeedInvariant, PTL
=============================================================================
