---------------------------- MODULE IngestWorker ----------------------------
(***************************************************************************)
(* The ingest worker (backend/app/ingest/mqtt.py) as a process: the paho   *)
(* thread hands messages to a bounded queue, one consumer task batches     *)
(* them into Postgres and announces every commit with pg_notify.  What the *)
(* event messages do to an event row is EventCloud; here an event message  *)
(* is a database access between two batches.                               *)
(*                                                                         *)
(* Every database access may fail (MaxFaults), in two ways.  What          *)
(* SQLAlchemy raises inside a handler's try block is caught and costs a    *)
(* batch.  A refused connection is an OSError, which no handler catches,   *)
(* and some accesses are in no try block: such a failure ends the consumer *)
(* task, and the process lives on without it.                              *)
(***************************************************************************)
EXTENDS Integers, Sequences, FiniteSets

CONSTANTS
  Device, Ts,    \* device ids and the time stamps devices put on a sample
  Published,     \* the messages considered: kind, device, ts, valid
  Registered,    \* devices with a row in Postgres
  QueueMax,      \* INGEST_QUEUE_MAX
  BatchMax,      \* TELEMETRY_, SPECT_ and HEALTH_BATCH_MAX
  MaxMessages,   \* bound: messages published
  MaxFaults      \* bound: database accesses that fail, and restarts of the worker

Batched == {"tlm", "spect", "health"}
Kind == Batched \cup {"event", "lwt"}
Message == [kind : Kind, device : Device, ts : Ts, valid : BOOLEAN]
\* A table of samples: device and ts are its key, the device must be registered.
Table == SUBSET (Registered \X Ts)
Notification == [type : {"telemetry", "spect"}, devices : SUBSET Device, ts : Nat]

IngestAssumption ==
  /\ Registered \subseteq Device
  /\ Ts \subseteq Nat \ {0}
  /\ Published \subseteq Message
  /\ QueueMax \in Nat \ {0} /\ BatchMax \in Nat \ {0}
  /\ MaxMessages \in Nat /\ MaxFaults \in Nat
ASSUME IngestAssumption

VARIABLES
  delivered,  \* the messages the broker handed over, acknowledged on return
  received,   \* how many there were
  queue,      \* _queue
  buf,        \* tlm_buf, spect_buf and health_buf
  flushes,    \* the flushes the consumer still has to await in this turn
  consumer,   \* running | dead (the task ended with an exception) | stopped
  known,      \* _known_devices
  seenDirty,  \* the devices in _last_seen_dirty
  dropped,    \* _dropped_messages
  stored,     \* kind -> rows <<device, ts>> of its table
  lastSeen,   \* the devices whose last_seen is not NULL
  channel,    \* the notifications, in commit order
  faults, restarts

worker   == <<queue, buf, flushes, consumer, known, seenDirty>>
database == <<stored, lastSeen, channel>>
inbox    == <<delivered, received, dropped>>
ingestVars == <<inbox, worker, database, faults, restarts>>

InitIngest ==
  /\ delivered = {} /\ received = 0 /\ dropped = 0 /\ queue = <<>> /\ buf = [k \in Batched |-> <<>>]
  /\ flushes = <<>> /\ consumer = "running" /\ known \in {Registered, {}}
  /\ seenDirty = {}
  /\ stored = [k \in Batched |-> {}] /\ lastSeen = {} /\ channel = <<>>
  /\ faults = 0 /\ restarts = 0

-----------------------------------------------------------------------------
(* _on_message and _enqueue_or_drop: what is malformed, or names another   *)
(* device than its topic, never reaches the queue.                         *)

Receive ==
  /\ consumer # "stopped" /\ received < MaxMessages
  /\ received' = received + 1
  /\ \E m \in Published :
       /\ delivered' = delivered \cup {m}
       /\ IF Len(queue) < QueueMax
          THEN queue' = Append(queue, m) /\ UNCHANGED dropped
          ELSE dropped' = dropped + 1 /\ UNCHANGED queue
  /\ UNCHANGED <<buf, flushes, consumer, known, seenDirty, database, faults, restarts>>

-----------------------------------------------------------------------------
(* _consume                                                                *)

Idle == consumer = "running" /\ flushes = <<>>
Taking(kind) == Idle /\ queue # <<>> /\ Head(queue).kind = kind /\ queue' = Tail(queue)

Succeeds == UNCHANGED <<faults, restarts>>
Fails == faults + restarts < MaxFaults /\ faults' = faults + 1 /\ UNCHANGED restarts

\* An exception leaves _consume, and its local buffers go with it.
Dies ==
  /\ Fails
  /\ consumer' = "dead" /\ buf' = [k \in Batched |-> <<>>] /\ flushes' = <<>>

\* Mutant: the message that fills a batch is not part of it.
BufferOffByOne(kind, m) ==
  /\ buf' = IF Len(buf[kind]) + 1 >= BatchMax THEN buf ELSE [buf EXCEPT ![kind] = Append(@, m)]
  /\ flushes' = IF Len(buf[kind]) + 1 >= BatchMax THEN <<kind>> ELSE <<>>

\* A full batch is flushed at once, a shorter one by the next sweep.
Buffer(kind, m) ==
  /\ buf' = [buf EXCEPT ![kind] = Append(@, m)]
  /\ flushes' = IF Len(buf[kind]) + 1 >= BatchMax THEN <<kind>> ELSE <<>>

TakeSample ==
  /\ \E kind \in {"tlm", "health"} : Taking(kind) /\ Buffer(kind, Head(queue))
  /\ UNCHANGED <<inbox, consumer, known, seenDirty, database, faults, restarts>>

\* _handle_spect: the frame goes out at once, and is kept even if that failed.
TakeSpect ==
  LET m == Head(queue) IN
  /\ Taking("spect")
  /\ IF ~m.valid
     THEN UNCHANGED <<buf, flushes, consumer, channel, faults, restarts>>
     ELSE \/ Dies /\ UNCHANGED channel
          \/ /\ Buffer("spect", m) /\ UNCHANGED consumer
             /\ \/ /\ Succeeds
                   /\ channel' = Append(channel,
                                       [type |-> "spect", devices |-> {m.device}, ts |-> m.ts])
                \/ Fails /\ UNCHANGED channel
  /\ UNCHANGED <<inbox, known, seenDirty, stored, lastSeen>>

\* An announce or done: the first read of the database is not guarded.
TakeEvent ==
  LET m == Head(queue) IN
  /\ Taking("event")
  /\ IF ~m.valid
     THEN UNCHANGED <<buf, flushes, consumer, known, seenDirty, faults, restarts>>
     ELSE \/ Dies /\ UNCHANGED <<known, seenDirty>>
          \/ /\ UNCHANGED <<buf, flushes, consumer>>
             /\ known' = known \cup ({m.device} \cap Registered)
             /\ \/ Fails /\ UNCHANGED seenDirty               \* the commit
                \/ /\ Succeeds
                   /\ seenDirty' = seenDirty \cup ({m.device} \cap known')
  /\ UNCHANGED <<inbox, database>>

\* A last will is validated, counted and logged.
TakeLwt ==
  /\ Taking("lwt")
  /\ UNCHANGED <<inbox, buf, flushes, consumer, known, seenDirty, database, faults, restarts>>

\* TELEMETRY_FLUSH_SECONDS are over.
Sweep ==
  /\ Idle
  /\ seenDirty # {} \/ \E kind \in Batched : buf[kind] # <<>>
  /\ flushes' = SelectSeq(<<"tlm", "spect", "health">>, LAMBDA kind : buf[kind] # <<>>)
                  \o <<"seen">>
  /\ UNCHANGED <<inbox, queue, buf, consumer, known, seenDirty, database, faults, restarts>>

Flushing(f) ==
  consumer = "running" /\ flushes # <<>> /\ Head(flushes) = f

\* _ensure_device_known, for the senders of a batch.
Recognised(senders) == known \cup (senders \cap Registered)

\* One insert for what is valid and known; seen: the senders give a sign of life,
\* notice: the commit is announced.  Before the try block, fromtimestamp may refuse a
\* time stamp (the senders after it have given no sign) and the lookup of a sender fail.
Flush(kind, seen, notice) ==
  LET batch   == {m \in {buf[kind][i] : i \in DOMAIN buf[kind]} : m.valid}
      senders == {m.device : m \in batch}
      rows    == {<<m.device, m.ts>> : m \in {n \in batch : n.device \in Recognised(senders)}}
      Touch(ds) == seenDirty' = IF seen THEN seenDirty \cup ds ELSE seenDirty
  IN
  /\ Flushing(kind)
  /\ \/ /\ batch # {} /\ Dies /\ \E ds \in SUBSET senders : Touch(ds)
        /\ UNCHANGED <<known, stored, channel>>
     \/ /\ flushes' = Tail(flushes) /\ buf' = [buf EXCEPT ![kind] = <<>>]
        /\ Touch(senders)
        /\ UNCHANGED consumer /\ known' = Recognised(senders)
        /\ \/ /\ Succeeds
              /\ stored' = [stored EXCEPT ![kind] = @ \cup rows]
              /\ channel' = IF notice /\ rows # {}
                            THEN Append(channel, [type |-> "telemetry", devices |-> senders, ts |-> 0])
                            ELSE channel
           \/ rows # {} /\ Fails /\ UNCHANGED <<stored, channel>>
  /\ UNCHANGED <<inbox, queue, lastSeen>>

FlushTelemetry == Flush("tlm", TRUE, TRUE)
FlushSpect     == Flush("spect", FALSE, FALSE)
FlushHealth    == Flush("health", TRUE, FALSE)

\* Mutant: a failed UPDATE loses what was swapped out.
FlushLastSeenOnce ==
  /\ Flushing("seen")
  /\ seenDirty' = {}
  /\ \/ /\ Succeeds /\ lastSeen' = lastSeen \cup (seenDirty \cap Registered)
        /\ flushes' = Tail(flushes) /\ UNCHANGED <<buf, consumer>>
     \/ /\ seenDirty # {} /\ Fails
        /\ flushes' = Tail(flushes) /\ UNCHANGED <<buf, consumer, lastSeen>>
     \/ seenDirty # {} /\ Dies /\ UNCHANGED lastSeen
  /\ UNCHANGED <<inbox, queue, known, stored, channel>>

\* The dictionary is swapped out before the first statement connects.
FlushLastSeen ==
  /\ Flushing("seen")
  /\ \/ /\ Succeeds
        /\ lastSeen' = lastSeen \cup (seenDirty \cap Registered)
        /\ seenDirty' = {} /\ flushes' = Tail(flushes) /\ UNCHANGED <<buf, consumer>>
     \/ /\ seenDirty # {} /\ Fails                        \* caught, and merged back
        /\ flushes' = Tail(flushes) /\ UNCHANGED <<buf, consumer, lastSeen, seenDirty>>
     \/ seenDirty # {} /\ Dies /\ seenDirty' = {} /\ UNCHANGED lastSeen
  /\ UNCHANGED <<inbox, queue, known, stored, channel>>

Consume ==
  \/ TakeSample \/ TakeSpect \/ TakeEvent \/ TakeLwt \/ Sweep
  \/ FlushTelemetry \/ FlushSpect \/ FlushHealth
  \/ FlushLastSeen

-----------------------------------------------------------------------------
(* SIGTERM cancels the consumer where it stands; the next process primes   *)
(* its cache from Postgres, or starts with an empty one, or exits when     *)
(* the connection is refused.                                              *)
Shutdown ==
  /\ consumer # "stopped" /\ faults + restarts < MaxFaults
  /\ consumer' = "stopped" /\ restarts' = restarts + 1
  /\ queue' = <<>> /\ buf' = [k \in Batched |-> <<>>] /\ flushes' = <<>>
  /\ known' = {} /\ seenDirty' = {}
  /\ UNCHANGED <<inbox, database, faults>>

Run ==
  /\ consumer = "stopped"
  /\ \/ Succeeds /\ known' = Registered /\ consumer' = "running"
     \/ Fails /\ known' = {} /\ consumer' \in {"running", "stopped"}
  /\ UNCHANGED <<inbox, queue, buf, flushes, seenDirty, database>>

IngestNext ==
  Receive \/ Consume \/ Shutdown \/ Run

-----------------------------------------------------------------------------
InBuffers == UNION {{buf[k][i] : i \in DOMAIN buf[k]} : k \in Batched}
Waiting == {queue[i] : i \in DOMAIN queue} \cup InBuffers

\* Acknowledged means kept.  paho acknowledges a message when _on_message
\* returns, long before the batch it joins is committed: as long as nothing
\* failed, restarted or overflowed, every valid sample of a registered device
\* is waiting in the queue or a batch, or is in its table.
NothingLost ==
  faults = 0 /\ restarts = 0 /\ dropped = 0 =>
    \A m \in delivered :
      m.valid /\ m.kind \in Batched /\ m.device \in Registered
        => m \in Waiting \/ <<m.device, m.ts>> \in stored[m.kind]

\* A device with a stored sample has its last_seen, or it is still to be
\* written, as long as the consumer lives: an UPDATE that fails merges the
\* swapped-out dictionary back.  (A refused connection does not, but the
\* consumer ends with it.)
SeenNotForgotten ==
  restarts = 0 /\ consumer # "dead" =>
    \A kind \in {"tlm", "health"}, d \in Device :
      (\E t \in Ts : <<d, t>> \in stored[kind]) => d \in lastSeen \cup seenDirty
=============================================================================
