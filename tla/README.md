# Urban Acoustics: a TLA+ verification project

A Raspberry Pi listens to a street, cuts an audio clip out of the stream when
the level crosses a threshold, spools it to disk, and delivers it to a cloud
service over two unreliable channels: MQTT for messages, HTTP for the clip.  The
cloud keeps rows in Postgres and bytes in an object store, pairs two microphones
into candidates for enforcement, lets people review them, and trains a
classifier on what they said.

The project models

* the delivery of a clip, from the write of the FLAC on the Pi to the deletion of
  the event by a user, with the crashes, timeouts, duplicates and races it has to
  live with (`EventPipeline` and its parts);
* the other direction, how an operator's configuration reaches the Pi, and what
  keeps the Pi's process going (`RuntimeConfig`, `PiProcess`);
* the Pi's own loop: detector, ring buffer, LED, publishers (`PiMonitor`);
* the ingest worker with the two readers it wakes, the live feed and the
  spectrogram tiles (`IngestWorker`, `LiveFeed`, `SpectrogramTiles`);
* the two-microphone detector, the review of what it finds and the training set
  (`AdaptivePeaks`, `TwoMicDetection`, `ReviewDesk`);
* accounts, tokens and the WebSocket that trusts them (`Sessions`);
* the reset of the recorded history over several hosts (`HistoryReset`).

Paths are relative to the repository; `pi/` stands for
`raspberry-pi-zero-2w/urban_acoustics/` and `app/` for `backend/app/`.

## 1. Inventory

### On the Pi (one process, one asyncio loop, plus paho's thread)

| Component | State | Operations | What is hard | What makes it correct | Module |
|---|---|---|---|---|---|
| Supervisor (`pi/supervisor.py`) | config, detector, pending candidates, LED mode, last capture time | capture loop, `_materialise_event`, drain loop, uploader loop, watchdog, commands | tasks suspend between read and write; shutdown | every recorded event enters the queue store; the process is restarted when capture stalls | `EventDevice`, `PiMonitor`, `PiProcess` |
| Uploader (`pi/uploader.py`) | none of its own: the row's status | `announce`, `drain_once`, `_do_intent_and_put`, `_publish_done` | a reboot between any two steps; retry of what was already done | no clip lost, none sent without its bytes, none stuck | `EventDevice` |
| Queue store (`pi/queue_store.py`) | SQLite `mqtt_queue`, `event_uploads` | enqueue, pop, ack, fail, add/advance/remove upload, size cap, `clear_history` | crash between two transactions; pruning | at-least-once hand-over; bounded size | `EventDevice`, `PiMonitor` |
| Transports (`pi/transport.py`) | `connected`, paho's own queue | publish and wait for PUBACK, connect/disconnect callbacks, POST, PUT | PUBACK and HTTP timeouts leave a request in flight | a timeout is never taken for success | `EventPipeline` |
| Housekeeping (`systemd/urban-acoustics-cleanup.*`) | the spool directory | deletes FLACs older than seven days | ignores the queue | - | `EventDevice` |
| Detector, ring buffer (`pi/detector.py`, `pi/ringbuffer.py`) | open event, cooldown; recent blocks | `feed`, `append`, `extract` | boundaries of durations; eviction while a clip waits for its post-roll | clips keep the cooldown and cover their window | `PiMonitor` |
| Breach LED (`pi/gpio.py`, supervisor) | pin, remembered state, latch | `_set_led_state`, `_apply_led_command`, `_update_breach_led` | compare before an await, store after it | the latched mode wins | `PiMonitor` |
| Telemetry, spectrogram, health (`pi/telemetry.py`, `pi/health.py`) | frames waiting | publish or queue, publish or forget | hand-over while the link breaks; pacing | no sample lost but to the size cap, no frame out of order | `PiMonitor` |
| Runtime config (`pi/config.py`) | overlay file | `_apply_config_command` | file, detector and config must agree | overlay = last command | `RuntimeConfig` |
| Capture (`pi/capture.py`), service units | subprocess | respawn, exit | restart backoff, exit code | audio comes back | `PiProcess` |
| DSP, encoder, classifier | arrays | - | - | numerical | - |

### In the cloud (API processes, one ingest worker, one detection worker)

| Component | State | Operations | What is hard | What makes it correct | Module |
|---|---|---|---|---|---|
| Contracts (`app/contracts.py`) | - | statuses, `EVENT_STATE_TRANSITIONS` | both sides must agree | the table is followed | `EventContracts`, `EventLifecycle` |
| Event API (`app/api/v1/events.py`) | `events` rows | intent, view (verify), playback, delete | no row locks: the write is blind to what happened since the read | status moves along the table, a row keeps its owner and metadata, what is shown was verified | `EventCloud` |
| Ingest worker (`app/ingest/mqtt.py`) | bounded queue, batches, device cache, `last_seen` | announce, done, telemetry, spectrogram, health, LWT | acknowledged before committed; races with the API; an exception nobody catches ends the consumer | idempotent under redelivery; nothing lost without a failure | `EventCloud`, `IngestWorker` |
| Storage (`app/storage.py`) | objects | presign, HEAD, GET, DELETE | PUT after give-up or deletion | - | `EventCloud` |
| Command publisher, runtime config (`app/ingest/mqtt_publish.py`, `app/api/v1/device_runtime_config.py`) | `devices.runtime_config` | read-modify-write, publish, commit | lost update; publish before commit | the column only claims what the broker took | `RuntimeConfig` |
| Live feed (`app/api/v1/live.py`) | a queue and a high-water mark per socket | LISTEN, soft cap, catch-up | dropped wake-ups, late rows | bounded lag; every row above the mark is pushed | `LiveFeed` |
| Spectrogram tiles (`app/spectrogram_tiles.py`) | objects | look up, render, keep | the hour ends, or frames arrive, between two steps | a kept tile is complete | `SpectrogramTiles` |
| Correlated detection (`app/detection/`) | watermark, candidates | peaks, pairing, snapshot, audio link | polling boundary, late or lost telemetry, frames and clips; link and retire are two statements | each lone event found once, clips linked | `AdaptivePeaks`, `TwoMicDetection` |
| Review, labels, annotations (`app/api/v1/correlated_events.py`, `labels.py`, `annotations.py`) | verdicts, labels, ranges | PATCH, add, delete | stale reads, deletion meanwhile | a label never contradicts the row | `ReviewDesk` |
| Training extraction (`app/training/extract.py`) | manifest, dataset | latest label, cap, bands | it reads by one statement per table and one per row; verdicts and frames change in between | trained on what was said last | `ReviewDesk` |
| Auth and users (`app/auth/`, `app/api/v1/auth.py`, `users.py`, `app/main.py`) | accounts; cookies in browsers | signup, login, renewal, edits, bootstrap | stale role in a token; racing admins | trust is bounded, an admin remains | `Sessions` |
| History reset (`scripts/reset_history.py`, `backend/scripts/reset_history.py`, `pi/reset_history.py`) | which services were stopped | stop, clear, verify, restore | a failure at any step over several hosts | everything stopped is started again or named | `HistoryReset` |

What is left out, and why, is in section 6; `PROJECT.json` lists every component
with its status.

### How they interact

```
 capture ─► detector, ring ─ FLAC + row ─► uploader ──announce──► broker ──► ingest worker ──► events row
    │                          │  └──POST intent──────────────► API ───────────►   ▲ ▲
    │                          ├──PUT bytes───────────────────► object store       │ │
    │                          └──event/done────► broker ──► ingest worker ────────┘ │
    │      drain loop ─ queued announce/done/telemetry ─► broker    viewer: HEAD ────┘
    └─ telemetry, frames ─► broker ─► ingest worker ─ NOTIFY ─► live feed ─► browser
                                            └─► tables ─► tiles; detection worker ─► candidates ─► reviewer
 operator ─ PUT config ─► API ─ publish (retained) ─► broker ─► Pi overlay        └─► training set
```

The uploader talks to the broker synchronously (`publish` blocks the loop for the
PUBACK) and to the API asynchronously.  In the cloud the API and the ingest worker
share nothing but the database.

## 2. Modules

| Module | Models | Built on |
|---|---|---|
| `EventContracts` | ids, message kinds, statuses, `EVENT_STATE_TRANSITIONS`, `is_valid_event_transition` | - |
| `EventLifecycle` | the abstract specification: a row is created, moves along the table, is removed | `EventContracts` |
| `EventDevice` | supervisor (clip part), uploader, queue store, housekeeping | `EventContracts` |
| `EventCloud` | event API, ingest worker (event part), object store | `EventContracts` |
| `EventPipeline` | the network between the two: every step is a step of the device, of the cloud, of both, or of the network | `EventDevice`, `EventCloud`, `EventLifecycle` |
| `PiProcess` | capture, watchdog, exit code and systemd unit of the Pi | - |
| `RuntimeConfig` | runtime-config endpoint, command publisher, broker's retained command, the Pi's overlay | `PiProcess` |
| `PiMonitor` | the handling of a block on the Pi: ring, detector, LED, publishers, drain loop | - |
| `IngestWorker` | the ingest process: queue, batches, device cache, `last_seen` | - |
| `LiveFeed` | the live WebSocket | `IngestWorker` |
| `SpectrogramTiles` | the tiles of closed and running hours | `LiveFeed` |
| `AdaptivePeaks` | `detection/peaks.py` as operators | - |
| `TwoMicDetection` | the detection worker, linking of clips, settings | `AdaptivePeaks` |
| `ReviewDesk` | candidates' review, labels, annotations, training set | `TwoMicDetection` |
| `Sessions` | accounts, tokens, browsers, WebSockets, bootstrap | - |
| `HistoryReset` | the coordinator of a reset and the system around it | - |
| `MC...` | values, scenarios and symmetry for TLC | the module named |
| `...Proofs` | theorems about the module named (`EventPartsProofs` about `EventDevice` and `EventCloud`, `SpectrogramTilesProofs` also about `IngestWorker` and `LiveFeed`, `ReviewDeskProofs` also about `TwoMicDetection`) | that module, `TLAPS`; `EventPipelineProofs` also `EventPartsProofs` |

Operators whose comment starts with "Mutant:" are plausible bugs.  No action uses
them; each stands for the definition below it and shows that a property would
notice.

### EventDevice

`spool` is the audio directory, `upload[e]` the status of the row in
`event_uploads`, `backlog[m]` the number of rows of `mqtt_queue` that hold message
`m`.  All tasks run on one thread and the store's lock is never held across a
suspension, so a task is interrupted by other tasks only while it waits for HTTP
(`uploader`).  Between suspensions only a crash, or a write that raises, can separate two
writes; `thread` names the next write of the running section, and each durable write is
an action:

| Code | Actions |
|---|---|
| `_materialise_event` | `Spool`, `AddRow`, then `announce`: `AnnouncePublished` or `AnnounceUnsent`, `ParkAnnounce` |
| `drain_once` | `SendIntent` (pending) or `ResumeUploaded` (uploaded) |
| `_do_intent_and_put` | `IntentGranted` (also the missing file), `IntentRefused` (409), `ExchangeFailed` (any other answer, timeout), `PutSucceeded`, `MarkUploaded` |
| `_publish_done` | `Reload`, `DonePublished` or `DoneUnsent`, `ParkDone`, `MarkDone` |
| tail of `drain_once`, of the 409 and of the missing file | `MarkDone`, `RemoveRow`, `Unlink` |
| `_drain_mqtt_loop` | `DrainPublished`, `DrainAck` |
| `_enforce_cap` | `Prunings`, part of every insert |
| `except Exception` of `drain_once` and `_flush_pending_events` | `StepRaises` |
| paho callbacks, systemd | `OnConnect`, `OnDisconnect`, `Crash`, `Housekeep` |

`DeviceNext` leaves the answers of the network open: whatever is shown of
`EventDevice` alone holds against any network and any cloud.  Backoff only decides
*when* a row is due, so a row that is not done may be taken at any time.  The
first eight due rows among which `_publish_done` looks for its own are the
constant `ReloadLimit`.  `fate` and `cleaned` are history: how far a clip got, and
why the device let it go.  `interruptions` counts crashes and steps that raised.  An
exception of `ack_mqtt` or `fail_mqtt`, which nothing catches, would end the drain loop for
the rest of the process; it is left out.

### EventCloud

`row[e]` is the row of the `events` table (status, owner, metadata, storage key or
`NoKey`), `object[k]` what the store has under a key.  A key is a device and an event, as
`event_key` computes it; the day in it is the event's.  A done carries a key, any one in
`CloudNext`, and `UpdateDone` stores it unchecked.  A handler
that reads and then writes is two actions, because nothing locks the row between
them: Postgres runs at READ COMMITTED and SQLAlchemy writes only the columns the
handler changed, to the row as it is by then.  An INSERT of an id that exists and
an UPDATE of a row that vanished fail (`IntentStale`, the ELSE branches of
`InsertAnnounced` and `UpdateDone`).  `Intent`, `Viewer` and `Deleter` are the
requests served at once; the ingest worker is one consumer (`ingest`) behind a
bounded queue (`inbox`, at most `InboxMax`).  `CloudNext` lets any device claim
any event with any metadata and any key, and lets the store hold an object of the wrong
size.  `purged` and `rekeyed` are history: keys whose object a deletion has removed, and
events whose row lost its key (deleted and created anew) or got another one.

### EventPipeline

Adds what is between them: `call`, the uploader's HTTP exchange; `latePut`, PUTs
whose client gave up or died and which may still land; `unacked`, paho's copies of
messages whose PUBACK did not come in time; `wire`, messages the broker holds; and
`faults`, a budget of failures so that runs are finite (`MaxFaults`, over the kinds
in `FaultKinds`).  A timed-out intent request goes on in the API and nobody reads
its answer; a timed-out PUT may land at any later time.  The broker may deliver a
message again (QoS 1) and in any order.

### PiProcess

`capture` is arecord as the capture loop sees it, `stale` what the watchdog would
find, `unit` the systemd unit.  `Respawn` is the loop of `AudioCapture.blocks` with
its backoff, `Watchdog` sets the stop event, `ExitCleanly` is the way through
`run()` that returns 0, and `Die` everything that ends the process otherwise.
`SystemdRestart` is `Restart=on-failure` with `StartLimitBurst`; `starts` counts
without the window of 300 s, so that the model gives up no later than systemd.

### RuntimeConfig

A configuration is a partial function from `MUTABLE_FIELDS` to values.
`put_runtime_config` is split where other requests may come between: `PutRead`
(the row, the check of the publisher, the new overlay), `Flush` (the UPDATE, which
takes the row's `lock`; SQLAlchemy emits none for an unchanged value), `Publish` or
`PublishOffline` (paho queues the message in both cases), then `Take` at the broker
or `PubackTimeout`, and `Commit` or `DbError`.  `outbox` is paho's queue in the API
process, in order; a message whose request gave up stays in it (`Disown`).
`ApiCrash` and `Startup` lose that queue and replay the column.  `Accept` is the
broker: it retains the command and forwards it.  The Pi has a clean session, so
`PiDisconnect` and the end of its process lose what is under way, and `PiConnect`
brings the retained command.  `Apply` is the whole of `_apply_config_command`,
which does not suspend: file, detector and configuration change together, so
`overlay` stands for all three.  `taken` and `missed` are history.

### PiMonitor

Time is counted in blocks.  `step` is the await at which `_handle_block` stands, and
the other tasks run meanwhile; what commutes with the handling of a block is taken
between two blocks.

| Code | Actions |
|---|---|
| `_handle_block`: ring, telemetry, frame | `NextBlock`, `BlockAfterGap` (arecord lost audio), `BlockFails` (an exception) |
| `_update_breach_led`, `_apply_led_command` | `UpdateBreachLed`, `LedCommand` |
| `_set_led_state` with the write in a thread | `SetLed`, then `WriteGpio`, `LedWritten` |
| `EventDetector.feed`, `_flush_pending_events` | `Feed`, with `Opened`, `Closes`, `Candidate`, `Due` |
| `_drain_mqtt_loop` on telemetry and health | `Drain`, `Ack` |
| `enqueue_mqtt` with `_enforce_cap` | `Enqueue`, part of every insert, with `Prunings`; `EventStored`, the cap enforced for an event message or an upload |
| `SpectrogramPublisher` | `EmitFrame` (sheds the oldest), `TakeFrame`, `PublishFrame` |
| `_health_loop`, config command, connection | `HealthReport`, `SetThreshold`, `LinkChanges` |

`ring` holds times, not samples: a clip is whole when no time of its window was
`evicted` before it was cut.  `pruned`
is what the cap has deleted, `PruneBatch` rows at a time, the least kind and the oldest
first.  `events`, `raced`, `handed`, `emitted` and `pruned` are history.

### IngestWorker, LiveFeed, SpectrogramTiles

`IngestWorker` is the process around what `EventCloud` does to an event row: `Receive`
is `_on_message`, which paho acknowledges on return; the `Take...` actions are one turn
of `_consume`; `flushes` are the flushes that turn still awaits, so that a message can
be queued between any two; each flush commits, is caught, or ends the consumer task
(`Dies`) while the process lives on: the look-up of a device and the conversion of a time
stamp (`fromtimestamp`) are outside the handlers' own `try`, and `except SQLAlchemyError`
does not catch the `OSError` of a refused connection, wherever it is met.  (In `EventCloud`
`IngestCrash` stands for that.)  `Shutdown` and `Run` are a restart.  A table of samples is the set
of its keys.

`LiveFeed` adds, for every socket, the notifications already called back (`heard`), the
queue of at most `NotifyMax` (`notifyQ`), what the handler drained (`pending`) and the
high-water mark.  `Shortened` is the soft cap, which throws the oldest entries away,
wake-ups included; `shed` remembers that.

`SpectrogramTiles` adds requests for tiles, one action between two awaits: whether the
hour is closed is decided in `AskTile`, then `LookUp`, `RenderTile`, `PutTile`, and
`HourEnds` may come between any two.  `onTime` is history: what was stored when the
hour ended.

### AdaptivePeaks, TwoMicDetection, ReviewDesk

`AdaptivePeaks` is `detection/peaks.py` as operators: the trailing median (doubled, to
stay an integer), crossings, clusters, the strongest of a cluster, the cool-down as a
recursive function, the nearest inside peak.

`TwoMicDetection` is the worker.  A cycle is one action per statement that others may
come between: `BeginCycle` reads the clock and the settings, `LinkCandidates` picks clips
(`_LINK_SQL`; the rows it wrote are locked, `LockedRows`, and not visible to others before
the commit), `ExpireCandidates` is `_EXPIRE_SQL` and the commit; then `Detect` scans from
the watermark to the ceiling with the settings it read, inserts a candidate per peak and
copies the frames that are committed; `Pause`, `Skip` and `CycleFails` are the other ends
of a cycle.  Every frame has its own delay until the ingest worker commits it
(`world.delay`), a lost one a delay longer than the recording.
Operators change the settings, samples arrive late, clips are announced, uploaded and
deleted in any order with it.  `scanned` remembers each second with the settings it was
scanned with: a pause under settings with a longer holdback moves the watermark back, and
what follows is scanned again, maybe with other thresholds.  `LoneEventsFound` therefore
speaks of the settings of a scan, and lets only a scan with other ones give a second
candidate near an event; `ReadInTime` names the samples that the event, and the peaks
whose cool-down it could fall into, depend on.

`ReviewDesk` splits a PATCH of a candidate into the read with its checks
(`ReadCandidate`) and the commit, which writes the columns that differ from the row
that was read and is subject to the CHECK of the table (`CommitPatch`).  Labels cascade
with their event (`DeleteEvent`).  `extract.py` is one action per statement:
`ReadEvents`, `ReadAnnotations`, `ReadCandidates` with the cap, `FetchBands` for each row
that is left, and `WriteCache`; reviews, insertions, retention and deletions come between.
`touched` is history: the candidates whose verdict changed since the extraction began.

### Sessions

A request is sent with the cookie the browser had then, checked (`Authenticate`), reads
the row it edits (`Load`), commits (`CommitEdit`), and its reply is received or lost.
The reply carries a renewed token from half the life on.  A WebSocket keeps the role
of the token it was opened with.  `_bootstrap_admin` is a check and an insert in every
process that starts.  `heldUntil`, `polled`, `lapsed`, `left` and `excused` are history:
`polled` dates the last answer to a poll that left the browser with its cookie,
`lapsed` holds the accounts that were inactive at some time.

### HistoryReset

The coordinator has a set of remote commands left, `todo`: those that stop what was found
running, those that clear and report, and, from `finally`, those that start again what was
stopped.  `Stage` and `Turn` give a command its place in the loops of `_execute`, and only
the first of those left is `Due`.  One action per kind of command; `CommandFails` and `StopReplyLost` (the unit is
down but the reply was lost) may hit any of them.  Around it the system goes on
(`Surroundings`): Pis record and publish, the ingest worker and the detector write, units
come back from their back-off, a host name moves to another device (`strays`: the devices
that are hit by mistake then).

### Abstractions

* Loudness, duration, nonces, presigned-URL expiry and the preliminary
  classification do not influence the protocol's control and are left out; the
  pair (sha256, size) is one value, `Meta`.
* Messages the ingest worker drops on validation, and unknown devices, are not
  modelled: the messages of the model are well-formed and the device registered.
* `commit` and `refresh` of a handler are one step, and a handler's response is
  its last step.
* Values of a configuration are valid (both sides check the range), and a device
  is not deleted while it is edited.
* A command that paho handed to the event loop when the connection was lost is
  taken as applied before the loss or as lost.
* SQLite runs with `synchronous=NORMAL`; a transaction that a power loss rolls
  back is not modelled: a crash keeps what was committed.
* A clip whose file is written and whose row is not yet inserted when the process
  dies is never uploaded (`fate` stays `"spooled"`): the code has no scan of the
  spool.  The properties speak of clips from the row on.
* `EventDevice` has the clip's rows of `mqtt_queue`, `PiMonitor` the telemetry and health
  rows; the cap that prunes them is in both.  The kinds are pruned from the least
  priority up, so each module prunes its own rows in the order in which the code does.
* `PiMonitor` counts blocks, and so leaves out a wall clock that steps backwards.
* Levels, peaks and frames are small integers; what a frame or a block contains is not
  modelled.
* Passwords given to `Sessions` are the right ones, and a second is its unit of time.

## 3. Runs

| Run | Module | Instance | Properties |
|---|---|---|---|
| `device_safety` | `EventDevice` | 2 clips, 2 interruptions (crashes or exceptions), a queue at its cap | an open clip keeps its row and its file (`OpenClipIsKept`), the queue is bounded (`QueueBounded`), every clip is eventually let go (`EveryClipIsLetGo`), whatever the network answers |
| `cloud_races` | `EventCloud` | 1 event, 2 devices, 2 metadata, 2 keys, 1 intent request at a time, 1 viewer | owner and metadata (`RowIdentityKept`), the word of the owner (`UploadedByItsOwner`) and the verification (`AvailableWasVerified`) survive every race |
| `pipeline_safety` | `MCEventPipeline` | 1 clip, 2 intent requests, a viewer, a deleter, 1 interruption, 1 fault of any kind | the audio is kept (`AudioKept`), what is shown as uploaded is stored (`UploadedIsStored`) |
| `pipeline_delivery` | `MCEventPipeline` | 1 clip, one request at a time, 1 interruption, 2 network faults | the pipeline implements `EventLifecycle` (`FollowsLifecycle`), every clip arrives (`EveryClipArrives`) |
| `available_terminal` | `MCEventPipeline` | 1 clip, 2 intent requests, 1 HTTP timeout | *violated*: `available` is terminal (`AvailableIsTerminal`) |
| `config_sync` | `MCRuntimeConfig` | 1 field, 2 values, 2 edits at once, 2 failures of any kind, 2 troubles of the Pi | the column only claims what the broker accepted (`CommittedWasTaken`), a connected Pi runs what is retained (`PiHasRetained`) and settles on it (`PiCatchesUp`) |
| `pi_watchdog` | `PiProcess` | 5 starts, 2 troubles | *violated*: audio comes back (`AudioComesBack`) |
| `pi_monitor` | `MCPiMonitor` | five scenarios: 10 blocks with lost audio and a moving threshold; 4 with LED commands; 5 with a slow publisher and a link that breaks; 3 with health reports; 3 with health reports and a queue at its cap | `ClipIsWhole`, `EventsApart`, `LatchHolds`, `SamplesAccounted`, `FramesLive` |
| `ingest_live` | `MCLiveFeed` | queue and batches of 2, 3 messages, 1 database failure or restart, 1 viewer with a soft cap of 1; or 2 requests for tiles over two hours | `NothingLost`, `SeenNotForgotten`, `FramesBounded`, `NoRowUnannounced`, `TilesComplete`; `RowsGetShown` |
| `review_desk` | `MCReviewDesk` | ten seconds of telemetry in worlds that each exercise one part: polling, paused and changed settings, two thresholds with two cool-downs, late samples, late and lost frames, late clips, two reviewers, the training set | `LoneEventsFound`, `SnapshotWhole`, `VerdictIsOne`, `RetiredWasHunted`, `TrainedOnVerdicts`; `LateClipFound` |
| `sessions` | `MCSessions` | tokens of 3 seconds; a polling browser whose account is edited, two admins against each other, two signups and two bootstraps for one address | `SessionTypeOK` (one account per address), `TrustIsBounded`, `PollingKeepsSession`, `AdminRemains`, `LogoutHolds` |
| `history_reset` | `MCHistoryReset` | 2 Pis, 2 hosts, 7 command lines, three starting states, 1 failed command or moved host | `ResetTypeOK`, `VerifiedMeansEmpty`, `RestoredOrReported`, `OthersKept`; `RerunSucceeds` |

Every property has a mutant in `PROJECT.json`: a plausible bug in the code under which
the property fails in its own run.  The type invariants `DeviceTypeOK`, `CloudTypeOK`,
`TypeOK`, `ConfigTypeOK`, `MonitorTypeOK`, `LiveTypeOK` and `ReviewTypeOK`, and the two
properties `ReviewNeverTrips` and `LatestLabelTrains`, are proved for all constants
(section 5) and not run again.

**Bounds.**  The device treats clips alike and they meet in the queue, in the single
HTTP exchange and in `Reload`: two clips with `ReloadLimit = 1` make the row fall
out of the list, as nine do with the code's eight.  Rows of different events never
touch each other in the cloud, so one event suffices there; two devices and two
metadata give every outcome of the 403 and 409 checks, the intent's write and the
worker's every order of two blind writes, and `pipeline_safety` has two intents (the
theorems any number).  One interruption per run hits each pair of writes; the device run
has two, so that one may hit the recovery from another.  Faults are
budgeted; the theorems about the pipeline need no budget.

`config_sync` has one field, which two edits change to different values: enough to
tell an older command from a newer one.  Two failures let one hit the recovery from
the other; two troubles reach systemd's start limit.  The theorems hold for any fields.

In `pi_monitor` an event lasts two blocks at least and three at most, so that too short
ones and a force-close both happen; ten blocks hold two events with a cool-down between
them, and evictions from the ring of eight blocks while a post-roll is awaited.
A queue of two and three messages in `ingest_live` overflow it and fill a batch; a
soft cap of one makes every second frame shed something.  In `review_desk` the clusters,
the cool-down, the look-ahead and the holdback are each one to three seconds, so that a
polling boundary, which may fall on any second, cuts each of them; one world has two settings
whose thresholds and cool-downs differ, so that two scans see different peaks.  In `sessions` a life
of three seconds tells the half of a life, where a token is renewed, from its end.  In
`history_reset` two hosts may answer as two devices or as one.

**Deadlock** checking is off: with budgets used up and no user at work the systems may
rest.

**Deletions.**  The runs on `UploadedByItsOwner` and on delivery have no deleter: a user
who deletes an event between a handler's read and its commit, while another request
creates it anew, makes the handler write to a different row, and both properties are
false then by design of the handlers.  Deletions are in `pipeline_safety`, and in the
theorems about both parts: `OwnersWord` and `LifecycleFollowed` exclude no more than the
deletion of a row that a handler has read and is about to write.

**Single intent.**  `FollowsLifecycle` holds with one intent request at a time.  With two
it does not: that is the first finding.  Section 5 says which intents break it.

**What the properties exempt.**  Each exemption is a history variable and named in the
property: a sample stored after a scan passed it (`overtaken`), a wake-up shed by the soft
cap (`shed`), candidates patched from a row that had changed (`clashed`), LED writes that
overlapped or failed (`raced`), admins demoted or edited by someone who was no admin any
more (`excused`), accounts that were inactive for a while (`lapsed`), a logout with another
request under way (`left = "raced"`), what did not start again by its own command (`lost`,
`culprit`), messages pruned at the queue's cap (`pruned`), rows whose key was replaced
(`rekeyed`), candidates reviewed during an extraction (`touched`), and units of a device that a host name moved to (`strays`).  Without a variable of
their own are exempt: what happens after the consumer has died, frames committed later than
the settle time in a snapshot, and frames that arrive after their hour in a kept tile.  The
code does go wrong, or gives no guarantee, in exactly these cases; the mutants show that nothing else is let through.

**Fairness.**  asyncio runs every task, so each step of a running section is weakly
fair.  Starting an upload competes with the other tasks for the thread and with
other rows for the uploader; the backoff is capped at 300 s, so a row is due again
and again and gets its turn: strong fairness.  paho reconnects for ever (`LinkUp`), and
while it is connected often enough a publish gets its PUBACK: strong fairness of
`Published`.  `EventDevice` alone assumes in addition that a network asked for
ever eventually grants; the pipeline needs no such assumption, its failures are
bounded by their budget.  Users need not view or delete anything: `View`,
`Delete` and every failure are unfair.

For the configuration, handlers run on, both paho clients reconnect for ever and
the Pi's loop applies what it is given: weak fairness.  `PubackTimeout`, failures,
`Silence`, `ClockStep` and `Die` are unfair.  In `PiProcess` the watchdog's period
is fair, and so is the restart by systemd.

`RowsGetShown` assumes weak fairness of each viewer's handler, nothing of the ingest
worker.  `LateClipFound` assumes that the detection worker goes on polling, nothing of
uploads.  `RerunSucceeds` assumes that the coordinator's commands come to an end and the
operator repeats a failed reset; failures are bounded by their budget.  `PiMonitor` and
`Sessions` state no liveness.

## 4. Findings

1. `available_terminal`: `create_event_intent` computes the new status from the row
   it read and commits it without a lock or a condition.  A request that the device
   gave up on and that commits after the retry, the PUT, `event/done` and a
   verification puts an `available` row back to `upload_intent_created`
   (`app/api/v1/events.py:169`), although `plans/phase-1-contracts.md:332` calls
   `available` terminal.
2. `pi_watchdog`: the watchdog ends `run()` with code 0 (`pi/supervisor.py:662`, 203-227),
   and `Restart=on-failure` (`systemd/urban-acoustics.service:24`) does not restart a
   process that exited successfully: after 30 s without audio, also while arecord
   is being restarted with its backoff, the Pi stays down.  `pi/supervisor.py:14-19`
   expects a restart.

Reached by the models, but promised otherwise nowhere or only in passing:

* a row that is marked done and not yet deleted when the process dies stays in
  `event_uploads` for good, with its FLAC until housekeeping comes;
* when a PUBACK comes too late, or the commit fails, `put_runtime_config` rolls back, but
  the broker retains, and the Pi applies, what the database does not have;
* two concurrent edits of different fields lose one of them in the column and in the
  retained command, while the Pi, which merges, keeps it;
* a refused connection is an `OSError`, which SQLAlchemy does not wrap and `except
  SQLAlchemyError` does not catch (`mqtt.py:552`, 592, 896): it ends the ingest worker's
  consumer, while `run()` (`mqtt.py:363-376`) goes on and paho acknowledges what nobody
  handles any more, although `mqtt.py:593` says that a failed NOTIFY should not crash the
  worker; the flush of `last_seen_at` loses what it had taken then.  So does any exception
  in `_ensure_device_known`, and a time stamp that `fromtimestamp` refuses;
* an exception in `ack_mqtt` or `fail_mqtt` ends a pass of the drain loop, and what the
  broker had accepted is published again;
* `event/done` replaces the storage key of a row with the payload's, unchecked
  (`mqtt.py:833`);
* at the cap of the Pi's queue telemetry is deleted unpublished, oldest first
  (`queue_store.py:348-380`);
* a clip uploaded between the link and the expire statement of a cycle leaves its
  candidate retired (`missing`) until a later cycle links it;
* frames that arrive after their hour stay out of the tile that was rendered in between,
  although `spectrogram_tiles.py:130-131` takes the content to be settled by then;
* a telemetry row committed with an older time than a viewer's mark is never shown to it;
* in a chain of four peaks two polling cycles may keep different ones and write
  candidates closer than the cool-down (within one cycle they do not: `CycleKeepsApart`;
  an event that stands alone is not concerned: `LoneEventsAreFound`);
* a pause that moves the watermark back lets seconds be scanned again with other settings,
  which may give an event a second candidate;
* a candidate whose clip was deleted is still offered for a label;
* the only admin may demote itself, and inactive admins keep the bootstrap from
  creating another.

## 5. Theorems

Proved by TLAPS for every value of the constants: any number of clips, devices,
requests, viewers, reviewers, crashes and faults, any durations, thresholds and bounds.

| Theorem | Module | Statement |
|---|---|---|
| `DeviceTypeCorrect` | `EventPartsProofs` | `DeviceSpec => []DeviceTypeOK`, in particular no queue count goes below zero |
| `OpenClipKept` | | `DeviceSpec => []OpenClipIsKept` |
| `QueueIsBounded` | | `DeviceSpec => []QueueBounded` |
| `CloudTypeCorrect` | | `CloudSpec => []CloudTypeOK` |
| `AvailableIsVerified` | | `CloudSpec => []AvailableWasVerified` |
| `RowKeepsIdentity` | | `CloudSpec => RowIdentityKept` |
| `OwnersWord` | | `CloudSpec /\ [][Undisturbed]_cloudVars => UploadedByItsOwner` |
| `PipelineRefinesItsParts` | `EventPipelineProofs` | `Spec => DeviceSpec /\ CloudSpec` |
| `TypeCorrect` | | `Spec => []TypeOK` |
| `AudioIsKept` | | `Spec => []AudioKept` |
| `UploadedIsInTheBucket` | | `Spec => []UploadedIsStored` |
| `LifecycleFollowed` | | `Spec /\ [][InOrder]_vars => FollowsLifecycle` |
| `AvailableStays` | | `Spec /\ [][InOrder]_vars => AvailableIsTerminal` |
| `OneIntentAtATime` | | `Spec /\ []OneAtATime /\ [][NoneDeletedInUse]_vars => FollowsLifecycle` |
| `ConfigTypeCorrect` | `RuntimeConfigProofs` | `ConfigSpec => []ConfigTypeOK` |
| `CommittedIsAccepted` | | `ConfigSpec => []CommittedWasTaken` |
| `PiFollowsBroker` | | `ConfigSpec => []PiHasRetained` |
| `MonitorTypeCorrect` | `PiMonitorProofs` | `Spec => []MonitorTypeOK` |
| `ClipsAreWhole` | | `Spec => []ClipIsWhole`, if the post-roll is not zero |
| `EventsStayApart` | | `Spec => []EventsApart` |
| `LatchStays` | | `Spec => []LatchHolds` |
| `SamplesStayAccounted` | | `Spec => []SamplesAccounted` |
| `FramesStayLive` | | `Spec => []FramesLive` |
| `LiveTypeCorrect` | `SpectrogramTilesProofs` | `TilesSpec => []LiveTypeOK` |
| `AcknowledgedIsKept` | | `TilesSpec => []NothingLost` |
| `SeenIsRemembered` | | `TilesSpec => []SeenNotForgotten` |
| `FramesStayBounded` | | `TilesSpec => []FramesBounded` |
| `RowsStayAnnounced` | | `TilesSpec => []NoRowUnannounced` |
| `TilesStayComplete` | | `TilesSpec => []TilesComplete` |
| `SnapshotStaysWhole` | `ReviewDeskProofs` | `Spec => []SnapshotWhole` |
| `RetiredAfterHunt` | | `Spec => RetiredWasHunted` |
| `ReviewTypeCorrect` | | `Spec => []ReviewTypeOK` |
| `ReviewIsAccepted` | | `Spec => []ReviewNeverTrips` |
| `VerdictStaysOne` | | `Spec => []VerdictIsOne` |
| `VerdictsAreTrained` | | `Spec => TrainedOnVerdicts` |
| `LatestTrains` | | `Spec => LatestLabelTrains` |
| `LoneEventsAreFound` | | `Spec => []LoneEventsFound` |
| `InsideStaysNear` | | `Spec => []InsideIsNear`: the inside peak of a candidate lies within the correlation window of settings it was scanned with |
| `EvidenceIsFixed` | | `Spec => [][EvidenceFixed]_vars`: no candidate is removed, and its window, frames and inside peak never change |
| `CycleKeepsApart` | | `Spec => [][CycleApart]_vars`: what one polling cycle inserts is more than the cool-down apart |
| `PeaksAreApart` | | for any telemetry and tuning, two peaks are more than the cool-down apart, and a cluster's strongest crossing is left out only for a peak shortly before it |
| `OneInsidePeak` | | for any telemetry, `CorrelatePeak` returns exactly one of the inside peaks within the window, or none if there is none |
| `SessionTypeCorrect` | `SessionsProofs` | `Spec => []SessionTypeOK` |
| `TrustHolds` | | `Spec => []TrustIsBounded` |
| `AdminStays` | | `Spec => []AdminRemains` |
| `LogoutStays` | | `Spec => []LogoutHolds` |
| `PollingHolds` | | `Spec => []PollingKeepsSession` |
| `ResetTypeCorrect` | `HistoryResetProofs` | `Spec => []ResetTypeOK` |
| `VerifiedIsEmpty` | | `Spec => []VerifiedMeansEmpty` |
| `ServicesRestored` | | `Spec => []RestoredOrReported` |
| `OthersStay` | | `Spec => OthersKept` |

**Assumptions.**  The named assumptions on the constants (`DeviceAssumption` and its
like), which TLC evaluates in the runs: types, and what the code guarantees by its own
constants (`SoftCap <= NotifyMax`, `MinDuration <= MaxDuration`).
`ClipsAreWhole` states in addition that the post-roll is positive: without it an event
may be cut in the step that closes it, which the invariant's count does not cover.  What
else is assumed of a behaviour stands in the theorem: `Undisturbed` and
`NoneDeletedInUse`, that no row is deleted between a handler's read and its write of it;
`InOrder`, in addition, that no intent commits when its clip is no longer pending on the
Pi; `OneAtATime`, that the API has one intent of the Pi in hand.  TLC shows that the
last two are needed (`available_terminal`).

**The arguments.**  None of the invariants is inductive alone.

* *Device.*  `OpenClipIsListed` depends on what the running section is about to do:
  the inductive invariant `DeviceInv` says for each value of `thread` and `uploader`
  which fates and row statuses are possible (the section that finishes a clip runs
  only once its fate left `"open"`, the uploader waits only on a pending row).
  `QueueBounded` needs `BacklogInv`, which ties the count of queued dones to the
  interruptions so far, crashes and exceptions alike, and to whether the clip's own try
  may still add one.
* *Cloud.*  `AvailableWasVerified` needs `VerifiedInv`: a viewer that is about to
  commit `available` has seen the object under the key it read, that key is still the
  row's unless the event is on record as `rekeyed`, and nothing but a deletion, which is
  recorded in `purged`, takes an object away (`Held`).  `UploadedByItsOwner` needs
  `WordInv`: while the worker, or an intent, is about to update a row, that row is still its
  sender's, and has the metadata of the worker's message.  A row keeps its owner and its
  metadata (`Keeps`), so only a deletion can falsify that.
* *Pipeline.*  Every action of the composition is an action of a part or leaves it
  alone, so it implements both specifications, and their invariants come for
  free.  `PipelineInv` adds the conjuncts that cross the boundary: a `"200"` on a
  PUT, a row that is uploaded on the Pi, and a done anywhere (queued, unacknowledged,
  on the wire, in the inbox, in the worker's hands) each imply `Stored(e)`, the
  object is there or was purged; the done, and a row that is uploaded or being viewed,
  also that the Pi has written down the upload (`Delivered(e)`).  Both are stable, which
  is what makes delay, duplication and reordering harmless.
* *Life cycle.*  A step of the pipeline changes one row at most (`OneRowMoves`).
  `LifeInv` says that what a handler read is still so when it writes: the row the worker is
  about to make uploaded is `upload_intent_created`, the row a viewer has in hand is
  uploaded or available.  An intent that commits while its clip is pending on the Pi
  finds, by `Delivered`, a row that is at most `upload_intent_created`, so each move is one
  of `EventLifecycle` or none (`RowMovesAlong`, `LifecycleStep`).  `TurnInv` shows when
  intents do commit in time: with one in hand at a time it is the one the uploader waits
  for or gave up on, and the clip cannot have gone further meanwhile.
* *Configuration.*  `CommittedWasTaken` needs to know whose acknowledgement a PUBACK
  is: `OutboxInv` says that a publication with a name belongs to a request that
  waits for it, and to no other; `AckedWasTaken` that an acknowledged configuration
  was accepted.  `PiHasRetained` becomes inductive with the order of commands: the
  last one on its way to a connected Pi is the retained one (`PiInv`).
* *Monitor.*  `Tracked` ties the detector to the clock and the ring: the ring has at
  most `RingBlocks` blocks and everything evicted is that much older than now (`RingOK`),
  and a pending clip is not overdue by more than the blocks whose handling failed
  (`Timely`), of which there are at most `faults`; together they leave the clip's start
  in the ring.  `Spaced` says the same of cool-downs.  `Latched` says what each LED write
  in flight is worth while none has overlapped another; `Ordered` that the frames waiting,
  in hand and sent are increasing.  `Accounts` adds to `SamplesAccounted` that nothing queued
  or pruned is from the future: a new row is the youngest of its kind, so what the cap takes
  is again older than all that stays (`PruneFacts`).
* *Ingest, feed and tiles.*  `IngestInv` follows a sample through queue, batch and table
  (`Kept`), for as long as the consumer lives, and is disturbed by nothing a viewer does; what the feed may rely on of
  an ingest step is one formula, `Feeding`: tables grow, and a new telemetry row comes with
  a notification in the same step.  `Attended` then says where the wake-up is: in the
  channel, the queue, the drained items, or shed.  `TilesInv` gives for every stage of a
  request what its picture shows, and uses only that the table of frames grows.
* *Detection and review.*  `DeskIInv` says of every candidate that its snapshot lacks no
  frame of its window that was committed within the settle time (`HoldsItsFrames`): it was
  taken after the holdback, which is at least that long.  Of other frames, late or lost,
  nothing is claimed.  A PATCH in flight remembers a row that was consistent, and the row
  has not changed since unless it is marked as clashed (`VerdictIsOne` itself).
  `RetiredWasHunted` needs to know what the link statement established when the expire
  statement runs: of a candidate that was not picked, no clip that qualifies had been
  uploaded when the cycle began (`HuntInv`); clips uploaded since then are the gap that
  the property leaves open.  `TrainedOnVerdicts` compares a training set with the verdicts
  at its end, although its rows were read in three statements and fetched one by one:
  `FetchInv` says that the rows of a candidate whose verdict was not `touched` agree with
  the verdict and the snapshot it has now, `RowsOK` that every row is sound.  That a
  latest label exists uses the least-number principle of the library, without its operator
  parameter.
* *What the worker finds.*  `LoneEventsFound` compares scans of pieces of the telemetry with
  the whole recording, so it needs that the peak finder is local.  That a second crosses,
  with which rise, depends on its trailing window only (`SameMedian`, `SameCrossing`); the
  cluster of an event that stands alone, and its strongest crossing, are those of the whole
  recording wherever the piece ends, if it reaches `History` back and the merge window
  ahead (`SameCluster`, `OneCluster`).  The cool-down is a recursive function: that
  one exists, for any peaks, is proved by a least counterexample (`CoolingExists`), and what
  it keeps follows from its equation (`CooledFacts`).  So the scan that passes a lone peak
  finds it (`ScanFindsIt`) and no other peak near it (`ScanFindsNoOther`).  `FoundInv`
  says it of all scans made so far: every lone peak that was scanned and read in time has
  its candidate, and every candidate stems from a scan near whose other lone peaks it
  does not lie.  It is inductive because candidates are never deleted, scans are never forgotten,
  and `overtaken` only grows, so that what counts as read in time only shrinks.  TLC
  checked it before it was proved.  A property that ignored that a second may be scanned
  twice would be false: with two thresholds TLC finds the second candidate.
* *Sessions.*  `Base` types accounts, cookies and requests, with `Unique` for addresses.
  `Backed` says that every token, wherever it is (a cookie, a request, a reply, a
  WebSocket), names a role its account has or lost no earlier than the token was made;
  `heldUntil` never decreases, so a token stays backed.  `AdminRemains` needs
  `NotAgainstOneself`: an edit that is authorised and takes rights away is not of the one
  who asks, who is then the admin that remains.  `LogoutHolds` needs `SignedOut`: no
  request of a browser that left is on its way with a reply that sets a cookie.
  `PollingKeepsSession` needs `Diligent`: the cookie of a polling browser, and every
  renewal on its way to it, was made late enough to outlast the poll that is due,
  because an answer that does not renew it came in the first half of its life (`Kept`,
  `PromptAt`).
* *Reset.*  `PlanInv` ties `todo` to the phase and its order: nothing is cleared before
  the last stop, no Pi reports before it was cleared.  `ReportInv` says that a report that
  came back empty stays true of every device whose writers are down, which is what
  `VerifiedMeansEmpty` asks when all have come back; `HostInv` that two hosts come to
  share a device only by a move, so that what was stopped is what was found.  `ServiceInv`
  gives for every service that ran the command that will start it again, or the reason why
  there is none.  `OthersKept` rests on `ScopeInv`: the keys listed are in scope.

**Only model-checked.**  Liveness (`EveryClipIsLetGo`, `EveryClipArrives`, `PiCatchesUp`,
`RowsGetShown`, `LateClipFound`, `RerunSucceeds`), which is out of the prover's reach.  Every
invariant and every action property of the passing runs is a theorem.

## 6. Not modelled

* **DSP, calibration, FLAC encoding, the classifier and its training** (`pi/dsp.py`,
  `train.py` and others): arithmetic on floating-point arrays without control worth a model.
* **Payload schemas, MQTT topics, certificates, URL signing, argument parsing, logging**:
  messages of the models are well-formed, except where a handler's reaction to a bad one
  changes state (`valid` in `IngestWorker`).
* **The read-only API** (lists, summaries, anomalies, forecast, tiles of a day): queries of
  what other components wrote; they keep no state.
* **API keys of partners, device header, sources list, camera import**: look-ups, or a table
  replaced in one transaction.
* **Preview and demo data, the device simulator, provisioning scripts, migrations**:
  development tools and one-shot scripts; the schema's constraints appear where they
  decide something (unique address, CHECK on labels, cascades).
* **The frontend, the HTML demonstrations and the deployment templates**: they hold no
  state that the system depends on.

Within the modelled components: the byte accounting of `queue_store` (its cap appears as
the choice of what it prunes), the parsing of configurations, what a health report reads
from `/proc`, the content of objects, a stop of the service by an operator, and a
transaction of SQLite that a power loss rolls back.
