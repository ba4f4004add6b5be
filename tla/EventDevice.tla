----------------------------- MODULE EventDevice -----------------------------
(***************************************************************************)
(* The Pi's side of an event clip: the supervisor spools the FLAC and      *)
(* records it in SQLite, the uploader walks it through intent, PUT and     *)
(* event/done, the drain loop replays queued MQTT messages.                *)
(*                                                                         *)
(* All tasks share one asyncio thread, and the queue store's lock is never *)
(* held across a suspension: between two awaits on the network a task runs *)
(* alone.  `thread` is the section that is running; a crash or an exception *)
(* can cut it short, so each of its writes to disk is an action.            *)
(***************************************************************************)
EXTENDS Naturals, FiniteSets, EventContracts

CONSTANTS
    MaxInterruptions,  \* bound on restarts and on steps that raise
    CapBinds,    \* whether the queue database can reach its size cap
    ReloadLimit  \* how many listed rows _publish_done looks through for its own

ASSUME DeviceAssumption ==
    /\ MaxInterruptions \in Nat
    /\ CapBinds \in BOOLEAN
    /\ ReloadLimit \in Nat

VARIABLES
    spool,      \* clips whose FLAC file is in audio_dir
    upload,     \* event_uploads: the status of each clip's row, "none" without one
    backlog,    \* mqtt_queue: how many rows hold each event message
    thread,     \* the section the asyncio thread is running
    uploader,   \* the HTTP exchange the uploader task is suspended in
    connected,  \* MqttTransport.connected
    fate,       \* history: how far each clip got, and how the device let go of it
    cleaned,    \* history: clips whose FLAC the housekeeping service deleted
    interruptions  \* history: restarts, and steps that raised, so far

deviceVars == <<spool, upload, backlog, thread, uploader, connected, fate, cleaned, interruptions>>

Free == [at |-> "free"]

CaptureStep  == {"addRow", "announce", "parkAnnounce"}
UploaderStep == {"markUploaded", "reload", "publishDone", "parkDone", "markDone", "removeRow", "unlink"}

Fate == {"new", "spooled", "open", "handedOver", "refused", "fileGone"}

DeviceTypeOK ==
    /\ spool \in SUBSET Event
    /\ upload \in [Event -> {"none", "pending", "uploaded", "done"}]
    /\ backlog \in [Message -> Nat]
    /\ thread \in {Free} \cup [at : CaptureStep \cup UploaderStep, ev : Event]
                         \cup [at : {"ack"}, msg : Message]
    /\ uploader \in {Idle} \cup [at : {"intent", "put"}, ev : Event]
    /\ connected \in BOOLEAN
    /\ fate \in [Event -> Fate]
    /\ cleaned \in SUBSET Event
    /\ interruptions \in 0..MaxInterruptions

DeviceInit ==
    /\ spool = {}
    /\ upload = [e \in Event |-> "none"]
    /\ backlog = [m \in Message |-> 0]
    /\ thread = Free
    /\ uploader = Idle
    /\ connected = FALSE
    /\ fate = [e \in Event |-> "new"]
    /\ cleaned = {}
    /\ interruptions = 0

Running(step, e) == thread = [at |-> step, ev |-> e]
GoTo(step, e)    == thread' = [at |-> step, ev |-> e]
Awaiting(http, e) == thread = Free /\ uploader = [at |-> http, ev |-> e]

-----------------------------------------------------------------------------
(* QueueStore._enforce_cap: rows leave mqtt_queue in batches, announce     *)
(* before done.  Whatever remains, a done row was deleted only when no     *)
(* announce row was left.                                                  *)
Prunings ==
    IF ~CapBinds THEN {backlog}
    ELSE {b \in [Message -> {backlog[m] : m \in Message} \cup {0}] :
            /\ \A m \in Message : b[m] <= backlog[m]
            /\ (\E e \in Event : b[<<"done", e>>] < backlog[<<"done", e>>])
                 => \A e \in Event : b[<<"announce", e>>] = 0}

(* enqueue_mqtt: prune, then insert. *)
Enqueue(m) == \E b \in Prunings : backlog' = [b EXCEPT ![m] = @ + 1]

-----------------------------------------------------------------------------
(* Supervisor._materialise_event, from the write of the FLAC on. *)
Spool(e) ==
    /\ thread = Free
    /\ fate[e] = "new"
    /\ spool' = spool \cup {e}
    /\ fate' = [fate EXCEPT ![e] = "spooled"]
    /\ GoTo("addRow", e)
    /\ UNCHANGED <<upload, backlog, uploader, connected, cleaned, interruptions>>

(* add_event_upload *)
AddRow(e) ==
    /\ Running("addRow", e)
    /\ backlog' \in Prunings
    /\ upload' = [upload EXCEPT ![e] = "pending"]
    /\ fate' = [fate EXCEPT ![e] = "open"]
    /\ GoTo("announce", e)
    /\ UNCHANGED <<spool, uploader, connected, cleaned, interruptions>>

(* Uploader.announce: publish, or queue the message. *)
AnnouncePublished(e) ==
    /\ Running("announce", e)
    /\ connected
    /\ thread' = Free
    /\ UNCHANGED <<spool, upload, backlog, uploader, connected, fate, cleaned, interruptions>>

AnnounceUnsent(e) ==
    /\ Running("announce", e)
    /\ GoTo("parkAnnounce", e)
    /\ UNCHANGED <<spool, upload, backlog, uploader, connected, fate, cleaned, interruptions>>

ParkAnnounce(e) ==
    /\ Running("parkAnnounce", e)
    /\ Enqueue(<<"announce", e>>)
    /\ thread' = Free
    /\ UNCHANGED <<spool, upload, uploader, connected, fate, cleaned, interruptions>>

-----------------------------------------------------------------------------
(* Uploader.drain_once: a due row is picked up where its status left it.   *)
(* Backoff decides which rows are due, so any row that is not done may be. *)
SendIntent(e) ==
    /\ thread = Free
    /\ uploader = Idle
    /\ upload[e] = "pending"
    /\ uploader' = [at |-> "intent", ev |-> e]
    /\ UNCHANGED <<spool, upload, backlog, thread, connected, fate, cleaned, interruptions>>

(* Mutant: an uploaded row is resumed only if its file is there to send. *)
MutantResumeNeedsFile(e) ==
    /\ thread = Free
    /\ uploader = Idle
    /\ upload[e] = "uploaded"
    /\ e \in spool
    /\ GoTo("publishDone", e)
    /\ UNCHANGED <<spool, upload, backlog, uploader, connected, fate, cleaned, interruptions>>

ResumeUploaded(e) ==
    /\ thread = Free
    /\ uploader = Idle
    /\ upload[e] = "uploaded"
    /\ GoTo("publishDone", e)
    /\ UNCHANGED <<spool, upload, backlog, uploader, connected, fate, cleaned, interruptions>>

(* _do_intent_and_put: a 200 leads to the PUT, unless the file is gone.  *)
IntentGranted(e) ==
    /\ Awaiting("intent", e)
    /\ \/ /\ e \in spool
          /\ uploader' = [at |-> "put", ev |-> e]
          /\ UNCHANGED <<thread, fate>>
       \/ /\ e \notin spool
          /\ uploader' = Idle
          /\ fate' = [fate EXCEPT ![e] = "fileGone"]
          /\ GoTo("markDone", e)
    /\ UNCHANGED <<spool, upload, backlog, connected, cleaned, interruptions>>

(* A 409: drop the clip, or it would park in the queue forever. *)
IntentRefused(e) ==
    /\ Awaiting("intent", e)
    /\ uploader' = Idle
    /\ fate' = [fate EXCEPT ![e] = "refused"]
    /\ GoTo("markDone", e)
    /\ UNCHANGED <<spool, upload, backlog, connected, cleaned, interruptions>>

(* Timeout, connection error or any other status, on either exchange:      *)
(* fail_upload reschedules the row, its status stays.                      *)
ExchangeFailed(e) ==
    /\ \E http \in {"intent", "put"} : Awaiting(http, e)
    /\ uploader' = Idle
    /\ UNCHANGED <<spool, upload, backlog, thread, connected, fate, cleaned, interruptions>>

PutSucceeded(e) ==
    /\ Awaiting("put", e)
    /\ uploader' = Idle
    /\ GoTo("markUploaded", e)
    /\ UNCHANGED <<spool, upload, backlog, connected, fate, cleaned, interruptions>>

(* Mutant: unlinking the FLAC as soon as the PUT succeeded. *)
MutantUnlinkEarly(e) ==
    /\ Running("markUploaded", e)
    /\ upload' = [upload EXCEPT ![e] = "uploaded"]
    /\ spool' = spool \ {e}
    /\ GoTo("reload", e)
    /\ UNCHANGED <<backlog, uploader, connected, fate, cleaned, interruptions>>

MarkUploaded(e) ==
    /\ Running("markUploaded", e)
    /\ upload' = [upload EXCEPT ![e] = "uploaded"]
    /\ GoTo("reload", e)
    /\ UNCHANGED <<spool, backlog, uploader, connected, fate, cleaned, interruptions>>

(* _publish_done reads the storage key back.  It looks among the oldest    *)
(* rows that are due: behind many others the row is not found, and the     *)
(* clip is put off as a failure.                                           *)
OthersListed(e) == {f \in Event \ {e} : upload[f] \in {"pending", "uploaded"}}

Reload(e) ==
    /\ Running("reload", e)
    /\ \/ GoTo("publishDone", e)
       \/ ReloadLimit <= Cardinality(OthersListed(e)) /\ thread' = Free
    /\ UNCHANGED <<spool, upload, backlog, uploader, connected, fate, cleaned, interruptions>>

(* _publish_done: to the broker, or to the queue. *)
DonePublished(e) ==
    /\ Running("publishDone", e)
    /\ connected
    /\ fate' = [fate EXCEPT ![e] = "handedOver"]
    /\ GoTo("markDone", e)
    /\ UNCHANGED <<spool, upload, backlog, uploader, connected, cleaned, interruptions>>

DoneUnsent(e) ==
    /\ Running("publishDone", e)
    /\ GoTo("parkDone", e)
    /\ UNCHANGED <<spool, upload, backlog, uploader, connected, fate, cleaned, interruptions>>

(* Mutant: leaving the row as it is once event/done is queued. *)
MutantParkForgetsRow(e) ==
    /\ Running("parkDone", e)
    /\ Enqueue(<<"done", e>>)
    /\ fate' = [fate EXCEPT ![e] = "handedOver"]
    /\ thread' = Free
    /\ UNCHANGED <<spool, upload, uploader, connected, cleaned, interruptions>>

ParkDone(e) ==
    /\ Running("parkDone", e)
    /\ Enqueue(<<"done", e>>)
    /\ fate' = [fate EXCEPT ![e] = "handedOver"]
    /\ GoTo("markDone", e)
    /\ UNCHANGED <<spool, upload, uploader, connected, cleaned, interruptions>>

(* mark_upload_progress(done), remove_event_upload, unlink: the tail that  *)
(* success, the 409 and the missing file share.                            *)
MarkDone(e) ==
    /\ Running("markDone", e)
    /\ upload' = [upload EXCEPT ![e] = "done"]
    /\ GoTo("removeRow", e)
    /\ UNCHANGED <<spool, backlog, uploader, connected, fate, cleaned, interruptions>>

RemoveRow(e) ==
    /\ Running("removeRow", e)
    /\ upload' = [upload EXCEPT ![e] = "none"]
    /\ GoTo("unlink", e)
    /\ UNCHANGED <<spool, backlog, uploader, connected, fate, cleaned, interruptions>>

Unlink(e) ==
    /\ Running("unlink", e)
    /\ spool' = spool \ {e}
    /\ thread' = Free
    /\ UNCHANGED <<upload, backlog, uploader, connected, fate, cleaned, interruptions>>

-----------------------------------------------------------------------------
(* Supervisor._drain_mqtt_loop: publish a queued row, delete it when the   *)
(* broker acknowledged it.                                                 *)
DrainPublished(m) ==
    /\ thread = Free
    /\ connected
    /\ backlog[m] > 0
    /\ thread' = [at |-> "ack", msg |-> m]
    /\ UNCHANGED <<spool, upload, backlog, uploader, connected, fate, cleaned, interruptions>>

DrainAck(m) ==
    /\ thread = [at |-> "ack", msg |-> m]
    /\ backlog' = [backlog EXCEPT ![m] = @ - 1]
    /\ thread' = Free
    /\ UNCHANGED <<spool, upload, uploader, connected, fate, cleaned, interruptions>>

-----------------------------------------------------------------------------
(* MqttTransport callbacks, on paho's thread. *)
OnConnect ==
    /\ ~connected
    /\ connected' = TRUE
    /\ UNCHANGED <<spool, upload, backlog, thread, uploader, fate, cleaned, interruptions>>

OnDisconnect ==
    /\ connected
    /\ connected' = FALSE
    /\ UNCHANGED <<spool, upload, backlog, thread, uploader, fate, cleaned, interruptions>>

(* The process dies and systemd restarts it: SQLite and the spool remain. *)
Crash ==
    /\ interruptions < MaxInterruptions
    /\ interruptions' = interruptions + 1
    /\ thread' = Free
    /\ uploader' = Idle
    /\ connected' = FALSE
    /\ UNCHANGED <<spool, upload, backlog, fate, cleaned>>

(* A write raises (a full disk, a locked database): its section ends and   *)
(* its task goes on, for _flush_pending_events and drain_once catch it, and *)
(* fail_upload leaves the status as it is.                                  *)
StepRaises(e) ==
    /\ interruptions < MaxInterruptions
    /\ \E step \in CaptureStep \cup UploaderStep : Running(step, e)
    /\ interruptions' = interruptions + 1
    /\ thread' = Free
    /\ UNCHANGED <<spool, upload, backlog, uploader, connected, fate, cleaned>>

(* urban-acoustics-cleanup: a FLAC a week old is deleted, uploaded or not; *)
(* one the capture loop is still recording is not that old.                *)
Housekeep(e) ==
    /\ e \in spool
    /\ \A step \in CaptureStep : ~Running(step, e)
    /\ spool' = spool \ {e}
    /\ cleaned' = cleaned \cup {e}
    /\ UNCHANGED <<upload, backlog, thread, uploader, connected, fate, interruptions>>

-----------------------------------------------------------------------------
CaptureNext(e) == Spool(e) \/ AddRow(e) \/ AnnouncePublished(e) \/ AnnounceUnsent(e)
                    \/ ParkAnnounce(e)

ReplyNext(e) == IntentGranted(e) \/ IntentRefused(e) \/ ExchangeFailed(e) \/ PutSucceeded(e)

UploaderNext(e) == SendIntent(e) \/ ResumeUploaded(e) \/ MarkUploaded(e) \/ Reload(e)
                     \/ DonePublished(e) \/ DoneUnsent(e) \/ ParkDone(e)
                     \/ MarkDone(e) \/ RemoveRow(e) \/ Unlink(e)

DrainNext(m) == DrainPublished(m) \/ DrainAck(m)

DeviceNext ==
    \/ \E e \in Event : CaptureNext(e) \/ ReplyNext(e) \/ UploaderNext(e) \/ StepRaises(e) \/ Housekeep(e)
    \/ \E m \in Message : DrainNext(m)
    \/ OnConnect \/ OnDisconnect \/ Crash

(* The device alone, against a network and a cloud that may answer anything. *)
DeviceSpec == DeviceInit /\ [][DeviceNext]_deviceVars

-----------------------------------------------------------------------------
(* The rows and files the device still owes: whatever crash or failure     *)
(* comes between, a clip whose announce/intent/PUT/done is not finished    *)
(* has a row that drain_once will list (QueueStore.list_pending_uploads).  *)
OpenClipIsListed ==
    \A e \in Event : fate[e] = "open" => upload[e] \in {"pending", "uploaded"}

(* A task of the supervisor unlinks a FLAC only once the clip was handed   *)
(* over or refused; before that only the housekeeping service may.         *)
OpenFileIsKept ==
    \A e \in Event : fate[e] = "open" => e \in spool \/ e \in cleaned

(* Together: an open clip can be resumed, after any crash, from what is on *)
(* disk.                                                                   *)
OpenClipIsKept == OpenClipIsListed /\ OpenFileIsKept

(* However often the process dies, or drain_once catches an exception,     *)
(* between queueing event/done and marking the row, each time adds at most *)
(* one done row, and announce is queued at most once: the size of the      *)
(* queue is bounded by the interruptions.                                  *)
QueueBounded ==
    \A e \in Event : /\ backlog[<<"done", e>>] <= interruptions + 1
                     /\ backlog[<<"announce", e>>] <= 1

(* Tasks are scheduled, the client reconnects, and a network that keeps    *)
(* being asked answers: backoff makes every clip due again and again.      *)
TaskStep(e) ==
    AddRow(e) \/ AnnouncePublished(e) \/ AnnounceUnsent(e) \/ ParkAnnounce(e)
      \/ MarkUploaded(e) \/ Reload(e) \/ DonePublished(e) \/ DoneUnsent(e) \/ ParkDone(e)
      \/ MarkDone(e) \/ RemoveRow(e) \/ Unlink(e)

DeviceFairness ==
    /\ \A e \in Event :
         /\ WF_deviceVars(TaskStep(e))
         /\ WF_deviceVars(ReplyNext(e))
         /\ SF_deviceVars(SendIntent(e) \/ ResumeUploaded(e))
         /\ SF_deviceVars(IntentGranted(e) \/ IntentRefused(e))
         /\ SF_deviceVars(PutSucceeded(e))
    /\ \A m \in Message : WF_deviceVars(DrainAck(m))

FairDeviceSpec == DeviceSpec /\ DeviceFairness

(* A recorded clip does not stay open for ever: its done reaches the       *)
(* broker or the queue, or the clip is given up for a reason.              *)
EveryClipIsLetGo == \A e \in Event : fate[e] = "open" ~> fate[e] # "open"
=============================================================================
