---------------------------- MODULE EventPipeline ----------------------------
(***************************************************************************)
(* An event clip end to end: one Pi, the broker, the cloud.  The device's  *)
(* HTTP exchanges and publishes are joined with what they do in the cloud; *)
(* what sits between the two is httpx's timeout, paho's in-memory queue,   *)
(* the broker's session queue for the ingest worker and PUTs that outlive  *)
(* the client that gave up on them.                                        *)
(*                                                                         *)
(* Failures draw on one budget, so that a run can name the kinds it        *)
(* explores and how many of them a behaviour may contain.                  *)
(***************************************************************************)
EXTENDS EventDevice, EventCloud

CONSTANTS
    Pi,          \* the device
    ClipMeta,    \* the (sha256, size) the encoder reported for a clip
    FaultKinds,  \* the kinds of failure a behaviour may contain
    MaxFaults    \* bound on how many

ASSUME PipelineAssumption ==
    /\ Pi \in Device
    /\ ClipMeta \in Meta
    /\ MaxFaults \in Nat

VARIABLES
    call,     \* the device's HTTP exchange: none, waiting for an intent slot, answered
    latePut,  \* clips with a PUT in flight whose sender is not waiting any more
    unacked,  \* messages paho still holds after publish() gave up on their PUBACK
    wire,     \* messages the broker acknowledged and queues for the ingest worker
    faults    \* how much of the failure budget is spent

linkVars == <<call, latePut, unacked, wire>>
vars == <<deviceVars, cloudVars, linkVars, faults>>

NoCall        == [at |-> "none"]
Waiting(h)    == [at |-> "waiting", slot |-> h]
Replied(code) == [at |-> "replied", code |-> code]

LinkTypeOK ==
    /\ call \in {NoCall} \cup [at : {"waiting"}, slot : Intent]
                  \cup [at : {"replied"}, code : {"200", "403", "409", "500"}]
    /\ latePut \in SUBSET Event
    /\ unacked \in SUBSET Message
    /\ wire \in SUBSET Message
    /\ faults \in 0..MaxFaults

TypeOK == DeviceTypeOK /\ CloudTypeOK /\ LinkTypeOK

Init ==
    /\ DeviceInit
    /\ CloudInit
    /\ call = NoCall
    /\ latePut = {}
    /\ unacked = {}
    /\ wire = {}
    /\ faults = 0

Fault(kind) == kind \in FaultKinds /\ faults < MaxFaults /\ faults' = faults + 1
NoFault == UNCHANGED faults

ClaimOf(e) == [ev |-> e, dev |-> Pi, meta |-> ClipMeta]

(* The key under which this Pi's clip is stored: what an intent answers    *)
(* with, what the PUT is signed for and what the done names.               *)
ClipKey(e) == EventKey(Pi, e)

CloudForm(m) ==
    IF m[1] = "announce" THEN [kind |-> "announce", ev |-> m[2], dev |-> Pi, meta |-> ClipMeta]
    ELSE [kind |-> "done", ev |-> m[2], dev |-> Pi, meta |-> ClipMeta, key |-> ClipKey(m[2])]

-----------------------------------------------------------------------------
(* What the device does on its own disk. *)
Record(e) == Spool(e) /\ UNCHANGED <<cloudVars, linkVars>> /\ NoFault

DeviceStep(e) ==
    /\ \/ AddRow(e) \/ ParkAnnounce(e)
       \/ ResumeUploaded(e) \/ MarkUploaded(e) \/ Reload(e) \/ ParkDone(e)
       \/ MarkDone(e) \/ RemoveRow(e) \/ Unlink(e)
    /\ UNCHANGED <<cloudVars, linkVars>> /\ NoFault

Raises(e) == StepRaises(e) /\ UNCHANGED <<cloudVars, linkVars>> /\ NoFault

Ack(m) == DrainAck(m) /\ UNCHANGED <<cloudVars, linkVars>> /\ NoFault

Cleanup(e) == Housekeep(e) /\ UNCHANGED <<cloudVars, linkVars>> /\ Fault("housekeeping")

(* The process dies: paho's queue and the exchange in progress die with it, *)
(* a PUT on its way may still arrive.                                       *)
Restart ==
    /\ Crash
    /\ unacked' = {}
    /\ call' = NoCall
    /\ \/ UNCHANGED latePut
       \/ \E e \in Event : /\ uploader = [at |-> "put", ev |-> e]
                           /\ latePut' = latePut \cup {e}
    /\ UNCHANGED <<cloudVars, wire>> /\ NoFault

-----------------------------------------------------------------------------
(* MqttTransport.publish with QoS 1. *)
Published(m) ==
    /\ \/ m[1] = "announce" /\ AnnouncePublished(m[2])
       \/ m[1] = "done" /\ DonePublished(m[2])
       \/ DrainPublished(m)
    /\ wire' = wire \cup {m}
    /\ UNCHANGED <<cloudVars, call, latePut, unacked>> /\ NoFault

(* Mutant: while offline the message is taken for sent. *)
MutantOfflineIsSent(m) ==
    /\ ~connected
    /\ \/ m[1] = "announce" /\ AnnounceUnsent(m[2])
       \/ /\ m[1] = "done"
          /\ Running("publishDone", m[2])
          /\ GoTo("markDone", m[2])
          /\ UNCHANGED <<spool, upload, backlog, uploader, connected, fate, cleaned, interruptions>>
    /\ UNCHANGED <<cloudVars, linkVars>> /\ NoFault

NotConnected(m) ==
    /\ ~connected
    /\ \/ m[1] = "announce" /\ AnnounceUnsent(m[2])
       \/ m[1] = "done" /\ DoneUnsent(m[2])
    /\ UNCHANGED <<cloudVars, linkVars>> /\ NoFault

(* No PUBACK within the timeout: the device queues the message, or puts    *)
(* off the queued row, while paho keeps its own copy to send.              *)
PubackTimeout(m) ==
    /\ connected
    /\ \/ m[1] = "announce" /\ AnnounceUnsent(m[2])
       \/ m[1] = "done" /\ DoneUnsent(m[2])
       \/ thread = Free /\ backlog[m] > 0 /\ UNCHANGED deviceVars
    /\ unacked' = unacked \cup {m}
    /\ UNCHANGED <<cloudVars, call, latePut, wire>> /\ Fault("pubackTimeout")

PahoRetry(m) ==
    /\ connected
    /\ m \in unacked
    /\ unacked' = unacked \ {m}
    /\ wire' = wire \cup {m}
    /\ UNCHANGED <<deviceVars, cloudVars, call, latePut>> /\ NoFault

LinkUp   == OnConnect /\ UNCHANGED <<cloudVars, linkVars>> /\ NoFault
LinkDown == OnDisconnect /\ UNCHANGED <<cloudVars, linkVars>> /\ Fault("linkDown")

(* The broker hands a message to the worker; with QoS 1 it may do so again. *)
Deliver(m) ==
    /\ m \in wire
    /\ Receive(CloudForm(m))
    /\ \/ wire' = wire \ {m} /\ NoFault
       \/ UNCHANGED wire /\ Fault("redelivery")
    /\ UNCHANGED <<deviceVars, call, latePut, unacked>>

-----------------------------------------------------------------------------
(* POST /events/intent. *)
PostIntent(e, h) ==
    /\ SendIntent(e)
    /\ IntentArrive(h, ClaimOf(e))
    /\ call' = Waiting(h)
    /\ UNCHANGED <<latePut, unacked, wire>> /\ NoFault

(* The answer reaches the device only if it still waits for this request. *)
Answer(h, code) == call' = IF call = Waiting(h) THEN Replied(code) ELSE call

ServeIntent(h) ==
    /\ \/ IntentRead(h) /\ UNCHANGED call
       \/ IntentCommit(h) /\ Answer(h, "200")
       \/ IntentStale(h) /\ Answer(h, "500")
       \/ \E why \in {"403", "409"} : IntentReject(h, why) /\ Answer(h, why)
    /\ UNCHANGED <<deviceVars, latePut, unacked, wire>> /\ NoFault

ApiError(h) ==
    /\ IntentDbError(h)
    /\ Answer(h, "500")
    /\ UNCHANGED <<deviceVars, latePut, unacked, wire>> /\ Fault("apiError")

(* Mutant: a granted intent counts as the upload. *)
MutantSkipPut(e) ==
    /\ uploader = [at |-> "intent", ev |-> e]
    /\ call = Replied("200")
    /\ uploader' = Idle
    /\ GoTo("markUploaded", e)
    /\ call' = NoCall
    /\ UNCHANGED <<spool, upload, backlog, connected, fate, cleaned, interruptions>>
    /\ UNCHANGED <<cloudVars, latePut, unacked, wire>> /\ NoFault

IntentReply(e) ==
    /\ uploader.at = "intent"
    /\ \/ call = Replied("200") /\ IntentGranted(e)
       \/ call = Replied("409") /\ IntentRefused(e)
       \/ call \in {Replied("403"), Replied("500")} /\ ExchangeFailed(e)
    /\ call' = NoCall
    /\ UNCHANGED <<cloudVars, latePut, unacked, wire>> /\ NoFault

(* PUT to the presigned URL. *)
PutLands(e) ==
    /\ uploader = [at |-> "put", ev |-> e]
    /\ call = NoCall
    /\ PutObject(ClipKey(e), "stored")
    /\ call' = Replied("200")
    /\ UNCHANGED <<deviceVars, latePut, unacked, wire>> /\ NoFault

PutReply(e) ==
    /\ PutSucceeded(e)
    /\ call = Replied("200")
    /\ call' = NoCall
    /\ UNCHANGED <<cloudVars, latePut, unacked, wire>> /\ NoFault

(* Mutant: a PUT that timed out is taken for one that got through. *)
MutantTimeoutIsSuccess(e) ==
    /\ PutSucceeded(e)
    /\ call' = NoCall
    /\ latePut' = latePut \cup {e}
    /\ UNCHANGED <<cloudVars, unacked, wire>> /\ Fault("httpTimeout")

(* httpx gives up; the request may go on without it. *)
HttpTimeout(e) ==
    /\ ExchangeFailed(e)
    /\ call' = NoCall
    /\ \/ UNCHANGED latePut
       \/ uploader.at = "put" /\ latePut' = latePut \cup {e}
    /\ UNCHANGED <<cloudVars, unacked, wire>> /\ Fault("httpTimeout")

LatePutLands(e) ==
    /\ e \in latePut
    /\ PutObject(ClipKey(e), "stored")
    /\ latePut' = latePut \ {e}
    /\ UNCHANGED <<deviceVars, call, unacked, wire>> /\ NoFault

-----------------------------------------------------------------------------
(* What the cloud does on its own. *)
Ingest == IngestStep /\ UNCHANGED <<deviceVars, linkVars>> /\ NoFault

IngestLoss ==
    /\ IngestDbError \/ IngestCrash
    /\ UNCHANGED <<deviceVars, linkVars>> /\ Fault("ingestLoss")

View(v) == VerifyNext(v) /\ UNCHANGED <<deviceVars, linkVars>> /\ NoFault

Delete(d) == DeleteNext(d) /\ UNCHANGED <<deviceVars, linkVars>> /\ NoFault

-----------------------------------------------------------------------------
Next ==
    \/ \E e \in Event : \/ Record(e) \/ DeviceStep(e) \/ Raises(e) \/ Cleanup(e)
                        \/ (\E h \in Intent : PostIntent(e, h))
                        \/ IntentReply(e) \/ PutLands(e) \/ PutReply(e)
                        \/ HttpTimeout(e) \/ LatePutLands(e)
    \/ \E m \in Message : \/ Ack(m) \/ Published(m) \/ NotConnected(m)
                          \/ PubackTimeout(m) \/ PahoRetry(m) \/ Deliver(m)
    \/ \E h \in Intent : ServeIntent(h) \/ ApiError(h)
    \/ Restart \/ LinkUp \/ LinkDown
    \/ Ingest \/ IngestLoss
    \/ \E v \in Viewer : View(v)
    \/ \E d \in Deleter : Delete(d)

Spec == Init /\ [][Next]_vars

-----------------------------------------------------------------------------
Lifecycle == INSTANCE EventLifecycle WITH status <- [e \in Event |-> row[e].status]

(* The device never gives away its only copy: from the moment a clip has a *)
(* row on the Pi, it is in the spool with a row that will be retried, or   *)
(* in the bucket, or a user or the housekeeping service has deleted it.    *)
AudioKept ==
    \A e \in Event :
        fate[e] \notin {"new", "spooled"}
          => \/ e \in spool /\ upload[e] \in {"pending", "uploaded"}
             \/ object[ClipKey(e)] = "stored"
             \/ ClipKey(e) \in purged \/ e \in cleaned

(* What the cloud shows as uploaded or available lies in the bucket: no    *)
(* done, however delayed, repeated or reordered, outruns its PUT, and the  *)
(* row holds the key of that PUT.  (It holds none, and so offers nothing,  *)
(* when it was deleted and announced again under a verification.)          *)
UploadedIsStored ==
    \A e \in Event :
        row[e].status \in {"uploaded", "available"}
          => /\ row[e].key \in {NoKey, ClipKey(e)}
             /\ object[ClipKey(e)] = "stored" \/ ClipKey(e) \in purged

(* "The `available` state is terminal for Phase 1." (phase-1-contracts.md) *)
AvailableIsTerminal ==
    [][\A e \in Event : row[e].status = "available" => row'[e].status \in {"available", "none"}]_vars

(* Rows move along the table of transitions, end to end. *)
FollowsLifecycle == Lifecycle!Spec

-----------------------------------------------------------------------------
(* Tasks and handlers run, the client reconnects and the broker delivers;  *)
(* failures are bounded by their budget.  Viewing is up to the users.      *)
Fairness ==
    /\ \A e \in Event :
         /\ WF_vars(DeviceStep(e))
         /\ SF_vars(\E h \in Intent : PostIntent(e, h))
         /\ WF_vars(IntentReply(e))
         /\ WF_vars(PutLands(e))
         /\ WF_vars(PutReply(e))
    /\ \A m \in Message :
         /\ WF_vars(Ack(m))
         /\ SF_vars(Published(m))
         /\ WF_vars(NotConnected(m))
         /\ WF_vars(Deliver(m))
    /\ \A h \in Intent : WF_vars(ServeIntent(h))
    /\ WF_vars(LinkUp)
    /\ WF_vars(Ingest)

FairSpec == Spec /\ Fairness

(* Every clip the device records is eventually known to the cloud as       *)
(* uploaded, across timeouts, disconnections and a restart.                *)
EveryClipArrives ==
    \A e \in Event : fate[e] = "open" ~> row[e].status \in {"uploaded", "available"}
=============================================================================
