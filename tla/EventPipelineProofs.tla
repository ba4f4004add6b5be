------------------------- MODULE EventPipelineProofs -------------------------
(***************************************************************************)
(* What holds of an event clip end to end, for any number of clips,        *)
(* requests, restarts and failures of any kind.                            *)
(***************************************************************************)
EXTENDS EventPipeline, EventPartsProofs

-----------------------------------------------------------------------------
(* The pipeline is its device, its cloud and what joins them: the device's *)
(* and the cloud's invariants hold in it.                                  *)
LEMMA DeviceSteps == [Next]_vars => [DeviceNext]_deviceVars
<1> SUFFICES ASSUME [Next]_vars PROVE [DeviceNext]_deviceVars
    OBVIOUS
<1>1. ASSUME NEW e \in Event,
             \/ Record(e) \/ DeviceStep(e) \/ Raises(e) \/ Cleanup(e)
             \/ (\E h \in Intent : PostIntent(e, h))
             \/ IntentReply(e) \/ PutLands(e) \/ PutReply(e)
             \/ HttpTimeout(e) \/ LatePutLands(e)
      PROVE  [DeviceNext]_deviceVars
    BY <1>1 DEF Record, DeviceStep, Raises, Cleanup, PostIntent, IntentReply, PutLands, PutReply,
        HttpTimeout, LatePutLands, DeviceNext, CaptureNext, ReplyNext, UploaderNext
<1>2. ASSUME NEW m \in Message,
             \/ Ack(m) \/ Published(m) \/ NotConnected(m)
             \/ PubackTimeout(m) \/ PahoRetry(m) \/ Deliver(m)
      PROVE  [DeviceNext]_deviceVars
  <2>1. m[2] \in Event
      BY DEF Message
  <2> QED
      BY <1>2, <2>1 DEF Ack, Published, NotConnected, PubackTimeout, PahoRetry, Deliver,
          DeviceNext, CaptureNext, UploaderNext, DrainNext
<1>3. ASSUME Restart \/ LinkUp \/ LinkDown PROVE [DeviceNext]_deviceVars
    BY <1>3 DEF Restart, LinkUp, LinkDown, DeviceNext
<1>4. ASSUME \/ \E h \in Intent : ServeIntent(h) \/ ApiError(h)
             \/ Ingest \/ IngestLoss
             \/ \E v \in Viewer : View(v)
             \/ \E d \in Deleter : Delete(d)
             \/ UNCHANGED vars
      PROVE  [DeviceNext]_deviceVars
    BY <1>4 DEF ServeIntent, ApiError, Ingest, IngestLoss, View, Delete, vars
<1> QED
    BY <1>1, <1>2, <1>3, <1>4 DEF Next

(* The steps in which the cloud takes part. *)
CloudPart ==
    \/ \E e \in Event : PutLands(e) \/ LatePutLands(e) \/ (\E h \in Intent : PostIntent(e, h))
    \/ \E m \in Message : Deliver(m)
    \/ \E h \in Intent : ServeIntent(h) \/ ApiError(h)
    \/ Ingest \/ IngestLoss
    \/ \E v \in Viewer : View(v)
    \/ \E d \in Deleter : Delete(d)

LEMMA CloudParts == [Next]_vars => CloudPart \/ UNCHANGED cloudVars
BY DEF Next, CloudPart, vars, Record, DeviceStep, Raises, Cleanup, IntentReply, PutReply, HttpTimeout,
    Ack, Published, NotConnected, PubackTimeout, PahoRetry, Restart, LinkUp, LinkDown

LEMMA ClaimsAndMessages ==
    /\ \A e \in Event : ClaimOf(e) \in Claim
    /\ \A m \in Message : CloudForm(m) \in CloudMessage
    /\ \A e \in Event : ClipKey(e) \in Key
BY PipelineAssumption, KeysAreKeys DEF ClaimOf, CloudForm, Claim, CloudMessage, AnnounceMessage, DoneMessage, Message, Kind, ClipKey

LEMMA CloudSteps == [Next]_vars => [CloudNext]_cloudVars
<1> SUFFICES ASSUME CloudPart PROVE CloudNext
    BY CloudParts
<1> QED
    BY ClaimsAndMessages DEF CloudPart, PutLands, LatePutLands, PostIntent, Deliver, ServeIntent,
        ApiError, Ingest, IngestLoss, View, Delete, CloudNext, IntentStep

(* Joined with the broker, the API and the store, the device behaves as it *)
(* does against a network that answers anything, and the cloud as it does  *)
(* against devices that claim anything: what holds of each alone holds of  *)
(* it in the pipeline.                                                     *)
THEOREM PipelineRefinesItsParts == Spec => DeviceSpec /\ CloudSpec
<1>1. Init => DeviceInit /\ CloudInit
    BY DEF Init
<1> QED
    BY <1>1, DeviceSteps, CloudSteps, PTL DEF Spec, DeviceSpec, CloudSpec

LEMMA LinkTypeNext == TypeOK /\ [Next]_vars => LinkTypeOK'
<1> SUFFICES ASSUME TypeOK, [Next]_vars PROVE LinkTypeOK'
    OBVIOUS
<1> USE PipelineAssumption DEF TypeOK, LinkTypeOK, NoFault, Fault, NoCall, Replied, Waiting
<1>1. ASSUME NEW e \in Event, NEW h \in Intent, PostIntent(e, h) PROVE LinkTypeOK'
    BY <1>1 DEF PostIntent
<1>2. ASSUME NEW e \in Event,
             \/ Record(e) \/ DeviceStep(e) \/ Raises(e) \/ Cleanup(e) \/ IntentReply(e)
             \/ PutLands(e) \/ PutReply(e) \/ HttpTimeout(e) \/ LatePutLands(e)
      PROVE  LinkTypeOK'
    BY <1>2 DEF Record, DeviceStep, Raises, Cleanup, IntentReply, PutLands, PutReply, HttpTimeout,
        LatePutLands, linkVars
<1>3. ASSUME NEW m \in Message,
             \/ Ack(m) \/ Published(m) \/ NotConnected(m)
             \/ PubackTimeout(m) \/ PahoRetry(m) \/ Deliver(m)
      PROVE  LinkTypeOK'
    BY <1>3 DEF Ack, Published, NotConnected, PubackTimeout, PahoRetry, Deliver, linkVars
<1>4. ASSUME NEW h \in Intent, ServeIntent(h) \/ ApiError(h) PROVE LinkTypeOK'
    BY <1>4 DEF ServeIntent, ApiError, Answer
<1>5. CASE Restart
    BY <1>5 DEF Restart
<1>6. ASSUME \/ LinkUp \/ LinkDown \/ Ingest \/ IngestLoss
             \/ \E v \in Viewer : View(v)
             \/ \E d \in Deleter : Delete(d)
             \/ UNCHANGED vars
      PROVE  LinkTypeOK'
    BY <1>6 DEF LinkUp, LinkDown, Ingest, IngestLoss, View, Delete, linkVars, vars
<1> QED
    BY <1>1, <1>2, <1>3, <1>4, <1>5, <1>6 DEF Next

(* Every variable of the device, the cloud and the link is of its type,    *)
(* whatever fails and however the three interleave.                        *)
THEOREM TypeCorrect == Spec => []TypeOK
<1>1. Init => DeviceInv /\ CloudTypeOK /\ LinkTypeOK
    BY DeviceInvInit, CloudTypeInit, PipelineAssumption DEF Init, LinkTypeOK, NoCall
<1>2. DeviceInv /\ CloudTypeOK /\ LinkTypeOK /\ [Next]_vars
        => (DeviceInv /\ CloudTypeOK /\ LinkTypeOK)'
    BY DeviceSteps, DeviceInvNext, CloudSteps, CloudTypeNext, LinkTypeNext DEF TypeOK, DeviceInv
<1>3. DeviceInv /\ CloudTypeOK /\ LinkTypeOK => TypeOK
    BY DEF TypeOK, DeviceInv
<1> QED
    BY <1>1, <1>2, <1>3, PTL DEF Spec

-----------------------------------------------------------------------------
(* The PUT of a clip has been stored; a deletion may have come after it. *)
Stored(e) == object[ClipKey(e)] = "stored" \/ ClipKey(e) \in purged

(* The device has yet to write down that it uploaded the clip. *)
Unsent(e) == upload[e] = "pending" \/ fate[e] \in {"new", "spooled"}

Delivered(e) == Stored(e) /\ ~Unsent(e)

(* Everything the cloud has heard about a clip is what its Pi said of it. *)
OwnClaimInv ==
    /\ \A e \in Event :
         row[e] # NoRow => /\ row[e].dev = Pi /\ row[e].meta = ClipMeta
                           /\ row[e].key \in {NoKey, ClipKey(e)}
    /\ \A h \in Intent : intent[h] # Idle => \E e \in Event : intent[h].claim = ClaimOf(e)
    /\ \A m \in inbox : m = CloudForm(<<m.kind, m.ev>>)
    /\ ingest # Idle => ingest.msg = CloudForm(<<ingest.msg.kind, ingest.msg.ev>>)

(* So no intent is refused. *)
NotRefusedInv ==
    /\ call \notin {Replied("403"), Replied("409")}
    /\ \A e \in Event : fate[e] # "refused"

(* The device takes a clip for uploaded only once its PUT was stored. *)
DeviceClaimInv ==
    \A e \in Event :
        /\ (\/ Running("markUploaded", e) \/ Running("reload", e)
            \/ Running("publishDone", e) \/ Running("parkDone", e))
             => Stored(e)
        /\ upload[e] = "uploaded" => Stored(e)
        /\ fate[e] = "handedOver" => Stored(e)
        /\ (uploader = [at |-> "put", ev |-> e])
             => \/ call = NoCall
                \/ call = Replied("200") /\ Stored(e)

(* event/done follows the PUT and the record of it, wherever it is on its  *)
(* way to the table.                                                       *)
DoneFollowsPut(e) ==
    /\ backlog[<<"done", e>>] > 0 => Delivered(e)
    /\ <<"done", e>> \in unacked \cup wire => Delivered(e)
    /\ \A m \in inbox : m.kind = "done" /\ m.ev = e => Delivered(e)
    /\ ingest # Idle /\ ingest.msg.kind = "done" /\ ingest.msg.ev = e => Delivered(e)

DoneInv ==
    /\ \A e \in Event : DoneFollowsPut(e)
    /\ ingest # Idle /\ ingest.at = "update" => ingest.msg.kind = "done"

(* What the table says, or a viewer saw it say, of a clip rests on its PUT. *)
RowInv ==
    /\ \A e \in Event : row[e].status \in {"uploaded", "available"} => Delivered(e)
    /\ \A v \in Viewer : viewer[v] # Idle => Delivered(viewer[v].ev)

PipelineInv ==
    /\ DeviceInv
    /\ TypeOK
    /\ OwnClaimInv
    /\ NotRefusedInv
    /\ DeviceClaimInv
    /\ DoneInv
    /\ RowInv

-----------------------------------------------------------------------------
LEMMA PipelineInvInit == Init => PipelineInv
<1> SUFFICES ASSUME Init PROVE PipelineInv
    OBVIOUS
<1>1. DeviceInv /\ TypeOK
    BY DeviceInvInit, CloudTypeInit, PipelineAssumption
    DEF Init, TypeOK, DeviceInv, LinkTypeOK, NoCall
<1>2. OwnClaimInv /\ NotRefusedInv
    BY DEF Init, DeviceInit, CloudInit, OwnClaimInv, NotRefusedInv, NoCall, Replied
<1>3. DeviceClaimInv
    BY DEF Init, DeviceInit, DeviceClaimInv, Running, Free, Idle
<1>4. DoneInv /\ RowInv
  <2>1. \A e \in Event : backlog[<<"done", e>>] = 0
      BY EventMessages DEF Init, DeviceInit
  <2> QED
      BY <2>1 DEF Init, CloudInit, DoneInv, DoneFollowsPut, RowInv, NoRow
<1> QED
    BY <1>1, <1>2, <1>3, <1>4 DEF PipelineInv

LEMMA StoredStable ==
    ASSUME TypeOK, [Next]_vars, NEW e \in Event, Stored(e)
    PROVE  Stored(e)'
<1>1. ASSUME NEW f \in Event, PutObject(ClipKey(f), "stored") PROVE Stored(e)'
    BY <1>1, ClaimsAndMessages DEF PutObject, Stored, TypeOK, CloudTypeOK
<1>2. ASSUME NEW d \in Deleter, DeleteObject(d) PROVE Stored(e)'
    BY <1>2, ClaimsAndMessages DEF DeleteObject, Stored, TypeOK, CloudTypeOK
<1>3. (object' = object /\ purged' = purged) => Stored(e)'
    BY DEF Stored
<1>4. CASE CloudPart
    BY <1>1, <1>2, <1>3, <1>4 DEF CloudPart, PutLands, LatePutLands, PostIntent, Deliver,
        ServeIntent, ApiError, Ingest, IngestLoss, View, Delete, IngestStep, VerifyNext,
        DeleteNext, IntentRead, IntentCommit, IntentStale, IntentReject, IntentDbError,
        IntentArrive, Receive, Take, TakeAnnounce, TakeDone, InsertAnnounced, UpdateDone,
        IngestDbError, IngestCrash, VerifyRead, VerifyHead, VerifyCommit, DeleteRead, DeleteRow,
        DeleteError
<1> QED
    BY <1>3, <1>4, CloudParts DEF cloudVars

LEMMA DeliveredStable ==
    ASSUME DeviceInv, TypeOK, [Next]_vars, NEW e \in Event, Delivered(e)
    PROVE  Delivered(e)'
<1>1. ASSUME NEW f \in Event, AddRow(f) PROVE ~Unsent(e)'
  <2>1. f # e
      BY <1>1 DEF AddRow, DeviceInv, SectionInv, Delivered, Unsent
  <2> QED
      BY <1>1, <2>1 DEF AddRow, Delivered, Unsent, TypeOK, DeviceTypeOK
<1>2. ASSUME NEW f \in Event,
             \/ Spool(f) \/ IntentGranted(f) \/ IntentRefused(f) \/ MarkUploaded(f)
             \/ DonePublished(f) \/ ParkDone(f) \/ MarkDone(f) \/ RemoveRow(f)
      PROVE  ~Unsent(e)'
    BY <1>2 DEF Spool, IntentGranted, IntentRefused, MarkUploaded, DonePublished, ParkDone,
        MarkDone, RemoveRow, Delivered, Unsent, TypeOK, DeviceTypeOK
<1>3. UNCHANGED <<upload, fate>> => ~Unsent(e)'
    BY DEF Delivered, Unsent
<1>4. ~Unsent(e)'
    BY <1>1, <1>2, <1>3, DeviceSteps DEF DeviceNext, CaptureNext, ReplyNext, UploaderNext,
        DrainNext, deviceVars, AnnouncePublished, AnnounceUnsent, ParkAnnounce, SendIntent,
        ResumeUploaded, ExchangeFailed, PutSucceeded, Reload, DoneUnsent, Unlink, StepRaises, Housekeep,
        DrainPublished, DrainAck, OnConnect, OnDisconnect, Crash
<1> QED
    BY <1>4, StoredStable DEF Delivered

LEMMA OwnClaimNext ==
    ASSUME TypeOK, OwnClaimInv, DoneInv, [Next]_vars
    PROVE  OwnClaimInv'
<1> USE DEF TypeOK, CloudTypeOK, OwnClaimInv
<1>1. ASSUME NEW h \in Intent, NEW e \in Event, IntentArrive(h, ClaimOf(e)) PROVE OwnClaimInv'
    BY <1>1 DEF IntentArrive
<1>2. ASSUME NEW h \in Intent,
             \/ IntentRead(h) \/ IntentStale(h) \/ IntentDbError(h)
             \/ (\E why \in {"403", "409"} : IntentReject(h, why))
      PROVE  OwnClaimInv'
    BY <1>2 DEF IntentRead, IntentStale, IntentDbError, IntentReject, Idle
<1>3. ASSUME NEW h \in Intent, IntentCommit(h) PROVE OwnClaimInv'
  <2>1. PICK e \in Event : intent[h].claim = ClaimOf(e)
      BY <1>3 DEF IntentCommit, Idle
  <2>2. \A f \in Event :
          row'[f] # NoRow => /\ row'[f].dev = Pi /\ row'[f].meta = ClipMeta
                             /\ row'[f].key \in {NoKey, ClipKey(f)}
    <3>1. CASE IntentInsert(h)
        BY <2>1, <3>1 DEF IntentInsert, ClaimOf, ClipKey
    <3>2. CASE IntentUpdate(h)
      <4>1. /\ \A f \in Event \ {e} : row'[f] = row[f]
            /\ row[e] # NoRow /\ row'[e].dev = row[e].dev /\ row'[e].meta = row[e].meta
            /\ row'[e].key \in {row[e].key, EventKey(Pi, e)}
          BY <1>3, <2>1, <3>2, IntentWrites DEF IntentCommit, ClaimOf, Row, NoRow
      <4> QED
          BY <4>1 DEF ClipKey
    <3> QED
        BY <1>3, <3>1, <3>2 DEF IntentCommit
  <2> QED
      BY <1>3, <2>2 DEF IntentCommit
<1>4. ASSUME NEW m \in Message, Receive(CloudForm(m)) PROVE OwnClaimInv'
  <2>1. CloudForm(m) = CloudForm(<<CloudForm(m).kind, CloudForm(m).ev>>)
      BY DEF CloudForm, Message, Kind
  <2> HIDE DEF TypeOK, CloudTypeOK
  <2> QED
      BY <1>4, <2>1 DEF Receive
<1>5. ASSUME NEW m \in inbox, TakeAnnounce(m) \/ TakeDone(m) PROVE OwnClaimInv'
    BY <1>5 DEF TakeAnnounce, TakeDone, Take, CloudForm, Idle
<1>6. CASE InsertAnnounced
    BY <1>6 DEF InsertAnnounced, CloudForm, Idle
<1>7. CASE UpdateDone
  <2>1. ingest.msg.key = ClipKey(ingest.msg.ev)
    <3>1. ingest # Idle
        BY <1>7 DEF UpdateDone, Idle
    <3>2. ingest.msg.kind = "done"
        BY <1>7, <3>1 DEF UpdateDone, DoneInv
    <3> QED
        BY <3>1, <3>2 DEF CloudForm
  <2>2. ASSUME NEW f \in Event, row'[f] # NoRow
        PROVE  /\ row'[f].dev = Pi /\ row'[f].meta = ClipMeta
               /\ row'[f].key \in {NoKey, ClipKey(f)}
      BY <1>7, <2>1, <2>2, DoneWrites
  <2> QED
      BY <1>7, <2>2 DEF UpdateDone, Idle
<1>8. CASE IngestDbError \/ IngestCrash
    BY <1>8 DEF IngestDbError, IngestCrash
<1>9. ASSUME NEW v \in Viewer, VerifyCommit(v) PROVE OwnClaimInv'
    BY <1>9 DEF VerifyCommit, Exists, Row
<1>10. ASSUME NEW d \in Deleter, DeleteRow(d) PROVE OwnClaimInv'
    BY <1>10 DEF DeleteRow
<1>11. CASE UNCHANGED <<row, intent, inbox, ingest>>
    BY <1>11
<1> HIDE DEF TypeOK, CloudTypeOK, OwnClaimInv
<1>12. CASE CloudPart
    BY <1>1, <1>2, <1>3, <1>4, <1>5, <1>6, <1>7, <1>8, <1>9, <1>10, <1>11, <1>12
    DEF CloudPart, PutLands, LatePutLands, PostIntent, Deliver, ServeIntent, ApiError, Ingest,
        IngestLoss, View, Delete, IngestStep, VerifyNext, DeleteNext, PutObject, VerifyRead,
        VerifyHead, DeleteRead, DeleteObject, DeleteError
<1> QED
    BY <1>11, <1>12, CloudParts DEF cloudVars

(* The steps in which the device or the answer it waits for takes part. *)
DevicePart ==
    \/ \E e \in Event : \/ Record(e) \/ DeviceStep(e) \/ Raises(e) \/ Cleanup(e)
                        \/ (\E h \in Intent : PostIntent(e, h))
                        \/ IntentReply(e) \/ PutLands(e) \/ PutReply(e) \/ HttpTimeout(e)
    \/ \E m \in Message : Ack(m) \/ Published(m) \/ NotConnected(m) \/ PubackTimeout(m)
    \/ \E h \in Intent : ServeIntent(h) \/ ApiError(h)
    \/ Restart \/ LinkUp \/ LinkDown

LEMMA DeviceParts == [Next]_vars => DevicePart \/ UNCHANGED <<deviceVars, call>>
BY DEF Next, DevicePart, vars, LatePutLands, PahoRetry, Deliver, Ingest, IngestLoss, View, Delete,
    linkVars

LEMMA NotRefusedNext ==
    ASSUME TypeOK, OwnClaimInv, NotRefusedInv, [Next]_vars
    PROVE  NotRefusedInv'
<1> USE DEF NotRefusedInv, NoCall, Replied, Waiting
<1>1. ASSUME NEW h \in Intent, NEW why \in {"403", "409"}, IntentReject(h, why) PROVE FALSE
  <2>1. PICK e \in Event : intent[h].claim = ClaimOf(e)
      BY <1>1 DEF IntentReject, OwnClaimInv, Idle
  <2> QED
      BY <1>1, <2>1 DEF IntentReject, Forbidden, Conflict, Exists, ClaimOf, OwnClaimInv
<1>2. ASSUME NEW h \in Intent, ServeIntent(h) \/ ApiError(h) PROVE NotRefusedInv'
    BY <1>1, <1>2 DEF ServeIntent, ApiError, Answer, deviceVars
<1>3. ASSUME NEW e \in Event, NEW h \in Intent, PostIntent(e, h) PROVE NotRefusedInv'
    BY <1>3 DEF PostIntent, SendIntent
<1>4. ASSUME NEW e \in Event, IntentReply(e) PROVE NotRefusedInv'
    BY <1>4 DEF IntentReply, IntentGranted, ExchangeFailed, TypeOK, DeviceTypeOK
<1>5. ASSUME NEW e \in Event, PutLands(e) \/ PutReply(e) \/ HttpTimeout(e) PROVE NotRefusedInv'
    BY <1>5 DEF PutLands, PutReply, HttpTimeout, PutSucceeded, ExchangeFailed, deviceVars
<1>6. ASSUME NEW e \in Event, Record(e) \/ DeviceStep(e) \/ Raises(e) \/ Cleanup(e) PROVE NotRefusedInv'
    BY <1>6 DEF Record, DeviceStep, Raises, Cleanup, Spool, AddRow, ParkAnnounce, ResumeUploaded,
        MarkUploaded, Reload, ParkDone, MarkDone, RemoveRow, Unlink, StepRaises, Housekeep, linkVars, TypeOK,
        DeviceTypeOK
<1>7. ASSUME NEW m \in Message, Ack(m) \/ Published(m) \/ NotConnected(m) \/ PubackTimeout(m)
      PROVE  NotRefusedInv'
    BY <1>7 DEF Ack, Published, NotConnected, PubackTimeout, DrainAck, DrainPublished,
        AnnouncePublished, AnnounceUnsent, DonePublished, DoneUnsent, deviceVars, linkVars, TypeOK,
        DeviceTypeOK
<1>8. CASE Restart \/ LinkUp \/ LinkDown
    BY <1>8 DEF Restart, LinkUp, LinkDown, Crash, OnConnect, OnDisconnect, linkVars
<1> QED
    BY <1>2, <1>3, <1>4, <1>5, <1>6, <1>7, <1>8, DeviceParts DEF DevicePart, deviceVars

LEMMA DeviceClaimNext ==
    ASSUME DeviceInv, TypeOK, DeviceClaimInv, [Next]_vars
    PROVE  DeviceClaimInv'
<1> DEFINE Claimed(e) ==
             /\ (\/ Running("markUploaded", e) \/ Running("reload", e)
                 \/ Running("publishDone", e) \/ Running("parkDone", e))
                  => Stored(e)
             /\ upload[e] = "uploaded" => Stored(e)
             /\ fate[e] = "handedOver" => Stored(e)
             /\ (uploader = [at |-> "put", ev |-> e])
                  => call = NoCall \/ (call = Replied("200") /\ Stored(e))
<1> SUFFICES ASSUME NEW f \in Event PROVE Claimed(f)'
    BY DEF DeviceClaimInv
<1>a. Claimed(f)
    BY DEF DeviceClaimInv
<1>b. Stored(f) => Stored(f)'
    BY StoredStable
<1>c. upload \in [Event -> {"none", "pending", "uploaded", "done"}] /\ fate \in [Event -> Fate]
    BY DEF TypeOK, DeviceTypeOK
<1> HIDE DEF Stored
<1> USE DEF Running, GoTo, Awaiting, Free, Idle, NoCall, Replied, Waiting
<1>1. ASSUME NEW e \in Event, Record(e) \/ DeviceStep(e) \/ Raises(e) \/ Cleanup(e) PROVE Claimed(f)'
    BY <1>a, <1>b, <1>c, <1>1 DEF Record, DeviceStep, Raises, Cleanup, Spool, AddRow, ParkAnnounce,
        ResumeUploaded, MarkUploaded, Reload, ParkDone, MarkDone, RemoveRow, Unlink, StepRaises, Housekeep,
        linkVars
<1>2. ASSUME NEW e \in Event, NEW h \in Intent, PostIntent(e, h) PROVE Claimed(f)'
    BY <1>a, <1>b, <1>c, <1>2 DEF PostIntent, SendIntent
<1>3. ASSUME NEW e \in Event, IntentReply(e) PROVE Claimed(f)'
    BY <1>a, <1>b, <1>c, <1>3 DEF IntentReply, IntentGranted, IntentRefused, ExchangeFailed
<1>4. ASSUME NEW e \in Event, PutLands(e) PROVE Claimed(f)'
  <2>1. e = f => Stored(f)'
      BY <1>4, ClaimsAndMessages DEF PutLands, PutObject, Stored, TypeOK, CloudTypeOK
  <2> QED
      BY <1>a, <1>b, <1>4, <2>1 DEF PutLands, deviceVars
<1>5. ASSUME NEW e \in Event, PutReply(e) \/ HttpTimeout(e) PROVE Claimed(f)'
    BY <1>a, <1>b, <1>c, <1>5 DEF PutReply, HttpTimeout, PutSucceeded, ExchangeFailed
<1>6. ASSUME NEW m \in Message, Ack(m) \/ Published(m) \/ NotConnected(m) \/ PubackTimeout(m)
      PROVE  Claimed(f)'
    BY <1>a, <1>b, <1>c, <1>6 DEF Ack, Published, NotConnected, PubackTimeout, DrainAck,
        DrainPublished, AnnouncePublished, AnnounceUnsent, DonePublished, DoneUnsent, deviceVars,
        linkVars
<1>7. ASSUME NEW h \in Intent, ServeIntent(h) \/ ApiError(h) PROVE Claimed(f)'
    BY <1>a, <1>b, <1>7 DEF ServeIntent, ApiError, Answer, deviceVars
<1>8. CASE Restart \/ LinkUp \/ LinkDown
    BY <1>a, <1>b, <1>8 DEF Restart, LinkUp, LinkDown, Crash, OnConnect, OnDisconnect, linkVars
<1>9. CASE UNCHANGED <<deviceVars, call>>
    BY <1>a, <1>b, <1>9 DEF deviceVars
<1> QED
    BY <1>1, <1>2, <1>3, <1>4, <1>5, <1>6, <1>7, <1>8, <1>9, DeviceParts DEF DevicePart

(* Queueing and pruning make no row of a message that has none, but for    *)
(* the message that is queued.                                             *)
LEMMA OnlyParkedIsQueued ==
    ASSUME TypeOK, [Next]_vars, NEW f \in Event, backlog'[<<"done", f>>] > 0
    PROVE  backlog[<<"done", f>>] > 0 \/ Running("parkDone", f)
<1> DEFINE done == <<"done", f>>
<1>a. done \in Message /\ backlog \in [Message -> Nat] /\ backlog'[done] > 0
    BY EventMessages DEF TypeOK, DeviceTypeOK
<1> HIDE DEF done
<1>1. ASSUME NEW e \in Event, ParkDone(e) PROVE backlog[done] > 0 \/ Running("parkDone", f)
  <2>1. Enqueue(<<"done", e>>) /\ Running("parkDone", e)
      BY <1>1 DEF ParkDone
  <2>2. /\ done # <<"done", e>> => backlog'[done] <= backlog[done]
        /\ backlog' \in [Message -> Nat]
      BY <1>a, <2>1, EventMessages, EnqueueAddsOne
  <2>3. CASE done = <<"done", e>>
      BY <2>1, <2>3 DEF done
  <2>4. CASE done # <<"done", e>>
      BY <1>a, <2>2, <2>4
  <2> QED
      BY <2>3, <2>4
<1>2. ASSUME NEW e \in Event, ParkAnnounce(e) PROVE backlog[done] > 0
  <2>1. Enqueue(<<"announce", e>>)
      BY <1>2 DEF ParkAnnounce
  <2>2. done # <<"announce", e>>
      BY DEF done
  <2>3. backlog'[done] <= backlog[done] /\ backlog' \in [Message -> Nat]
      BY <1>a, <2>1, <2>2, EventMessages, EnqueueAddsOne
  <2> QED
      BY <1>a, <2>3
<1>3. ASSUME NEW e \in Event, AddRow(e) PROVE backlog[done] > 0
    BY <1>a, <1>3, PruningsShrink DEF AddRow
<1>4. ASSUME NEW m \in Message, DrainAck(m) PROVE backlog[done] > 0
    BY <1>a, <1>4 DEF DrainAck
<1>5. CASE UNCHANGED backlog
    BY <1>a, <1>5
<1> QED
    BY <1>1, <1>2, <1>3, <1>4, <1>5, DeviceSteps DEF DeviceNext, CaptureNext, ReplyNext,
        UploaderNext, DrainNext, deviceVars, Spool, AnnouncePublished, AnnounceUnsent, SendIntent,
        ResumeUploaded, IntentGranted, IntentRefused, ExchangeFailed, PutSucceeded, MarkUploaded,
        Reload, DonePublished, DoneUnsent, MarkDone, RemoveRow, Unlink, StepRaises, Housekeep, DrainPublished,
        OnConnect, OnDisconnect, Crash, done

LEMMA DoneNext ==
    ASSUME DeviceInv, TypeOK, DeviceClaimInv, DoneInv, [Next]_vars
    PROVE  DoneInv'
<1>1. ASSUME NEW f \in Event PROVE DoneFollowsPut(f)'
  <2> DEFINE done == <<"done", f>>
  <2> USE DEF DoneFollowsPut
  <2>a. DoneFollowsPut(f) /\ done \in Message
      BY <1>1, EventMessages DEF DoneInv
  <2>b. Delivered(f) => Delivered(f)'
      BY <1>1, DeliveredStable
  <2>c. Running("publishDone", f) \/ Running("parkDone", f) => Delivered(f)
      BY DEF DeviceInv, SectionInv, FateInv, DeviceClaimInv, Delivered, Unsent
  <2>1. backlog'[done] > 0 => Delivered(f)'
      BY <1>1, <2>a, <2>b, <2>c, OnlyParkedIsQueued
  <2> HIDE DEF Delivered
  <2>2. done \in (unacked \cup wire)' => Delivered(f)'
    <3>1. ASSUME NEW m \in Message, Published(m) \/ PubackTimeout(m), m = done PROVE Delivered(f)
        BY <1>1, <2>a, <2>c, <3>1 DEF Published, PubackTimeout, AnnouncePublished,
            AnnounceUnsent, DonePublished, DoneUnsent, DrainPublished
    <3>2. ASSUME NEW m \in Message, Published(m) \/ PubackTimeout(m)
          PROVE  (unacked \cup wire)' \subseteq unacked \cup wire \cup {m}
        BY <3>2 DEF Published, PubackTimeout
    <3>3. \/ \E m \in Message : Published(m) \/ PubackTimeout(m)
          \/ (unacked \cup wire)' \subseteq unacked \cup wire
        BY DEF Next, vars, linkVars, Record, DeviceStep, Raises, Cleanup, PostIntent, IntentReply,
            PutLands, PutReply, HttpTimeout, LatePutLands, Ack, NotConnected, PahoRetry, Deliver,
            ServeIntent, ApiError, Restart, LinkUp, LinkDown, Ingest, IngestLoss, View, Delete
    <3> HIDE DEF done
    <3> QED
        BY <2>a, <2>b, <3>1, <3>2, <3>3 DEF done
  <2>3. /\ \A m \in inbox' : m.kind = "done" /\ m.ev = f => Delivered(f)'
        /\ ingest' # Idle /\ ingest'.msg.kind = "done" /\ ingest'.msg.ev = f => Delivered(f)'
    <3>1. ASSUME NEW m \in Message, Deliver(m)
          PROVE  /\ \A n \in inbox' : n.kind = "done" /\ n.ev = f => Delivered(f)
                 /\ ingest' = ingest
      <4>1. inbox' \subseteq inbox \cup {CloudForm(m)} /\ m \in wire /\ ingest' = ingest
          BY <3>1 DEF Deliver, Receive
      <4>2. CloudForm(m).kind = "done" /\ CloudForm(m).ev = f => m = done
          BY DEF CloudForm, Message, Kind
      <4> QED
          BY <2>a, <4>1, <4>2
    <3>2. ASSUME NEW m \in inbox, TakeAnnounce(m) \/ TakeDone(m)
          PROVE  inbox' \subseteq inbox /\ (ingest' = Idle \/ ingest'.msg = m)
        BY <3>2 DEF TakeAnnounce, TakeDone, Take
    <3>3. \/ \E m \in Message : Deliver(m)
          \/ \E m \in inbox : TakeAnnounce(m) \/ TakeDone(m)
          \/ inbox' \subseteq inbox /\ ingest' \in {ingest, Idle}
        BY CloudParts DEF CloudPart, cloudVars, PutLands, LatePutLands, PostIntent, ServeIntent,
            ApiError, Ingest, IngestLoss, View, Delete, IngestStep, VerifyNext, DeleteNext,
            PutObject, IntentArrive, IntentRead, IntentCommit, IntentStale, IntentReject,
            IntentDbError, InsertAnnounced, UpdateDone, IngestDbError, IngestCrash, VerifyRead,
            VerifyHead, VerifyCommit, DeleteRead, DeleteObject, DeleteRow, DeleteError
    <3> QED
        BY <2>a, <2>b, <3>1, <3>2, <3>3
  <2> QED
      BY <2>1, <2>2, <2>3 DEF Idle
<1>2. ingest' # Idle /\ ingest'.at = "update" => ingest'.msg.kind = "done"
  <2>1. ASSUME NEW m \in inbox, TakeAnnounce(m) \/ TakeDone(m)
        PROVE  ingest'.at = "update" => ingest'.msg.kind = "done"
      BY <2>1 DEF TakeAnnounce, TakeDone, Take, Idle
  <2>2. \/ \E m \in inbox : TakeAnnounce(m) \/ TakeDone(m)
        \/ ingest' \in {ingest, Idle}
      BY CloudParts DEF CloudPart, cloudVars, PutLands, LatePutLands, PostIntent, Deliver,
          Receive, ServeIntent, ApiError, Ingest, IngestLoss, View, Delete, IngestStep,
          VerifyNext, DeleteNext, PutObject, IntentArrive, IntentRead, IntentCommit, IntentStale,
          IntentReject, IntentDbError, InsertAnnounced, UpdateDone, IngestDbError, IngestCrash,
          VerifyRead, VerifyHead, VerifyCommit, DeleteRead, DeleteObject, DeleteRow, DeleteError
  <2> QED
      BY <2>1, <2>2 DEF DoneInv
<1> QED
    BY <1>1, <1>2 DEF DoneInv, Idle

LEMMA RowNext ==
    ASSUME DeviceInv, TypeOK, DoneInv, RowInv, [Next]_vars
    PROVE  RowInv'
<1>a. ASSUME NEW e \in Event, Delivered(e) PROVE Delivered(e)'
    BY <1>a, DeliveredStable
<1> HIDE DEF Delivered
<1>1. ASSUME NEW e \in Event, row'[e].status \in {"uploaded", "available"} PROVE Delivered(e)
  <2> USE DEF TypeOK, CloudTypeOK
  <2>1. ASSUME NEW h \in Intent, IntentCommit(h) PROVE Delivered(e)
    <3>1. CASE IntentInsert(h)
        BY <1>1, <2>1, <3>1 DEF IntentInsert, RowInv
    <3>2. CASE IntentUpdate(h)
      <4>1. CASE e = intent[h].claim.ev
        <5>1. row[e] \in Row
            BY <3>2, <4>1 DEF IntentUpdate, Exists
        <5>2. row'[e].status = StatusAfterIntent(intent[h].seen.status, row[e].status)
            BY <3>2, <4>1, <5>1 DEF IntentUpdate, Row
        <5> QED
            BY <1>1, <5>2 DEF StatusAfterIntent, RowInv
      <4>2. CASE e # intent[h].claim.ev
          BY <1>1, <3>2, <4>2 DEF IntentUpdate, RowInv
      <4> QED
          BY <4>1, <4>2
    <3> QED
        BY <2>1, <3>1, <3>2 DEF IntentCommit
  <2>2. CASE InsertAnnounced
      BY <1>1, <2>2 DEF InsertAnnounced, RowInv
  <2>3. CASE UpdateDone
    <3>1. ingest # Idle /\ ingest.msg.kind = "done"
        BY <2>3 DEF UpdateDone, DoneInv, Idle
    <3>2. CASE e = ingest.msg.ev
        BY <3>1, <3>2 DEF DoneInv, DoneFollowsPut
    <3>3. CASE e # ingest.msg.ev
        BY <1>1, <2>3, <3>3 DEF UpdateDone, RowInv
    <3> QED
        BY <3>2, <3>3
  <2>4. ASSUME NEW v \in Viewer, VerifyCommit(v) PROVE Delivered(e)
    <3>1. viewer[v] \in [at : {"available", "failed"}, ev : Event, key : Key]
        BY <2>4 DEF VerifyCommit, ViewerState, Idle
    <3>2. CASE e = viewer[v].ev /\ Exists(e)
      <4>1. row[e] \in Row
          BY <3>2 DEF Exists
      <4>2. row'[e].status = viewer[v].at
          BY <2>4, <3>2, <4>1 DEF VerifyCommit, Row
      <4> QED
          BY <1>1, <3>1, <3>2, <4>2 DEF RowInv, Idle
    <3>3. CASE ~(e = viewer[v].ev /\ Exists(e))
        BY <1>1, <2>4, <3>3 DEF VerifyCommit, RowInv
    <3> QED
        BY <3>2, <3>3
  <2>5. ASSUME NEW d \in Deleter, DeleteRow(d) PROVE Delivered(e)
      BY <1>1, <2>5 DEF DeleteRow, RowInv, NoRow
  <2>6. CASE row' = row
      BY <1>1, <2>6 DEF RowInv
  <2> HIDE DEF TypeOK, CloudTypeOK
  <2> QED
      BY <1>1, <2>1, <2>2, <2>3, <2>4, <2>5, <2>6, CloudSteps DEF CloudNext, IntentStep,
          IngestStep, VerifyNext, DeleteNext, IntentRead, IntentStale, IntentReject,
          IntentDbError, IntentArrive, Receive, Take, TakeAnnounce, TakeDone, IngestDbError,
          IngestCrash, PutObject, VerifyRead, VerifyHead, DeleteRead, DeleteObject, DeleteError,
          cloudVars
<1>2. ASSUME NEW v \in Viewer, viewer'[v] # Idle
      PROVE  viewer'[v].ev \in Event /\ Delivered(viewer'[v].ev)
  <2> USE DEF TypeOK, CloudTypeOK
  <2>1. CASE viewer'[v] = viewer[v]
      BY <1>2, <2>1 DEF RowInv, ViewerState, Idle
  <2>2. ASSUME NEW w \in Viewer, VerifyHead(w), viewer'[v] # viewer[v]
        PROVE  viewer'[v].ev \in Event /\ Delivered(viewer'[v].ev)
    <3>1. w = v
        BY <2>2 DEF VerifyHead
    <3>2. viewer[v] \in [at : {"head"}, ev : Event, key : Key]
        BY <2>2, <3>1 DEF VerifyHead, ViewerState, Idle
    <3>3. viewer'[v].ev = viewer[v].ev
        BY <1>2, <2>2, <3>1, <3>2 DEF VerifyHead
    <3> QED
        BY <3>2, <3>3 DEF RowInv, Idle
  <2>3. ASSUME NEW w \in Viewer, NEW e \in Event, VerifyRead(w, e), viewer'[v] # viewer[v]
        PROVE  viewer'[v].ev \in Event /\ Delivered(viewer'[v].ev)
      BY <2>3 DEF VerifyRead, RowInv
  <2>4. ASSUME NEW w \in Viewer, VerifyCommit(w), viewer'[v] # viewer[v]
        PROVE  FALSE
      BY <1>2, <2>4 DEF VerifyCommit
  <2> HIDE DEF TypeOK, CloudTypeOK
  <2> QED
      BY <2>1, <2>2, <2>3, <2>4, CloudSteps DEF CloudNext, IntentStep, IngestStep, VerifyNext,
          DeleteNext, IntentRead, IntentCommit, IntentStale, IntentReject, IntentDbError,
          IntentArrive, Receive, Take, TakeAnnounce, TakeDone, InsertAnnounced, UpdateDone,
          IngestDbError, IngestCrash, PutObject, DeleteRead, DeleteObject, DeleteRow,
          DeleteError, cloudVars
<1>3. \A e \in Event : row'[e].status \in {"uploaded", "available"} => Delivered(e)'
    BY <1>a, <1>1
<1>4. \A v \in Viewer : viewer'[v] # Idle => Delivered(viewer[v].ev)'
    BY <1>a, <1>2 DEF Delivered, Stored, Unsent
<1> QED
    BY <1>3, <1>4 DEF RowInv, Idle

LEMMA PipelineInvNext == PipelineInv /\ [Next]_vars => PipelineInv'
<1> SUFFICES ASSUME PipelineInv, [Next]_vars PROVE PipelineInv'
    OBVIOUS
<1>1. DeviceInv' /\ TypeOK'
    BY DeviceSteps, DeviceInvNext, CloudSteps, CloudTypeNext, LinkTypeNext
    DEF PipelineInv, TypeOK, DeviceInv
<1>2. OwnClaimInv' /\ NotRefusedInv'
    BY OwnClaimNext, NotRefusedNext DEF PipelineInv
<1>3. DeviceClaimInv' /\ DoneInv' /\ RowInv'
    BY DeviceClaimNext, DoneNext, RowNext DEF PipelineInv
<1> QED
    BY <1>1, <1>2, <1>3 DEF PipelineInv

LEMMA PipelineInvHolds == Spec => []PipelineInv
BY PipelineInvInit, PipelineInvNext, PTL DEF Spec

(* Whatever times out, is lost, repeated or reordered, and wherever the    *)
(* process dies: Uploader and QueueStore unlink a FLAC and forget its row  *)
(* only when its bytes are in the bucket.                                  *)
THEOREM AudioIsKept == Spec => []AudioKept
<1>1. PipelineInv => AudioKept
  <2> SUFFICES ASSUME PipelineInv, NEW e \in Event, fate[e] \notin {"new", "spooled"}
               PROVE  \/ e \in spool /\ upload[e] \in {"pending", "uploaded"}
                      \/ object[ClipKey(e)] = "stored"
                      \/ ClipKey(e) \in purged \/ e \in cleaned
      BY DEF AudioKept
  <2>1. fate[e] \in {"open", "handedOver", "fileGone"}
      BY DEF PipelineInv, NotRefusedInv, DeviceInv, DeviceTypeOK, Fate
  <2>2. CASE fate[e] = "open"
      BY <2>2 DEF PipelineInv, DeviceInv, OpenClipIsListed, FileInv
  <2>3. CASE fate[e] = "handedOver"
      BY <2>3 DEF PipelineInv, DeviceClaimInv, Stored
  <2>4. CASE fate[e] = "fileGone"
      BY <2>4 DEF PipelineInv, DeviceInv, FateInv
  <2> QED
      BY <2>1, <2>2, <2>3, <2>4
<1> QED
    BY PipelineInvHolds, <1>1, PTL

(* No event/done outruns its PUT, and _verify_uploaded promotes nothing    *)
(* that is not there: what the table shows as uploaded or available is in  *)
(* the bucket unless it was deleted, under the key the row holds.          *)
THEOREM UploadedIsInTheBucket == Spec => []UploadedIsStored
<1>1. PipelineInv => UploadedIsStored
    BY DEF PipelineInv, OwnClaimInv, RowInv, UploadedIsStored, Delivered, Stored, NoRow
<1> QED
    BY PipelineInvHolds, <1>1, PTL

-----------------------------------------------------------------------------
(* The life of a row.  The API takes no row lock, so the table of          *)
(* transitions is kept by the order in which the clip's Pi asks.  Two      *)
(* things can break that order: a deletion between another handler's read  *)
(* of a row and its write, and an intent that commits after the clip it    *)
(* was asked for has been uploaded.                                        *)
InHand(e) ==
    \/ Updating /\ ingest.msg.ev = e
    \/ \E v \in Viewer : viewer[v] # Idle /\ viewer[v].ev = e

NoneDeletedInUse == \A e \in Event : row[e] # NoRow /\ InHand(e) => row'[e] # NoRow

NoIntentOutlived == \A h \in Intent : IntentCommit(h) => upload[intent[h].claim.ev] = "pending"

InOrder == NoneDeletedInUse /\ NoIntentOutlived

(* Then what a handler read of a row is still so when it writes. *)
LifeInv ==
    /\ \A e \in Event : row[e].status # "failed"
    /\ \A k \in Key : object[k] # "wrongSize"
    /\ Updating => /\ ingest.target = "uploaded"
                   /\ row[ingest.msg.ev].status = "upload_intent_created"
    /\ \A v \in Viewer :
         viewer[v] # Idle => /\ viewer[v].at # "failed"
                             /\ row[viewer[v].ev].status \in {"uploaded", "available"}

(* The moves of a row that are left. *)
MovesAlong(e) ==
    LET old == row[e].status
        new == row'[e].status
    IN  \/ new = old
        \/ old = "none" /\ new \in {"announced", "upload_intent_created"}
        \/ old = "announced" /\ new = "upload_intent_created"
        \/ old = "upload_intent_created" /\ new = "uploaded"
        \/ old = "uploaded" /\ new = "available"
        \/ old # "none" /\ new = "none"

LEMMA LifeInvInit == Init => LifeInv
BY DEF Init, CloudInit, LifeInv, Updating, NoRow

LEMMA IntentMovesAlong ==
    ASSUME PipelineInv, LifeInv, NoIntentOutlived, NEW h \in Intent, IntentCommit(h),
           NEW e \in Event
    PROVE  MovesAlong(e)
<1> DEFINE f == intent[h].claim.ev
<1>1. CloudTypeOK /\ f \in Event
    BY DEF PipelineInv, TypeOK, CloudTypeOK, IntentState, Claim, IntentCommit, Idle
<1>2. row[f] = NoRow \/ (row[f] \in Row /\ row[f].status \in {"announced", "upload_intent_created"})
  <2>1. ~Delivered(f)
      BY DEF NoIntentOutlived, Delivered, Unsent
  <2> QED
      BY <1>1, <2>1 DEF PipelineInv, RowInv, CloudTypeOK, Row, Status, LifeInv
<1> HIDE DEF f
<1>3. CASE IntentInsert(h)
    BY <1>1, <1>2, <1>3 DEF IntentInsert, Exists, CloudTypeOK, NoRow, MovesAlong, f
<1>4. CASE IntentUpdate(h)
  <2>1. CASE e = f
    <3>1. row'[f].status = StatusAfterIntent(intent[h].seen.status, row[f].status)
        BY <1>1, <1>2, <1>4 DEF IntentUpdate, Exists, CloudTypeOK, Row, f
    <3>2. row[f].status \in {"announced", "upload_intent_created"}
        BY <1>2, <1>4 DEF IntentUpdate, Exists, f
    <3> QED
        BY <2>1, <3>1, <3>2 DEF StatusAfterIntent, MovesAlong
  <2>2. CASE e # f
      BY <1>1, <1>4, <2>2 DEF IntentUpdate, CloudTypeOK, MovesAlong, f
  <2> QED
      BY <2>1, <2>2
<1> QED
    BY <1>3, <1>4 DEF IntentCommit

LEMMA RowMovesAlong ==
    ASSUME PipelineInv, LifeInv, InOrder, [Next]_vars, NEW e \in Event
    PROVE  MovesAlong(e)
<1>a. CloudTypeOK /\ [CloudNext]_cloudVars
    BY CloudSteps DEF PipelineInv, TypeOK
<1>b. row[e] = NoRow \/ row[e] \in Row
    BY <1>a DEF CloudTypeOK
<1>1. ASSUME NEW h \in Intent, IntentCommit(h) PROVE MovesAlong(e)
    BY <1>1, IntentMovesAlong DEF InOrder
<1>2. CASE InsertAnnounced
    BY <1>a, <1>2 DEF InsertAnnounced, CloudTypeOK, Exists, NoRow, MovesAlong
<1>3. CASE UpdateDone
  <2>1. Updating
      BY <1>3 DEF UpdateDone, Updating, Idle
  <2>2. ingest.target = "uploaded" /\ row[ingest.msg.ev].status = "upload_intent_created"
      BY <2>1 DEF LifeInv
  <2>3. CASE e = ingest.msg.ev
    <3>1. row[e] \in Row
        BY <1>b, <2>2, <2>3 DEF NoRow
    <3>2. row'[e].status \in {"uploaded", row[e].status}
        BY <1>a, <1>3, <2>2, <2>3, <3>1, DoneWrites DEF Row, NoRow
    <3> QED
        BY <2>2, <2>3, <3>2 DEF MovesAlong
  <2>4. CASE e # ingest.msg.ev
      BY <1>a, <1>3, <2>4, DoneWrites DEF MovesAlong
  <2> QED
      BY <2>3, <2>4
<1>4. ASSUME NEW v \in Viewer, VerifyCommit(v) PROVE MovesAlong(e)
  <2>1. viewer[v] # Idle
      BY <1>4 DEF VerifyCommit, Idle
  <2>2. viewer[v].at = "available" /\ row[viewer[v].ev].status \in {"uploaded", "available"}
      BY <1>4, <2>1 DEF VerifyCommit, LifeInv
  <2>3. CASE e = viewer[v].ev
    <3>1. row[e] \in Row
        BY <1>b, <2>2, <2>3 DEF NoRow
    <3>2. row'[e].status = "available"
        BY <1>a, <1>4, <2>2, <2>3, <3>1 DEF VerifyCommit, CloudTypeOK, Exists, Row, NoRow
    <3> QED
        BY <2>2, <2>3, <3>2 DEF MovesAlong
  <2>4. CASE e # viewer[v].ev
      BY <1>a, <1>4, <2>4 DEF VerifyCommit, CloudTypeOK, MovesAlong
  <2> QED
      BY <2>3, <2>4
<1>5. ASSUME NEW d \in Deleter, DeleteRow(d) PROVE MovesAlong(e)
    BY <1>a, <1>b, <1>5 DEF DeleteRow, CloudTypeOK, NoRow, Row, Status, MovesAlong
<1>6. row' = row => MovesAlong(e)
    BY DEF MovesAlong
<1> QED
    BY <1>a, <1>1, <1>2, <1>3, <1>4, <1>5, <1>6 DEF CloudNext, IntentStep, IngestStep, VerifyNext,
        DeleteNext, IntentRead, IntentStale, IntentReject, IntentDbError, IntentArrive, Receive,
        Take, TakeAnnounce, TakeDone, IngestDbError, IngestCrash, PutObject, VerifyRead,
        VerifyHead, DeleteRead, DeleteObject, DeleteError, cloudVars

(* No step touches two rows. *)
LEMMA OneRowMoves ==
    ASSUME CloudTypeOK, [CloudNext]_cloudVars
    PROVE  row' = row \/ \E e \in Event : \A f \in Event \ {e} : row'[f] = row[f]
<1> USE DEF CloudTypeOK
<1>1. ASSUME NEW h \in Intent, IntentCommit(h)
      PROVE  \E e \in Event : \A f \in Event \ {e} : row'[f] = row[f]
  <2>1. intent[h].claim.ev \in Event
      BY <1>1 DEF IntentCommit, IntentState, Idle, Claim
  <2> QED
      BY <1>1, <2>1 DEF IntentCommit, IntentInsert, IntentUpdate
<1>2. ASSUME InsertAnnounced \/ UpdateDone
      PROVE  \E e \in Event : \A f \in Event \ {e} : row'[f] = row[f]
  <2>1. ingest.msg.ev \in Event
      BY <1>2 DEF InsertAnnounced, UpdateDone, IngestState, Idle, AnnounceMessage, DoneMessage
  <2> QED
      BY <1>2, <2>1 DEF InsertAnnounced, UpdateDone
<1>3. ASSUME NEW v \in Viewer, VerifyCommit(v)
      PROVE  \E e \in Event : \A f \in Event \ {e} : row'[f] = row[f]
  <2>1. viewer[v].ev \in Event
      BY <1>3 DEF VerifyCommit, ViewerState, Idle
  <2> QED
      BY <1>3, <2>1 DEF VerifyCommit
<1>4. ASSUME NEW d \in Deleter, DeleteRow(d)
      PROVE  \E e \in Event : \A f \in Event \ {e} : row'[f] = row[f]
  <2>1. deleter[d].ev \in Event
      BY <1>4 DEF DeleteRow, DeleterState, Idle
  <2> QED
      BY <1>4, <2>1 DEF DeleteRow
<1> HIDE DEF CloudTypeOK
<1> QED
    BY <1>1, <1>2, <1>3, <1>4 DEF CloudNext, IntentStep, IngestStep, VerifyNext, DeleteNext,
        IntentRead, IntentStale, IntentReject, IntentDbError, IntentArrive, Receive, Take,
        TakeAnnounce, TakeDone, IngestDbError, IngestCrash, PutObject, VerifyRead, VerifyHead,
        DeleteRead, DeleteObject, DeleteError, cloudVars

LEMMA LifeInvNext ==
    ASSUME PipelineInv, LifeInv, [Next]_vars, [InOrder]_vars
    PROVE  LifeInv'
<1>a. CloudTypeOK /\ CloudTypeOK' /\ [CloudNext]_cloudVars
    BY CloudSteps, CloudTypeNext DEF PipelineInv, TypeOK
<1>b. ASSUME NEW e \in Event PROVE MovesAlong(e) /\ (row[e] # NoRow /\ InHand(e) => row'[e] # NoRow)
  <2>1. CASE UNCHANGED vars
      BY <2>1 DEF vars, cloudVars, MovesAlong
  <2>2. CASE InOrder
      BY <1>b, <2>2, RowMovesAlong DEF InOrder, NoneDeletedInUse
  <2> QED
      BY <2>1, <2>2
<1>c. \A e \in Event : row'[e].status = "none" => row'[e] = NoRow
    BY <1>a DEF CloudTypeOK, Row, Status
<1>1. ASSUME NEW e \in Event PROVE row'[e].status # "failed"
    BY <1>1, <1>b DEF MovesAlong, LifeInv
<1>2. ASSUME NEW k \in Key PROVE object'[k] # "wrongSize"
  <2>1. ASSUME NEW f \in Event, PutObject(ClipKey(f), "stored") PROVE object'[k] # "wrongSize"
      BY <1>a, <1>2, <2>1 DEF PutObject, CloudTypeOK, LifeInv
  <2>2. ASSUME NEW d \in Deleter, DeleteObject(d) PROVE object'[k] # "wrongSize"
      BY <1>a, <1>2, <2>2 DEF DeleteObject, CloudTypeOK, LifeInv
  <2>3. object' = object => object'[k] # "wrongSize"
      BY <1>2 DEF LifeInv
  <2> QED
      BY <2>1, <2>2, <2>3, CloudParts DEF CloudPart, PutLands, LatePutLands, PostIntent, Deliver,
          ServeIntent, ApiError, Ingest, IngestLoss, View, Delete, IngestStep, VerifyNext,
          DeleteNext, IntentRead, IntentCommit, IntentStale, IntentReject, IntentDbError,
          IntentArrive, Receive, Take, TakeAnnounce, TakeDone, InsertAnnounced, UpdateDone,
          IngestDbError, IngestCrash, VerifyRead, VerifyHead, VerifyCommit, DeleteRead, DeleteRow,
          DeleteError, cloudVars
<1>3. ASSUME Updating'
      PROVE  /\ ingest'.target = "uploaded"
             /\ row'[ingest'.msg.ev].status = "upload_intent_created"
  <2>1. CASE ingest' = ingest
    <3> DEFINE e == ingest.msg.ev
    <3>1. Updating /\ e \in Event
        BY <1>a, <1>3, <2>1, UpdatingIs DEF Updating
    <3>2. ingest.target = "uploaded" /\ row[e].status = "upload_intent_created"
        BY <3>1 DEF LifeInv
    <3>3. row'[e].status # "none"
        BY <1>b, <1>c, <3>1, <3>2 DEF InHand, NoRow
    <3>4. row'[e].status # "uploaded"
        BY <1>3, <1>a, <2>1, <3>1, <3>2, OnlyDoneUploads DEF UpdateDone, Updating
    <3> QED
        BY <1>b, <2>1, <3>1, <3>2, <3>3, <3>4 DEF MovesAlong
  <2>2. CASE ingest' # ingest
    <3>1. PICK m \in inbox :
            /\ m.kind = "done" /\ DoneApplies(m) /\ row' = row
            /\ ingest' = [at |-> "update", msg |-> m, seen |-> row[m.ev],
                          target |-> DoneTarget(m)]
        BY <1>a, <1>3, <2>2, UpdatingBegins
    <3>2. m.ev \in Event /\ row[m.ev] # NoRow
        BY <1>a, <3>1 DEF DoneApplies, Exists, CloudTypeOK, CloudMessage, AnnounceMessage, DoneMessage
    <3>3. DoneTarget(m) = "uploaded"
        BY <3>1, <3>2 DEF PipelineInv, OwnClaimInv, CloudForm, DoneTarget
    <3>4. row[m.ev].status \in Status /\ row[m.ev].status # "failed"
        BY <1>a, <3>2 DEF CloudTypeOK, Row, LifeInv
    <3>5. row[m.ev].status = "upload_intent_created"
        BY <3>1, <3>3, <3>4 DEF DoneApplies, IsValidTransition, Successors, Status
    <3> QED
        BY <3>1, <3>3, <3>5
  <2> QED
      BY <2>1, <2>2
<1>4. ASSUME NEW v \in Viewer, viewer'[v] # Idle
      PROVE  /\ viewer'[v].at # "failed"
             /\ row'[viewer'[v].ev].status \in {"uploaded", "available"}
  <2>1. CASE viewer'[v] = viewer[v]
    <3>1. viewer[v].ev \in Event /\ InHand(viewer[v].ev)
        BY <1>a, <1>4, <2>1 DEF CloudTypeOK, ViewerState, InHand
    <3>2. viewer[v].at # "failed" /\ row[viewer[v].ev].status \in {"uploaded", "available"}
        BY <1>4, <2>1 DEF LifeInv
    <3>3. row'[viewer[v].ev].status # "none"
        BY <1>b, <1>c, <3>1, <3>2 DEF NoRow
    <3> QED
        BY <1>b, <2>1, <3>1, <3>2, <3>3 DEF MovesAlong
  <2>2. ASSUME NEW w \in Viewer, VerifyHead(w), viewer'[v] # viewer[v]
        PROVE  /\ viewer'[v].at # "failed"
               /\ row'[viewer'[v].ev].status \in {"uploaded", "available"}
    <3>1. w = v /\ row' = row
        BY <1>a, <2>2 DEF VerifyHead, CloudTypeOK
    <3>2. viewer[v] \in [at : {"head"}, ev : Event, key : Key]
        BY <1>a, <2>2, <3>1 DEF VerifyHead, CloudTypeOK, ViewerState, Idle
    <3>3. /\ object[viewer[v].key] = "stored"
          /\ viewer'[v].at = "available" /\ viewer'[v].ev = viewer[v].ev
        BY <1>a, <1>4, <2>2, <3>1, <3>2 DEF VerifyHead, CloudTypeOK, LifeInv, Idle
    <3> QED
        BY <3>1, <3>2, <3>3 DEF LifeInv, Idle
  <2>3. ASSUME NEW w \in Viewer, NEW e \in Event, VerifyRead(w, e), viewer'[v] # viewer[v]
        PROVE  /\ viewer'[v].at # "failed"
               /\ row'[viewer'[v].ev].status \in {"uploaded", "available"}
      BY <1>a, <2>3 DEF VerifyRead, CloudTypeOK
  <2>4. ASSUME NEW w \in Viewer, VerifyCommit(w), viewer'[v] # viewer[v] PROVE FALSE
      BY <1>4, <1>a, <2>4 DEF VerifyCommit, CloudTypeOK
  <2> QED
      BY <1>a, <2>1, <2>2, <2>3, <2>4 DEF CloudNext, IntentStep, IngestStep, VerifyNext,
          DeleteNext, IntentRead, IntentCommit, IntentStale, IntentReject, IntentDbError,
          IntentArrive, Receive, Take, TakeAnnounce, TakeDone, InsertAnnounced, UpdateDone,
          IngestDbError, IngestCrash, PutObject, DeleteRead, DeleteObject, DeleteRow,
          DeleteError, cloudVars
<1> QED
    BY <1>1, <1>2, <1>3, <1>4 DEF LifeInv, Updating

LEMMA LifecycleStep ==
    ASSUME PipelineInv, LifeInv, [Next]_vars, [InOrder]_vars
    PROVE  [Lifecycle!Next]_([e \in Event |-> row[e].status])
<1> DEFINE status == [e \in Event |-> row[e].status]
<1>a. CloudTypeOK /\ [CloudNext]_cloudVars
    BY CloudSteps DEF PipelineInv, TypeOK
<1>1. CASE row' = row
    BY <1>1
<1>2. CASE row' # row
  <2>1. InOrder
      BY <1>2 DEF vars, cloudVars
  <2>2. PICK e \in Event : \A f \in Event \ {e} : row'[f] = row[f]
      BY <1>a, <1>2, OneRowMoves
  <2>3. status' = [status EXCEPT ![e] = row'[e].status]
      BY <2>2
  <2>4. MovesAlong(e)
      BY <2>1, RowMovesAlong
  <2>5. row[e].status = status[e]
      OBVIOUS
  <2> HIDE DEF status
  <2>6. /\ "upload_intent_created" \in Lifecycle!Successors["announced"]
        /\ "uploaded" \in Lifecycle!Successors["upload_intent_created"]
        /\ "available" \in Lifecycle!Successors["uploaded"]
      BY DEF Lifecycle!Successors
  <2>7. CASE status'[e] = status[e]
      BY <2>3, <2>5, <2>7 DEF status
  <2>8. CASE status[e] = "none" /\ row'[e].status \in {"announced", "upload_intent_created"}
      BY <2>3, <2>8 DEF Lifecycle!Next, Lifecycle!Create, status
  <2>9. CASE status[e] # "none" /\ row'[e].status \in Lifecycle!Successors[status[e]]
      BY <2>3, <2>9 DEF Lifecycle!Next, Lifecycle!Advance, status
  <2>10. CASE status[e] # "none" /\ row'[e].status = "none"
      BY <2>3, <2>10 DEF Lifecycle!Next, Lifecycle!Remove, status
  <2> QED
      BY <2>3, <2>4, <2>5, <2>6, <2>7, <2>8, <2>9, <2>10 DEF MovesAlong, status
<1> QED
    BY <1>1, <1>2

(* As long as no row is deleted under a handler that has read it and no    *)
(* intent commits after the upload it was asked for, a row moves only      *)
(* along EVENT_STATE_TRANSITIONS, for any number of clips, requests,       *)
(* timeouts, redeliveries, crashes and losses.                             *)
THEOREM LifecycleFollowed == Spec /\ [][InOrder]_vars => FollowsLifecycle
<1>1. Init => Lifecycle!Init
    BY DEF Init, CloudInit, Lifecycle!Init, NoRow
<1>2. PipelineInv /\ LifeInv /\ [Next]_vars /\ [InOrder]_vars
        => LifeInv' /\ [Lifecycle!Next]_([e \in Event |-> row[e].status])
    BY LifeInvNext, LifecycleStep
<1> QED
    BY PipelineInvHolds, LifeInvInit, <1>1, <1>2, PTL DEF Spec, FollowsLifecycle, Lifecycle!Spec

(* "The `available` state is terminal": what _verify_uploaded has checked  *)
(* is not taken back, under the same order.                                *)
THEOREM AvailableStays == Spec /\ [][InOrder]_vars => AvailableIsTerminal
<1> DEFINE Stays == \A e \in Event :
                      row[e].status = "available" => row'[e].status \in {"available", "none"}
<1>1. PipelineInv /\ LifeInv /\ [Next]_vars /\ [InOrder]_vars => LifeInv' /\ [Stays]_vars
    BY LifeInvNext, RowMovesAlong DEF MovesAlong
<1> QED
    BY PipelineInvHolds, LifeInvInit, <1>1, PTL DEF Spec, AvailableIsTerminal

-----------------------------------------------------------------------------
(* The order is kept when the API has no two intents of the Pi at once:    *)
(* the uploader asks for one clip after the other, so an intent still      *)
(* being served is the one it waits for or has just given up on.           *)
OneAtATime == \A g, h \in Intent : intent[g] # Idle /\ intent[h] # Idle => g = h

TurnInv ==
    \A h \in Intent :
        intent[h] # Idle =>
          /\ upload[intent[h].claim.ev] = "pending"
          /\ uploader # Idle => uploader.at = "intent" /\ call = Waiting(h)
          /\ \A step \in UploaderStep : ~Running(step, intent[h].claim.ev)

LEMMA TurnInvInit == Init => TurnInv
BY DEF Init, CloudInit, TurnInv

(* What is being served was being served, or the device has just asked. *)
LEMMA BeingServed ==
    ASSUME CloudTypeOK, [Next]_vars, NEW h \in Intent, intent'[h] # Idle
    PROVE  \/ intent[h] # Idle /\ intent'[h].claim = intent[h].claim
           \/ \E e \in Event : PostIntent(e, h)
<1> USE DEF CloudTypeOK
<1>1. ASSUME NEW e \in Event, NEW g \in Intent, PostIntent(e, g)
      PROVE  \/ intent[h] # Idle /\ intent'[h].claim = intent[h].claim
             \/ PostIntent(e, h)
    BY <1>1 DEF PostIntent, IntentArrive
<1>2. ASSUME NEW g \in Intent, ServeIntent(g) \/ ApiError(g)
      PROVE  intent[h] # Idle /\ intent'[h].claim = intent[h].claim
    BY <1>2 DEF ServeIntent, ApiError, IntentRead, IntentCommit, IntentStale, IntentReject,
        IntentDbError, Idle
<1>3. CASE intent' = intent
    BY <1>3
<1> HIDE DEF CloudTypeOK
<1> QED
    BY <1>1, <1>2, <1>3, CloudParts DEF CloudPart, PutLands, LatePutLands, Deliver, Ingest,
        IngestLoss, View, Delete, IngestStep, VerifyNext, DeleteNext, PutObject, Receive, Take,
        TakeAnnounce, TakeDone, InsertAnnounced, UpdateDone, IngestDbError, IngestCrash,
        VerifyRead, VerifyHead, VerifyCommit, DeleteRead, DeleteObject, DeleteRow, DeleteError,
        cloudVars

LEMMA TurnInvNext ==
    ASSUME PipelineInv, TurnInv, OneAtATime, OneAtATime', [Next]_vars
    PROVE  TurnInv'
<1> SUFFICES ASSUME NEW h \in Intent, intent'[h] # Idle
             PROVE  /\ upload'[intent'[h].claim.ev] = "pending"
                    /\ uploader' # Idle => uploader'.at = "intent" /\ call' = Waiting(h)
                    /\ \A step \in UploaderStep :
                         thread' # [at |-> step, ev |-> intent'[h].claim.ev]
    BY DEF TurnInv, Running, Waiting
<1>a. TypeOK /\ DeviceInv
    BY DEF PipelineInv
<1>1. ASSUME NEW e \in Event, PostIntent(e, h)
      PROVE  /\ upload'[intent'[h].claim.ev] = "pending"
             /\ uploader' # Idle => uploader'.at = "intent" /\ call' = Waiting(h)
             /\ \A step \in UploaderStep : thread' # [at |-> step, ev |-> intent'[h].claim.ev]
  <2>1. intent'[h].claim.ev = e
      BY <1>a, <1>1 DEF PostIntent, IntentArrive, ClaimOf, TypeOK, CloudTypeOK
  <2> QED
      BY <1>1, <2>1 DEF PostIntent, SendIntent, Running, Free, UploaderStep
<1>2. CASE intent[h] # Idle /\ intent'[h].claim = intent[h].claim
  <2> DEFINE f == intent[h].claim.ev
  <2>a. /\ upload[f] = "pending"
        /\ uploader # Idle => uploader.at = "intent" /\ call = Waiting(h)
        /\ \A step \in UploaderStep : ~Running(step, f)
      BY <1>2 DEF TurnInv
  <2>b. f \in Event
      BY <1>2, <1>a DEF TypeOK, CloudTypeOK, IntentState, Idle, Claim
  <2> DEFINE Kept == /\ upload'[f] = "pending"
                     /\ uploader' # Idle => uploader'.at = "intent" /\ call' = Waiting(h)
                     /\ \A step \in UploaderStep : thread' # [at |-> step, ev |-> f]
  <2> HIDE DEF f
  <2> USE DEF Running, GoTo, Free, UploaderStep
  <2>1. ASSUME NEW e \in Event, Record(e) \/ DeviceStep(e) \/ Raises(e) \/ Cleanup(e) PROVE Kept
      BY <1>a, <2>a, <2>b, <2>1 DEF Record, DeviceStep, Raises, Cleanup, Spool, AddRow, ParkAnnounce,
          ResumeUploaded, MarkUploaded, Reload, ParkDone, MarkDone, RemoveRow, Unlink, StepRaises, Housekeep,
          linkVars, TypeOK, DeviceTypeOK
  <2>2. ASSUME NEW e \in Event, NEW g \in Intent, PostIntent(e, g) PROVE Kept
    <3>1. g # h /\ intent'[g] # Idle
        BY <1>a, <1>2, <2>2 DEF PostIntent, IntentArrive, Idle, TypeOK, CloudTypeOK
    <3> QED
        BY <3>1 DEF OneAtATime
  <2>3. ASSUME NEW e \in Event, IntentReply(e) \/ PutLands(e) \/ PutReply(e) PROVE FALSE
      BY <2>a, <2>3 DEF IntentReply, IntentGranted, IntentRefused, ExchangeFailed, Awaiting,
          PutLands, PutReply, PutSucceeded, Replied, Waiting, Idle
  <2>4. ASSUME NEW e \in Event, HttpTimeout(e) PROVE Kept
      BY <2>a, <2>4 DEF HttpTimeout, ExchangeFailed
  <2>5. ASSUME NEW m \in Message, Ack(m) \/ Published(m) \/ NotConnected(m) \/ PubackTimeout(m)
        PROVE  Kept
      BY <2>a, <2>5 DEF Ack, Published, NotConnected, PubackTimeout, DrainAck,
          DrainPublished, AnnouncePublished, AnnounceUnsent, DonePublished, DoneUnsent,
          deviceVars, linkVars
  <2>6. ASSUME NEW g \in Intent, ServeIntent(g) \/ ApiError(g) PROVE Kept
    <3>1. intent[g] # Idle
        BY <2>6 DEF ServeIntent, ApiError, IntentRead, IntentCommit, IntentStale, IntentReject,
            IntentDbError, Idle
    <3>2. g = h
        BY <1>2, <3>1 DEF OneAtATime
    <3>3. IntentRead(h) /\ UNCHANGED <<deviceVars, call>>
        BY <1>a, <2>6, <3>2 DEF ServeIntent, ApiError, IntentCommit, IntentStale, IntentReject,
            IntentDbError, TypeOK, CloudTypeOK
    <3> QED
        BY <2>a, <3>3 DEF deviceVars
  <2>7. ASSUME Restart \/ LinkUp \/ LinkDown PROVE Kept
      BY <2>a, <2>7 DEF Restart, LinkUp, LinkDown, Crash, OnConnect, OnDisconnect, linkVars
  <2>8. ASSUME UNCHANGED <<deviceVars, call>> PROVE Kept
      BY <2>a, <2>8 DEF deviceVars
  <2>9. Kept
      BY <2>1, <2>2, <2>3, <2>4, <2>5, <2>6, <2>7, <2>8, DeviceParts DEF DevicePart
  <2> QED
      BY <1>2, <2>9 DEF f
<1> QED
    BY <1>1, <1>2, <1>a, BeingServed DEF TypeOK

(* With one intent at a time, only a deletion under a handler can take a   *)
(* row off EVENT_STATE_TRANSITIONS.                                        *)
THEOREM OneIntentAtATime ==
    Spec /\ []OneAtATime /\ [][NoneDeletedInUse]_vars => FollowsLifecycle
<1>1. TurnInv => NoIntentOutlived
    BY DEF TurnInv, NoIntentOutlived, IntentCommit, Idle
<1>2. TurnInv /\ [NoneDeletedInUse]_vars => [InOrder]_vars
    BY <1>1 DEF InOrder
<1>3. PipelineInv /\ TurnInv /\ OneAtATime /\ OneAtATime' /\ [Next]_vars => TurnInv'
    BY TurnInvNext
<1> QED
    BY PipelineInvHolds, TurnInvInit, <1>2, <1>3, LifecycleFollowed, PTL DEF Spec
=============================================================================
