-------------------------- MODULE EventPartsProofs ---------------------------
(***************************************************************************)
(* What holds of the two halves of the event pipeline on their own: of the *)
(* device for any number of clips and restarts, whatever the network and   *)
(* the cloud answer; of the cloud for any number of events, devices and    *)
(* requests served at once, whatever devices claim and the store holds.    *)
(***************************************************************************)
EXTENDS EventDevice, EventCloud, TLAPS

-----------------------------------------------------------------------------
(* The device.                                                             *)

(* A section of the asyncio thread is only ever running in the state of    *)
(* the clip that its task left it in.                                      *)
SectionInv ==
    \A e \in Event :
        /\ Running("addRow", e) => fate[e] = "spooled" /\ e \in spool
        /\ Running("announce", e) \/ Running("parkAnnounce", e) => upload[e] = "pending"
        /\ Running("markUploaded", e) => upload[e] = "pending"
        /\ Running("reload", e) \/ Running("publishDone", e) \/ Running("parkDone", e)
             => upload[e] = "uploaded"
        /\ Running("markDone", e) => upload[e] \in {"pending", "uploaded"}
        /\ Running("removeRow", e) => upload[e] = "done"
        /\ Running("unlink", e) => upload[e] = "none"

(* How far a clip got agrees with its row. *)
FateInv ==
    \A e \in Event :
        /\ fate[e] \in {"new", "spooled"} => upload[e] = "none"
        /\ upload[e] = "pending" => fate[e] \in {"open", "refused", "fileGone"}
        /\ Running("markDone", e) \/ Running("removeRow", e) \/ Running("unlink", e)
             => fate[e] \in {"handedOver", "refused", "fileGone"}
        /\ upload[e] = "done" => fate[e] \in {"handedOver", "refused", "fileGone"}
        /\ fate[e] = "fileGone" => e \in cleaned

(* The uploader awaits an answer only about a pending row, and not while   *)
(* one of its own sections runs.                                           *)
UploaderInv ==
    /\ uploader # Idle => upload[uploader.ev] = "pending"
    /\ thread # Free /\ thread.at \in UploaderStep => uploader = Idle

(* A row outlives its file only through the housekeeping service. *)
FileInv == \A e \in Event : upload[e] # "none" => e \in spool \cup cleaned

(* The row the drain loop is about to delete is there. *)
AckInv == thread # Free /\ thread.at = "ack" => backlog[thread.msg] > 0

DeviceInv ==
    /\ DeviceTypeOK
    /\ SectionInv
    /\ FateInv
    /\ UploaderInv
    /\ FileInv
    /\ OpenClipIsListed
    /\ AckInv

(* The done rows of a clip number at most the interruptions, plus one for  *)
(* the try that finishes it; its announce row is queued once.              *)
DoneRowsInv(e) ==
    \/ backlog[<<"done", e>>] <= interruptions
    \/ /\ backlog[<<"done", e>>] <= interruptions + 1
       /\ \/ Running("markDone", e)
          \/ upload[e] \in {"done", "none"} /\ fate[e] \notin {"new", "spooled"}

AnnounceRowsInv(e) ==
    /\ backlog[<<"announce", e>>] <= 1
    /\ fate[e] \in {"new", "spooled"} => backlog[<<"announce", e>>] = 0
    /\ \A step \in CaptureStep : Running(step, e) => backlog[<<"announce", e>>] = 0

BacklogInv == \A e \in Event : DoneRowsInv(e) /\ AnnounceRowsInv(e)

-----------------------------------------------------------------------------
LEMMA PruningsShrink ==
    ASSUME backlog \in [Message -> Nat], NEW b \in Prunings
    PROVE  /\ b \in [Message -> Nat]
           /\ \A m \in Message : b[m] <= backlog[m]
BY DEF Prunings

LEMMA DeviceInvInit == DeviceInit => DeviceInv
<1> SUFFICES ASSUME DeviceInit PROVE DeviceInv
    OBVIOUS
<1> USE DEF DeviceInit, Running, Free, Idle
<1>1. DeviceTypeOK
  <2>1. interruptions \in 0..MaxInterruptions BY DeviceAssumption
  <2> QED BY <2>1 DEF DeviceTypeOK, Fate
<1>2. SectionInv BY DEF SectionInv
<1>3. FateInv BY DEF FateInv
<1>4. UploaderInv /\ FileInv /\ OpenClipIsListed /\ AckInv
    BY DEF UploaderInv, FileInv, OpenClipIsListed, AckInv
<1> QED BY <1>1, <1>2, <1>3, <1>4 DEF DeviceInv

LEMMA DeviceInvNext == DeviceInv /\ [DeviceNext]_deviceVars => DeviceInv'
<1> SUFFICES ASSUME DeviceInv, [DeviceNext]_deviceVars PROVE DeviceInv'
    OBVIOUS
<1>a. DeviceTypeOK /\ SectionInv /\ FateInv /\ UploaderInv /\ FileInv /\ OpenClipIsListed /\ AckInv
    BY DEF DeviceInv
<1>b. /\ upload \in [Event -> {"none", "pending", "uploaded", "done"}]
      /\ fate \in [Event -> Fate]
      /\ backlog \in [Message -> Nat]
      /\ uploader # Idle => uploader.ev \in Event
    BY <1>a DEF DeviceTypeOK, Idle
<1> USE DEF Running, GoTo, Awaiting, Free, Idle
<1>1. ASSUME NEW e \in Event, Spool(e) PROVE DeviceInv'
  <2>1. DeviceTypeOK'
      BY <1>a, <1>1 DEF Spool, DeviceTypeOK, Fate, CaptureStep, UploaderStep
  <2>2. SectionInv'
      BY <1>a, <1>b, <1>1 DEF Spool, SectionInv
  <2>3. FateInv'
      BY <1>a, <1>b, <1>1 DEF Spool, FateInv, SectionInv, OpenClipIsListed
  <2>4. UploaderInv'
      BY <1>a, <1>b, <1>1 DEF Spool, UploaderInv, SectionInv, CaptureStep, UploaderStep
  <2>5. FileInv'
      BY <1>a, <1>b, <1>1 DEF Spool, FileInv, SectionInv, CaptureStep
  <2>6. OpenClipIsListed'
      BY <1>a, <1>b, <1>1 DEF Spool, OpenClipIsListed, SectionInv, FateInv
  <2>7. AckInv'
      BY <1>a, <1>b, <1>1 DEF Spool, AckInv
  <2> QED BY <2>1, <2>2, <2>3, <2>4, <2>5, <2>6, <2>7 DEF DeviceInv
<1>2. ASSUME NEW e \in Event, AddRow(e) PROVE DeviceInv'
  <2>1. DeviceTypeOK'
      BY <1>a, PruningsShrink, <1>2 DEF AddRow, DeviceTypeOK, Fate, CaptureStep, UploaderStep
  <2>2. SectionInv'
      BY <1>a, <1>b, PruningsShrink, <1>2 DEF AddRow, SectionInv
  <2>3. FateInv'
    <3>1. /\ upload' = [upload EXCEPT ![e] = "pending"] /\ fate' = [fate EXCEPT ![e] = "open"]
          /\ thread' = [at |-> "announce", ev |-> e] /\ UNCHANGED cleaned
      BY <1>2 DEF AddRow
    <3> QED BY <1>a, <1>b, <3>1 DEF FateInv
  <2>4. UploaderInv'
      BY <1>a, <1>b, PruningsShrink, <1>2 DEF AddRow, UploaderInv, SectionInv, CaptureStep, UploaderStep, FateInv
  <2>5. FileInv'
      BY <1>a, <1>b, PruningsShrink, <1>2 DEF AddRow, FileInv, SectionInv, CaptureStep
  <2>6. OpenClipIsListed'
      BY <1>a, <1>b, PruningsShrink, <1>2 DEF AddRow, OpenClipIsListed, SectionInv, FateInv
  <2>7. AckInv'
      BY <1>a, <1>b, PruningsShrink, <1>2 DEF AddRow, AckInv
  <2> QED BY <2>1, <2>2, <2>3, <2>4, <2>5, <2>6, <2>7 DEF DeviceInv
<1>3. ASSUME NEW e \in Event, AnnouncePublished(e) PROVE DeviceInv'
  <2>1. DeviceTypeOK'
      BY <1>a, <1>3 DEF AnnouncePublished, DeviceTypeOK, Fate, CaptureStep, UploaderStep
  <2>2. SectionInv'
      BY <1>a, <1>b, <1>3 DEF AnnouncePublished, SectionInv
  <2>3. FateInv'
      BY <1>a, <1>b, <1>3 DEF AnnouncePublished, FateInv, SectionInv, OpenClipIsListed
  <2>4. UploaderInv'
      BY <1>a, <1>b, <1>3 DEF AnnouncePublished, UploaderInv, SectionInv, CaptureStep, UploaderStep
  <2>5. FileInv'
      BY <1>a, <1>b, <1>3 DEF AnnouncePublished, FileInv, SectionInv, CaptureStep
  <2>6. OpenClipIsListed'
      BY <1>a, <1>b, <1>3 DEF AnnouncePublished, OpenClipIsListed, SectionInv, FateInv
  <2>7. AckInv'
      BY <1>a, <1>b, <1>3 DEF AnnouncePublished, AckInv
  <2> QED BY <2>1, <2>2, <2>3, <2>4, <2>5, <2>6, <2>7 DEF DeviceInv
<1>4. ASSUME NEW e \in Event, AnnounceUnsent(e) PROVE DeviceInv'
  <2>1. DeviceTypeOK'
      BY <1>a, <1>4 DEF AnnounceUnsent, DeviceTypeOK, Fate, CaptureStep, UploaderStep
  <2>2. SectionInv'
      BY <1>a, <1>b, <1>4 DEF AnnounceUnsent, SectionInv
  <2>3. FateInv'
      BY <1>a, <1>b, <1>4 DEF AnnounceUnsent, FateInv, SectionInv, OpenClipIsListed
  <2>4. UploaderInv'
      BY <1>a, <1>b, <1>4 DEF AnnounceUnsent, UploaderInv, SectionInv, CaptureStep, UploaderStep
  <2>5. FileInv'
      BY <1>a, <1>b, <1>4 DEF AnnounceUnsent, FileInv, SectionInv, CaptureStep
  <2>6. OpenClipIsListed'
      BY <1>a, <1>b, <1>4 DEF AnnounceUnsent, OpenClipIsListed, SectionInv, FateInv
  <2>7. AckInv'
      BY <1>a, <1>b, <1>4 DEF AnnounceUnsent, AckInv
  <2> QED BY <2>1, <2>2, <2>3, <2>4, <2>5, <2>6, <2>7 DEF DeviceInv
<1>5. ASSUME NEW e \in Event, ParkAnnounce(e) PROVE DeviceInv'
  <2>1. DeviceTypeOK'
      BY <1>a, PruningsShrink, <1>5 DEF ParkAnnounce, Enqueue, DeviceTypeOK, Fate, CaptureStep, UploaderStep, Message, Kind
  <2>2. SectionInv'
      BY <1>a, <1>b, PruningsShrink, <1>5 DEF ParkAnnounce, Enqueue, SectionInv
  <2>3. FateInv'
      BY <1>a, <1>b, PruningsShrink, <1>5 DEF ParkAnnounce, Enqueue, FateInv, SectionInv, OpenClipIsListed
  <2>4. UploaderInv'
      BY <1>a, <1>b, PruningsShrink, <1>5 DEF ParkAnnounce, Enqueue, UploaderInv, SectionInv, CaptureStep, UploaderStep
  <2>5. FileInv'
      BY <1>a, <1>b, PruningsShrink, <1>5 DEF ParkAnnounce, Enqueue, FileInv, SectionInv, CaptureStep
  <2>6. OpenClipIsListed'
      BY <1>a, <1>b, PruningsShrink, <1>5 DEF ParkAnnounce, Enqueue, OpenClipIsListed, SectionInv, FateInv
  <2>7. AckInv'
      BY <1>a, <1>b, PruningsShrink, <1>5 DEF ParkAnnounce, Enqueue, AckInv, Message, Kind
  <2> QED BY <2>1, <2>2, <2>3, <2>4, <2>5, <2>6, <2>7 DEF DeviceInv
<1>6. ASSUME NEW e \in Event, SendIntent(e) PROVE DeviceInv'
  <2>1. DeviceTypeOK'
      BY <1>a, <1>6 DEF SendIntent, DeviceTypeOK, Fate, CaptureStep, UploaderStep
  <2>2. SectionInv'
      BY <1>a, <1>b, <1>6 DEF SendIntent, SectionInv
  <2>3. FateInv'
      BY <1>a, <1>b, <1>6 DEF SendIntent, FateInv, SectionInv, OpenClipIsListed
  <2>4. UploaderInv'
      BY <1>a, <1>b, <1>6 DEF SendIntent, UploaderInv, SectionInv, CaptureStep, UploaderStep
  <2>5. FileInv'
      BY <1>a, <1>b, <1>6 DEF SendIntent, FileInv, SectionInv, CaptureStep
  <2>6. OpenClipIsListed'
      BY <1>a, <1>b, <1>6 DEF SendIntent, OpenClipIsListed, SectionInv, FateInv
  <2>7. AckInv'
      BY <1>a, <1>b, <1>6 DEF SendIntent, AckInv
  <2> QED BY <2>1, <2>2, <2>3, <2>4, <2>5, <2>6, <2>7 DEF DeviceInv
<1>7. ASSUME NEW e \in Event, ResumeUploaded(e) PROVE DeviceInv'
  <2>1. DeviceTypeOK'
      BY <1>a, <1>7 DEF ResumeUploaded, DeviceTypeOK, Fate, CaptureStep, UploaderStep
  <2>2. SectionInv'
      BY <1>a, <1>b, <1>7 DEF ResumeUploaded, SectionInv
  <2>3. FateInv'
      BY <1>a, <1>b, <1>7 DEF ResumeUploaded, FateInv, SectionInv, OpenClipIsListed
  <2>4. UploaderInv'
      BY <1>a, <1>b, <1>7 DEF ResumeUploaded, UploaderInv, SectionInv, CaptureStep, UploaderStep
  <2>5. FileInv'
      BY <1>a, <1>b, <1>7 DEF ResumeUploaded, FileInv, SectionInv, CaptureStep
  <2>6. OpenClipIsListed'
      BY <1>a, <1>b, <1>7 DEF ResumeUploaded, OpenClipIsListed, SectionInv, FateInv
  <2>7. AckInv'
      BY <1>a, <1>b, <1>7 DEF ResumeUploaded, AckInv
  <2> QED BY <2>1, <2>2, <2>3, <2>4, <2>5, <2>6, <2>7 DEF DeviceInv
<1>8. ASSUME NEW e \in Event, IntentGranted(e) PROVE DeviceInv'
  <2>1. DeviceTypeOK'
      BY <1>a, <1>8 DEF IntentGranted, DeviceTypeOK, Fate, CaptureStep, UploaderStep
  <2>a. upload[e] = "pending" /\ e \in spool \cup cleaned
    <3>1. uploader # Idle /\ uploader.ev = e
        BY <1>8 DEF IntentGranted
    <3> QED BY <1>a, <1>b, <3>1 DEF UploaderInv, FileInv
  <2>b. \/ thread' = Free /\ UNCHANGED <<spool, upload, fate, cleaned>>
        \/ /\ e \notin spool
           /\ fate' = [fate EXCEPT ![e] = "fileGone"]
           /\ thread' = [at |-> "markDone", ev |-> e]
           /\ UNCHANGED <<spool, upload, cleaned>>
      BY <1>8 DEF IntentGranted
  <2>2. SectionInv'
      BY <1>a, <1>b, <2>a, <2>b DEF SectionInv
  <2>3. FateInv'
      BY <1>a, <1>b, <2>a, <2>b DEF FateInv
  <2>4. UploaderInv'
      BY <1>a, <1>b, <2>a, <1>8 DEF IntentGranted, UploaderInv, UploaderStep
  <2>5. FileInv'
      BY <1>a, <1>b, <1>8 DEF IntentGranted, FileInv, SectionInv, CaptureStep
  <2>6. OpenClipIsListed'
      BY <1>a, <1>b, <2>a, <2>b, <1>8 DEF IntentGranted, OpenClipIsListed
  <2>7. AckInv'
      BY <1>a, <1>b, <1>8 DEF IntentGranted, AckInv
  <2> QED BY <2>1, <2>2, <2>3, <2>4, <2>5, <2>6, <2>7 DEF DeviceInv
<1>9. ASSUME NEW e \in Event, IntentRefused(e) PROVE DeviceInv'
  <2>1. DeviceTypeOK'
      BY <1>a, <1>9 DEF IntentRefused, DeviceTypeOK, Fate, CaptureStep, UploaderStep
  <2>2. SectionInv'
      BY <1>a, <1>b, <1>9 DEF IntentRefused, SectionInv, UploaderInv
  <2>3. FateInv'
      BY <1>a, <1>b, <1>9 DEF IntentRefused, FateInv, SectionInv, UploaderInv, OpenClipIsListed
  <2>4. UploaderInv'
      BY <1>a, <1>b, <1>9 DEF IntentRefused, UploaderInv, SectionInv, CaptureStep, UploaderStep
  <2>5. FileInv'
      BY <1>a, <1>b, <1>9 DEF IntentRefused, FileInv, SectionInv, CaptureStep
  <2>6. OpenClipIsListed'
      BY <1>a, <1>b, <1>9 DEF IntentRefused, OpenClipIsListed, SectionInv, UploaderInv, FateInv
  <2>7. AckInv'
      BY <1>a, <1>b, <1>9 DEF IntentRefused, AckInv
  <2> QED BY <2>1, <2>2, <2>3, <2>4, <2>5, <2>6, <2>7 DEF DeviceInv
<1>10. ASSUME NEW e \in Event, ExchangeFailed(e) PROVE DeviceInv'
  <2>1. DeviceTypeOK'
      BY <1>a, <1>10 DEF ExchangeFailed, DeviceTypeOK, Fate, CaptureStep, UploaderStep
  <2>2. SectionInv'
      BY <1>a, <1>b, <1>10 DEF ExchangeFailed, SectionInv
  <2>3. FateInv'
      BY <1>a, <1>b, <1>10 DEF ExchangeFailed, FateInv, SectionInv, OpenClipIsListed
  <2>4. UploaderInv'
      BY <1>a, <1>b, <1>10 DEF ExchangeFailed, UploaderInv, SectionInv, CaptureStep, UploaderStep
  <2>5. FileInv'
      BY <1>a, <1>b, <1>10 DEF ExchangeFailed, FileInv, SectionInv, CaptureStep
  <2>6. OpenClipIsListed'
      BY <1>a, <1>b, <1>10 DEF ExchangeFailed, OpenClipIsListed, SectionInv, FateInv
  <2>7. AckInv'
      BY <1>a, <1>b, <1>10 DEF ExchangeFailed, AckInv
  <2> QED BY <2>1, <2>2, <2>3, <2>4, <2>5, <2>6, <2>7 DEF DeviceInv
<1>11. ASSUME NEW e \in Event, PutSucceeded(e) PROVE DeviceInv'
  <2>1. DeviceTypeOK'
      BY <1>a, <1>11 DEF PutSucceeded, DeviceTypeOK, Fate, CaptureStep, UploaderStep
  <2>2. SectionInv'
      BY <1>a, <1>b, <1>11 DEF PutSucceeded, SectionInv, UploaderInv
  <2>3. FateInv'
      BY <1>a, <1>b, <1>11 DEF PutSucceeded, FateInv, SectionInv, UploaderInv, OpenClipIsListed
  <2>4. UploaderInv'
      BY <1>a, <1>b, <1>11 DEF PutSucceeded, UploaderInv, SectionInv, CaptureStep, UploaderStep
  <2>5. FileInv'
      BY <1>a, <1>b, <1>11 DEF PutSucceeded, FileInv, SectionInv, CaptureStep
  <2>6. OpenClipIsListed'
      BY <1>a, <1>b, <1>11 DEF PutSucceeded, OpenClipIsListed, SectionInv, UploaderInv, FateInv
  <2>7. AckInv'
      BY <1>a, <1>b, <1>11 DEF PutSucceeded, AckInv
  <2> QED BY <2>1, <2>2, <2>3, <2>4, <2>5, <2>6, <2>7 DEF DeviceInv
<1>12. ASSUME NEW e \in Event, MarkUploaded(e) PROVE DeviceInv'
  <2>1. DeviceTypeOK'
      BY <1>a, <1>12 DEF MarkUploaded, DeviceTypeOK, Fate, CaptureStep, UploaderStep
  <2>2. SectionInv'
      BY <1>a, <1>b, <1>12 DEF MarkUploaded, SectionInv
  <2>3. FateInv'
      BY <1>a, <1>b, <1>12 DEF MarkUploaded, FateInv, SectionInv, OpenClipIsListed
  <2>4. UploaderInv'
      BY <1>a, <1>b, <1>12 DEF MarkUploaded, UploaderInv, SectionInv, CaptureStep, UploaderStep
  <2>5. FileInv'
      BY <1>a, <1>b, <1>12 DEF MarkUploaded, FileInv, SectionInv, CaptureStep
  <2>6. OpenClipIsListed'
      BY <1>a, <1>b, <1>12 DEF MarkUploaded, OpenClipIsListed, SectionInv, FateInv
  <2>7. AckInv'
      BY <1>a, <1>b, <1>12 DEF MarkUploaded, AckInv
  <2> QED BY <2>1, <2>2, <2>3, <2>4, <2>5, <2>6, <2>7 DEF DeviceInv
<1>12a. ASSUME NEW e \in Event, Reload(e) PROVE DeviceInv'
  <2>a. \/ thread' = Free
        \/ thread' = [at |-> "publishDone", ev |-> e] /\ upload[e] = "uploaded"
      BY <1>a, <1>12a DEF Reload, SectionInv
  <2>b. UNCHANGED <<spool, upload, fate, cleaned>>
      BY <1>12a DEF Reload
  <2>1. DeviceTypeOK'
      BY <1>a, <1>12a DEF Reload, DeviceTypeOK, Fate, CaptureStep, UploaderStep
  <2>2. SectionInv'
      BY <1>a, <2>a, <2>b DEF SectionInv
  <2>3. FateInv'
      BY <1>a, <2>a, <2>b DEF FateInv
  <2>4. UploaderInv'
      BY <1>a, <1>b, <1>12a DEF Reload, UploaderInv, SectionInv, CaptureStep, UploaderStep
  <2>5. FileInv'
      BY <1>a, <1>b, <1>12a DEF Reload, FileInv, SectionInv, CaptureStep
  <2>6. OpenClipIsListed'
      BY <1>a, <1>b, <1>12a DEF Reload, OpenClipIsListed, SectionInv, FateInv
  <2>7. AckInv'
      BY <1>a, <1>b, <1>12a DEF Reload, AckInv
  <2> QED BY <2>1, <2>2, <2>3, <2>4, <2>5, <2>6, <2>7 DEF DeviceInv
<1>13. ASSUME NEW e \in Event, DonePublished(e) PROVE DeviceInv'
  <2>1. DeviceTypeOK'
      BY <1>a, <1>13 DEF DonePublished, DeviceTypeOK, Fate, CaptureStep, UploaderStep
  <2>2. SectionInv'
      BY <1>a, <1>b, <1>13 DEF DonePublished, SectionInv
  <2>3. FateInv'
      BY <1>a, <1>b, <1>13 DEF DonePublished, FateInv, SectionInv, OpenClipIsListed
  <2>4. UploaderInv'
      BY <1>a, <1>b, <1>13 DEF DonePublished, UploaderInv, SectionInv, CaptureStep, UploaderStep
  <2>5. FileInv'
      BY <1>a, <1>b, <1>13 DEF DonePublished, FileInv, SectionInv, CaptureStep
  <2>6. OpenClipIsListed'
      BY <1>a, <1>b, <1>13 DEF DonePublished, OpenClipIsListed, SectionInv, FateInv
  <2>7. AckInv'
      BY <1>a, <1>b, <1>13 DEF DonePublished, AckInv
  <2> QED BY <2>1, <2>2, <2>3, <2>4, <2>5, <2>6, <2>7 DEF DeviceInv
<1>14. ASSUME NEW e \in Event, DoneUnsent(e) PROVE DeviceInv'
  <2>1. DeviceTypeOK'
      BY <1>a, <1>14 DEF DoneUnsent, DeviceTypeOK, Fate, CaptureStep, UploaderStep
  <2>2. SectionInv'
      BY <1>a, <1>b, <1>14 DEF DoneUnsent, SectionInv
  <2>3. FateInv'
      BY <1>a, <1>b, <1>14 DEF DoneUnsent, FateInv, SectionInv, OpenClipIsListed
  <2>4. UploaderInv'
      BY <1>a, <1>b, <1>14 DEF DoneUnsent, UploaderInv, SectionInv, CaptureStep, UploaderStep
  <2>5. FileInv'
      BY <1>a, <1>b, <1>14 DEF DoneUnsent, FileInv, SectionInv, CaptureStep
  <2>6. OpenClipIsListed'
      BY <1>a, <1>b, <1>14 DEF DoneUnsent, OpenClipIsListed, SectionInv, FateInv
  <2>7. AckInv'
      BY <1>a, <1>b, <1>14 DEF DoneUnsent, AckInv
  <2> QED BY <2>1, <2>2, <2>3, <2>4, <2>5, <2>6, <2>7 DEF DeviceInv
<1>15. ASSUME NEW e \in Event, ParkDone(e) PROVE DeviceInv'
  <2>1. DeviceTypeOK'
      BY <1>a, PruningsShrink, <1>15 DEF ParkDone, Enqueue, DeviceTypeOK, Fate, CaptureStep, UploaderStep, Message, Kind
  <2>2. SectionInv'
      BY <1>a, <1>b, PruningsShrink, <1>15 DEF ParkDone, Enqueue, SectionInv
  <2>3. FateInv'
      BY <1>a, <1>b, PruningsShrink, <1>15 DEF ParkDone, Enqueue, FateInv, SectionInv, OpenClipIsListed
  <2>4. UploaderInv'
      BY <1>a, <1>b, PruningsShrink, <1>15 DEF ParkDone, Enqueue, UploaderInv, SectionInv, CaptureStep, UploaderStep
  <2>5. FileInv'
      BY <1>a, <1>b, PruningsShrink, <1>15 DEF ParkDone, Enqueue, FileInv, SectionInv, CaptureStep
  <2>6. OpenClipIsListed'
      BY <1>a, <1>b, PruningsShrink, <1>15 DEF ParkDone, Enqueue, OpenClipIsListed, SectionInv, FateInv
  <2>7. AckInv'
      BY <1>a, <1>b, PruningsShrink, <1>15 DEF ParkDone, Enqueue, AckInv, Message, Kind
  <2> QED BY <2>1, <2>2, <2>3, <2>4, <2>5, <2>6, <2>7 DEF DeviceInv
<1>16. ASSUME NEW e \in Event, MarkDone(e) PROVE DeviceInv'
  <2>1. DeviceTypeOK'
      BY <1>a, <1>16 DEF MarkDone, DeviceTypeOK, Fate, CaptureStep, UploaderStep
  <2>2. SectionInv'
      BY <1>a, <1>b, <1>16 DEF MarkDone, SectionInv
  <2>3. FateInv'
      BY <1>a, <1>b, <1>16 DEF MarkDone, FateInv, SectionInv, OpenClipIsListed
  <2>4. UploaderInv'
      BY <1>a, <1>b, <1>16 DEF MarkDone, UploaderInv, SectionInv, CaptureStep, UploaderStep
  <2>5. FileInv'
      BY <1>a, <1>b, <1>16 DEF MarkDone, FileInv, SectionInv, CaptureStep
  <2>6. OpenClipIsListed'
      BY <1>a, <1>b, <1>16 DEF MarkDone, OpenClipIsListed, SectionInv, FateInv
  <2>7. AckInv'
      BY <1>a, <1>b, <1>16 DEF MarkDone, AckInv
  <2> QED BY <2>1, <2>2, <2>3, <2>4, <2>5, <2>6, <2>7 DEF DeviceInv
<1>17. ASSUME NEW e \in Event, RemoveRow(e) PROVE DeviceInv'
  <2>1. DeviceTypeOK'
      BY <1>a, <1>17 DEF RemoveRow, DeviceTypeOK, Fate, CaptureStep, UploaderStep
  <2>2. SectionInv'
      BY <1>a, <1>b, <1>17 DEF RemoveRow, SectionInv
  <2>3. FateInv'
      BY <1>a, <1>b, <1>17 DEF RemoveRow, FateInv, SectionInv, OpenClipIsListed
  <2>4. UploaderInv'
      BY <1>a, <1>b, <1>17 DEF RemoveRow, UploaderInv, SectionInv, CaptureStep, UploaderStep
  <2>5. FileInv'
      BY <1>a, <1>b, <1>17 DEF RemoveRow, FileInv, SectionInv, CaptureStep
  <2>6. OpenClipIsListed'
      BY <1>a, <1>b, <1>17 DEF RemoveRow, OpenClipIsListed, SectionInv, FateInv
  <2>7. AckInv'
      BY <1>a, <1>b, <1>17 DEF RemoveRow, AckInv
  <2> QED BY <2>1, <2>2, <2>3, <2>4, <2>5, <2>6, <2>7 DEF DeviceInv
<1>18. ASSUME NEW e \in Event, Unlink(e) PROVE DeviceInv'
  <2>1. DeviceTypeOK'
      BY <1>a, <1>18 DEF Unlink, DeviceTypeOK, Fate, CaptureStep, UploaderStep
  <2>2. SectionInv'
      BY <1>a, <1>b, <1>18 DEF Unlink, SectionInv
  <2>3. FateInv'
      BY <1>a, <1>b, <1>18 DEF Unlink, FateInv, SectionInv, OpenClipIsListed
  <2>4. UploaderInv'
      BY <1>a, <1>b, <1>18 DEF Unlink, UploaderInv, SectionInv, CaptureStep, UploaderStep
  <2>5. FileInv'
      BY <1>a, <1>b, <1>18 DEF Unlink, FileInv, SectionInv, CaptureStep
  <2>6. OpenClipIsListed'
      BY <1>a, <1>b, <1>18 DEF Unlink, OpenClipIsListed, SectionInv, FateInv
  <2>7. AckInv'
      BY <1>a, <1>b, <1>18 DEF Unlink, AckInv
  <2> QED BY <2>1, <2>2, <2>3, <2>4, <2>5, <2>6, <2>7 DEF DeviceInv
<1>19. ASSUME NEW e \in Event, Housekeep(e) PROVE DeviceInv'
  <2>1. DeviceTypeOK'
      BY <1>a, <1>19 DEF Housekeep, DeviceTypeOK, Fate, CaptureStep, UploaderStep
  <2>2. SectionInv'
      BY <1>a, <1>b, <1>19 DEF Housekeep, SectionInv, CaptureStep
  <2>3. FateInv'
      BY <1>a, <1>b, <1>19 DEF Housekeep, FateInv, SectionInv, OpenClipIsListed
  <2>4. UploaderInv'
      BY <1>a, <1>b, <1>19 DEF Housekeep, UploaderInv, SectionInv, CaptureStep, UploaderStep
  <2>5. FileInv'
      BY <1>a, <1>b, <1>19 DEF Housekeep, FileInv, SectionInv, CaptureStep
  <2>6. OpenClipIsListed'
      BY <1>a, <1>b, <1>19 DEF Housekeep, OpenClipIsListed, SectionInv, FateInv
  <2>7. AckInv'
      BY <1>a, <1>b, <1>19 DEF Housekeep, AckInv
  <2> QED BY <2>1, <2>2, <2>3, <2>4, <2>5, <2>6, <2>7 DEF DeviceInv
<1>20. ASSUME NEW m \in Message, DrainPublished(m) PROVE DeviceInv'
  <2>1. DeviceTypeOK'
      BY <1>a, <1>20 DEF DrainPublished, DeviceTypeOK, Fate, CaptureStep, UploaderStep
  <2>2. SectionInv'
      BY <1>a, <1>b, <1>20 DEF DrainPublished, SectionInv
  <2>3. FateInv'
      BY <1>a, <1>b, <1>20 DEF DrainPublished, FateInv, SectionInv, OpenClipIsListed
  <2>4. UploaderInv'
      BY <1>a, <1>b, <1>20 DEF DrainPublished, UploaderInv, SectionInv, CaptureStep, UploaderStep
  <2>5. FileInv'
      BY <1>a, <1>b, <1>20 DEF DrainPublished, FileInv, SectionInv, CaptureStep
  <2>6. OpenClipIsListed'
      BY <1>a, <1>b, <1>20 DEF DrainPublished, OpenClipIsListed, SectionInv, FateInv
  <2>7. AckInv'
      BY <1>a, <1>b, <1>20 DEF DrainPublished, AckInv
  <2> QED BY <2>1, <2>2, <2>3, <2>4, <2>5, <2>6, <2>7 DEF DeviceInv
<1>21. ASSUME NEW m \in Message, DrainAck(m) PROVE DeviceInv'
  <2>1. DeviceTypeOK'
      BY <1>a, <1>21 DEF DrainAck, DeviceTypeOK, Fate, CaptureStep, UploaderStep, AckInv
  <2>2. SectionInv'
      BY <1>a, <1>b, <1>21 DEF DrainAck, SectionInv
  <2>3. FateInv'
      BY <1>a, <1>b, <1>21 DEF DrainAck, FateInv, SectionInv, OpenClipIsListed
  <2>4. UploaderInv'
      BY <1>a, <1>b, <1>21 DEF DrainAck, UploaderInv, SectionInv, CaptureStep, UploaderStep
  <2>5. FileInv'
      BY <1>a, <1>b, <1>21 DEF DrainAck, FileInv, SectionInv, CaptureStep
  <2>6. OpenClipIsListed'
      BY <1>a, <1>b, <1>21 DEF DrainAck, OpenClipIsListed, SectionInv, FateInv
  <2>7. AckInv'
      BY <1>a, <1>b, <1>21 DEF DrainAck, AckInv
  <2> QED BY <2>1, <2>2, <2>3, <2>4, <2>5, <2>6, <2>7 DEF DeviceInv
<1>22. CASE OnConnect
  <2>1. DeviceTypeOK'
      BY <1>a, <1>22 DEF OnConnect, DeviceTypeOK, Fate, CaptureStep, UploaderStep
  <2>2. SectionInv'
      BY <1>a, <1>b, <1>22 DEF OnConnect, SectionInv
  <2>3. FateInv'
      BY <1>a, <1>b, <1>22 DEF OnConnect, FateInv, SectionInv, OpenClipIsListed
  <2>4. UploaderInv'
      BY <1>a, <1>b, <1>22 DEF OnConnect, UploaderInv, SectionInv, CaptureStep, UploaderStep
  <2>5. FileInv'
      BY <1>a, <1>b, <1>22 DEF OnConnect, FileInv, SectionInv, CaptureStep
  <2>6. OpenClipIsListed'
      BY <1>a, <1>b, <1>22 DEF OnConnect, OpenClipIsListed, SectionInv, FateInv
  <2>7. AckInv'
      BY <1>a, <1>b, <1>22 DEF OnConnect, AckInv
  <2> QED BY <2>1, <2>2, <2>3, <2>4, <2>5, <2>6, <2>7 DEF DeviceInv
<1>23. CASE OnDisconnect
  <2>1. DeviceTypeOK'
      BY <1>a, <1>23 DEF OnDisconnect, DeviceTypeOK, Fate, CaptureStep, UploaderStep
  <2>2. SectionInv'
      BY <1>a, <1>b, <1>23 DEF OnDisconnect, SectionInv
  <2>3. FateInv'
      BY <1>a, <1>b, <1>23 DEF OnDisconnect, FateInv, SectionInv, OpenClipIsListed
  <2>4. UploaderInv'
      BY <1>a, <1>b, <1>23 DEF OnDisconnect, UploaderInv, SectionInv, CaptureStep, UploaderStep
  <2>5. FileInv'
      BY <1>a, <1>b, <1>23 DEF OnDisconnect, FileInv, SectionInv, CaptureStep
  <2>6. OpenClipIsListed'
      BY <1>a, <1>b, <1>23 DEF OnDisconnect, OpenClipIsListed, SectionInv, FateInv
  <2>7. AckInv'
      BY <1>a, <1>b, <1>23 DEF OnDisconnect, AckInv
  <2> QED BY <2>1, <2>2, <2>3, <2>4, <2>5, <2>6, <2>7 DEF DeviceInv
<1>24. CASE Crash
  <2>1. DeviceTypeOK'
    <3>1. interruptions' \in 0..MaxInterruptions
        BY <1>a, <1>24, DeviceAssumption DEF Crash, DeviceTypeOK
    <3> QED BY <1>a, <1>24, <3>1 DEF Crash, DeviceTypeOK
  <2>2. SectionInv'
      BY <1>a, <1>b, <1>24 DEF Crash, SectionInv
  <2>3. FateInv'
      BY <1>a, <1>b, <1>24 DEF Crash, FateInv, SectionInv, OpenClipIsListed
  <2>4. UploaderInv'
      BY <1>a, <1>b, <1>24 DEF Crash, UploaderInv, SectionInv, CaptureStep, UploaderStep
  <2>5. FileInv'
      BY <1>a, <1>b, <1>24 DEF Crash, FileInv, SectionInv, CaptureStep
  <2>6. OpenClipIsListed'
      BY <1>a, <1>b, <1>24 DEF Crash, OpenClipIsListed, SectionInv, FateInv
  <2>7. AckInv'
      BY <1>a, <1>b, <1>24 DEF Crash, AckInv
  <2> QED BY <2>1, <2>2, <2>3, <2>4, <2>5, <2>6, <2>7 DEF DeviceInv
<1>24a. ASSUME NEW e \in Event, StepRaises(e) PROVE DeviceInv'
  <2>1. DeviceTypeOK'
    <3>1. interruptions' \in 0..MaxInterruptions
        BY <1>a, <1>24a, DeviceAssumption DEF StepRaises, DeviceTypeOK
    <3> QED BY <1>a, <1>24a, <3>1 DEF StepRaises, DeviceTypeOK
  <2>2. SectionInv'
      BY <1>a, <1>b, <1>24a DEF StepRaises, SectionInv
  <2>3. FateInv'
      BY <1>a, <1>b, <1>24a DEF StepRaises, FateInv, SectionInv, OpenClipIsListed
  <2>4. UploaderInv'
      BY <1>a, <1>b, <1>24a DEF StepRaises, UploaderInv, SectionInv, CaptureStep, UploaderStep
  <2>5. FileInv'
      BY <1>a, <1>b, <1>24a DEF StepRaises, FileInv, SectionInv, CaptureStep
  <2>6. OpenClipIsListed'
      BY <1>a, <1>b, <1>24a DEF StepRaises, OpenClipIsListed, SectionInv, FateInv
  <2>7. AckInv'
      BY <1>a, <1>b, <1>24a DEF StepRaises, AckInv
  <2> QED BY <2>1, <2>2, <2>3, <2>4, <2>5, <2>6, <2>7 DEF DeviceInv
<1>25. CASE UNCHANGED deviceVars
  <2>1. DeviceTypeOK'
      BY <1>a, <1>25 DEF deviceVars, DeviceTypeOK, Fate, CaptureStep, UploaderStep
  <2>2. SectionInv'
      BY <1>a, <1>b, <1>25 DEF deviceVars, SectionInv
  <2>3. FateInv'
      BY <1>a, <1>b, <1>25 DEF deviceVars, FateInv, SectionInv, OpenClipIsListed
  <2>4. UploaderInv'
      BY <1>a, <1>b, <1>25 DEF deviceVars, UploaderInv, SectionInv, CaptureStep, UploaderStep
  <2>5. FileInv'
      BY <1>a, <1>b, <1>25 DEF deviceVars, FileInv, SectionInv, CaptureStep
  <2>6. OpenClipIsListed'
      BY <1>a, <1>b, <1>25 DEF deviceVars, OpenClipIsListed, SectionInv, FateInv
  <2>7. AckInv'
      BY <1>a, <1>b, <1>25 DEF deviceVars, AckInv
  <2> QED BY <2>1, <2>2, <2>3, <2>4, <2>5, <2>6, <2>7 DEF DeviceInv
<1> QED
    BY <1>1, <1>2, <1>3, <1>4, <1>5, <1>6, <1>7, <1>8, <1>9, <1>10, <1>11, <1>12, <1>12a, <1>13, <1>14, <1>15, <1>16, <1>17, <1>18, <1>19, <1>20, <1>21, <1>22, <1>23, <1>24, <1>24a, <1>25
    DEF DeviceNext, CaptureNext, ReplyNext, UploaderNext, DrainNext

-----------------------------------------------------------------------------
(* Every value of the variables is of its type: no step of any task, in    *)
(* whatever order they run and the process dies, counts a queued row that  *)
(* is not there or moves a clip to a state the code does not know.         *)
THEOREM DeviceTypeCorrect == DeviceSpec => []DeviceTypeOK
<1>1. DeviceInv => DeviceTypeOK
    BY DEF DeviceInv
<1> QED
    BY DeviceInvInit, DeviceInvNext, <1>1, PTL DEF DeviceSpec

(* QueueStore and Uploader between them never lose sight of an open clip:  *)
(* its row is one that list_pending_uploads returns, and its FLAC is in    *)
(* the spool unless the housekeeping service took it.                      *)
THEOREM OpenClipKept == DeviceSpec => []OpenClipIsKept
<1>1. DeviceInv => OpenClipIsKept
    BY DEF DeviceInv, OpenClipIsKept, OpenFileIsKept, OpenClipIsListed, FileInv
<1> QED
    BY DeviceInvInit, DeviceInvNext, <1>1, PTL DEF DeviceSpec

-----------------------------------------------------------------------------
LEMMA EventMessages ==
    ASSUME NEW e \in Event
    PROVE  <<"announce", e>> \in Message /\ <<"done", e>> \in Message
BY DEF Message, Kind

LEMMA BacklogInvInit == DeviceInit => BacklogInv
<1> SUFFICES ASSUME DeviceInit, NEW e \in Event PROVE DoneRowsInv(e) /\ AnnounceRowsInv(e)
    BY DEF BacklogInv
<1>1. backlog[<<"announce", e>>] = 0 /\ backlog[<<"done", e>>] = 0
    BY EventMessages DEF DeviceInit
<1>2. thread = Free /\ fate[e] = "new" /\ interruptions = 0
    BY DEF DeviceInit
<1> QED
    BY <1>1, <1>2 DEF DoneRowsInv, AnnounceRowsInv, CaptureStep, Running, Free

(* An insert adds one row at most, and only of the message it queues. *)
LEMMA EnqueueAddsOne ==
    ASSUME backlog \in [Message -> Nat], NEW m \in Message, Enqueue(m)
    PROVE  /\ backlog' \in [Message -> Nat]
           /\ backlog'[m] <= backlog[m] + 1
           /\ \A n \in Message \ {m} : backlog'[n] <= backlog[n]
<1>1. PICK b \in Prunings : backlog' = [b EXCEPT ![m] = @ + 1]
    BY DEF Enqueue
<1>2. b \in [Message -> Nat] /\ \A n \in Message : b[n] <= backlog[n]
    BY PruningsShrink
<1> QED
    BY <1>1, <1>2

LEMMA BacklogInvNext == DeviceInv /\ BacklogInv /\ [DeviceNext]_deviceVars => BacklogInv'
<1> SUFFICES ASSUME DeviceInv, BacklogInv, [DeviceNext]_deviceVars,
                    NEW f \in Event
             PROVE  DoneRowsInv(f)' /\ AnnounceRowsInv(f)'
    BY DEF BacklogInv
<1> DEFINE announced == <<"announce", f>>
           done      == <<"done", f>>
<1>a. DoneRowsInv(f) /\ AnnounceRowsInv(f)
    BY DEF BacklogInv
<1>b. /\ upload \in [Event -> {"none", "pending", "uploaded", "done"}]
      /\ fate \in [Event -> Fate]
      /\ backlog \in [Message -> Nat]
      /\ interruptions \in Nat
    BY DeviceAssumption DEF DeviceInv, DeviceTypeOK
<1>c. announced \in Message /\ done \in Message /\ announced # done
    BY DEF Message, Kind
<1>d. SectionInv /\ FateInv /\ OpenClipIsListed /\ AckInv
    BY DEF DeviceInv
<1> USE DEF DoneRowsInv, AnnounceRowsInv, CaptureStep, Running, GoTo, Awaiting, Free
<1>1. ASSUME NEW e \in Event, Spool(e) PROVE DoneRowsInv(f)' /\ AnnounceRowsInv(f)'
    BY <1>a, <1>b, <1>c, <1>d, <1>1 DEF Spool, SectionInv, FateInv
<1>2. ASSUME NEW e \in Event, AddRow(e) PROVE DoneRowsInv(f)' /\ AnnounceRowsInv(f)'
  <2>1. /\ backlog' \in [Message -> Nat]
        /\ backlog'[announced] <= backlog[announced]
        /\ backlog'[done] <= backlog[done]
      BY <1>b, <1>c, <1>2, PruningsShrink DEF AddRow
  <2>2. fate[e] = "spooled"
      BY <1>d, <1>2 DEF AddRow, SectionInv
  <2> QED
      BY <1>a, <1>b, <1>c, <1>2, <2>1, <2>2 DEF AddRow
<1>3. ASSUME NEW e \in Event, AnnouncePublished(e) PROVE DoneRowsInv(f)' /\ AnnounceRowsInv(f)'
    BY <1>a, <1>b, <1>c, <1>d, <1>3 DEF AnnouncePublished
<1>4. ASSUME NEW e \in Event, AnnounceUnsent(e) PROVE DoneRowsInv(f)' /\ AnnounceRowsInv(f)'
    BY <1>a, <1>b, <1>c, <1>d, <1>4 DEF AnnounceUnsent
<1>5. ASSUME NEW e \in Event, ParkAnnounce(e) PROVE DoneRowsInv(f)' /\ AnnounceRowsInv(f)'
  <2>1. /\ backlog' \in [Message -> Nat]
        /\ backlog'[announced] <= backlog[announced] + (IF e = f THEN 1 ELSE 0)
        /\ backlog'[done] <= backlog[done]
    <3>1. <<"announce", e>> \in Message /\ Enqueue(<<"announce", e>>)
        BY <1>5, EventMessages DEF ParkAnnounce
    <3>2. /\ backlog' \in [Message -> Nat]
          /\ backlog'[<<"announce", e>>] <= backlog[<<"announce", e>>] + 1
          /\ \A n \in Message \ {<<"announce", e>>} : backlog'[n] <= backlog[n]
        BY <1>b, <3>1, EnqueueAddsOne
    <3> QED BY <1>b, <1>c, <3>2
  <2> QED
    <3>1. fate[e] \notin {"new", "spooled"}
        BY <1>d, <1>5 DEF ParkAnnounce, SectionInv, FateInv
    <3> QED
        BY <1>a, <1>b, <1>c, <1>5, <2>1, <3>1 DEF ParkAnnounce
<1>6. ASSUME NEW e \in Event, SendIntent(e) PROVE DoneRowsInv(f)' /\ AnnounceRowsInv(f)'
    BY <1>a, <1>b, <1>c, <1>d, <1>6 DEF SendIntent
<1>7. ASSUME NEW e \in Event, ResumeUploaded(e) PROVE DoneRowsInv(f)' /\ AnnounceRowsInv(f)'
    BY <1>a, <1>b, <1>c, <1>d, <1>7 DEF ResumeUploaded
<1>8. ASSUME NEW e \in Event, IntentGranted(e) PROVE DoneRowsInv(f)' /\ AnnounceRowsInv(f)'
  <2>1. upload[e] = "pending" /\ fate[e] \notin {"new", "spooled"}
      BY <1>b, <1>d, <1>8 DEF IntentGranted, DeviceInv, UploaderInv, FateInv, Idle
  <2> QED
      BY <1>a, <1>b, <1>c, <2>1, <1>8 DEF IntentGranted
<1>9. ASSUME NEW e \in Event, IntentRefused(e) PROVE DoneRowsInv(f)' /\ AnnounceRowsInv(f)'
    BY <1>a, <1>b, <1>c, <1>d, <1>9 DEF IntentRefused, SectionInv, FateInv
<1>10. ASSUME NEW e \in Event, ExchangeFailed(e) PROVE DoneRowsInv(f)' /\ AnnounceRowsInv(f)'
    BY <1>a, <1>b, <1>c, <1>d, <1>10 DEF ExchangeFailed
<1>11. ASSUME NEW e \in Event, PutSucceeded(e) PROVE DoneRowsInv(f)' /\ AnnounceRowsInv(f)'
    BY <1>a, <1>b, <1>c, <1>d, <1>11 DEF PutSucceeded
<1>12. ASSUME NEW e \in Event, MarkUploaded(e) PROVE DoneRowsInv(f)' /\ AnnounceRowsInv(f)'
    BY <1>a, <1>b, <1>c, <1>d, <1>12 DEF MarkUploaded, SectionInv, FateInv
<1>12a. ASSUME NEW e \in Event, Reload(e) PROVE DoneRowsInv(f)' /\ AnnounceRowsInv(f)'
    BY <1>a, <1>b, <1>c, <1>d, <1>12a DEF Reload
<1>13. ASSUME NEW e \in Event, DonePublished(e) PROVE DoneRowsInv(f)' /\ AnnounceRowsInv(f)'
    BY <1>a, <1>b, <1>c, <1>d, <1>13 DEF DonePublished, SectionInv, FateInv
<1>14. ASSUME NEW e \in Event, DoneUnsent(e) PROVE DoneRowsInv(f)' /\ AnnounceRowsInv(f)'
    BY <1>a, <1>b, <1>c, <1>d, <1>14 DEF DoneUnsent
<1>15. ASSUME NEW e \in Event, ParkDone(e) PROVE DoneRowsInv(f)' /\ AnnounceRowsInv(f)'
  <2>1. /\ backlog' \in [Message -> Nat]
        /\ backlog'[announced] <= backlog[announced]
        /\ backlog'[done] <= backlog[done] + (IF e = f THEN 1 ELSE 0)
    <3>1. <<"done", e>> \in Message /\ Enqueue(<<"done", e>>)
        BY <1>15, EventMessages DEF ParkDone
    <3>2. /\ backlog' \in [Message -> Nat]
          /\ backlog'[<<"done", e>>] <= backlog[<<"done", e>>] + 1
          /\ \A n \in Message \ {<<"done", e>>} : backlog'[n] <= backlog[n]
        BY <1>b, <3>1, EnqueueAddsOne
    <3> QED BY <1>b, <1>c, <3>2
  <2>2. upload[e] = "uploaded" /\ fate[e] \notin {"new", "spooled"}
      BY <1>b, <1>d, <1>15 DEF ParkDone, SectionInv, FateInv
  <2> QED
      BY <1>a, <1>b, <1>c, <1>15, <2>1, <2>2 DEF ParkDone
<1>16. ASSUME NEW e \in Event, MarkDone(e) PROVE DoneRowsInv(f)' /\ AnnounceRowsInv(f)'
    BY <1>a, <1>b, <1>c, <1>d, <1>16 DEF MarkDone, SectionInv, FateInv
<1>17. ASSUME NEW e \in Event, RemoveRow(e) PROVE DoneRowsInv(f)' /\ AnnounceRowsInv(f)'
    BY <1>a, <1>b, <1>c, <1>d, <1>17 DEF RemoveRow, SectionInv, FateInv
<1>18. ASSUME NEW e \in Event, Unlink(e) PROVE DoneRowsInv(f)' /\ AnnounceRowsInv(f)'
    BY <1>a, <1>b, <1>c, <1>d, <1>18 DEF Unlink
<1>19. ASSUME NEW e \in Event, Housekeep(e) PROVE DoneRowsInv(f)' /\ AnnounceRowsInv(f)'
    BY <1>a, <1>b, <1>c, <1>d, <1>19 DEF Housekeep
<1>20. ASSUME NEW m \in Message, DrainPublished(m) PROVE DoneRowsInv(f)' /\ AnnounceRowsInv(f)'
    BY <1>a, <1>b, <1>c, <1>d, <1>20 DEF DrainPublished
<1>21. ASSUME NEW m \in Message, DrainAck(m) PROVE DoneRowsInv(f)' /\ AnnounceRowsInv(f)'
    BY <1>a, <1>b, <1>c, <1>d, <1>21 DEF DrainAck, AckInv
<1>22. CASE OnConnect
    BY <1>a, <1>b, <1>c, <1>d, <1>22 DEF OnConnect
<1>23. CASE OnDisconnect
    BY <1>a, <1>b, <1>c, <1>d, <1>23 DEF OnDisconnect
<1>24. CASE Crash
    BY <1>a, <1>b, <1>c, <1>d, <1>24 DEF Crash
<1>24a. ASSUME NEW e \in Event, StepRaises(e) PROVE DoneRowsInv(f)' /\ AnnounceRowsInv(f)'
    BY <1>a, <1>b, <1>c, <1>d, <1>24a DEF StepRaises
<1>25. CASE UNCHANGED deviceVars
    BY <1>a, <1>b, <1>c, <1>d, <1>25 DEF deviceVars
<1> QED
    BY <1>1, <1>2, <1>3, <1>4, <1>5, <1>6, <1>7, <1>8, <1>9, <1>10, <1>11, <1>12, <1>12a, <1>13, <1>14, <1>15, <1>16, <1>17, <1>18, <1>19, <1>20, <1>21, <1>22, <1>23, <1>24, <1>24a, <1>25
    DEF DeviceNext, CaptureNext, ReplyNext, UploaderNext, DrainNext

(* However often the process dies or a step raises between queueing        *)
(* event/done and marking the row, the queue holds at most one announce    *)
(* row of a clip and one done row more than there were interruptions: the  *)
(* retries cannot fill the disk.                                           *)
THEOREM QueueIsBounded == DeviceSpec => []QueueBounded
<1>1. BacklogInv /\ DeviceInv => QueueBounded
  <2> SUFFICES ASSUME BacklogInv, DeviceInv, NEW e \in Event
               PROVE  backlog[<<"done", e>>] <= interruptions + 1 /\ backlog[<<"announce", e>>] <= 1
      BY DEF QueueBounded
  <2>1. backlog \in [Message -> Nat] /\ interruptions \in Nat
      BY DeviceAssumption DEF DeviceInv, DeviceTypeOK
  <2>2. backlog[<<"done", e>>] \in Nat
      BY <2>1, EventMessages
  <2> QED
      BY <2>1, <2>2 DEF BacklogInv, DoneRowsInv, AnnounceRowsInv
<1> QED
    BY DeviceInvInit, DeviceInvNext, BacklogInvInit, BacklogInvNext, <1>1, PTL DEF DeviceSpec

-----------------------------------------------------------------------------
(* The cloud.                                                              *)

LEMMA CloudTypeInit == CloudInit => CloudTypeOK
BY DEF CloudInit, CloudTypeOK, IntentState, ViewerState, DeleterState, IngestState, Key

(* The keys that the API computes are keys, and none of them is no key. *)
LEMMA KeysAreKeys ==
    /\ \A dev \in Device, e \in Event : EventKey(dev, e) \in Key
    /\ NoKey \notin Key
BY DEF Key, EventKey, NoKey

(* Whatever writes a row takes note of the keys it replaces. *)
LEMMA KeysNoted == [CloudNext]_cloudVars => NoteKeys \/ UNCHANGED <<row, rekeyed>>
BY DEF CloudNext, IntentStep, IngestStep, VerifyNext, DeleteNext, IntentRead, IntentCommit,
    IntentStale, IntentReject, IntentDbError, IntentArrive, Receive, Take, TakeAnnounce, TakeDone,
    InsertAnnounced, UpdateDone, IngestDbError, IngestCrash, PutObject, VerifyRead, VerifyHead,
    VerifyCommit, DeleteRead, DeleteObject, DeleteRow, DeleteError, cloudVars

(* What the UPDATE of a done and that of an intent leave of a row. *)
LEMMA DoneWrites ==
    ASSUME CloudTypeOK, UpdateDone
    PROVE  LET e == ingest.msg.ev IN
           /\ ingest.at = "update" /\ ingest.msg \in DoneMessage /\ e \in Event
           /\ ingest.seen \in Row /\ ingest.target \in {"uploaded", "failed"}
           /\ \A f \in Event : f # e \/ row[f] = NoRow => row'[f] = row[f]
           /\ row[e] # NoRow
                => /\ row[e] \in Row /\ row'[e] \in Row
                   /\ row'[e].dev = row[e].dev /\ row'[e].meta = row[e].meta
                   /\ row'[e].status = IF ingest.target # ingest.seen.status THEN ingest.target
                                       ELSE row[e].status
                   /\ row'[e].key = IF ingest.msg.key # ingest.seen.key THEN ingest.msg.key
                                    ELSE row[e].key
           /\ DOMAIN row' = Event
<1> DEFINE e == ingest.msg.ev
           status == IF ingest.target # ingest.seen.status THEN ingest.target ELSE row[e].status
           key == IF ingest.msg.key # ingest.seen.key THEN ingest.msg.key ELSE row[e].key
           next == [row[e] EXCEPT !.status = status, !.key = key]
<1>1. /\ ingest.at = "update" /\ ingest.msg \in DoneMessage /\ e \in Event
      /\ ingest.seen \in Row /\ ingest.target \in {"uploaded", "failed"}
    BY DEF UpdateDone, CloudTypeOK, IngestState, DoneMessage, Idle
<1>2. row' = IF row[e] = NoRow THEN row ELSE [row EXCEPT ![e] = next]
    BY DEF UpdateDone, Exists
<1>3. ASSUME row[e] # NoRow
      PROVE  /\ row[e] \in Row /\ next \in Row /\ next.status = status /\ next.key = key
             /\ next.dev = row[e].dev /\ next.meta = row[e].meta
  <2>1. row[e] \in Row
      BY <1>1, <1>3 DEF CloudTypeOK
  <2>2. status \in Status /\ key \in Key \cup {NoKey}
      BY <1>1, <2>1 DEF Row, Status, DoneMessage
  <2> HIDE DEF status, key
  <2> QED
      BY <2>1, <2>2 DEF Row
<1> HIDE DEF e, next
<1>4. DOMAIN row' = Event /\ \A f \in Event : f # e \/ row[f] = NoRow => row'[f] = row[f]
    BY <1>1, <1>2 DEF CloudTypeOK
<1>5. row[e] # NoRow => row'[e] = next
    BY <1>1, <1>2 DEF CloudTypeOK
<1> QED
    BY <1>1, <1>3, <1>4, <1>5 DEF e

LEMMA IntentWrites ==
    ASSUME CloudTypeOK, NEW h \in Intent, IntentUpdate(h), intent[h].at = "commit"
    PROVE  LET e == intent[h].claim.ev IN
           /\ intent[h].claim \in Claim /\ e \in Event /\ intent[h].seen \in Row
           /\ row[e] \in Row /\ row'[e] \in Row
           /\ \A f \in Event : f # e => row'[f] = row[f]
           /\ row'[e].dev = row[e].dev /\ row'[e].meta = row[e].meta
           /\ row'[e].status = StatusAfterIntent(intent[h].seen.status, row[e].status)
           /\ row'[e].key = IF intent[h].seen.key = NoKey
                            THEN EventKey(intent[h].claim.dev, e) ELSE row[e].key
           /\ DOMAIN row' = Event
<1> DEFINE e == intent[h].claim.ev
           status == StatusAfterIntent(intent[h].seen.status, row[e].status)
           key == IF intent[h].seen.key = NoKey THEN EventKey(intent[h].claim.dev, e)
                  ELSE row[e].key
           next == [row[e] EXCEPT !.status = status, !.key = key]
<1>1. /\ intent[h].claim \in Claim /\ e \in Event /\ intent[h].claim.dev \in Device
      /\ intent[h].seen \in Row
    BY DEF IntentUpdate, CloudTypeOK, IntentState, Claim, Idle, NoRow
<1>2. row[e] \in Row /\ row' = [row EXCEPT ![e] = next]
    BY <1>1 DEF IntentUpdate, Exists, CloudTypeOK
<1>3. status \in Status
    BY <1>2 DEF StatusAfterIntent, Row, Status
<1>4. key \in Key \cup {NoKey}
    BY <1>1, <1>2, KeysAreKeys DEF Row
<1> HIDE DEF status, key
<1>5. /\ next \in Row /\ next.status = status /\ next.key = key
      /\ next.dev = row[e].dev /\ next.meta = row[e].meta
    BY <1>2, <1>3, <1>4 DEF Row
<1> HIDE DEF e, next
<1>6. DOMAIN row' = Event /\ row'[e] = next /\ \A f \in Event : f # e => row'[f] = row[f]
    BY <1>1, <1>2 DEF CloudTypeOK
<1> QED
    BY <1>1, <1>2, <1>5, <1>6 DEF e, status, key

LEMMA CloudTypeNext == CloudTypeOK /\ [CloudNext]_cloudVars => CloudTypeOK'
<1> SUFFICES ASSUME CloudTypeOK, [CloudNext]_cloudVars PROVE CloudTypeOK'
    OBVIOUS
<1> USE KeysAreKeys DEF CloudTypeOK, NoteKeys
<1>1. ASSUME NEW h \in Intent, IntentRead(h) PROVE CloudTypeOK'
  <2> DEFINE c == intent[h].claim
             next == [at |-> "commit", claim |-> c, seen |-> row[c.ev]]
  <2>1. c \in Claim
      BY <1>1 DEF IntentRead, IntentState, Idle
  <2>2. row[c.ev] \in Row \cup {NoRow}
      BY <2>1 DEF Claim
  <2>3. next \in IntentState
      BY <2>1, <2>2 DEF IntentState
  <2>4. intent' = [intent EXCEPT ![h] = next]
      BY <1>1 DEF IntentRead
  <2> HIDE DEF c, next
  <2> QED
      BY <1>1, <2>3, <2>4 DEF IntentRead
<1>2. ASSUME NEW h \in Intent, IntentCommit(h) PROVE CloudTypeOK'
  <2> DEFINE c == intent[h].claim
  <2>1. c \in Claim /\ intent[h].seen \in Row \cup {NoRow}
      BY <1>2 DEF IntentCommit, IntentState, Idle
  <2>2. c.ev \in Event /\ c.dev \in Device /\ c.meta \in Meta
      BY <2>1 DEF Claim
  <2>3. row' \in [Event -> Row \cup {NoRow}]
    <3>1. CASE IntentInsert(h)
        BY <2>2, <3>1 DEF IntentInsert, Row, Status
    <3>2. CASE IntentUpdate(h)
      <4>1. row[c.ev] \in Row
          BY <2>2, <3>2 DEF IntentUpdate, Exists
      <4>2. StatusAfterIntent(intent[h].seen.status, row[c.ev].status) \in Status
          BY <4>1 DEF StatusAfterIntent, Row, Status
      <4> HIDE DEF c
      <4> QED
          BY <2>2, <3>2, <4>1, <4>2 DEF IntentUpdate, Row, c
    <3> QED
        BY <1>2, <3>1, <3>2 DEF IntentCommit
  <2> QED
      BY <1>2, <2>3 DEF IntentCommit, IntentState
<1>3. ASSUME NEW h \in Intent, IntentStale(h) PROVE CloudTypeOK'
    BY <1>3 DEF IntentStale, IntentState
<1>4. ASSUME NEW h \in Intent, NEW why \in {"403", "409"}, IntentReject(h, why) PROVE CloudTypeOK'
    BY <1>4 DEF IntentReject, IntentState
<1>5. ASSUME NEW h \in Intent, IntentDbError(h) PROVE CloudTypeOK'
    BY <1>5 DEF IntentDbError, IntentState
<1>6. ASSUME NEW h \in Intent, NEW c \in Claim, IntentArrive(h, c) PROVE CloudTypeOK'
    BY <1>6 DEF IntentArrive, IntentState
<1>7. ASSUME NEW k \in Key, NEW bytes \in {"stored", "wrongSize"}, PutObject(k, bytes)
      PROVE  CloudTypeOK'
    BY <1>7 DEF PutObject
<1>8. ASSUME NEW m \in CloudMessage, Receive(m) PROVE CloudTypeOK'
    BY <1>8 DEF Receive
<1>9. ASSUME NEW m \in inbox, TakeAnnounce(m) PROVE CloudTypeOK'
    BY <1>9 DEF TakeAnnounce, Take, CloudMessage, AnnounceMessage, DoneMessage, IngestState
<1>10. ASSUME NEW m \in inbox, TakeDone(m) PROVE CloudTypeOK'
  <2>1. m \in CloudMessage /\ m.ev \in Event /\ inbox' \in SUBSET CloudMessage
      BY <1>10 DEF TakeDone, Take, CloudMessage, AnnounceMessage, DoneMessage
  <2>2. ingest' \in IngestState
    <3>1. CASE ~DoneApplies(m)
        BY <1>10, <3>1 DEF TakeDone, IngestState
    <3>2. CASE DoneApplies(m)
      <4>1. row[m.ev] \in Row /\ DoneTarget(m) \in {"uploaded", "failed"}
          BY <2>1, <3>2 DEF DoneApplies, DoneTarget, Exists
      <4>2. m \in DoneMessage
          BY <1>10, <2>1 DEF TakeDone, CloudMessage, AnnounceMessage
      <4> QED
          BY <1>10, <3>2, <4>1, <4>2 DEF TakeDone, IngestState
    <3> QED
        BY <3>1, <3>2
  <2> QED
      BY <1>10, <2>1, <2>2 DEF TakeDone, Take
<1>11. CASE InsertAnnounced
    BY <1>11 DEF InsertAnnounced, Exists, IngestState, CloudMessage, AnnounceMessage, DoneMessage, Row, Status, Idle
<1>12. CASE UpdateDone
  <2>1. \A f \in Event : row'[f] \in Row \cup {NoRow}
      BY <1>12, DoneWrites
  <2>2. row' = [f \in Event |-> row'[f]]
      BY <1>12, DoneWrites DEF UpdateDone, CloudTypeOK
  <2> QED
      BY <1>12, <2>1, <2>2 DEF UpdateDone, IngestState
<1>13. CASE IngestDbError
    BY <1>13 DEF IngestDbError, IngestState
<1>14. CASE IngestCrash
    BY <1>14 DEF IngestCrash, IngestState
<1>15. ASSUME NEW v \in Viewer, NEW e \in Event, VerifyRead(v, e) PROVE CloudTypeOK'
  <2>1. row[e] \in Row /\ row[e].key \in Key
      BY <1>15 DEF VerifyRead, Row, NoRow
  <2> QED
      BY <1>15, <2>1 DEF VerifyRead, ViewerState
<1>16. ASSUME NEW v \in Viewer, VerifyHead(v) PROVE CloudTypeOK'
    BY <1>16 DEF VerifyHead, ViewerState, Idle
<1>17. ASSUME NEW v \in Viewer, VerifyCommit(v) PROVE CloudTypeOK'
    BY <1>17 DEF VerifyCommit, ViewerState, Exists, Row, Status, Idle
<1>18. ASSUME NEW d \in Deleter, NEW e \in Event, DeleteRead(d, e) PROVE CloudTypeOK'
  <2>1. row[e] \in Row /\ row[e].key \in Key \cup {NoKey}
      BY <1>18 DEF DeleteRead, Exists, Row
  <2> QED
      BY <1>18, <2>1 DEF DeleteRead, DeleterState
<1>19. ASSUME NEW d \in Deleter, DeleteObject(d) PROVE CloudTypeOK'
    BY <1>19 DEF DeleteObject, DeleterState, Idle
<1>20. ASSUME NEW d \in Deleter, DeleteRow(d) PROVE CloudTypeOK'
    BY <1>20 DEF DeleteRow, DeleterState, Idle
<1>21. ASSUME NEW d \in Deleter, DeleteError(d) PROVE CloudTypeOK'
    BY <1>21 DEF DeleteError, DeleterState
<1>22. CASE UNCHANGED cloudVars
    BY <1>22 DEF cloudVars
<1> QED
    BY <1>1, <1>2, <1>3, <1>4, <1>5, <1>6, <1>7, <1>8, <1>9, <1>10, <1>11, <1>12, <1>13, <1>14, <1>15, <1>16, <1>17, <1>18, <1>19, <1>20, <1>21, <1>22
    DEF CloudNext, IntentStep, IngestStep, VerifyNext, DeleteNext

(* The handlers keep every row, request and message well formed, however   *)
(* many of them interleave.                                                *)
THEOREM CloudTypeCorrect == CloudSpec => []CloudTypeOK
BY CloudTypeInit, CloudTypeNext, PTL DEF CloudSpec

-----------------------------------------------------------------------------
(* An object that was there stays, or its removal is on record. *)
Held(k) == object[k] # "absent" \/ k \in purged

(* The ground for `available`, in the row or in a request about to write   *)
(* it: the key that was checked is the row's, or the change is on record.  *)
VerifiedInv ==
    /\ \A e \in Event \ rekeyed :
         row[e].status = "available" => KeyOf(e) # NoKey /\ Held(KeyOf(e))
    /\ \A v \in Viewer :
         viewer[v] # Idle =>
           /\ viewer[v].ev \notin rekeyed => KeyOf(viewer[v].ev) = viewer[v].key
           /\ viewer[v].at = "available" => Held(viewer[v].key)

LEMMA HeldStable ==
    ASSUME CloudTypeOK, [CloudNext]_cloudVars, NEW k \in Key, Held(k)
    PROVE  Held(k)'
<1>1. ASSUME NEW f \in Key, NEW bytes \in {"stored", "wrongSize"}, PutObject(f, bytes)
      PROVE  Held(k)'
    BY <1>1 DEF PutObject, Held, CloudTypeOK
<1>2. ASSUME NEW d \in Deleter, DeleteObject(d)
      PROVE  Held(k)'
    BY <1>2 DEF DeleteObject, Held, CloudTypeOK
<1>3. (object' = object /\ purged' = purged) => Held(k)'
    BY DEF Held
<1> QED
    BY <1>1, <1>2, <1>3 DEF CloudNext, IntentStep, IngestStep, VerifyNext, DeleteNext, IntentRead,
        IntentCommit, IntentStale, IntentReject, IntentDbError, IntentArrive, Receive, Take,
        TakeAnnounce, TakeDone, InsertAnnounced, UpdateDone, IngestDbError, IngestCrash,
        VerifyRead, VerifyHead, VerifyCommit, DeleteRead, DeleteRow, DeleteError, cloudVars

(* A key stays the row's, or the change is on record. *)
LEMMA KeyStable ==
    ASSUME [CloudNext]_cloudVars, NEW e \in Event, e \notin rekeyed'
    PROVE  e \notin rekeyed /\ (KeyOf(e) # NoKey => KeyOf(e)' = KeyOf(e))
<1>1. CASE NoteKeys
    BY <1>1 DEF NoteKeys
<1>2. CASE UNCHANGED <<row, rekeyed>>
    BY <1>2 DEF KeyOf, Exists
<1> QED
    BY <1>1, <1>2, KeysNoted

LEMMA VerifiedInvInit == CloudInit => VerifiedInv
BY DEF CloudInit, VerifiedInv, NoRow

(* Only VerifyCommit makes a row available. *)
LEMMA OnlyVerifyPromotes ==
    ASSUME CloudTypeOK, [CloudNext]_cloudVars,
           NEW e \in Event, row'[e].status = "available", row[e].status # "available"
    PROVE  \E v \in Viewer : viewer[v].at = "available" /\ viewer[v].ev = e /\ viewer[v] # Idle
<1>1. ASSUME NEW h \in Intent, IntentCommit(h) PROVE FALSE
  <2>1. CASE IntentInsert(h)
      BY <2>1 DEF IntentInsert, CloudTypeOK
  <2>2. CASE IntentUpdate(h)
    <3>1. e = intent[h].claim.ev
        BY <2>2 DEF IntentUpdate, CloudTypeOK
    <3>2. row[e] \in Row
        BY <2>2, <3>1 DEF IntentUpdate, Exists, CloudTypeOK
    <3>3. row'[e].status = StatusAfterIntent(intent[h].seen.status, row[e].status)
        BY <2>2, <3>1, <3>2 DEF IntentUpdate, CloudTypeOK, Row
    <3> QED
        BY <3>3 DEF StatusAfterIntent
  <2> QED
      BY <1>1, <2>1, <2>2 DEF IntentCommit
<1>2. CASE InsertAnnounced
    BY <1>2 DEF InsertAnnounced, CloudTypeOK
<1>3. CASE UpdateDone
    BY <1>3, DoneWrites DEF Exists
<1>4. ASSUME NEW v \in Viewer, VerifyCommit(v)
      PROVE  viewer[v].at = "available" /\ viewer[v].ev = e /\ viewer[v] # Idle
    BY <1>4 DEF VerifyCommit, CloudTypeOK, ViewerState, Exists, Row, Idle
<1>5. ASSUME NEW d \in Deleter, DeleteRow(d) PROVE FALSE
    BY <1>5 DEF DeleteRow, CloudTypeOK, NoRow
<1>6. row' # row
    OBVIOUS
<1> QED
    BY <1>1, <1>2, <1>3, <1>4, <1>5, <1>6 DEF CloudNext, IntentStep, IngestStep, VerifyNext,
        DeleteNext, IntentRead, IntentStale, IntentReject, IntentDbError, IntentArrive, Receive,
        Take, TakeAnnounce, TakeDone, IngestDbError, IngestCrash, PutObject, VerifyRead,
        VerifyHead, DeleteRead, DeleteObject, DeleteError, cloudVars

(* A request stays with the event and the key it read. *)
LEMMA ViewerSteps ==
    ASSUME CloudTypeOK, [CloudNext]_cloudVars,
           NEW v \in Viewer, viewer'[v] # Idle, viewer'[v] # viewer[v]
    PROVE  \/ /\ viewer'[v].at = "head" /\ viewer'[v].ev \in Event
              /\ viewer'[v].key = KeyOf(viewer'[v].ev)
              /\ UNCHANGED row
           \/ /\ viewer[v] # Idle /\ UNCHANGED <<row, rekeyed>>
              /\ viewer'[v].ev = viewer[v].ev /\ viewer'[v].key = viewer[v].key
              /\ viewer'[v].at = "available" => Held(viewer[v].key)'
<1>1. ASSUME NEW w \in Viewer, NEW e \in Event, VerifyRead(w, e)
      PROVE  /\ viewer'[v].at = "head" /\ viewer'[v].ev \in Event
             /\ viewer'[v].key = KeyOf(viewer'[v].ev)
             /\ UNCHANGED row
    BY <1>1 DEF VerifyRead, CloudTypeOK, KeyOf, Exists, NoRow
<1>2. ASSUME NEW w \in Viewer, VerifyHead(w)
      PROVE  /\ viewer[v] # Idle /\ UNCHANGED <<row, rekeyed>>
             /\ viewer'[v].ev = viewer[v].ev /\ viewer'[v].key = viewer[v].key
             /\ viewer'[v].at = "available" => Held(viewer[v].key)'
  <2>1. w = v
      BY <1>2 DEF VerifyHead, CloudTypeOK
  <2>2. viewer[v] \in [at : {"head"}, ev : Event, key : Key]
      BY <1>2, <2>1 DEF VerifyHead, CloudTypeOK, ViewerState, Idle
  <2>3. object[viewer[v].key] # "absent" /\ UNCHANGED object
      BY <1>2, <2>1 DEF VerifyHead, CloudTypeOK
  <2> QED
      BY <1>2, <2>1, <2>2, <2>3 DEF VerifyHead, CloudTypeOK, Held, Idle
<1>3. ASSUME NEW w \in Viewer, VerifyCommit(w) PROVE FALSE
    BY <1>3 DEF VerifyCommit, CloudTypeOK
<1> QED
    BY <1>1, <1>2, <1>3 DEF CloudNext, IntentStep, IngestStep, VerifyNext, DeleteNext,
        IntentRead, IntentCommit, IntentStale, IntentReject, IntentDbError, IntentArrive,
        Receive, Take, TakeAnnounce, TakeDone, InsertAnnounced, UpdateDone, IngestDbError,
        IngestCrash, PutObject, DeleteRead, DeleteObject, DeleteRow, DeleteError, cloudVars

LEMMA VerifiedInvNext ==
    CloudTypeOK /\ VerifiedInv /\ [CloudNext]_cloudVars => VerifiedInv'
<1> SUFFICES ASSUME CloudTypeOK, VerifiedInv, [CloudNext]_cloudVars PROVE VerifiedInv'
    OBVIOUS
<1>a. CloudTypeOK'
    BY CloudTypeNext
<1>1. ASSUME NEW e \in Event, e \notin rekeyed', row'[e].status = "available"
      PROVE  (KeyOf(e) # NoKey /\ Held(KeyOf(e)))'
  <2>1. e \notin rekeyed /\ (KeyOf(e) # NoKey => KeyOf(e)' = KeyOf(e))
      BY <1>1, KeyStable
  <2>2. KeyOf(e) # NoKey /\ Held(KeyOf(e))
    <3>1. CASE row[e].status = "available"
        BY <2>1, <3>1 DEF VerifiedInv
    <3>2. CASE row[e].status # "available"
      <4>1. PICK v \in Viewer : viewer[v].at = "available" /\ viewer[v].ev = e /\ viewer[v] # Idle
          BY <1>1, <3>2, OnlyVerifyPromotes
      <4>2. viewer[v].key \in Key
          BY <4>1 DEF CloudTypeOK, ViewerState
      <4> QED
          BY <2>1, <4>1, <4>2, KeysAreKeys DEF VerifiedInv
    <3> QED
        BY <3>1, <3>2
  <2>3. KeyOf(e) \in Key
      BY <2>2 DEF KeyOf, Exists, CloudTypeOK, Row
  <2>4. Held(KeyOf(e))'
    <3> DEFINE k == KeyOf(e)
    <3>1. k \in Key /\ Held(k) /\ k' = k
        BY <2>1, <2>2, <2>3
    <3>2. ASSUME NEW j \in Key, Held(j) PROVE Held(j)'
        BY <3>2, HeldStable
    <3> QED
        BY <3>1, <3>2 DEF Held
  <2> QED
      BY <2>1, <2>2, <2>4
<1>2. ASSUME NEW v \in Viewer, viewer'[v] # Idle
      PROVE  (/\ viewer[v].ev \notin rekeyed => KeyOf(viewer[v].ev) = viewer[v].key
              /\ viewer[v].at = "available" => Held(viewer[v].key))'
  <2>1. CASE viewer'[v] = viewer[v]
    <3>1. viewer[v].ev \in Event /\ viewer[v].key \in Key
        BY <1>2, <2>1 DEF CloudTypeOK, ViewerState
    <3>2. /\ viewer[v].ev \notin rekeyed => KeyOf(viewer[v].ev) = viewer[v].key
          /\ viewer[v].at = "available" => Held(viewer[v].key)
        BY <1>2, <2>1 DEF VerifiedInv
    <3>3. ASSUME NEW j \in Key, Held(j) PROVE Held(j)'
        BY <3>3, HeldStable
    <3>4. ASSUME NEW e \in Event, e \notin rekeyed', KeyOf(e) # NoKey
          PROVE  e \notin rekeyed /\ KeyOf(e)' = KeyOf(e)
        BY <3>4, KeyStable
    <3>5. ASSUME NEW e \in Event, e \notin rekeyed' PROVE e \notin rekeyed
        BY <3>5, KeyStable
    <3> QED
        BY <2>1, <3>1, <3>2, <3>3, <3>4, <3>5, KeysAreKeys DEF KeyOf, Exists, Held
  <2>2. CASE viewer'[v] # viewer[v]
    <3>1. CASE /\ viewer'[v].at = "head" /\ viewer'[v].ev \in Event
               /\ viewer'[v].key = KeyOf(viewer'[v].ev)
               /\ UNCHANGED row
        BY <3>1 DEF KeyOf, Exists
    <3>2. CASE /\ viewer[v] # Idle /\ UNCHANGED <<row, rekeyed>>
               /\ viewer'[v].ev = viewer[v].ev /\ viewer'[v].key = viewer[v].key
               /\ viewer'[v].at = "available" => Held(viewer[v].key)'
        BY <3>2 DEF VerifiedInv, KeyOf, Exists, Held
    <3> QED
        BY <1>2, <2>2, <3>1, <3>2, ViewerSteps
  <2> QED
      BY <2>1, <2>2
<1> QED
    BY <1>1, <1>2 DEF VerifiedInv, KeyOf, Exists, Held

(* What get_event and the playback URL offer as available is in the store  *)
(* under the row's key, or a deletion took it after it was checked,        *)
(* whoever raced the check, unless the row's key was itself replaced.      *)
THEOREM AvailableIsVerified == CloudSpec => []AvailableWasVerified
<1>1. VerifiedInv => AvailableWasVerified
    BY DEF VerifiedInv, AvailableWasVerified, Held, KeyOf, Exists
<1> QED
    BY CloudTypeInit, CloudTypeNext, VerifiedInvInit, VerifiedInvNext, <1>1, PTL DEF CloudSpec

-----------------------------------------------------------------------------
(* A row that is there before and after a step is the same event. *)
Keeps(e) ==
    Exists(e) /\ row'[e] # NoRow => row'[e].dev = row[e].dev /\ row'[e].meta = row[e].meta

LEMMA IdentityStep ==
    ASSUME CloudTypeOK, [CloudNext]_cloudVars, NEW e \in Event
    PROVE  Keeps(e)
<1> USE DEF CloudTypeOK, Exists, Row, Keeps
<1>1. ASSUME NEW h \in Intent, IntentCommit(h) PROVE Keeps(e)
  <2>1. CASE IntentInsert(h)
      BY <2>1 DEF IntentInsert
  <2>2. CASE IntentUpdate(h)
      BY <1>1, <2>2, IntentWrites DEF IntentCommit
  <2> QED
      BY <1>1, <2>1, <2>2 DEF IntentCommit
<1>2. CASE InsertAnnounced
    BY <1>2 DEF InsertAnnounced
<1>3. CASE UpdateDone
    BY <1>3, DoneWrites
<1>4. ASSUME NEW v \in Viewer, VerifyCommit(v) PROVE Keeps(e)
    BY <1>4 DEF VerifyCommit
<1>5. ASSUME NEW d \in Deleter, DeleteRow(d) PROVE Keeps(e)
    BY <1>5 DEF DeleteRow
<1>6. row' = row => Keeps(e)
    OBVIOUS
<1> HIDE DEF Keeps, CloudTypeOK
<1> QED
    BY <1>1, <1>2, <1>3, <1>4, <1>5, <1>6 DEF CloudNext, IntentStep, IngestStep,
        VerifyNext, DeleteNext, IntentRead, IntentStale, IntentReject, IntentDbError,
        IntentArrive, Receive, Take, TakeAnnounce, TakeDone, IngestDbError, IngestCrash,
        PutObject, VerifyRead, VerifyHead, DeleteRead, DeleteObject, DeleteError, cloudVars

(* Concurrent first inserts, blind updates and late verifications may mix  *)
(* their columns, but none of them moves a row to another device or swaps  *)
(* its metadata.                                                           *)
THEOREM RowKeepsIdentity == CloudSpec => RowIdentityKept
<1>1. CloudTypeOK /\ [CloudNext]_cloudVars => [\A e \in Event : Keeps(e)]_cloudVars
    BY IdentityStep
<1>2. [\A e \in Event : Keeps(e)]_cloudVars =>
        [\A e \in Event :
           Exists(e) /\ row'[e] # NoRow
             => row'[e].dev = row[e].dev /\ row'[e].meta = row[e].meta]_cloudVars
    BY DEF Keeps
<1> QED
    BY CloudTypeInit, CloudTypeNext, <1>1, <1>2, PTL DEF CloudSpec, RowIdentityKept

-----------------------------------------------------------------------------
(* The worker's word and an intent's: what _handle_event_done and          *)
(* create_event_intent read is still so when they write, as long as the    *)
(* row was not deleted in between.                                         *)
Updating == ingest # Idle /\ ingest.at = "update"
Revising(h) == intent[h] # Idle /\ intent[h].at = "commit" /\ intent[h].seen # NoRow

WordInv ==
    /\ Updating =>
         /\ Exists(ingest.msg.ev)
         /\ row[ingest.msg.ev].dev = ingest.msg.dev
         /\ ingest.msg.kind = "done"
         /\ ingest.target = "uploaded" => row[ingest.msg.ev].meta = ingest.msg.meta
    /\ \A h \in Intent :
         Revising(h) => /\ Exists(intent[h].claim.ev)
                        /\ row[intent[h].claim.ev].dev = intent[h].claim.dev

(* No row is deleted between the two statements of a handler. *)
Undisturbed ==
    /\ Updating => row'[ingest.msg.ev] # NoRow
    /\ \A h \in Intent : Revising(h) => row'[intent[h].claim.ev] # NoRow

LEMMA UpdatingIs ==
    ASSUME CloudTypeOK, Updating
    PROVE  /\ ingest.msg \in CloudMessage /\ ingest.msg.ev \in Event
           /\ ingest.target \in {"uploaded", "failed"}
BY DEF CloudTypeOK, Updating, IngestState, Idle, CloudMessage, AnnounceMessage, DoneMessage

LEMMA RevisingIs ==
    ASSUME CloudTypeOK, NEW h \in Intent, Revising(h)
    PROVE  /\ intent[h].claim \in Claim /\ intent[h].claim.ev \in Event
           /\ intent[h].seen \in Row
BY DEF CloudTypeOK, Revising, IntentState, Idle, Claim

LEMMA WordInvInit == CloudInit => WordInv
BY DEF CloudInit, WordInv, Updating, Revising

(* Only a done that was just read puts the worker into an update. *)
LEMMA UpdatingBegins ==
    ASSUME CloudTypeOK, [CloudNext]_cloudVars, Updating', ingest' # ingest
    PROVE  \E m \in inbox :
             /\ m.kind = "done" /\ DoneApplies(m) /\ row' = row
             /\ ingest' = [at |-> "update", msg |-> m, seen |-> row[m.ev],
                           target |-> DoneTarget(m)]
<1>1. ASSUME NEW m \in inbox, TakeDone(m)
      PROVE  /\ m.kind = "done" /\ DoneApplies(m) /\ row' = row
             /\ ingest' = [at |-> "update", msg |-> m, seen |-> row[m.ev],
                           target |-> DoneTarget(m)]
    BY <1>1 DEF TakeDone, Take, Updating
<1>2. ASSUME NEW m \in inbox, TakeAnnounce(m) PROVE FALSE
    BY <1>2 DEF TakeAnnounce, Updating
<1>3. ~InsertAnnounced /\ ~UpdateDone /\ ~IngestDbError /\ ~IngestCrash
    BY DEF InsertAnnounced, UpdateDone, IngestDbError, IngestCrash, Updating
<1> QED
    BY <1>1, <1>2, <1>3 DEF CloudNext, IntentStep, IngestStep, VerifyNext, DeleteNext,
        IntentRead, IntentCommit, IntentStale, IntentReject, IntentDbError, IntentArrive,
        Receive, PutObject, VerifyRead, VerifyHead, VerifyCommit, DeleteRead, DeleteObject,
        DeleteRow, DeleteError, cloudVars

(* Only an intent that has just read its device's row goes on to revise it. *)
LEMMA RevisingBegins ==
    ASSUME CloudTypeOK, [CloudNext]_cloudVars,
           NEW h \in Intent, Revising(h)', intent'[h] # intent[h]
    PROVE  /\ UNCHANGED row
           /\ intent'[h].claim.ev \in Event
           /\ Exists(intent'[h].claim.ev)
           /\ row[intent'[h].claim.ev].dev = intent'[h].claim.dev
<1>1. ASSUME NEW g \in Intent, IntentRead(g)
      PROVE  /\ UNCHANGED row
             /\ intent'[h].claim.ev \in Event
             /\ Exists(intent'[h].claim.ev)
             /\ row[intent'[h].claim.ev].dev = intent'[h].claim.dev
  <2>1. g = h /\ intent[h] # Idle
      BY <1>1 DEF IntentRead, CloudTypeOK, Idle
  <2>2. intent[h].claim \in Claim
      BY <1>1, <2>1 DEF IntentRead, CloudTypeOK, IntentState
  <2>3. intent'[h] = [at |-> "commit", claim |-> intent[h].claim,
                      seen |-> row[intent[h].claim.ev]]
      BY <1>1, <2>1 DEF IntentRead, CloudTypeOK
  <2> QED
      BY <1>1, <2>1, <2>2, <2>3 DEF IntentRead, Forbidden, Exists, Revising, Claim
<1>2. ASSUME NEW g \in Intent,
             \/ IntentCommit(g) \/ IntentStale(g) \/ IntentDbError(g)
             \/ (\E why \in {"403", "409"} : IntentReject(g, why))
             \/ (\E c \in Claim : IntentArrive(g, c))
      PROVE  FALSE
    BY <1>2 DEF IntentCommit, IntentStale, IntentDbError, IntentReject, IntentArrive, CloudTypeOK,
        Revising
<1> QED
    BY <1>1, <1>2 DEF CloudNext, IntentStep, IngestStep, VerifyNext, DeleteNext,
        Receive, Take, TakeAnnounce, TakeDone, InsertAnnounced, UpdateDone, IngestDbError,
        IngestCrash, PutObject, VerifyRead, VerifyHead, VerifyCommit, DeleteRead, DeleteObject,
        DeleteRow, DeleteError, cloudVars

LEMMA WordInvNext ==
    CloudTypeOK /\ WordInv /\ [CloudNext]_cloudVars /\ [Undisturbed]_cloudVars => WordInv'
<1> SUFFICES ASSUME CloudTypeOK, WordInv, [CloudNext]_cloudVars, [Undisturbed]_cloudVars
             PROVE  WordInv'
    OBVIOUS
<1>1. ASSUME Updating'
      PROVE  /\ row'[ingest'.msg.ev] # NoRow
             /\ row'[ingest'.msg.ev].dev = ingest'.msg.dev
             /\ ingest'.msg.kind = "done"
             /\ ingest'.target = "uploaded" => row'[ingest'.msg.ev].meta = ingest'.msg.meta
  <2>1. CASE ingest' = ingest
    <3>1. Updating /\ ingest.msg.ev \in Event
        BY <1>1, <2>1, UpdatingIs DEF Updating
    <3>2. Exists(ingest.msg.ev) /\ row'[ingest.msg.ev] # NoRow
        BY <3>1 DEF WordInv, Undisturbed, cloudVars, Exists
    <3>3. Keeps(ingest.msg.ev)
        BY <3>1, IdentityStep
    <3> QED
        BY <2>1, <3>1, <3>2, <3>3 DEF WordInv, Keeps, Exists
  <2>2. CASE ingest' # ingest
    <3>1. PICK m \in inbox :
            /\ m.kind = "done" /\ DoneApplies(m) /\ row' = row
            /\ ingest' = [at |-> "update", msg |-> m, seen |-> row[m.ev],
                          target |-> DoneTarget(m)]
        BY <1>1, <2>2, UpdatingBegins
    <3> QED
        BY <3>1 DEF DoneApplies, DoneTarget, Exists
  <2> QED
      BY <2>1, <2>2
<1>2. ASSUME NEW h \in Intent, Revising(h)'
      PROVE  /\ row'[intent'[h].claim.ev] # NoRow
             /\ row'[intent'[h].claim.ev].dev = intent'[h].claim.dev
  <2>1. CASE intent'[h] = intent[h]
    <3>1. Revising(h) /\ intent[h].claim.ev \in Event
        BY <1>2, <2>1, RevisingIs DEF Revising
    <3>2. Exists(intent[h].claim.ev) /\ row'[intent[h].claim.ev] # NoRow
        BY <3>1 DEF WordInv, Undisturbed, cloudVars, Exists
    <3>3. Keeps(intent[h].claim.ev)
        BY <3>1, IdentityStep
    <3> QED
        BY <2>1, <3>1, <3>2, <3>3 DEF WordInv, Keeps, Exists
  <2>2. CASE intent'[h] # intent[h]
      BY <1>2, <2>2, RevisingBegins DEF Exists
  <2> QED
      BY <2>1, <2>2
<1>3. WordInv'
    BY <1>1, <1>2 DEF WordInv, Exists
<1> QED
    BY <1>3

(* Only the handler of a done makes a row uploaded. *)
LEMMA OnlyDoneUploads ==
    ASSUME CloudTypeOK, [CloudNext]_cloudVars,
           NEW e \in Event, row'[e].status = "uploaded", row[e].status # "uploaded"
    PROVE  /\ UpdateDone /\ Updating /\ ingest.msg.ev = e /\ ingest.target = "uploaded"
           /\ row[e] # NoRow
<1>1. ASSUME NEW h \in Intent, IntentCommit(h) PROVE FALSE
  <2>1. CASE IntentInsert(h)
      BY <2>1 DEF IntentInsert, CloudTypeOK
  <2>2. CASE IntentUpdate(h)
    <3>1. e = intent[h].claim.ev
        BY <2>2 DEF IntentUpdate, CloudTypeOK
    <3>2. row[e] \in Row
        BY <2>2, <3>1 DEF IntentUpdate, Exists, CloudTypeOK
    <3>3. row'[e].status = StatusAfterIntent(intent[h].seen.status, row[e].status)
        BY <2>2, <3>1, <3>2 DEF IntentUpdate, CloudTypeOK, Row
    <3> QED
        BY <3>3 DEF StatusAfterIntent
  <2> QED
      BY <1>1, <2>1, <2>2 DEF IntentCommit
<1>2. ~InsertAnnounced
    BY DEF InsertAnnounced, CloudTypeOK
<1>3. CASE UpdateDone
  <2>1. ingest # Idle
      BY <1>3 DEF UpdateDone, Idle
  <2>2. Updating
      BY <1>3, <2>1 DEF UpdateDone, Updating
  <2>3. ingest.msg.ev \in Event
      BY <2>2, UpdatingIs
  <2> QED
      BY <1>3, <2>2, DoneWrites
<1>4. ASSUME NEW v \in Viewer, VerifyCommit(v) PROVE FALSE
    BY <1>4 DEF VerifyCommit, CloudTypeOK, ViewerState, Exists, Row, Idle
<1>5. ASSUME NEW d \in Deleter, DeleteRow(d) PROVE FALSE
    BY <1>5 DEF DeleteRow, CloudTypeOK, NoRow
<1>6. row' # row
    OBVIOUS
<1> QED
    BY <1>1, <1>2, <1>3, <1>4, <1>5, <1>6 DEF CloudNext, IntentStep, IngestStep, VerifyNext,
        DeleteNext, IntentRead, IntentStale, IntentReject, IntentDbError, IntentArrive, Receive,
        Take, TakeAnnounce, TakeDone, IngestDbError, IngestCrash, PutObject, VerifyRead,
        VerifyHead, DeleteRead, DeleteObject, DeleteError, cloudVars

LEMMA WordIsOwners ==
    ASSUME CloudTypeOK, WordInv, [CloudNext]_cloudVars,
           NEW e \in Event, row'[e].status = "uploaded", row[e].status # "uploaded"
    PROVE  Exists(e) /\ OwnersDone(e) /\ ingest.msg.meta = row[e].meta
<1>1. Updating /\ ingest.msg.ev = e /\ ingest.target = "uploaded" /\ row[e] # NoRow
    BY OnlyDoneUploads
<1> QED
    BY <1>1 DEF WordInv, OwnersDone, Updating, Exists

(* Only an intent and a done write a key, each for the owner of the row. *)
LEMMA KeysAreOwners ==
    ASSUME CloudTypeOK, WordInv, [CloudNext]_cloudVars,
           NEW e \in Event, Exists(e), row'[e] # NoRow, row'[e].key # row[e].key
    PROVE  \/ row'[e].key = EventKey(row[e].dev, e)
           \/ OwnersDone(e) /\ row'[e].key = ingest.msg.key
<1>1. ASSUME NEW h \in Intent, IntentCommit(h) PROVE row'[e].key = EventKey(row[e].dev, e)
  <2>1. ~IntentInsert(h)
    <3>1. intent[h].claim.ev \in Event
        BY <1>1 DEF IntentCommit, CloudTypeOK, IntentState, Idle, Claim
    <3> QED
        BY <3>1 DEF IntentInsert, CloudTypeOK, Exists
  <2>2. IntentUpdate(h) /\ Revising(h)
      BY <1>1, <2>1 DEF IntentCommit, IntentUpdate, Revising, Idle
  <2>3. e = intent[h].claim.ev /\ row[e] \in Row
      BY <2>2, RevisingIs DEF IntentUpdate, CloudTypeOK, Exists
  <2>4. row[e].dev = intent[h].claim.dev
      BY <2>2, <2>3 DEF WordInv
  <2>5. row'[e].key \in {row[e].key, EventKey(intent[h].claim.dev, e)}
      BY <2>2, <2>3 DEF IntentUpdate, CloudTypeOK, Row
  <2> QED
      BY <2>4, <2>5
<1>2. ~InsertAnnounced
    BY DEF InsertAnnounced, CloudTypeOK, Exists
<1>3. CASE UpdateDone
  <2>1. Updating /\ ingest.msg.ev \in Event
      BY <1>3, UpdatingIs DEF UpdateDone, Updating, Idle
  <2>2. e = ingest.msg.ev /\ row[e] \in Row
      BY <1>3, <2>1 DEF UpdateDone, CloudTypeOK, Exists
  <2>3. row'[e].key = ingest.msg.key
      BY <1>3, <2>2 DEF UpdateDone, CloudTypeOK, Row
  <2> QED
      BY <2>1, <2>2, <2>3 DEF WordInv, OwnersDone, Updating
<1>4. ASSUME NEW v \in Viewer, VerifyCommit(v) PROVE FALSE
    BY <1>4 DEF VerifyCommit, CloudTypeOK, Exists, Row
<1>5. ASSUME NEW d \in Deleter, DeleteRow(d) PROVE FALSE
    BY <1>5 DEF DeleteRow, CloudTypeOK
<1>6. row' # row
    OBVIOUS
<1> QED
    BY <1>1, <1>2, <1>3, <1>4, <1>5, <1>6 DEF CloudNext, IntentStep, IngestStep, VerifyNext,
        DeleteNext, IntentRead, IntentStale, IntentReject, IntentDbError, IntentArrive, Receive,
        Take, TakeAnnounce, TakeDone, IngestDbError, IngestCrash, PutObject, VerifyRead,
        VerifyHead, DeleteRead, DeleteObject, DeleteError, cloudVars

(* The handlers check the row they read and write the row there is: unless *)
(* that row is deleted in between, it becomes uploaded only on the word of *)
(* its own device for the bytes it was announced with, and its key is that *)
(* of its own device or one this device named, whatever intents, dones,    *)
(* verifications, crashes and other deletions come in between.             *)
THEOREM OwnersWord == CloudSpec /\ [][Undisturbed]_cloudVars => UploadedByItsOwner
<1> DEFINE Own == \A e \in Event :
                    /\ row'[e].status = "uploaded" /\ row[e].status # "uploaded"
                         => Exists(e) /\ OwnersDone(e) /\ ingest.msg.meta = row[e].meta
                    /\ Exists(e) /\ row'[e] # NoRow /\ row'[e].key # row[e].key
                         => \/ row'[e].key = EventKey(row[e].dev, e)
                            \/ OwnersDone(e) /\ row'[e].key = ingest.msg.key
<1>1. CloudTypeOK /\ WordInv /\ [CloudNext]_cloudVars => [Own]_cloudVars
    BY WordIsOwners, KeysAreOwners
<1> QED
    BY CloudTypeInit, CloudTypeNext, WordInvInit, WordInvNext, <1>1, PTL
    DEF CloudSpec, UploadedByItsOwner

(* Where nothing is deleted, nothing disturbs the worker. *)
LEMMA RowsStay ==
    ASSUME Deleter = {}, CloudTypeOK, [CloudNext]_cloudVars, NEW e \in Event, row[e] # NoRow
    PROVE  row'[e] # NoRow
<1>1. ASSUME NEW h \in Intent, IntentCommit(h) PROVE row'[e] # NoRow
  <2> USE DEF CloudTypeOK, Row, NoRow
  <2>1. CASE IntentInsert(h)
      BY <2>1 DEF IntentInsert, Exists
  <2>2. CASE IntentUpdate(h)
      BY <1>1, <2>2, IntentWrites DEF IntentCommit
  <2> QED
      BY <1>1, <2>1, <2>2 DEF IntentCommit
<1>2. CASE InsertAnnounced
    BY <1>2 DEF InsertAnnounced, CloudTypeOK, Exists, Row, NoRow
<1>3. CASE UpdateDone
    BY <1>3, DoneWrites DEF Row, NoRow
<1>4. ASSUME NEW v \in Viewer, VerifyCommit(v) PROVE row'[e] # NoRow
    BY <1>4 DEF VerifyCommit, CloudTypeOK, Exists, Row, NoRow
<1>5. row' = row => row'[e] # NoRow
    OBVIOUS
<1> QED
    BY <1>1, <1>2, <1>3, <1>4, <1>5 DEF CloudNext, IntentStep, IngestStep, VerifyNext,
        IntentRead, IntentStale, IntentReject, IntentDbError, IntentArrive, Receive,
        Take, TakeAnnounce, TakeDone, IngestDbError, IngestCrash, PutObject, VerifyRead,
        VerifyHead, cloudVars

(* In particular where no user may delete. *)
COROLLARY OwnersWordWithoutDeletions ==
    ASSUME Deleter = {}
    PROVE  CloudSpec => UploadedByItsOwner
<1>1. CloudTypeOK /\ WordInv /\ [CloudNext]_cloudVars => [Undisturbed]_cloudVars
    BY RowsStay, UpdatingIs, RevisingIs DEF Undisturbed, WordInv, Exists
<1> QED
    BY CloudTypeInit, CloudTypeNext, WordInvInit, WordInvNext, OwnersWord, <1>1, PTL
    DEF CloudSpec
=============================================================================
