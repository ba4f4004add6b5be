----------------------------- MODULE EventCloud ------------------------------
(***************************************************************************)
(* The cloud's side of an event clip: the `events` table, the object store *)
(* and the handlers that share them.  The API runs requests concurrently   *)
(* and takes no row lock: a handler reads the row in one statement and     *)
(* writes what it computed from that read in another, so every handler is  *)
(* a read action and a commit action.  The ingest worker handles one       *)
(* message at a time.                                                      *)
(***************************************************************************)
EXTENDS Naturals, FiniteSets, EventContracts

CONSTANTS
    Device,   \* device ids
    Meta,     \* the (sha256, size) pairs a device may report for an event
    Intent,   \* slots for POST /events/intent requests being served at once
    Viewer,   \* slots for GET /events/{id} requests being served at once
    Deleter,  \* slots for DELETE /events/{id} requests being served at once
    InboxMax  \* INGEST_QUEUE_MAX: what the ingest worker's queue holds

ASSUME CloudAssumption == InboxMax \in Nat

VARIABLES
    row,      \* events table: NoRow, or the row of each event id
    object,   \* object store: what lies under each storage key
    intent,   \* the intent requests that arrived and are not answered
    viewer,   \* the verifications between their read and their commit
    deleter,  \* the deletions between their steps
    inbox,    \* messages handed to the ingest worker and not yet handled
    ingest,   \* the message the worker has read the row for
    purged,   \* history: keys whose object a deletion has removed
    rekeyed   \* history: events whose row lost its key or got another one

cloudVars == <<row, object, intent, viewer, deleter, inbox, ingest, purged, rekeyed>>

(* event_key: the device id, the event id and the day of the event, which  *)
(* the event id stands for here.  A row may also hold no key (NULL), or    *)
(* whatever key its device named in a done.                                *)
Key == Device \X Event
EventKey(dev, e) == <<dev, e>>
NoKey == <<>>

NoRow == [status |-> "none"]
Row == [status : Status, dev : Device, meta : Meta, key : Key \cup {NoKey}]

(* The payload of an intent request or of an event message; both carry the *)
(* sender's device id (from its credentials or from the topic).            *)
Claim == [ev : Event, dev : Device, meta : Meta]
AnnounceMessage == [kind : {"announce"}, ev : Event, dev : Device, meta : Meta]
DoneMessage == [kind : {"done"}, ev : Event, dev : Device, meta : Meta, key : Key]
CloudMessage == AnnounceMessage \cup DoneMessage

Exists(e) == row[e] # NoRow
KeyOf(e) == IF Exists(e) THEN row[e].key ELSE NoKey

NoteKeys == rekeyed' = rekeyed \cup {e \in Event : KeyOf(e) # NoKey /\ KeyOf(e)' # KeyOf(e)}

IntentState  == {Idle} \cup [at : {"read"}, claim : Claim]
                       \cup [at : {"commit"}, claim : Claim, seen : Row \cup {NoRow}]
ViewerState  == {Idle} \cup [at : {"head", "available", "failed"}, ev : Event, key : Key]
DeleterState == {Idle} \cup [at : {"object"}, ev : Event, key : Key]
                       \cup [at : {"row"}, ev : Event]
IngestState  == {Idle} \cup [at : {"insert"}, msg : AnnounceMessage]
                       \cup [at : {"update"}, msg : DoneMessage, seen : Row,
                             target : {"uploaded", "failed"}]

CloudTypeOK ==
    /\ row \in [Event -> Row \cup {NoRow}]
    /\ object \in [Key -> {"absent", "stored", "wrongSize"}]
    /\ intent \in [Intent -> IntentState]
    /\ viewer \in [Viewer -> ViewerState]
    /\ deleter \in [Deleter -> DeleterState]
    /\ inbox \in SUBSET CloudMessage
    /\ ingest \in IngestState
    /\ purged \in SUBSET Key
    /\ rekeyed \in SUBSET Event

CloudInit ==
    /\ row = [e \in Event |-> NoRow]
    /\ object = [k \in Key |-> "absent"]
    /\ intent = [h \in Intent |-> Idle]
    /\ viewer = [v \in Viewer |-> Idle]
    /\ deleter = [d \in Deleter |-> Idle]
    /\ inbox = {}
    /\ ingest = Idle
    /\ purged = {}
    /\ rekeyed = {}

-----------------------------------------------------------------------------
(* create_event_intent.  403: the row is another device's.  409: the row   *)
(* has another (sha256, size).                                             *)
Forbidden(c) == Exists(c.ev) /\ row[c.ev].dev # c.dev
Conflict(c)  == Exists(c.ev) /\ row[c.ev].dev = c.dev /\ row[c.ev].meta # c.meta

IntentArrive(h, c) ==
    /\ intent[h] = Idle
    /\ intent' = [intent EXCEPT ![h] = [at |-> "read", claim |-> c]]
    /\ UNCHANGED <<row, object, viewer, deleter, inbox, ingest, purged, rekeyed>>

IntentRead(h) ==
    /\ intent[h].at = "read"
    /\ LET c == intent[h].claim IN
       /\ ~Forbidden(c) /\ ~Conflict(c)
       /\ intent' = [intent EXCEPT ![h] = [at |-> "commit", claim |-> c, seen |-> row[c.ev]]]
    /\ UNCHANGED <<row, object, viewer, deleter, inbox, ingest, purged, rekeyed>>

IntentReject(h, why) ==
    /\ intent[h].at = "read"
    /\ \/ why = "403" /\ Forbidden(intent[h].claim)
       \/ why = "409" /\ Conflict(intent[h].claim)
    /\ intent' = [intent EXCEPT ![h] = Idle]
    /\ UNCHANGED <<row, object, viewer, deleter, inbox, ingest, purged, rekeyed>>

(* The INSERT of a row the request did not find, or the UPDATE of the row  *)
(* it did: only the columns whose value it changed are written, to         *)
(* whatever the row holds by now.                                          *)
IntentInsert(h) ==
    LET c == intent[h].claim IN
    /\ intent[h].seen = NoRow
    /\ ~Exists(c.ev)
    /\ row' = [row EXCEPT ![c.ev] = [status |-> "upload_intent_created",
                                     dev |-> c.dev, meta |-> c.meta,
                                     key |-> EventKey(c.dev, c.ev)]]

StatusAfterIntent(seen, now) ==
    IF IsValidTransition(seen, "upload_intent_created") /\ seen # "upload_intent_created"
    THEN "upload_intent_created"
    ELSE now

IntentUpdate(h) ==
    LET c == intent[h].claim
        seen == intent[h].seen
        now == row[c.ev] IN
    /\ seen # NoRow
    /\ Exists(c.ev)
    /\ row' = [row EXCEPT ![c.ev] =
                 [now EXCEPT !.status = StatusAfterIntent(seen.status, now.status),
                             !.key = IF seen.key = NoKey THEN EventKey(c.dev, c.ev) ELSE now.key]]

IntentCommit(h) ==
    /\ intent[h].at = "commit"
    /\ IntentInsert(h) \/ IntentUpdate(h)
    /\ NoteKeys
    /\ intent' = [intent EXCEPT ![h] = Idle]
    /\ UNCHANGED <<object, viewer, deleter, inbox, ingest, purged>>

(* The row appeared under the INSERT (unique violation) or vanished under  *)
(* the UPDATE (stale data): a 500.                                         *)
IntentStale(h) ==
    /\ intent[h].at = "commit"
    /\ (intent[h].seen = NoRow) = Exists(intent[h].claim.ev)
    /\ intent' = [intent EXCEPT ![h] = Idle]
    /\ UNCHANGED <<row, object, viewer, deleter, inbox, ingest, purged, rekeyed>>

(* The database failed: a 500 too. *)
IntentDbError(h) ==
    /\ intent[h] # Idle
    /\ intent' = [intent EXCEPT ![h] = Idle]
    /\ UNCHANGED <<row, object, viewer, deleter, inbox, ingest, purged, rekeyed>>

(* The presigned PUT: the store takes the bytes the signature covers. *)
PutObject(k, bytes) ==
    /\ object' = [object EXCEPT ![k] = bytes]
    /\ UNCHANGED <<row, intent, viewer, deleter, inbox, ingest, purged, rekeyed>>

-----------------------------------------------------------------------------
(* The ingest worker.  _on_message and _enqueue_or_drop hand a message to  *)
(* the consumer, or drop it when the queue is full.                        *)
Receive(m) ==
    /\ inbox' = IF Cardinality(inbox) < InboxMax THEN inbox \cup {m} ELSE inbox
    /\ UNCHANGED <<row, object, intent, viewer, deleter, ingest, purged, rekeyed>>

Take(m) ==
    /\ ingest = Idle
    /\ m \in inbox
    /\ inbox' = inbox \ {m}
    /\ UNCHANGED <<row, object, intent, viewer, deleter, purged, rekeyed>>

(* _handle_event_announce: an id that has a row is left alone. *)
TakeAnnounce(m) ==
    /\ m.kind = "announce"
    /\ Take(m)
    /\ ingest' = IF Exists(m.ev) THEN Idle ELSE [at |-> "insert", msg |-> m]

(* Mutant: an upsert in place of the insert. *)
MutantAnnounceUpserts ==
    /\ ingest.at = "insert"
    /\ LET m == ingest.msg IN
       row' = [row EXCEPT ![m.ev] = [status |-> "announced", dev |-> m.dev,
                                     meta |-> m.meta, key |-> NoKey]]
    /\ NoteKeys
    /\ ingest' = Idle
    /\ UNCHANGED <<object, intent, viewer, deleter, inbox, purged>>

InsertAnnounced ==
    /\ ingest.at = "insert"
    /\ LET m == ingest.msg IN
       row' = IF Exists(m.ev) THEN row   \* IntegrityError: another insert landed first
              ELSE [row EXCEPT ![m.ev] = [status |-> "announced", dev |-> m.dev,
                                          meta |-> m.meta, key |-> NoKey]]
    /\ NoteKeys
    /\ ingest' = Idle
    /\ UNCHANGED <<object, intent, viewer, deleter, inbox, purged>>

(* Mutant: a done is believed without comparing what was uploaded. *)
MutantTrustDone(m) == "uploaded"

(* _handle_event_done: the row must exist, be this device's and not be     *)
(* uploaded or available already; the claim decides the target, and the    *)
(* transition table whether it may be reached.                             *)
DoneTarget(m) == IF row[m.ev].meta = m.meta THEN "uploaded" ELSE "failed"

(* Mutant: neither the status nor the table of transitions is consulted. *)
MutantDoneAlways(m) == Exists(m.ev) /\ row[m.ev].dev = m.dev

DoneApplies(m) ==
    /\ Exists(m.ev)
    /\ row[m.ev].dev = m.dev
    /\ row[m.ev].status \notin {"uploaded", "available"}
    /\ IsValidTransition(row[m.ev].status, DoneTarget(m))

TakeDone(m) ==
    /\ m.kind = "done"
    /\ Take(m)
    /\ ingest' = IF DoneApplies(m)
                 THEN [at |-> "update", msg |-> m, seen |-> row[m.ev], target |-> DoneTarget(m)]
                 ELSE Idle

(* The UPDATE writes the columns that differ from what was read: the       *)
(* status, and the key the payload names, whichever that is.               *)
UpdateDone ==
    /\ ingest.at = "update"
    /\ LET m == ingest.msg
           seen == ingest.seen
           now == row[m.ev] IN
       row' = IF ~Exists(m.ev) THEN row   \* StaleDataError: logged and dropped
              ELSE [row EXCEPT ![m.ev] =
                      [now EXCEPT
                         !.status = IF ingest.target # seen.status THEN ingest.target ELSE now.status,
                         !.key = IF m.key # seen.key THEN m.key ELSE now.key]]
    /\ NoteKeys
    /\ ingest' = Idle
    /\ UNCHANGED <<object, intent, viewer, deleter, inbox, purged>>

(* A database error: the handler logs, rolls back and drops the message. *)
IngestDbError ==
    /\ ingest # Idle
    /\ ingest' = Idle
    /\ UNCHANGED <<row, object, intent, viewer, deleter, inbox, purged, rekeyed>>

(* The worker dies with what paho already acknowledged.        *)
IngestCrash ==
    /\ ingest # Idle \/ inbox # {}
    /\ ingest' = Idle
    /\ inbox' = {}
    /\ UNCHANGED <<row, object, intent, viewer, deleter, purged, rekeyed>>

-----------------------------------------------------------------------------
(* get_event / get_event_playback_url: _verify_uploaded promotes a row     *)
(* that was uploaded when it was read, on the strength of a HEAD.          *)
VerifyRead(v, e) ==
    /\ viewer[v] = Idle
    /\ row[e].status = "uploaded"
    /\ row[e].key # NoKey
    /\ viewer' = [viewer EXCEPT ![v] = [at |-> "head", ev |-> e, key |-> row[e].key]]
    /\ UNCHANGED <<row, object, intent, deleter, inbox, ingest, purged, rekeyed>>

(* Mutant: a missing object is taken for one that is still replicating. *)
MutantTrustRow(v) ==
    /\ viewer[v].at = "head"
    /\ viewer' = [viewer EXCEPT ![v].at =
                    IF object[viewer[v].key] = "wrongSize" THEN "failed" ELSE "available"]
    /\ UNCHANGED <<row, object, intent, deleter, inbox, ingest, purged, rekeyed>>

VerifyHead(v) ==
    /\ viewer[v].at = "head"
    /\ viewer' = [viewer EXCEPT ![v] =
                    IF object[viewer[v].key] = "absent" THEN Idle
                    ELSE [@ EXCEPT !.at = IF object[viewer[v].key] = "stored"
                                          THEN "available" ELSE "failed"]]
    /\ UNCHANGED <<row, object, intent, deleter, inbox, ingest, purged, rekeyed>>

VerifyCommit(v) ==
    /\ viewer[v].at \in {"available", "failed"}
    /\ LET e == viewer[v].ev IN
       row' = IF ~Exists(e) THEN row   \* StaleDataError: a 500
              ELSE [row EXCEPT ![e].status = viewer[v].at]
    /\ NoteKeys
    /\ viewer' = [viewer EXCEPT ![v] = Idle]
    /\ UNCHANGED <<object, intent, deleter, inbox, ingest, purged>>

-----------------------------------------------------------------------------
(* delete_event: the object first, then the row. *)
DeleteRead(d, e) ==
    /\ deleter[d] = Idle
    /\ Exists(e)
    /\ deleter' = [deleter EXCEPT ![d] =
                     IF row[e].key # NoKey THEN [at |-> "object", ev |-> e, key |-> row[e].key]
                     ELSE [at |-> "row", ev |-> e]]
    /\ UNCHANGED <<row, object, intent, viewer, inbox, ingest, purged, rekeyed>>

DeleteObject(d) ==
    /\ deleter[d].at = "object"
    /\ object' = [object EXCEPT ![deleter[d].key] = "absent"]
    /\ purged' = purged \cup {deleter[d].key}
    /\ deleter' = [deleter EXCEPT ![d] = [at |-> "row", ev |-> deleter[d].ev]]
    /\ UNCHANGED <<row, intent, viewer, inbox, ingest, rekeyed>>

DeleteRow(d) ==
    /\ deleter[d].at = "row"
    /\ row' = [row EXCEPT ![deleter[d].ev] = NoRow]
    /\ NoteKeys
    /\ deleter' = [deleter EXCEPT ![d] = Idle]
    /\ UNCHANGED <<object, intent, viewer, inbox, ingest, purged>>

(* The store or the database fails: a 500, and the row is still there. *)
DeleteError(d) ==
    /\ deleter[d] # Idle
    /\ deleter' = [deleter EXCEPT ![d] = Idle]
    /\ UNCHANGED <<row, object, intent, viewer, inbox, ingest, purged, rekeyed>>

-----------------------------------------------------------------------------
IntentStep(h) == IntentRead(h) \/ IntentCommit(h) \/ IntentStale(h)
                   \/ (\E why \in {"403", "409"} : IntentReject(h, why))

IngestStep ==
    \/ \E m \in inbox : TakeAnnounce(m) \/ TakeDone(m)
    \/ InsertAnnounced
    \/ UpdateDone

VerifyNext(v) == (\E e \in Event : VerifyRead(v, e)) \/ VerifyHead(v) \/ VerifyCommit(v)

DeleteNext(d) == (\E e \in Event : DeleteRead(d, e)) \/ DeleteObject(d) \/ DeleteRow(d)
                    \/ DeleteError(d)

(* The cloud alone, against devices that may claim an event under any      *)
(* metadata and a store whose signature check may have let a wrong size in. *)
CloudNext ==
    \/ \E h \in Intent : IntentStep(h) \/ IntentDbError(h) \/ (\E c \in Claim : IntentArrive(h, c))
    \/ \E k \in Key, bytes \in {"stored", "wrongSize"} : PutObject(k, bytes)
    \/ \E m \in CloudMessage : Receive(m)
    \/ IngestStep \/ IngestDbError \/ IngestCrash
    \/ \E v \in Viewer : VerifyNext(v)
    \/ \E d \in Deleter : DeleteNext(d)

CloudSpec == CloudInit /\ [][CloudNext]_cloudVars

-----------------------------------------------------------------------------
(* A row becomes uploaded only on the word of the device it belongs to     *)
(* and for the bytes it was announced with, and its storage key is the one *)
(* the API computed until that device names another, although the handlers *)
(* check the row they read and write the row there is.                     *)
OwnersDone(e) ==
    /\ ingest # Idle
    /\ ingest.msg.kind = "done"
    /\ ingest.msg.ev = e
    /\ ingest.msg.dev = row[e].dev

UploadedByItsOwner ==
    [][\A e \in Event :
         /\ row'[e].status = "uploaded" /\ row[e].status # "uploaded"
              => Exists(e) /\ OwnersDone(e) /\ ingest.msg.meta = row[e].meta
         /\ Exists(e) /\ row'[e] # NoRow /\ row'[e].key # row[e].key
              => \/ row'[e].key = EventKey(row[e].dev, e)
                 \/ OwnersDone(e) /\ row'[e].key = ingest.msg.key
      ]_cloudVars

(* A row keeps its owner and its metadata as long as it exists, whichever  *)
(* inserts and updates race.  (Its storage key a done may replace.)        *)
RowIdentityKept ==
    [][\A e \in Event :
         Exists(e) /\ row'[e] # NoRow => row'[e].dev = row[e].dev /\ row'[e].meta = row[e].meta
      ]_cloudVars

(* A row offered for playback has its object, unless a deletion took it:   *)
(* uploaded is a claim, available is checked.  What is checked is the key  *)
(* the row had when it was read: a row whose key was replaced, or which    *)
(* was deleted and created anew, is exempt.                                *)
AvailableWasVerified ==
    \A e \in Event \ rekeyed :
        row[e].status = "available"
          => /\ row[e].key # NoKey
             /\ object[row[e].key] # "absent" \/ row[e].key \in purged
=============================================================================
