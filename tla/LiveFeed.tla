------------------------------ MODULE LiveFeed ------------------------------
(***************************************************************************)
(* The live WebSocket of one device (backend/app/api/v1/live.py) on top of *)
(* the ingest worker.  Each viewer has its own LISTEN connection; callbacks *)
(* fill a queue with telemetry wake-ups and spectrogram frames, and the    *)
(* handler drains it: frames are forwarded, wake-ups become one SELECT of  *)
(* the rows above the viewer's high-water mark.                            *)
(***************************************************************************)
EXTENDS IngestWorker

CONSTANTS
  Viewer,
  Watched,       \* the device the viewers look at
  CatchUpFrom,   \* the starts of the catch-up window, now - CATCHUP_SECONDS
  SoftCap,       \* SPECT_QUEUE_SOFTCAP
  NotifyMax,     \* NOTIFY_QUEUE_MAX
  MaxConnects    \* bound: connections opened

LiveAssumption ==
  /\ Watched \in Registered /\ CatchUpFrom \subseteq Ts \cup {0}
  /\ SoftCap \in Nat \ {0} /\ NotifyMax \in Nat /\ SoftCap <= NotifyMax
  /\ MaxConnects \in Nat
ASSUME LiveAssumption

VARIABLES
  at,        \* viewer -> closed | catchup | waiting | sending
  heard,     \* viewer -> notifications of the channel already called back
  notifyQ,   \* viewer -> notify_queue: wake-ups and frames
  pending,   \* viewer -> what the handler drained and is sending
  mark,      \* viewer -> last_ts
  shed,      \* viewer -> a wake-up was shed or refused since the last SELECT
  connects

viewerVars == <<at, heard, notifyQ, pending, mark, shed>>
vars == <<ingestVars, viewerVars, connects>>

Wake == [wake |-> TRUE, ts |-> 0]
Frame(t) == [wake |-> FALSE, ts |-> t]
Items(q) == {q[i] : i \in DOMAIN q}
RowsAbove(t) == {s \in Ts : s > t /\ <<Watched, s>> \in stored["tlm"]}

Init ==
  /\ InitIngest
  /\ at = [v \in Viewer |-> "closed"] /\ heard = [v \in Viewer |-> 0]
  /\ notifyQ = [v \in Viewer |-> <<>>] /\ pending = [v \in Viewer |-> <<>>]
  /\ mark = [v \in Viewer |-> 0] /\ shed = [v \in Viewer |-> FALSE]
  /\ connects = 0

\* The listeners are registered before the catch-up SELECT.
Connect(v) ==
  /\ at[v] = "closed" /\ connects < MaxConnects
  /\ connects' = connects + 1
  /\ at' = [at EXCEPT ![v] = "catchup"]
  /\ heard' = [heard EXCEPT ![v] = Len(channel)]
  /\ \E t \in CatchUpFrom : mark' = [mark EXCEPT ![v] = t]
  /\ UNCHANGED <<ingestVars, notifyQ, pending, shed>>

\* Mutant: one row per SELECT.
PushOneRow(v) ==
  /\ mark' = [mark EXCEPT ![v] =
                IF RowsAbove(@) = {} THEN @
                ELSE CHOOSE t \in RowsAbove(@) : \A s \in RowsAbove(@) : t <= s]
  /\ shed' = [shed EXCEPT ![v] = FALSE]

\* _push_new_rows, one tick per row in the order of their time stamps.
PushNewRows(v) ==
  /\ mark' = [mark EXCEPT ![v] =
                IF RowsAbove(@) = {} THEN @
                ELSE CHOOSE t \in RowsAbove(@) : \A s \in RowsAbove(@) : s <= t]
  /\ shed' = [shed EXCEPT ![v] = FALSE]

CatchUp(v) ==
  /\ at[v] = "catchup"
  /\ at' = [at EXCEPT ![v] = "waiting"]
  /\ PushNewRows(v)
  /\ UNCHANGED <<ingestVars, heard, notifyQ, pending, connects>>

\* Mutant: the soft cap is off by one.
ShortenedLate(q) == IF Len(q) > SoftCap THEN SubSeq(q, Len(q) - SoftCap + 1, Len(q)) ELSE q

\* The oldest items go until fewer than SoftCap are left.
Shortened(q) == IF Len(q) >= SoftCap THEN SubSeq(q, Len(q) - SoftCap + 2, Len(q)) ELSE q

Notified(v) ==
  LET n == channel[heard[v] + 1]
      q == notifyQ[v]
      kept == Shortened(q)
  IN
  /\ at[v] # "closed" /\ heard[v] < Len(channel)
  /\ heard' = [heard EXCEPT ![v] = @ + 1]
  /\ \/ /\ Watched \notin n.devices
        /\ UNCHANGED <<notifyQ, shed>>
     \/ /\ Watched \in n.devices /\ n.type = "telemetry"
        /\ IF Len(q) < NotifyMax
           THEN notifyQ' = [notifyQ EXCEPT ![v] = Append(q, Wake)] /\ UNCHANGED shed
           ELSE shed' = [shed EXCEPT ![v] = TRUE] /\ UNCHANGED notifyQ
     \/ /\ Watched \in n.devices /\ n.type = "spect"
        /\ notifyQ' = [notifyQ EXCEPT ![v] = Append(kept, Frame(n.ts))]
        /\ shed' = [shed EXCEPT ![v] = @ \/ (Wake \in Items(q) /\ Wake \notin Items(kept))]
  /\ UNCHANGED <<ingestVars, at, pending, mark, connects>>

Drain(v) ==
  /\ at[v] = "waiting" /\ notifyQ[v] # <<>>
  /\ at' = [at EXCEPT ![v] = "sending"]
  /\ pending' = [pending EXCEPT ![v] = notifyQ[v]]
  /\ notifyQ' = [notifyQ EXCEPT ![v] = <<>>]
  /\ UNCHANGED <<ingestVars, heard, mark, shed, connects>>

\* Mutant: only the item that woke the handler is looked at.
SendFirst(v) ==
  /\ at[v] = "sending"
  /\ at' = [at EXCEPT ![v] = "waiting"]
  /\ pending' = [pending EXCEPT ![v] = <<>>]
  /\ IF Head(pending[v]) = Wake THEN PushNewRows(v) ELSE UNCHANGED <<mark, shed>>
  /\ UNCHANGED <<ingestVars, heard, notifyQ, connects>>

Send(v) ==
  /\ at[v] = "sending"
  /\ at' = [at EXCEPT ![v] = "waiting"]
  /\ pending' = [pending EXCEPT ![v] = <<>>]
  /\ IF Wake \in Items(pending[v]) THEN PushNewRows(v) ELSE UNCHANGED <<mark, shed>>
  /\ UNCHANGED <<ingestVars, heard, notifyQ, connects>>

\* The client leaves, or a send or a SELECT raises.
Disconnect(v) ==
  /\ at[v] # "closed"
  /\ at' = [at EXCEPT ![v] = "closed"]
  /\ heard' = [heard EXCEPT ![v] = 0] /\ mark' = [mark EXCEPT ![v] = 0]
  /\ notifyQ' = [notifyQ EXCEPT ![v] = <<>>] /\ pending' = [pending EXCEPT ![v] = <<>>]
  /\ shed' = [shed EXCEPT ![v] = FALSE]
  /\ UNCHANGED <<ingestVars, connects>>

Handler(v) == CatchUp(v) \/ Notified(v) \/ Drain(v) \/ Send(v)

Next ==
  \/ IngestNext /\ UNCHANGED <<viewerVars, connects>>
  \/ \E v \in Viewer : Connect(v) \/ Handler(v) \/ Disconnect(v)

Spec == Init /\ [][Next]_vars
FairSpec == Spec /\ \A v \in Viewer : WF_vars(Handler(v))

-----------------------------------------------------------------------------
\* The queues keep their bounds; cache and tables hold registered devices only.
LiveTypeOK ==
  /\ stored \in [Batched -> Table]
  /\ Len(queue) <= QueueMax
  /\ known \subseteq Registered
  /\ \A v \in Viewer : heard[v] <= Len(channel) /\ Len(notifyQ[v]) <= NotifyMax

\* A slow client has at most SPECT_QUEUE_SOFTCAP frames queued, and the batch that the
\* handler drained and is still sending holds no more of them either.
FramesIn(q) == Cardinality({i \in DOMAIN q : q[i] # Wake})
FramesBounded ==
  \A v \in Viewer :
    FramesIn(notifyQ[v]) <= SoftCap /\ FramesIn(notifyQ[v]) + FramesIn(pending[v]) <= 2 * SoftCap

Unread(v) == {channel[i] : i \in (heard[v] + 1)..Len(channel)}
Announced(v) ==
  \/ Wake \in Items(notifyQ[v]) \cup Items(pending[v])
  \/ \E n \in Unread(v) : n.type = "telemetry" /\ Watched \in n.devices

\* A viewer that has caught up misses no row: for a row above its mark a
\* wake-up is on its way, through the channel, the queue and the drained
\* items, unless the queue shed one, which the next wake-up makes up for.
NoRowUnannounced ==
  \A v \in Viewer :
    at[v] \in {"waiting", "sending"} /\ RowsAbove(mark[v]) # {} => Announced(v) \/ shed[v]

\* A row above the mark of a connected viewer is sent to it, unless a wake-up
\* was shed: the wake-ups of several batches collapse into one SELECT.
RowsGetShown ==
  \A v \in Viewer, t \in Ts :
    (at[v] # "closed" /\ t \in RowsAbove(mark[v])) ~>
       (t \notin RowsAbove(mark[v]) \/ shed[v] \/ at[v] = "closed")
=============================================================================
