-------------------------- MODULE SpectrogramTiles --------------------------
(***************************************************************************)
(* The other reader of the spectrogram: tiles of one device and one hour   *)
(* (backend/app/spectrogram_tiles.py, api/v1/spectrogram.py) on top of the *)
(* ingest worker and beside the live feed.  The tile of a closed hour is   *)
(* rendered from the stored frames on its first request and kept in the    *)
(* object store for ever; the tile of the hour that runs is rendered anew  *)
(* every time.  A tile is the set of the time stamps that it shows.        *)
(***************************************************************************)
EXTENDS LiveFeed

CONSTANTS
  Ask,        \* requests for a tile that may be under way at once
  PerHour,    \* time stamps in an hour
  NoTile,
  Heard,      \* bound: focus -> the messages published in such a behaviour
  MaxAsks     \* bound: requests

HourOf(t) == t \div PerHour
Hour == {HourOf(t) : t \in Ts}

TilesAssumption ==
  /\ PerHour \in Nat \ {0} /\ MaxAsks \in Nat
  /\ Heard \in [{"feed", "tiles"} -> SUBSET Published]
  /\ \A png \in SUBSET Ts : png # NoTile
ASSUME TilesAssumption

VARIABLES
  focus,     \* bound: a behaviour has viewers of the feed, or requests for tiles
  hour,      \* the hour that runs
  tiles,     \* hour -> its object in the store
  asked,     \* request -> where it is, for which hour, what it rendered
  onTime,    \* history: hour -> the frames that were stored when it ended
  asks

tileVars == <<focus, hour, tiles, asked, onTime, asks>>
allVars == <<vars, tileVars>>

FramesOf(h) == {t \in Ts : HourOf(t) = h /\ <<Watched, t>> \in stored["spect"]}
Unasked == [at |-> "none", hour |-> 0, closed |-> FALSE, png |-> {}]

TilesInit ==
  /\ Init
  /\ focus \in {"feed", "tiles"}
  /\ hour = IF focus = "tiles" THEN 0 ELSE CHOOSE h \in Hour : \A g \in Hour : g <= h
  /\ tiles = [h \in Hour |-> NoTile] /\ onTime = [h \in Hour |-> {}]
  /\ asked = [r \in Ask |-> Unasked] /\ asks = 0

-----------------------------------------------------------------------------
(* get_device_spectrogram_tile and get_or_generate_tile: one step between  *)
(* two awaits.                                                             *)

\* Mutant: the hour that runs counts as closed.
AskTileEarly(r, h) ==
  /\ focus = "tiles" /\ asks < MaxAsks /\ asked[r].at \in {"none", "answered"} /\ h <= hour
  /\ asked' = [asked EXCEPT ![r] = [at |-> "asked", hour |-> h, closed |-> TRUE, png |-> {}]]
  /\ asks' = asks + 1
  /\ UNCHANGED <<vars, focus, hour, tiles, onTime>>

\* Whether the hour is closed is decided here, once.
AskTile(r, h) ==
  /\ focus = "tiles" /\ asks < MaxAsks /\ asked[r].at \in {"none", "answered"} /\ h <= hour
  /\ asked' = [asked EXCEPT ![r] = [at |-> "asked", hour |-> h, closed |-> h < hour, png |-> {}]]
  /\ asks' = asks + 1
  /\ UNCHANGED <<vars, focus, hour, tiles, onTime>>

LookUp(r) ==
  LET h == asked[r].hour IN
  /\ asked[r].at = "asked" /\ asked[r].closed
  /\ asked' = IF tiles[h] = NoTile THEN [asked EXCEPT ![r].at = "missed"]
              ELSE [asked EXCEPT ![r] = [@ EXCEPT !.at = "answered", !.png = tiles[h]]]
  /\ UNCHANGED <<vars, focus, hour, tiles, onTime, asks>>

RenderTile(r) ==
  /\ \/ asked[r].at = "missed"
     \/ asked[r].at = "asked" /\ ~asked[r].closed
  /\ asked' = [asked EXCEPT ![r] =
               [@ EXCEPT !.at = IF asked[r].closed THEN "rendered" ELSE "answered",
                         !.png = FramesOf(asked[r].hour)]]
  /\ UNCHANGED <<vars, focus, hour, tiles, onTime, asks>>

\* The last of two concurrent requests wins.
PutTile(r) ==
  /\ asked[r].at = "rendered"
  /\ tiles' = [tiles EXCEPT ![asked[r].hour] = asked[r].png]
  /\ asked' = [asked EXCEPT ![r].at = "answered"]
  /\ UNCHANGED <<vars, focus, hour, onTime, asks>>

\* The database or the store raises, or the client leaves.
TileFails(r) ==
  /\ asked[r].at \in {"asked", "missed", "rendered"}
  /\ asked' = [asked EXCEPT ![r] = Unasked]
  /\ UNCHANGED <<vars, focus, hour, tiles, onTime, asks>>

HourEnds ==
  /\ focus = "tiles" /\ hour + 1 \in Hour
  /\ hour' = hour + 1
  /\ onTime' = [onTime EXCEPT ![hour] = FramesOf(hour)]
  /\ UNCHANGED <<vars, focus, tiles, asked, asks>>

\* No device is ahead of the hour.  Bound: a behaviour about tiles has no viewers, and
\* the ingest worker does not fail in it.
Feeds ==
  /\ Next
  /\ \A m \in delivered' \ delivered : m \in Heard[focus] /\ HourOf(m.ts) <= hour
  /\ focus = "tiles" => connects' + faults' + restarts' = 0
  /\ UNCHANGED tileVars

TilesNext ==
  \/ Feeds
  \/ HourEnds
  \/ \E r \in Ask : \/ \E h \in Hour : AskTile(r, h)
                    \/ LookUp(r) \/ RenderTile(r) \/ PutTile(r) \/ TileFails(r)

TilesSpec == TilesInit /\ [][TilesNext]_allVars
FairTilesSpec == TilesSpec /\ \A v \in Viewer : WF_allVars(Handler(v) /\ UNCHANGED tileVars)

-----------------------------------------------------------------------------
\* "Closed hours are immutable and cached" (spectrogram_tiles.py): whatever requests
\* and the ingest worker interleave, a kept tile is one of a closed hour, shows only
\* frames of it, and misses only frames that came into the table after the hour ended.
\* (Those it misses for good; two tiles rendered of one hour may differ in them.)
TilesComplete ==
  /\ \A h \in Hour : tiles[h] # NoTile =>
       h < hour /\ onTime[h] \subseteq tiles[h] /\ tiles[h] \subseteq FramesOf(h)
  /\ \A r \in Ask : asked[r].at = "answered" /\ asked[r].closed =>
       onTime[asked[r].hour] \subseteq asked[r].png
=============================================================================
