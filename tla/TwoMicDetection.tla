--------------------------- MODULE TwoMicDetection ---------------------------
(***************************************************************************)
(* The two-microphone detector (backend/app/detection/worker.py, audio.py): *)
(* a polling worker that reads the stored telemetry between its watermark  *)
(* and a ceiling in the recent past, inserts a candidate for every outside *)
(* peak there, copies the frames around it, and in every cycle first hangs *)
(* the outside clips that were uploaded meanwhile on the candidates that   *)
(* lack one.  Operators change the settings row, clips are uploaded and    *)
(* deleted, and telemetry may arrive late, in any order with the worker.   *)
(*                                                                         *)
(* Time is in seconds.  What the microphones hear, and when the ingest     *)
(* worker commits each spectrogram frame, is chosen at the start.          *)
(***************************************************************************)
EXTENDS AdaptivePeaks

CONSTANTS
  Settings,      \* the settings an operator may PUT
  Settle,        \* INGEST_SETTLE_SECONDS
  MaxScan,       \* MAX_SCAN_SPAN
  RelinkWindow,  \* RELINK_WINDOW
  SeedSpan,      \* how far back the first cycle starts
  Clip,          \* events of the outside microphone
  Never,         \* last_processed_at before the first cycle
  World          \* bound: what is heard and recorded, and what goes wrong

Mic == {"outside", "inside"}

\* s.pair: whether the two configured devices are registered.
SettingsRow ==
  [enabled : BOOLEAN, pair : BOOLEAN, window : Nat \ {0}, min_samples : Nat \ {0},
   rise : [Mic -> Nat], floor : [Mic -> Int], merge : Nat \ {0}, cooldown : Nat,
   correlation : Nat, before : Nat \ {0}, after : Nat \ {0}, match : Nat \ {0},
   grace : Nat \ {0}]

\* w.heard: the levels of each microphone, second by second; w.late: the samples
\* that are not stored at once; w.delay: how long a frame takes to be committed, a lost
\* one longer than the recording; w.clips: when a clip starts and how long it is.
DetectionAssumption ==
  /\ {Settle, SeedSpan} \subseteq Nat
  /\ {MaxScan, RelinkWindow} \subseteq Nat \ {0}
  /\ Settings \subseteq SettingsRow /\ Never \notin Int
  /\ \A w \in World :
       /\ {w.last, w.faults, w.retention} \subseteq Nat
       /\ w.settings \subseteq Settings /\ w.settings # {}
       /\ w.heard \in [Mic -> [1..w.last -> Int]] /\ w.late \subseteq Mic \X (1..w.last)
       /\ w.delay \in [Mic -> [1..w.last -> Nat]]
       /\ DOMAIN w.clips \subseteq Clip
       /\ \A c \in DOMAIN w.clips : w.clips[c] \in [ts : Nat, duration : Nat]
ASSUME DetectionAssumption

VARIABLES
  world, now,
  arrived,    \* the late samples that have been stored
  settings,   \* the settings row, without the watermark
  watermark,  \* last_processed_at
  cycle,      \* run_detection_cycle: what it read and the statement it is at, or Idle
  candidates, \* outside_peak_ts -> the row
  clip,       \* Clip -> absent | announced | uploaded | deleted
  scanned,    \* history: <<second, the settings a cycle scanned it with>>
  overtaken,  \* history: the samples stored after a cycle had read past them
  faults
detectionVars ==
  <<world, now, arrived, settings, watermark, cycle, candidates, clip, scanned, overtaken, faults>>

Idle == [active |-> FALSE]

DetectionInit ==
  /\ world \in World /\ now = 0
  /\ arrived = {} /\ watermark = Never /\ cycle = Idle
  /\ settings \in world.settings
  /\ candidates = <<>> /\ clip = [c \in Clip |-> "absent"]
  /\ scanned = {} /\ overtaken = {} /\ faults = 0

Tuning(s, mic) ==
  [window |-> s.window, min_samples |-> s.min_samples, rise |-> s.rise[mic],
   floor |-> s.floor[mic], merge |-> s.merge, cooldown |-> s.cooldown]

\* _samples: the telemetry stored by now, from..to.
Samples(mic, from, to) ==
  LET stored == {t \in 1..now : from <= t /\ t <= to
                                /\ (<<mic, t>> \in world.late => <<mic, t>> \in arrived)}
  IN  [t \in stored |-> world.heard[mic][t]]

\* spectrogram_frames of both microphones, from..to: committed after a while, dropped by
\* the retention policy.
Committed(f) == f[2] + world.delay[f[1]][f[2]] <= now
Frames(from, to) ==
  {f \in Mic \X (1..now) :
     /\ from <= f[2] /\ f[2] < to
     /\ Committed(f) /\ now - f[2] <= world.retention}

Largest(S) == CHOOSE n \in S : \A m \in S : m <= n

-----------------------------------------------------------------------------
(* The linking pass.                                                        *)

Overlaps(c, p, s) ==
  LET k == world.clips[c] IN k.ts < p + s.match /\ k.ts + k.duration > p - s.match

Qualifying(p, s) == {c \in DOMAIN world.clips : clip[c] = "uploaded" /\ Overlaps(c, p, s)}

\* ORDER BY the distance of the start LIMIT 1: of equals, any.
Nearest(p, s) ==
  {c \in Qualifying(p, s) : \A d \in Qualifying(p, s) :
     Distance(world.clips[c].ts, p) <= Distance(world.clips[d].ts, p)}

\* Mutant: the sweep does not grow with the grace.
RelinkSinceFixed(s) == cycle.now - RelinkWindow
RelinkSince(s) == cycle.now - (IF RelinkWindow > 2 * s.grace THEN RelinkWindow ELSE 2 * s.grace)

\* Mutant: a candidate that went missing is not looked at again.
SweptWhilePending(s) ==
  {p \in DOMAIN candidates : candidates[p].audio = "pending" /\ p >= RelinkSince(s)}
Swept(s) == {p \in DOMAIN candidates : candidates[p].audio # "linked" /\ p >= RelinkSince(s)}

\* A cycle reads the clock and the settings row.  `uploaded` is history.
CycleStarts ==
  /\ ~cycle.active
  /\ cycle' = [active |-> TRUE, at |-> "link", now |-> now, settings |-> settings,
                watermark |-> watermark, picked |-> <<>>,
                uploaded |-> {c \in Clip : clip[c] = "uploaded"}]

BeginCycle ==
  /\ CycleStarts
  /\ UNCHANGED <<world, now, arrived, settings, watermark, candidates, clip, scanned, overtaken, faults>>

\* _LINK_SQL: what it picks is not visible to others before the commit.
LinkStatement ==
  /\ cycle.active /\ cycle.at = "link"
  /\ LET s == cycle.settings
         found == {p \in Swept(s) : Qualifying(p, s) # {}}
     IN  \E chosen \in [found -> Clip] :
           /\ \A p \in found : chosen[p] \in Nearest(p, s)
           /\ cycle' = [cycle EXCEPT !.at = "expire", !.picked = chosen]

LinkCandidates ==
  /\ LinkStatement
  /\ UNCHANGED <<world, now, arrived, settings, watermark, candidates, clip, scanned, overtaken, faults>>

\* _EXPIRE_SQL in the same transaction, and the commit.
LinkingEnds ==
  /\ cycle.active /\ cycle.at = "expire"
  /\ cycle' = [cycle EXCEPT !.at = "detect", !.picked = <<>>]

TooOld(p, s) == candidates[p].audio = "pending" /\ p < cycle.now - s.grace

ExpireCandidates ==
  /\ LinkingEnds
  /\ candidates' = [p \in DOMAIN candidates |->
       IF p \in DOMAIN cycle.picked
       THEN [candidates[p] EXCEPT !.audio = "linked", !.clip = {cycle.picked[p]}]
       ELSE IF TooOld(p, cycle.settings) THEN [candidates[p] EXCEPT !.audio = "missing"]
       ELSE candidates[p]]
  /\ UNCHANGED <<world, now, arrived, settings, watermark, clip, scanned, overtaken, faults>>

\* The rows a transaction has written, and the clips they point at, are locked until it ends.
LockedRows == IF cycle.active THEN DOMAIN cycle.picked ELSE {}
LockedClips == IF cycle.active THEN {cycle.picked[p] : p \in DOMAIN cycle.picked} ELSE {}

-----------------------------------------------------------------------------
(* The detecting half of the cycle, with the settings it read at its start. *)

\* Mutant: the end of the snapshot is not waited for.
HoldbackForPeaks(s) == s.correlation + s.merge
Holdback(s) == Largest({s.after, s.merge, s.correlation + s.merge})

Ceiling == cycle.now - Holdback(cycle.settings) - Settle

CycleEnds == cycle.active /\ cycle.at = "detect" /\ cycle' = Idle

\* Disabled: what passes is not scanned later.
Pause ==
  /\ CycleEnds /\ ~cycle.settings.enabled
  /\ watermark' = Ceiling
  /\ UNCHANGED <<world, now, arrived, settings, candidates, clip, scanned, overtaken, faults>>

\* The first cycle starts shortly before the newest sample that may be scanned.
ProcessingStart ==
  IF cycle.watermark # Never THEN cycle.watermark
  ELSE Largest(DOMAIN Samples("outside", 0, Ceiling)) - SeedSpan

ProcessingEnd ==
  LET stop == ProcessingStart + MaxScan IN IF stop < Ceiling THEN stop ELSE Ceiling

Unseeded == cycle.watermark = Never /\ DOMAIN Samples("outside", 0, Ceiling) = {}

NothingToScan ==
  \/ ~cycle.settings.pair \/ Unseeded
  \/ ~Unseeded /\ ProcessingEnd <= ProcessingStart

Skip ==
  /\ CycleEnds /\ cycle.settings.enabled /\ NothingToScan
  /\ UNCHANGED <<world, now, arrived, settings, watermark, candidates, clip, scanned, overtaken, faults>>

\* How much telemetry before the watermark is read again.
History(s) == s.window + s.cooldown + s.merge

\* Mutant: the read stops where the scan stops.
NoLookAhead(s) == 0
LookAhead(s) == s.merge

OutsidePeaks(s) ==
  AdaptivePeaksOf(Samples("outside", ProcessingStart - History(s), ProcessingEnd + LookAhead(s)),
                  Tuning(s, "outside"))

InsideOf(p, s) ==
  LET S == Samples("inside", ProcessingStart - History(s), ProcessingEnd + s.correlation + s.merge)
      t == Tuning(s, "inside")
  IN  CorrelatePeak(p, S, AdaptivePeaksOf(S, t), t, s.correlation)

Candidate(p, s) ==
  [inside |-> InsideOf(p, s), inserted |-> now, from |-> p - s.before, to |-> p + s.after,
   frames |-> Frames(p - s.before, p + s.after), audio |-> "pending", clip |-> {},
   label |-> "none", dismissed |-> FALSE]

\* What arrives between its statements might as well have come before or after them all.
\* What a cycle inserts; a peak that has its candidate already is left as it is.
Fresh(s) == (OutsidePeaks(s) \cap (ProcessingStart + 1)..ProcessingEnd) \ DOMAIN candidates

NewWatermark == ProcessingEnd

Detect ==
  /\ CycleEnds /\ cycle.settings.enabled /\ ~NothingToScan
  /\ LET s == cycle.settings
         fresh == Fresh(s)
     IN
       /\ candidates' = [p \in DOMAIN candidates \cup fresh |->
                           IF p \in fresh THEN Candidate(p, s) ELSE candidates[p]]
       /\ scanned' = scanned \cup ((ProcessingStart + 1)..NewWatermark) \X {s}
       /\ watermark' = NewWatermark
       /\ overtaken' = overtaken \cup
            {x \in world.late \ arrived :
               x[2] <= ProcessingEnd + (IF x[1] = "outside" THEN s.merge ELSE s.merge + s.correlation)}
  /\ UNCHANGED <<world, now, arrived, settings, clip, faults>>

\* SQLAlchemyError: what the linking pass has committed stays, the rest is rolled back.
CycleFails ==
  /\ cycle.active /\ cycle' = Idle /\ faults < world.faults
  /\ faults' = faults + 1
  /\ UNCHANGED <<world, now, arrived, settings, watermark, candidates, clip, scanned, overtaken>>

-----------------------------------------------------------------------------
(* Around the worker.                                                       *)

\* PUT /admin/correlated-events/settings writes every field but the watermark.
UpdateSettings(s) ==
  /\ s # settings /\ settings' = s
  /\ UNCHANGED <<world, now, arrived, watermark, cycle, candidates, clip, scanned, overtaken, faults>>

Second ==
  /\ now < world.last /\ now' = now + 1
  /\ UNCHANGED <<world, arrived, settings, watermark, cycle, candidates, clip, scanned, overtaken, faults>>

LateSample(x) ==
  /\ x \in world.late \ arrived /\ x[2] <= now
  /\ arrived' = arrived \cup {x}
  /\ UNCHANGED <<world, now, settings, watermark, cycle, candidates, clip, scanned, overtaken, faults>>

\* The Pi announces a clip after the event and uploads it (EventPipeline).
ClipAnnounced(c) ==
  /\ c \in DOMAIN world.clips /\ clip[c] = "absent"
  /\ world.clips[c].ts + world.clips[c].duration <= now
  /\ clip' = [clip EXCEPT ![c] = "announced"]
  /\ UNCHANGED <<world, now, arrived, settings, watermark, cycle, candidates, scanned, overtaken, faults>>

ClipUploaded(c) ==
  /\ clip[c] = "announced" /\ clip' = [clip EXCEPT ![c] = "uploaded"]
  /\ UNCHANGED <<world, now, arrived, settings, watermark, cycle, candidates, scanned, overtaken, faults>>

\* ON DELETE SET NULL: the candidate stays linked, without the clip.
ClipDeleted(c) ==
  /\ clip[c] \in {"announced", "uploaded"} /\ c \notin LockedClips
  /\ clip' = [clip EXCEPT ![c] = "deleted"]
  /\ candidates' = [p \in DOMAIN candidates |-> [candidates[p] EXCEPT !.clip = @ \ {c}]]
  /\ UNCHANGED <<world, now, arrived, settings, watermark, cycle, scanned, overtaken, faults>>

DetectionNext ==
  \/ BeginCycle \/ LinkCandidates \/ ExpireCandidates \/ Pause \/ Skip \/ Detect \/ CycleFails \/ Second
  \/ \E s \in world.settings : UpdateSettings(s)
  \/ \E x \in world.late : LateSample(x)
  \/ \E c \in Clip : ClipAnnounced(c) \/ ClipUploaded(c) \/ ClipDeleted(c)

\* asyncio runs the worker's loop: a cycle starts again, goes on and ends.
PollingGoesOn == WF_cycle(CycleStarts \/ LinkStatement \/ LinkingEnds \/ CycleEnds)

DetectionSpec == DetectionInit /\ [][DetectionNext]_detectionVars /\ PollingGoesOn

-----------------------------------------------------------------------------
(* Properties.                                                              *)

Apart(p, C, n) == \A u \in C : Distance(p, u) > n

\* The peaks of what was heard, over the whole recording at once, that stand alone:
\* their event is no longer than the windows, and nothing else is near it.
LonePeaks(s) ==
  LET t == Tuning(s, "outside")
      X == Crossings(world.heard["outside"], t)
      C(o) == Cluster(X, o, t)
  IN  {p \in AdaptivePeaksOf(world.heard["outside"], t) :
         \E o \in Openings(X, t) :
           /\ p \in C(o)
           /\ \A u \in C(o) : p - u <= s.cooldown /\ Distance(p, u) <= s.merge
           /\ \A u \in C(o) : Apart(u, X \ C(o), s.cooldown + s.merge)}

\* No sample that the peak or a peak near it could depend on was stored too late.
ReadInTime(p, s) ==
  \A x \in overtaken :
    x[1] = "outside" => x[2] < p - 2 * History(s) \/ x[2] > p + s.cooldown + 2 * s.merge

ScannedOtherwise(q, s) == \E x \in scanned : x[1] = q /\ x[2] # s

\* Every short event that stands alone gives a candidate, and near it only a scan with
\* other settings gives another, wherever the boundaries between the polling cycles
\* fall, however long the worker was away, however often a cycle fails, and also when
\* seconds are scanned again after a pause; provided its telemetry was there when it was
\* scanned (worker.py, "apply cooldown consistently when a polling boundary bisects an
\* event").
LoneEventsFound ==
  \A s \in {x[2] : x \in scanned} : \A p \in LonePeaks(s) :
    <<p, s>> \in scanned /\ ReadInTime(p, s) =>
      /\ p \in DOMAIN candidates
      /\ \A q \in DOMAIN candidates \ {p} :
           Distance(p, q) <= s.cooldown + s.merge => ScannedOtherwise(q, s)

\* A candidate's snapshot holds every frame of both microphones in its window that was
\* committed within the time the detector leaves for that (INGEST_SETTLE_SECONDS), and
\* otherwise only frames of the window: the holdback lets the last of them arrive before
\* the peak is scanned, and the source keeps the first of them for longer than the worker
\* was away.  A frame that is later than that, or lost, may be missing.
InWindow(p) ==
  {f \in Mic \X (1..world.last) : candidates[p].from <= f[2] /\ f[2] < candidates[p].to}

SnapshotWhole ==
  \A p \in DOMAIN candidates :
    /\ candidates[p].frames \subseteq InWindow(p)
    /\ candidates[p].inserted - candidates[p].from <= world.retention =>
         \A f \in InWindow(p) : world.delay[f[1]][f[2]] <= Settle => f \in candidates[p].frames

\* A candidate is given up ("missing") only when none of the clips that had been uploaded
\* when the cycle began can be hung on it, as long as the worker looked within twice the
\* grace (audio.py, "nothing is retired before it has been hunted for"): the sweep
\* reaches further back than the deadline, and what it found is linked before the
\* deadline is looked at.  A clip uploaded between the two statements comes too late; see
\* LateClipFound.
RetiredWasHunted ==
  [][\A p \in DOMAIN candidates :
       /\ candidates[p].audio # "missing" /\ candidates'[p].audio = "missing"
       /\ cycle.now - p <= 2 * cycle.settings.grace
       => Qualifying(p, cycle.settings) \cap cycle.uploaded = {}]_detectionVars

\* A clip that is uploaded late still finds its candidate, also one that was given up:
\* a candidate that stays in the sweep is linked, or the clips are deleted.
StillWaiting(p) ==
  /\ candidates[p].audio # "linked" /\ p >= world.last - RelinkWindow
  /\ Qualifying(p, settings) # {}

LateClipFound == <>[](\A p \in DOMAIN candidates : ~StillWaiting(p))
=============================================================================
