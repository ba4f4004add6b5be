----------------------------- MODULE ReviewDesk -----------------------------
(***************************************************************************)
(* What people make of the detector's candidates and of the clips, and what *)
(* the classifier is trained on: PATCH of a candidate                      *)
(* (api/v1/correlated_events.py), labels of events (api/v1/labels.py),     *)
(* annotations drawn on the spectrogram (api/v1/annotations.py), and the    *)
(* extraction of the training set (training/extract.py).                   *)
(*                                                                         *)
(* A PATCH reads the row, decides, and commits later; in between another   *)
(* reviewer, the worker or a deletion may commit.  The extraction reads     *)
(* events, annotations, candidates and then each row's frames, one         *)
(* statement after the other, while all of them go on.                     *)
(***************************************************************************)
EXTENDS TwoMicDetection

CONSTANTS
  Reviewer,
  Label,       \* labels in use
  CapRatio,    \* --annotation-cap-ratio
  TimeRange    \* bound: the time ranges one may annotate

NoLabel == "none"
\* CorrelatedEventCandidatePatch; null clears the label.
Body == [label : Label \cup {NoLabel, "unset"}, dismissed : {"unset", "yes", "no"}]
        \ {[label |-> "unset", dismissed |-> "unset"]}

ReviewAssumption ==
  /\ NoLabel \notin Label /\ "unset" \notin Label
  /\ CapRatio \in Nat
  /\ TimeRange \subseteq [from : Nat, to : Nat] /\ \A r \in TimeRange : r.from < r.to
  /\ \A w \in World : w.reviewers \subseteq Reviewer /\ w.bodies \subseteq Body
ASSUME ReviewAssumption

\* w.reviewers, w.bodies: who patches what; w.marks: how many labels and annotations;
\* w.extract: whether a training set is built, until one has rows.

VARIABLES
  patch,        \* Reviewer -> the PATCH in flight and the row it read
  clashed,      \* history: candidates patched from a row that had changed meanwhile
  labels,       \* labels: <<clip, label, created_at>>
  annotations,  \* spectrogram_annotations
  manifest,     \* build_dataset: what it has read so far, and its next statement
  dataset       \* pi_cache.npz
reviewVars == <<patch, clashed, labels, annotations, manifest, dataset>>
vars == <<detectionVars, reviewVars>>

NoPatch == [open |-> FALSE]
\* `touched` is history: the candidates whose verdict changed since the extraction began.
NoManifest ==
  [stage |-> "none", events |-> {}, annotations |-> {}, left |-> {}, found |-> {}, touched |-> {}]

Init ==
  /\ DetectionInit
  /\ patch = [r \in Reviewer |-> NoPatch] /\ clashed = {}
  /\ labels = {} /\ annotations = {}
  /\ manifest = NoManifest /\ dataset = {}

-----------------------------------------------------------------------------
(* Reviewing a candidate.                                                   *)

Decides(b) == b.label \in Label

\* 409: a label needs outdoor audio.
Labelable(p, b) == Decides(b) => candidates[p].audio = "linked"

\* Mutant: a label leaves the dismissal as it was.
DismissedUntouched(row, b) == IF b.dismissed = "unset" THEN row.dismissed ELSE b.dismissed = "yes"
DismissedAfter(row, b) ==
  IF b.dismissed # "unset" THEN b.dismissed = "yes"
  ELSE row.dismissed /\ ~Decides(b)

LabelAfter(row, b) ==
  IF b.dismissed = "yes" THEN NoLabel
  ELSE IF b.label = "unset" THEN row.label ELSE b.label

ReadCandidate(r, p, b) ==
  /\ ~patch[r].open /\ p \in DOMAIN candidates /\ Labelable(p, b)
  /\ patch' = [patch EXCEPT ![r] =
       [open |-> TRUE, peak |-> p, body |-> b, label |-> candidates[p].label,
        dismissed |-> candidates[p].dismissed]]
  /\ UNCHANGED <<detectionVars, clashed, labels, annotations, manifest, dataset>>

\* The UPDATE names the columns whose value differs from the row that was read.
Written(new, read, stored) == IF new # read THEN new ELSE stored

\* ck_correlated_event_candidates_label_needs_audio
CheckHolds(row) == row.label = NoLabel \/ row.audio = "linked"

Patched(p, row, b) ==
  [candidates[p] EXCEPT
     !.label = Written(LabelAfter(row, b), row.label, candidates[p].label),
     !.dismissed = Written(DismissedAfter(row, b), row.dismissed, candidates[p].dismissed)]

CommitPatch(r) ==
  /\ patch[r].open /\ patch[r].peak \notin LockedRows
  /\ LET p == patch[r].peak
         after == Patched(p, patch[r], patch[r].body)
         stale == \/ patch[r].label # candidates[p].label
                  \/ patch[r].dismissed # candidates[p].dismissed
     IN  IF CheckHolds(after)
         THEN /\ candidates' = [candidates EXCEPT ![p] = after]
              /\ clashed' = IF stale THEN clashed \cup {p} ELSE clashed
              /\ manifest' = IF manifest.stage = "none" \/ after = candidates[p] THEN manifest
                             ELSE [manifest EXCEPT !.touched = @ \cup {p}]
         ELSE UNCHANGED <<candidates, clashed, manifest>>
  /\ patch' = [patch EXCEPT ![r] = NoPatch]
  /\ UNCHANGED <<world, now, arrived, settings, watermark, cycle, clip, scanned, overtaken, faults,
                 labels, annotations, dataset>>

-----------------------------------------------------------------------------
(* Labels of events and annotations.                                        *)

EventExists(c) == clip[c] \in {"announced", "uploaded"}

AddLabel(c, l) ==
  /\ EventExists(c) /\ Cardinality(labels) < world.marks
  /\ labels' = labels \cup {<<c, l, now>>}
  /\ UNCHANGED <<detectionVars, patch, clashed, annotations, manifest, dataset>>

\* Labels cascade with their event.
DeleteEvent(c) ==
  /\ ClipDeleted(c) /\ labels' = {x \in labels : x[1] # c}
  /\ UNCHANGED <<patch, clashed, annotations, manifest, dataset>>

Heard(g) == {f \in Frames(g.from, g.to) : f[1] = "outside"}

\* 400 without frames in the range, 409 where an event has its own labels.
AddAnnotation(g, l) ==
  /\ Cardinality(annotations) < world.marks
  /\ Heard(g) # {}
  /\ \A c \in DOMAIN world.clips : EventExists(c) =>
       ~(world.clips[c].ts < g.to /\ world.clips[c].ts + world.clips[c].duration > g.from)
  /\ annotations' = annotations \cup {[from |-> g.from, to |-> g.to, label |-> l, at |-> now]}
  /\ UNCHANGED <<detectionVars, patch, clashed, labels, manifest, dataset>>

DeleteAnnotation(a) ==
  /\ a \in annotations /\ annotations' = annotations \ {a}
  /\ UNCHANGED <<detectionVars, patch, clashed, labels, manifest, dataset>>

-----------------------------------------------------------------------------
(* The training set.                                                        *)

\* latest_event_labels: the latest created wins.
LatestLabels == {x \in labels : \A y \in labels : y[1] = x[1] => y[3] <= x[3]}

Heading(source, key, label, from, to) ==
  [id |-> <<source, key>>, label |-> label, from |-> from, to |-> to]

\* Of two labels of one second either may come first.
EventRows ==
  LET of(c) == {x \in LatestLabels : x[1] = c}
      usable == {c \in Clip : of(c) # {} /\ world.clips[c].duration > 0}
      heading(x) == Heading("event", x[1], x[2], world.clips[x[1]].ts,
                            world.clips[x[1]].ts + world.clips[x[1]].duration)
  IN  {{heading(f[c]) : c \in usable} :
         f \in {g \in [usable -> LatestLabels] : \A c \in usable : g[c] \in of(c)}}

AnnotationRows ==
  {Heading("annotation", a.at, a.label, a.from, a.to) : a \in annotations}

Reviewed == {p \in DOMAIN candidates : candidates[p].label # NoLabel /\ ~candidates[p].dismissed}

CandidateRows ==
  {Heading("candidate", p, candidates[p].label, candidates[p].from, candidates[p].to) :
   p \in Reviewed}

OfLabel(R, l) == {r \in R : r.label = l}

\* apply_annotation_cap: how many annotations of a label are used.
Budget(E, l) ==
  IF CapRatio * Cardinality(OfLabel(E, l)) > CapRatio THEN CapRatio * Cardinality(OfLabel(E, l))
  ELSE CapRatio

Capped(A, E) ==
  {K \in SUBSET A : \A l \in Label :
     LET n == Cardinality(OfLabel(A, l)) IN
       Cardinality(OfLabel(K, l)) = IF n > Budget(E, l) THEN Budget(E, l) ELSE n}

\* latest_event_labels
ReadEvents ==
  /\ world.extract /\ manifest.stage = "none" /\ dataset = {}
  /\ \E E \in EventRows :
       manifest' = [NoManifest EXCEPT !.stage = "annotations", !.events = E]
  /\ UNCHANGED <<detectionVars, patch, clashed, labels, annotations, dataset>>

\* list_annotations
ReadAnnotations ==
  /\ manifest.stage = "annotations"
  /\ manifest' = [manifest EXCEPT !.stage = "candidates", !.annotations = AnnotationRows]
  /\ UNCHANGED <<detectionVars, patch, clashed, labels, annotations, dataset>>

\* list_correlated_candidates, and the cap.
ReadCandidates ==
  /\ manifest.stage = "candidates"
  /\ \E K \in Capped(manifest.annotations, manifest.events) :
       manifest' = [NoManifest EXCEPT !.stage = "fetch", !.touched = manifest.touched,
                                      !.left = manifest.events \cup K \cup CandidateRows]
  /\ UNCHANGED <<detectionVars, patch, clashed, labels, annotations, dataset>>

\* fetch_bands: a candidate has its own frames, the others need the source table.
\* Mutant: all rows are read from the source table.
BandsFromSource(r) == Heard(r)
Bands(r) ==
  IF r.id[1] = "candidate" THEN {f \in candidates[r.id[2]].frames : f[1] = "outside"}
  ELSE Heard(r)

\* One row after the other; rows without frames are skipped.
FetchBands(r) ==
  /\ r \in manifest.left
  /\ manifest' = [manifest EXCEPT !.left = @ \ {r},
                                  !.found = IF Bands(r) = {} THEN @ ELSE @ \cup {r}]
  /\ UNCHANGED <<detectionVars, patch, clashed, labels, annotations, dataset>>

\* write_cache
WriteCache ==
  /\ manifest.stage = "fetch" /\ manifest.left = {}
  /\ dataset' = manifest.found
  /\ manifest' = NoManifest
  /\ UNCHANGED <<detectionVars, patch, clashed, labels, annotations>>

-----------------------------------------------------------------------------
DetectionStep ==
  /\ \/ BeginCycle \/ LinkCandidates \/ ExpireCandidates \/ Pause \/ Skip \/ Detect \/ CycleFails \/ Second
     \/ \E s \in world.settings : UpdateSettings(s)
     \/ \E x \in world.late : LateSample(x)
     \/ \E c \in Clip : ClipAnnounced(c) \/ ClipUploaded(c)
  /\ UNCHANGED reviewVars

Next ==
  \/ DetectionStep
  \/ \E r \in Reviewer : CommitPatch(r)
  \/ \E r \in world.reviewers, p \in DOMAIN candidates, b \in world.bodies : ReadCandidate(r, p, b)
  \/ \E c \in Clip : DeleteEvent(c)
  \/ \E c \in Clip, l \in Label : AddLabel(c, l)
  \/ \E g \in TimeRange, l \in Label : AddAnnotation(g, l)
  \/ \E a \in annotations : DeleteAnnotation(a)
  \/ ReadEvents \/ ReadAnnotations \/ ReadCandidates \/ WriteCache
  \/ \E r \in manifest.left : FetchBands(r)

Spec == Init /\ [][Next]_vars
FairSpec == Spec /\ PollingGoesOn

-----------------------------------------------------------------------------
(* Properties.                                                              *)

\* Types.
ReviewTypeOK ==
  /\ \A r \in Reviewer : patch[r].open => patch[r].peak \in DOMAIN candidates
  /\ \A x \in labels : x[1] \in Clip /\ x[2] \in Label /\ EventExists(x[1])
  /\ \A r \in dataset : r.label \in Label /\ r.from < r.to
  /\ \A p \in DOMAIN candidates : candidates[p].label \in Label \cup {NoLabel}

\* A label that passed the check of review_candidate is never refused by the database:
\* a candidate that was linked stays linked until the PATCH commits, also when its
\* clip is deleted meanwhile (migration 0012: a clip deleted after review cannot
\* invalidate a label).
ReviewNeverTrips ==
  \A r \in Reviewer :
    patch[r].open /\ Decides(patch[r].body) => candidates[patch[r].peak].audio = "linked"

\* A candidate is not labelled and dismissed at once, unless two reviewers decided on
\* it from the same row.
VerdictIsOne ==
  \A p \in DOMAIN candidates :
    candidates[p].label # NoLabel /\ candidates[p].dismissed => p \in clashed

Snapshot(p) == {f \in candidates[p].frames : f[1] = "outside"}

\* The training set holds exactly the candidates that were labelled and not dismissed
\* all the while it was extracted and that have a snapshot, each once and under its label,
\* whatever was reviewed, inserted or deleted between the statements, and although the
\* source frames may be gone (training/extract.py, "These snapshots survive the source
\* hypertable's seven-day retention; unlabeled and dismissed candidates are excluded").
\* A candidate reviewed meanwhile may be in it under its verdict of then, or not.
TrainedOnVerdicts ==
  [][manifest.stage = "fetch" /\ manifest'.stage = "none" =>
       \A p \in DOMAIN candidates \ manifest.touched :
         {r.label : r \in {x \in dataset' : x.id = <<"candidate", p>>}} =
           IF candidates[p].label # NoLabel /\ ~candidates[p].dismissed /\ Snapshot(p) # {}
           THEN {candidates[p].label} ELSE {}]_vars

\* Each event trains one row, under the label it was given last when the events were read.
LatestLabelTrains ==
  [][manifest.stage = "none" /\ manifest'.stage # "none" =>
       \A x \in labels : world.clips[x[1]].duration > 0 =>
         \E r \in manifest'.events :
           /\ r.id[2] = x[1]
           /\ \E y \in labels : y[1] = x[1] /\ y[2] = r.label /\ x[3] <= y[3]
           /\ \A q \in manifest'.events : q.id = r.id => q = r]_vars
=============================================================================
