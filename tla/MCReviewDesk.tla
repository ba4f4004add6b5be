---------------------------- MODULE MCReviewDesk ----------------------------
(* ReviewDesk for TLC.  Each world exercises one part: the polling over many  *)
(* recordings, a change of the settings, late telemetry, late clips, two      *)
(* reviewers, the training set.                                              *)
EXTENDS ReviewDesk, TLC
CONSTANTS k1, k2, r1, r2, car, wind

Base == [enabled |-> TRUE, pair |-> TRUE, window |-> 2, min_samples |-> 2,
         rise |-> [m \in Mic |-> 1], floor |-> [m \in Mic |-> 2], merge |-> 1, cooldown |-> 2,
         correlation |-> 1, before |-> 1, after |-> 1, match |-> 1, grace |-> 3]
Off == [Base EXCEPT !.enabled = FALSE]
Alone == [Base EXCEPT !.pair = FALSE]
Wide == [Base EXCEPT !.after = 4]
Low == [Base EXCEPT !.floor = [m \in Mic |-> 1], !.cooldown = 0]
SettingsSet == {Base, Off, Alone, Wide, Low}

\* Outside loud at the given seconds, inside at one of them.
Noise(n, f) ==
  [outside |-> [t \in 1..n |-> IF t \in DOMAIN f THEN f[t] ELSE 0],
   inside |-> [t \in 1..n |-> IF t = 5 THEN 2 ELSE 0]]
One(n) == Noise(n, [t \in {3} |-> 3])

\* Every frame as late as the detector allows, but for some that are later or lost.
Delays(n, f) ==
  [m \in Mic |-> [t \in 1..n |-> IF <<m, t>> \in DOMAIN f THEN f[<<m, t>>] ELSE 1]]
Plain(n, heard) ==
  [last |-> n, faults |-> 0, retention |-> 20, settings |-> {Base}, heard |-> heard,
   late |-> {}, delay |-> Delays(n, <<>>), clips |-> <<>>, reviewers |-> {}, bodies |-> {}, marks |-> 0, extract |-> FALSE]

ClipAt(t, d) == [ts |-> t, duration |-> d]
Labelled1(l) == [label |-> l, dismissed |-> "unset"]
Bodies == {Labelled1(car), Labelled1(NoLabel), [label |-> "unset", dismissed |-> "yes"],
           [label |-> "unset", dismissed |-> "no"], [label |-> wind, dismissed |-> "yes"]}

Worlds ==
  {[Plain(10, Noise(10, f)) EXCEPT !.faults = 1] : f \in [4..6 -> {0, 2, 3}]}
  \cup {[Plain(7, Noise(7, [t \in {3, 4} |-> t - 1])) EXCEPT !.settings = {Base, Off, Wide}]}
  \cup {[Plain(8, Noise(8, [t \in {3, 5} |-> t - 2])) EXCEPT !.settings = {Base, Low}]}
  \cup {[Plain(9, Noise(9, [t \in {3, 4} |-> t - 1])) EXCEPT !.late = {<<"outside", 2>>, <<"inside", 5>>},
            !.delay = Delays(9, <<"outside", 3>> :> 5 @@ <<"inside", 4>> :> 9)]}
  \cup {[Plain(9, Noise(9, [t \in {3, 6} |-> 3])) EXCEPT !.faults = 1,
            !.clips = (k1 :> ClipAt(2, 2) @@ k2 :> ClipAt(4, 1))]}
  \cup {[Plain(6, One(6)) EXCEPT !.clips = (k1 :> ClipAt(2, 2)), !.reviewers = {r1, r2},
            !.bodies = Bodies]}
  \cup {[Plain(7, One(7)) EXCEPT !.clips = (k1 :> ClipAt(2, 2)), !.reviewers = {r1},
            !.bodies = {Labelled1(car), [label |-> "unset", dismissed |-> "yes"]},
            !.extract = TRUE, !.retention = 3]}
  \cup {[Plain(3, One(3)) EXCEPT !.clips = (k1 :> ClipAt(2, 1)),
            !.settings = {Alone}, !.marks = 2, !.extract = TRUE, !.retention = 1]}
Ranges == {[from |-> 1, to |-> 2]}
=============================================================================
