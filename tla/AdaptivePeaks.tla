--------------------------- MODULE AdaptivePeaks ---------------------------
(***************************************************************************)
(* The detector's pure part (backend/app/detection/peaks.py).  A microphone's *)
(* telemetry is a function from the seconds that are stored to a level; a  *)
(* tuning t holds the settings of the row for that microphone: window (the *)
(* trailing baseline, in seconds), min_samples, rise, floor, merge and     *)
(* cooldown.                                                               *)
(***************************************************************************)
EXTENDS Integers, FiniteSets

\* The samples a sample's own baseline is built from: the window trails it and
\* leaves it out.
Trailing(S, s, t) == {u \in DOMAIN S : s - t.window <= u /\ u < s}

\* statistics.median, doubled so that the mean of the two middle values of an even
\* number of samples stays an integer.
TwiceMedian(S, W) ==
    LET AtMost(v)  == Cardinality({u \in W : S[u] <= v})
        AtLeast(v) == Cardinality({u \in W : S[u] >= v})
        lower == CHOOSE v \in {S[u] : u \in W} :
                    /\ 2 * AtMost(v) >= Cardinality(W)
                    /\ \A u \in W : 2 * AtMost(S[u]) >= Cardinality(W) => v <= S[u]
        upper == CHOOSE v \in {S[u] : u \in W} :
                    /\ 2 * AtLeast(v) >= Cardinality(W)
                    /\ \A u \in W : 2 * AtLeast(S[u]) >= Cardinality(W) => v >= S[u]
    IN  lower + upper

TwiceRise(S, s, t) == 2 * S[s] - TwiceMedian(S, Trailing(S, s, t))

\* Threshold crossings: loud in themselves, and above the trailing median.
Crossings(S, t) ==
    {s \in DOMAIN S : /\ S[s] >= t.floor
                      /\ Cardinality(Trailing(S, s, t)) >= t.min_samples
                      /\ TwiceRise(S, s, t) >= 2 * t.rise}

\* A crossing within the merge window of the one before it belongs to the same
\* cluster: a cluster is known by its first crossing and may be of any length.
Openings(X, t) == {o \in X : \A u \in X : u < o => o - u > t.merge}

Cluster(X, o, t) == {u \in X : u >= o /\ \A n \in Openings(X, t) : n <= u => n <= o}

\* max(group, key=(rise, value)): the first of the strongest.
Strongest(S, C, t) ==
    CHOOSE p \in C : \A u \in C :
        \/ TwiceRise(S, p, t) > TwiceRise(S, u, t)
        \/ TwiceRise(S, p, t) = TwiceRise(S, u, t) /\ S[p] > S[u]
        \/ TwiceRise(S, p, t) = TwiceRise(S, u, t) /\ S[p] = S[u] /\ p <= u

\* Cooldown, first peak wins: a peak is dropped when one that was kept is too near.
Cooled(M, t) ==
    LET kept[p \in M] == \A u \in M : u < p /\ p - u <= t.cooldown => ~kept[u]
    IN  {p \in M : kept[p]}

AdaptivePeaksOf(S, t) ==
    LET X == Crossings(S, t)
    IN  Cooled({Strongest(S, Cluster(X, o, t), t) : o \in Openings(X, t)}, t)

\* correlate_peak: the nearest inside peak within the window, the larger rise on a
\* tie, the earlier of what is left; the empty set when there is none.
Distance(a, b) == IF a < b THEN b - a ELSE a - b

CorrelatePeak(p, S, P, t, window) ==
    LET M == {u \in P : Distance(p, u) <= window}
        Better(u, v) ==
            \/ Distance(p, u) < Distance(p, v)
            \/ /\ Distance(p, u) = Distance(p, v)
               /\ \/ TwiceRise(S, u, t) > TwiceRise(S, v, t)
                  \/ TwiceRise(S, u, t) = TwiceRise(S, v, t) /\ u <= v
    IN  {u \in M : \A v \in M : Better(u, v)}
=============================================================================
