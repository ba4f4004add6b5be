----------------------------- MODULE MCLiveFeed -----------------------------
(* LiveFeed and SpectrogramTiles for TLC: the messages of two devices.       *)
EXTENDS SpectrogramTiles
CONSTANTS d1, d2
P(k, d, t, ok) == [kind |-> k, device |-> d, ts |-> t, valid |-> ok]
FeedMessages ==
  { P("tlm", d1, 1, TRUE), P("tlm", d1, 2, TRUE), P("tlm", d1, 1, FALSE),
    P("spect", d1, 1, TRUE), P("health", d1, 1, TRUE),
    P("event", d1, 1, TRUE), P("lwt", d1, 1, TRUE), P("tlm", d2, 1, TRUE) }
Frames == {P("spect", d1, t, TRUE) : t \in Ts}
Messages == FeedMessages \cup Frames
ByFocus == [f \in {"feed", "tiles"} |-> IF f = "feed" THEN FeedMessages ELSE Frames]
=============================================================================
