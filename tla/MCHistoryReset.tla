--------------------------- MODULE MCHistoryReset ---------------------------
(* HistoryReset for TLC: command lines over two sensors, a spectrogram Pi and *)
(* two SSH targets that may resolve to one Pi.                               *)
EXTENDS HistoryReset, TLC
CONSTANTS p1, p2, x1, h1, h2
CL(s, d, e, hs, sel) ==
  [server |-> s, device |-> d, execute |-> e, hosts |-> hs, selected |-> sel]
Lines ==
  { CL(TRUE, TRUE, TRUE, <<h1, h2>>, {}), CL(TRUE, TRUE, TRUE, <<h1>>, {p1}),
    CL(TRUE, FALSE, TRUE, <<>>, {p1}), CL(FALSE, TRUE, TRUE, <<h1>>, {p1}),
    CL(TRUE, TRUE, FALSE, <<h1>>, {}), CL(FALSE, TRUE, TRUE, <<>>, {}),
    CL(TRUE, FALSE, TRUE, <<>>, {x1}) }
Answers == { h1 :> p1 @@ h2 :> p2, h1 :> p1 @@ h2 :> p1 }
Rec(p) == <<p, "urban-acoustics.service">>
Cln(p) == <<p, "urban-acoustics-cleanup.service">>
Tim(p) == <<p, "urban-acoustics-cleanup.timer">>
Quiet2 == Rec(p2) :> "down" @@ Cln(p2) :> "down" @@ Tim(p2) :> "down"
Starts ==
  { Quiet2 @@ Tim(p1) :> "down",
    Quiet2 @@ Rec(p1) :> "restarting" @@ Cln(p1) :> "down" @@ Tim(p1) :> "down",
    Cln(p1) :> "down" @@ Cln(p2) :> "down" @@ Tim(p2) :> "down" @@ <<"server", "ingest">> :> "down" }
=============================================================================
