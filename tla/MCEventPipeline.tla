--------------------------- MODULE MCEventPipeline ---------------------------
(* EventPipeline for TLC: one Pi, whose clips all have the metadata that its *)
(* encoder reported, and the budgets of failures the runs draw on.           *)
EXTENDS EventPipeline, TLC

CONSTANTS pi, clip

OnePi   == {pi}
OneMeta == {clip}

(* What a network and an overloaded API do; nothing acknowledged is lost. *)
NetworkFaults == {"httpTimeout", "pubackTimeout", "linkDown", "redelivery", "apiError"}
AllFaults     == NetworkFaults \cup {"ingestLoss", "housekeeping"}

Symmetry == Permutations(Intent)
=============================================================================
