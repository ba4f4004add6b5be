--------------------------- MODULE MCRuntimeConfig ---------------------------
(* RuntimeConfig for TLC: every kind of failure the runs may draw on. *)
EXTENDS RuntimeConfig

AllFaults == {"pubackTimeout", "dbError", "apiCrash", "linkDown",
              "brokerWiped", "piLinkDown", "writeError"}
=============================================================================
