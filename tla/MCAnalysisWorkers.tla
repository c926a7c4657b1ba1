------------------------- MODULE MCAnalysisWorkers -------------------------
(* The server with one or two workers beside the CLI's one-worker set, or  *)
(* with two workers and no CLI.                                            *)
EXTENDS AnalysisWorkersProofs, TLC

CONSTANTS s1, s2, c1

Trio == s1 :> "server" @@ s2 :> "server" @@ c1 :> "cli"
Pair == s1 :> "server" @@ s2 :> "server"
Alone == s1 :> "server" @@ c1 :> "cli"
=============================================================================
