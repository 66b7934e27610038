---------------------------- MODULE MCPipeline ----------------------------
(***************************************************************************)
(* Instances of SlayerHttpServer for model checking.                       *)
(***************************************************************************)
EXTENDS SlayerHttpServer, TLC

CONSTANTS c1, c2, c3, ip1, ip2, l1, l2, w1, w2

Req(path, auth, local) == [path |-> path, auth |-> auth, local |-> local]

\* No path, an ordinary request, and a local /shutdown without and with the
\* token.
MCRequests == {Req("none", "match", TRUE), Req("service", "match", FALSE),
               Req("/shutdown", "missing", TRUE), Req("/shutdown", "match", TRUE)}

Symmetry == Permutations(Conns) \cup Permutations(IPs) \cup Permutations(Workers)
============================================================================
