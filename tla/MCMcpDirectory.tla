----------------------------- MODULE MCMcpDirectory -----------------------------
(* A server in use and one that is applied for; two tools, one of them built in; two *)
(* failures in a row take a server out.                                              *)
EXTENDS McpDirectory, TLC

CONSTANTS s1, s2, t1, t2, d1, d2, d3

Offers    == [s \in {s1, s2} |-> {t1}]
Symmetric == Permutations({d1, d2, d3})

================================================================================
