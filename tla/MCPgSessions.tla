---------------------------- MODULE MCPgSessions ----------------------------
(* Instances of PgSessions for TLC.                                        *)
EXTENDS PgSessions, TLC

CONSTANTS th1, th2, n1, n2, s1, s2

MCThreads == {th1, th2}
MCNames == {n1, n2}
MCServers == {s1, s2}

(* Threads, names and servers are interchangeable.                         *)
Interchangeable == Permutations(MCThreads) \union Permutations(MCNames) \union Permutations(MCServers)
=============================================================================
