----------------------------- MODULE MCSources -----------------------------
(* An instance of Sources for TLC.                                         *)
EXTENDS Sources, TLC

CONSTANTS th1, th2, n1, n2, s1, s2, d1, f1, f2, x1, x2

MCThreads == {th1, th2}
MCNames == {n1, n2}
MCServers == {s1, s2}
MCDirectories == {d1}
MCFiles == {f1, f2}
MCSchemas == {x1, x2}
MCContents == {(f1 :> x1) @@ (f2 :> x2), (f1 :> x1) @@ (f2 :> Unreadable),
               (f1 :> Missing) @@ (f2 :> x1)}

(* Threads, names and servers are interchangeable.                         *)
Interchangeable ==
    Permutations(MCThreads) \union Permutations(MCNames) \union Permutations(MCServers)
=============================================================================
