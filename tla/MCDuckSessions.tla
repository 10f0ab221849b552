--------------------------- MODULE MCDuckSessions ---------------------------
(* Instances of DuckSessions for TLC.                                      *)
EXTENDS DuckSessions

CONSTANTS th1, th2, d1, d2, t1, t2

MCThreads == {th1, th2}
MCDatabases == {d1, d2}
MCTables == {t1, t2}
=============================================================================
