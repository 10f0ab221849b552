--------------------------- MODULE MCArrowStreams ---------------------------
(* Instances of ArrowStreams for TLC.                                      *)
EXTENDS ArrowStreams, TLC

CONSTANTS th1, th2

MCThreads == {th1, th2}
Interchangeable == Permutations(MCThreads)
=============================================================================
