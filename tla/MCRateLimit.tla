----------------------------- MODULE MCRateLimit -----------------------------
(***************************************************************************)
(* Values of the constants of RateLimit for TLC.                           *)
(***************************************************************************)
EXTENDS RateLimit

\* Two processes, the first with two threads.
MCProcesses == {1, 2}
MCThreads == {<<1, 1>>, <<1, 2>>, <<2, 1>>}
===============================================================================
