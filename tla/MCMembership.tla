----------------------------- MODULE MCMembership -----------------------------
(***************************************************************************)
(* Values of the constants of Membership for TLC.                          *)
(***************************************************************************)
EXTENDS Membership, TLC

\* Threads are alike, and so are users; no liveness is checked.
ThreadsAndUsers == Permutations(Threads) \cup Permutations(Users)
===============================================================================
