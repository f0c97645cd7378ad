------------------------------ MODULE MCLiveView ------------------------------
(***************************************************************************)
(* Values of the constants of LiveView for TLC.                            *)
(***************************************************************************)
EXTENDS LiveView

MCCopies == {"one", "two", "again"}

\* "again" is the task of "one", delivered a second time.
MCTaskOf == [c \in MCCopies |-> IF c = "two" THEN "t2" ELSE "t1"]
===============================================================================
