----------------------------- MODULE MCOperations -----------------------------
(***************************************************************************)
(* Values of the constants of Operations for TLC.                          *)
(***************************************************************************)
EXTENDS Operations

MCOperators == {"ann", "bob"}

\* Two cameras may ask for one file, or not.
MCFiles == {"door.png", "yard.png"}
===============================================================================
