----------------------------- MODULE MCJourney ------------------------------
(* An instance of Journey for TLC: one client of one operation. *)
EXTENDS Journey, TLC

CONSTANTS o1, r1

Alone == r1 :> o1
=============================================================================
