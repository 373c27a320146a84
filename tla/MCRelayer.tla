----------------------------- MODULE MCRelayer ------------------------------
(* Instances of Relayer for TLC. *)
EXTENDS Relayer, TLC

CONSTANTS o1, o2, r1, r2

\* One submit call per operation.
OnePerOp == r1 :> o1 @@ r2 :> o2

\* Two calls race for o1.
TwoForOne == r1 :> o1 @@ r2 :> o1

Alone == r1 :> o1
=============================================================================
