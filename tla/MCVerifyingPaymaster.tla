------------------------ MODULE MCVerifyingPaymaster ------------------------
(* Instances of VerifyingPaymaster for TLC. *)
EXTENDS VerifyingPaymaster

CONSTANTS a1, a2, none, call1, call2, k1, k2

Limits == [verification |-> 2, postOp |-> 1]

Base == [sender |-> a1, nonce |-> 0, initCode |-> none, callData |-> call1,
         callGasLimit |-> 1, verificationGasLimit |-> 2, preVerificationGas |-> 3,
         maxFeePerGas |-> 3, maxPriorityFeePerGas |-> 1]

\* Operations that differ from Base in one field each, pairs that a careless
\* packing would confuse, and one that does not fit.
Variants ==
    {Base,
     [Base EXCEPT !.sender = a2],
     [Base EXCEPT !.nonce = 1],
     [Base EXCEPT !.initCode = call2],
     [Base EXCEPT !.callData = call2],
     [Base EXCEPT !.callGasLimit = 2, !.verificationGasLimit = 1],
     [Base EXCEPT !.maxFeePerGas = 1, !.maxPriorityFeePerGas = 3],
     [Base EXCEPT !.preVerificationGas = 15],
     [Base EXCEPT !.callGasLimit = 4]}
=============================================================================
