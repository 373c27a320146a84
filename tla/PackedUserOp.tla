---------------------------- MODULE PackedUserOp ----------------------------
(***************************************************************************)
(* What is signed: packed-user-op.util.ts, buildPackedUserOp, and, on the  *)
(* other side, VerifyingPaymaster's getHash and parsePaymasterAndData.     *)
(*                                                                         *)
(* keccak256 and abi.encode are taken as injective: a hash is the tuple    *)
(* that is hashed.  The byte string paymasterAndData is a record of the    *)
(* slices both sides cut it into.                                          *)
(***************************************************************************)
EXTENDS Integers

CONSTANTS
    Half,        \* 2^128: what a packed half can hold
    Senders,     \* smart accounts
    Data,        \* initCode and callData
    Paymaster,   \* PAYMASTER_CONTRACT_ADDRESS, the contract's own address
    EntryPoint,  \* ENTRY_POINT_ADDRESS
    ChainId,
    PaymasterGas \* the two configured limits, [verification, postOp]

Uint128 == 0 .. Half - 1
Uint256 == 0 .. Half * Half - 1

ASSUME PackingAssumption ==
    /\ Half \in Nat \ {0}
    /\ PaymasterGas \in [verification : Uint128, postOp : Uint128]

GasFields == {"callGasLimit", "verificationGasLimit", "maxFeePerGas", "maxPriorityFeePerGas"}

\* Both sides agree that these are unsigned; the DTO sets no upper limit.
LooseUserOps == [sender : Senders, initCode : Data, callData : Data,
                 nonce : Nat, preVerificationGas : Nat, callGasLimit : Nat,
                 verificationGasLimit : Nat, maxFeePerGas : Nat, maxPriorityFeePerGas : Nat]
-----------------------------------------------------------------------------
(* The API. *)

\* Mutant: the halves swapped.
PackLowHigh128(high, low) == low * Half + high

\* packHighLow128, on values it does not throw on.
PackHighLow128(high, low) == high * Half + low

\* Everything fits: packHighLow128 and encodeAbiParameters do not throw.
Encodable(op) ==
    /\ \A f \in GasFields : op[f] \in Uint128
    /\ op.nonce \in Uint256 /\ op.preVerificationGas \in Uint256

PackAccountGasLimits(op) == PackHighLow128(op.verificationGasLimit, op.callGasLimit)

PackGasFees(op) == PackHighLow128(op.maxPriorityFeePerGas, op.maxFeePerGas)

\* buildPaymasterAndDataHeader's 32 bytes after the address.
HeaderGas == PackHighLow128(PaymasterGas.verification, PaymasterGas.postOp)

\* Mutant: the window is not signed.
ComputePaymasterHashUndated(op, validUntil, validAfter) ==
    <<op.sender, op.nonce, op.initCode, op.callData, PackAccountGasLimits(op), HeaderGas,
      op.preVerificationGas, PackGasFees(op), ChainId, Paymaster, 0, 0>>

ComputePaymasterHash(op, validUntil, validAfter) ==
    <<op.sender, op.nonce, op.initCode, op.callData, PackAccountGasLimits(op), HeaderGas,
      op.preVerificationGas, PackGasFees(op), ChainId, Paymaster, validUntil, validAfter>>

\* Mutant: computed before the sponsorship is attached.
ComputeUserOpHashUnsigned(op, paymasterAndData) ==
    <<op.sender, op.nonce, op.initCode, op.callData, PackAccountGasLimits(op),
      op.preVerificationGas, PackGasFees(op), EntryPoint, ChainId>>

ComputeUserOpHash(op, paymasterAndData) ==
    <<op.sender, op.nonce, op.initCode, op.callData, PackAccountGasLimits(op),
      op.preVerificationGas, PackGasFees(op), paymasterAndData, EntryPoint, ChainId>>

\* buildPackedUserOp, from the row the sponsor call stored.  (The account's
\* signature is left out: neither side's hash covers it.)
BuildPackedUserOp(row) ==
    [sender |-> row.op.sender, nonce |-> row.op.nonce,
     initCode |-> row.op.initCode, callData |-> row.op.callData,
     accountGasLimits |-> PackAccountGasLimits(row.op),
     preVerificationGas |-> row.op.preVerificationGas,
     gasFees |-> PackGasFees(row.op),
     paymasterAndData |-> row.paymasterAndData]
-----------------------------------------------------------------------------
(* The contract, and the EntryPoint it inherits its types from. *)

\* VerifyingPaymaster.getHash.
GetHash(packed, validUntil, validAfter) ==
    <<packed.sender, packed.nonce, packed.initCode, packed.callData,
      packed.accountGasLimits, packed.paymasterAndData.gas, packed.preVerificationGas,
      packed.gasFees, ChainId, Paymaster, validUntil, validAfter>>

\* EntryPoint.getUserOpHash.
GetUserOpHash(packed) ==
    <<packed.sender, packed.nonce, packed.initCode, packed.callData,
      packed.accountGasLimits, packed.preVerificationGas, packed.gasFees,
      packed.paymasterAndData, EntryPoint, ChainId>>

\* UserOperationLib's unpackHigh128 and unpackLow128.
High(packed) == packed \div Half
Low(packed) == packed % Half
=============================================================================
