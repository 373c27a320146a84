---------------------------- MODULE Transactions ----------------------------
(***************************************************************************)
(* What the relayer's database and the chain both talk about: sponsored    *)
(* operations, by userOpHash, and the relayer's outer handleOps            *)
(* transactions.  A transaction is identified with its hash: op stands for *)
(* the call it carries, fee for maxFeePerGas (both fee caps are bumped     *)
(* together), and its gas limit is fixed once per submission.              *)
(***************************************************************************)
EXTENDS Integers

CONSTANTS Ops,   \* the UserOperations
          NoTx   \* the null of submittedTxHash

Txs == [op : Ops, nonce : Nat, fee : Nat]

ASSUME NoTxAssumption == NoTx \notin Txs
=============================================================================
