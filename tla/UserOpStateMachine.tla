------------------------- MODULE UserOpStateMachine -------------------------
(***************************************************************************)
(* The user_operations table and UserOpStateMachineService, the only code  *)
(* that changes a row's status after PaymasterService created it.  Every   *)
(* operation is one conditional UPDATE: it takes effect when the status is *)
(* one of the listed ones, and throws a ConflictException otherwise.       *)
(*                                                                         *)
(* A row's submittedTxHash, relayerNonce and maxFeePerGas are always       *)
(* written together, so `tx' stands for the three: the outer transaction   *)
(* [op, nonce, fee] the row names, or NoTx before the first submission.    *)
(***************************************************************************)
EXTENDS Transactions

VARIABLE row

Statuses == {"PENDING", "SUBMITTED", "CONFIRMED", "FAILED", "STUCK"}

\* Before PaymasterService.sponsor stores it an operation has no row.
Absent == "absent"

Reasons == {"none", "reverted", "exhausted"}

Rows == [status : Statuses \cup {Absent}, tx : Txs \cup {NoTx},
         bumps : Nat, reason : Reasons]

RowTypeOK == row \in [Ops -> Rows]

RowInit == row = [op \in Ops |-> [status |-> Absent, tx |-> NoTx,
                                  bumps |-> 0, reason |-> "none"]]
-----------------------------------------------------------------------------
\* Mutant: an UPDATE without the status condition.
TransitionUnguarded(op, from, new) ==
    row' = [row EXCEPT ![op] = new]

\* UPDATE ... WHERE userOpHash = op AND status IN from.
Transition(op, from, new) ==
    /\ row[op].status \in from
    /\ row' = [row EXCEPT ![op] = new]

\* The same UPDATE matching no row: count = 0, a ConflictException.
TransitionConflicts(op, from) ==
    /\ row[op].status \notin from
    /\ UNCHANGED row

\* Mutant: a second submission of the same operation goes through.
SubmittableFromLax == {"PENDING", "SUBMITTED", "STUCK"}

SubmittableFrom == {"PENDING", "STUCK"}

\* increment is 1 on a resubmission (isResubmission), else 0.
MarkSubmitted(op, tx, increment) ==
    Transition(op, SubmittableFrom,
               [row[op] EXCEPT !.status = "SUBMITTED",
                               !.tx = tx,
                               !.bumps = @ + increment])

MarkStuck(op) ==
    Transition(op, {"SUBMITTED"}, [row[op] EXCEPT !.status = "STUCK"])

SettleableFrom == {"SUBMITTED", "STUCK"}

MarkConfirmed(op) ==
    Transition(op, SettleableFrom, [row[op] EXCEPT !.status = "CONFIRMED"])

MarkFailed(op, reason) ==
    Transition(op, SettleableFrom,
               [row[op] EXCEPT !.status = "FAILED", !.reason = reason])

\* PaymasterService.sponsor stores the signed operation; see Sponsorship.
Create(op) ==
    Transition(op, {Absent}, [row[op] EXCEPT !.status = "PENDING"])
=============================================================================
