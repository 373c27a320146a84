----------------------------- MODULE Lifecycle ------------------------------
(***************************************************************************)
(* What the relayer promises the reader of GET /v1/userop/:hash: the       *)
(* states a sponsored operation goes through, how often it is retried, and *)
(* what its final state says about the chain.  Relayer implements it, as   *)
(* long as BullMQ never redelivers a check.                                *)
(*                                                                         *)
(* The diagram in user-op-state-machine.service.ts allows STUCK ->         *)
(* CONFIRMED and STUCK -> FAILED too.  They are left out: the relayer      *)
(* never takes them.                                                       *)
(***************************************************************************)
EXTENDS Integers

CONSTANTS Ops,
          MaxAttempts

VARIABLES status,    \* per operation, "absent" before it is sponsored
          bumps,     \* per operation, its gas-bumped resubmissions
          executed,  \* the operations the EntryPoint executed
          reverted   \* the operations a reverted transaction carried

lifecycleVars == <<status, bumps, executed, reverted>>

Init ==
    /\ status = [op \in Ops |-> "absent"]
    /\ bumps = [op \in Ops |-> 0]
    /\ executed = {}
    /\ reverted = {}

Move(op, from, to) ==
    /\ status[op] \in from
    /\ status' = [status EXCEPT ![op] = to]

Sponsor(op) ==
    /\ Move(op, {"absent"}, "PENDING")
    /\ UNCHANGED <<bumps, executed, reverted>>

\* Also from STUCK: a submit call that read PENDING may be that late.
Submit(op) ==
    /\ Move(op, {"PENDING", "STUCK"}, "SUBMITTED")
    /\ UNCHANGED <<bumps, executed, reverted>>

GetStuck(op) ==
    /\ Move(op, {"SUBMITTED"}, "STUCK")
    /\ bumps[op] < MaxAttempts
    /\ UNCHANGED <<bumps, executed, reverted>>

Resubmit(op) ==
    /\ Move(op, {"STUCK"}, "SUBMITTED")
    /\ bumps' = [bumps EXCEPT ![op] = @ + 1]
    /\ UNCHANGED <<executed, reverted>>

Confirm(op) ==
    /\ Move(op, {"SUBMITTED"}, "CONFIRMED")
    /\ op \in executed
    /\ UNCHANGED <<bumps, executed, reverted>>

Fail(op) ==
    /\ Move(op, {"SUBMITTED"}, "FAILED")
    /\ op \in reverted \/ bumps[op] = MaxAttempts
    /\ UNCHANGED <<bumps, executed, reverted>>

\* A block: one transaction, carrying op.
Block(op) ==
    /\ \/ executed' = executed \cup {op} /\ UNCHANGED reverted
       \/ reverted' = reverted \cup {op} /\ UNCHANGED executed
    /\ UNCHANGED <<status, bumps>>

Next ==
    \E op \in Ops :
        \/ Sponsor(op) \/ Submit(op) \/ GetStuck(op) \/ Resubmit(op)
        \/ Confirm(op) \/ Fail(op) \/ Block(op)

Spec == Init /\ [][Next]_lifecycleVars
=============================================================================
