------------------------------ MODULE Policies ------------------------------
(***************************************************************************)
(* The sponsorship_policies table and PolicyService.findApplicablePolicy.  *)
(*                                                                         *)
(* A row's target is a contract as it was typed into the table, or Null    *)
(* for "any contract".  Of an address's spelling only this matters: is it  *)
(* all lower case.  Rows are listed in the order of createdAt, so a row's  *)
(* position is its id; rows are deactivated but never deleted.             *)
(***************************************************************************)
EXTENDS Integers, Sequences, FiniteSetsExt

CONSTANTS
    Contracts,    \* contract addresses
    Selectors,    \* method selectors
    PolicyRows,   \* the rows an operator may insert
    MaxPolicies,  \* bound: rows in the table
    Null          \* SQL's NULL, a wildcard policy's target

Lower(a) == [address |-> a, lower |-> TRUE]
Mixed(a) == [address |-> a, lower |-> FALSE]

Policy == [target : {Lower(a) : a \in Contracts} \cup {Mixed(a) : a \in Contracts} \cup {Null},
           selectors : SUBSET Selectors,
           dailyQuota : Int,
           active : BOOLEAN]

ASSUME PolicyAssumption ==
    /\ PolicyRows \subseteq Policy
    /\ MaxPolicies \in Nat
    /\ \A a \in Contracts : Null # Lower(a) /\ Null # Mixed(a)

VARIABLE policies

PoliciesTypeOK == policies \in Seq(Policy)

PoliciesInit == policies = <<>>
-----------------------------------------------------------------------------
\* WHERE isActive AND (targetContract = lower-cased target OR IS NULL).
Candidates(a) ==
    {i \in DOMAIN policies : policies[i].active /\ policies[i].target \in {Lower(a), Null}}

Scoped(a) == {i \in Candidates(a) : policies[i].target # Null}
Wildcard(a) == {i \in Candidates(a) : policies[i].target = Null}

\* Mutant: the newest wildcard policy wins.
ApplicableNewest(a) ==
    {i \in Candidates(a) :
        IF Scoped(a) # {} THEN i = Min(Scoped(a)) ELSE i = Max(Wildcard(a))}

\* Mutant: whichever row is older, scoped or not.
ApplicableOldest(a) ==
    {i \in Candidates(a) : i = Min(Candidates(a))}

\* The policy that decides: the oldest one scoped to the contract, else the
\* oldest wildcard.  Empty when none covers it.
Applicable(a) ==
    {i \in Candidates(a) :
        IF Scoped(a) # {} THEN i = Min(Scoped(a)) ELSE i = Min(Wildcard(a))}

\* An empty list allows every method.
MethodAllowed(i, selector) ==
    policies[i].selectors = {} \/ selector \in policies[i].selectors
-----------------------------------------------------------------------------
\* An operator inserts a row; only a spelled-out target is unique per chain.
AddPolicy(p) ==
    /\ Len(policies) < MaxPolicies
    /\ p.target # Null => \A i \in DOMAIN policies : policies[i].target # p.target
    /\ policies' = Append(policies, p)

SetActive(i, on) ==
    /\ policies[i].active # on
    /\ policies' = [policies EXCEPT ![i].active = on]
=============================================================================
