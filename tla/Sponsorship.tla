----------------------------- MODULE Sponsorship ----------------------------
(***************************************************************************)
(* POST /paymaster/sponsor: PaymasterService.sponsor, with                 *)
(* PolicyService's daily quota, the signing service's validity window and  *)
(* the unique userOpHash of the user_operations table.                     *)
(*                                                                         *)
(* Each await is an action; any number of calls are in flight.  What a     *)
(* call read before an await (its policy row, the UTC day) it keeps.       *)
(***************************************************************************)
EXTENDS Policies

CONSTANTS
    Calls,          \* the sponsor calls that will be made
    Wallets,        \* smart accounts
    Payloads,       \* what else of an operation is signed: nonce, gas, data
    Unsignable,     \* payloads sign() throws on: a gas field of 2^128 or more
                    \* passes the DTO's pattern but not packHighLow128
    DtoOf,          \* the body of each call
    SecondsPerDay,  \* 86400
    ValidSeconds,   \* SPONSOR_VALID_SECONDS
    MaxTime,        \* bound: the clock stops there
    Aborts,         \* whether a database or signer call may fail
    NoneYet         \* what a call has not got yet

Dtos == [wallet : Wallets, payload : Payloads, target : Contracts, selector : Selectors]

ASSUME SponsorshipAssumption ==
    /\ IsFiniteSet(Calls)
    /\ DtoOf \in [Calls -> Dtos]
    /\ Unsignable \subseteq Payloads
    /\ SecondsPerDay \in Nat \ {0}
    /\ ValidSeconds \in Nat \ {0}
    /\ MaxTime \in Nat
    /\ Aborts \in BOOLEAN

VARIABLES
    now,     \* the clock, in seconds
    pc,      \* where each call is, and how it ended
    chosen,  \* the policy each call found
    key,     \* the counter each call uses: wallet, policy, day
    hash,    \* the userOpHash each call signed
    usage,   \* wallet_quota_usage: the rows' opsCount by key
    ops      \* user_operations: the hash of each row, and as history its key

callVars == <<pc, chosen, key, hash>>
vars == <<policies, now, callVars, usage, ops>>

Keys == [wallet : Wallets, policy : Nat, day : Nat]
Hashes == [wallet : Wallets, payload : Payloads, validUntil : Nat]

\* How a call ends: 403, 429, 500 before and 500 after it used up quota,
\* 409, and 200.
Answers == {"violation", "denied", "failed", "wasted", "duplicate", "granted"}
Paid == {"consumed", "signed", "wasted", "duplicate", "granted"}

TypeOK ==
    /\ PoliciesTypeOK
    /\ now \in Nat
    /\ pc \in [Calls -> {"idle", "matched", "counted"} \cup Answers \cup Paid]
    /\ chosen \in [Calls -> Nat]
    /\ key \in [Calls -> Keys \cup {NoneYet}]
    /\ hash \in [Calls -> Hashes \cup {NoneYet}]
    /\ DOMAIN usage \subseteq Keys
    /\ usage \in [DOMAIN usage -> Nat]
    /\ ops \subseteq [hash : Hashes, key : Keys]
    /\ \A c \in Calls :
         /\ pc[c] = "matched" => chosen[c] \in DOMAIN policies
         /\ pc[c] \in Paid \cup {"counted"} => key[c] \in DOMAIN usage
         /\ pc[c] \in {"signed", "duplicate", "granted"} => hash[c] \in Hashes

Init ==
    /\ PoliciesInit
    /\ now = 0
    /\ pc = [c \in Calls |-> "idle"]
    /\ chosen = [c \in Calls |-> 0]
    /\ key = [c \in Calls |-> NoneYet]
    /\ hash = [c \in Calls |-> NoneYet]
    /\ usage = [k \in {} |-> 0]
    /\ ops = {}
-----------------------------------------------------------------------------
Goto(c, from, to) ==
    /\ pc[c] = from
    /\ pc' = [pc EXCEPT ![c] = to]

\* findApplicablePolicy.
FindPolicy(c) ==
    /\ \/ /\ Goto(c, "idle", "matched")
          /\ \E i \in Applicable(DtoOf[c].target) :
               /\ MethodAllowed(i, DtoOf[c].selector)
               /\ chosen' = [chosen EXCEPT ![c] = i]
       \/ /\ Goto(c, "idle", "violation")
          /\ \A i \in Applicable(DtoOf[c].target) : ~MethodAllowed(i, DtoOf[c].selector)
          /\ UNCHANGED chosen
    /\ UNCHANGED <<policies, now, key, hash, usage, ops>>

\* Mutant: one counter for all wallets.
KeyOfPolicy(c) == [wallet |-> CHOOSE w \in Wallets : TRUE, policy |-> chosen[c],
                   day |-> now \div SecondsPerDay]

\* The UTC day is taken here, once.
KeyOf(c) == [wallet |-> DtoOf[c].wallet, policy |-> chosen[c], day |-> now \div SecondsPerDay]

\* Mutant: the upsert's update clause resets the counter.
UpsertResets(c) ==
    /\ Goto(c, "matched", "counted")
    /\ key' = [key EXCEPT ![c] = KeyOf(c)]
    /\ usage' = [k \in DOMAIN usage \cup {KeyOf(c)} |-> IF k = KeyOf(c) THEN 0 ELSE usage[k]]
    /\ UNCHANGED <<policies, now, chosen, hash, ops>>

\* Mutant: no row is created.
UpsertForgets(c) ==
    /\ Goto(c, "matched", "counted")
    /\ key' = [key EXCEPT ![c] = KeyOf(c)]
    /\ UNCHANGED <<policies, now, chosen, hash, usage, ops>>

\* checkAndConsumeQuota, first await: make sure that the counter exists.
Upsert(c) ==
    /\ Goto(c, "matched", "counted")
    /\ key' = [key EXCEPT ![c] = KeyOf(c)]
    /\ usage' = [k \in DOMAIN usage \cup {KeyOf(c)} |->
                    IF k \in DOMAIN usage THEN usage[k] ELSE 0]
    /\ UNCHANGED <<policies, now, chosen, hash, ops>>

QuotaOf(c) == policies[chosen[c]].dailyQuota

\* Mutant: compares with <=.
UnderQuotaOrEqual(c) == usage[key[c]] <= QuotaOf(c)

UnderQuota(c) == usage[key[c]] < QuotaOf(c)

Increment(c) == usage' = [usage EXCEPT ![key[c]] = @ + 1]

\* The conditional UPDATE: opsCount < dailyQuota.
Consume(c) ==
    /\ Goto(c, "counted", "consumed")
    /\ UnderQuota(c)
    /\ Increment(c)
    /\ UNCHANGED <<policies, now, chosen, key, hash, ops>>

Deny(c) ==
    /\ Goto(c, "counted", "denied")
    /\ ~UnderQuota(c)
    /\ UNCHANGED <<policies, now, chosen, key, hash, usage, ops>>

\* signingService.sign: validUntil is taken here, and with it the hash.
Sign(c) ==
    /\ DtoOf[c].payload \notin Unsignable
    /\ Goto(c, "consumed", "signed")
    /\ hash' = [hash EXCEPT ![c] = [wallet |-> DtoOf[c].wallet,
                                    payload |-> DtoOf[c].payload,
                                    validUntil |-> now + ValidSeconds]]
    /\ UNCHANGED <<policies, now, chosen, key, usage, ops>>

\* sign throws on a value it cannot encode: a plain Error, a 500.
SignThrows(c) ==
    /\ DtoOf[c].payload \in Unsignable
    /\ Goto(c, "consumed", "wasted")
    /\ UNCHANGED <<policies, now, chosen, key, hash, usage, ops>>

Stored(h) == \E o \in ops : o.hash = h

Insert(c) ==
    /\ ~Stored(hash[c])
    /\ ops' = ops \cup {[hash |-> hash[c], key |-> key[c]]}

\* Mutant: an upsert in place of create.
StoreUpserts(c) ==
    /\ Goto(c, "signed", "granted")
    /\ ops' = ops \cup {[hash |-> hash[c], key |-> key[c]]}
    /\ UNCHANGED <<policies, now, chosen, key, hash, usage>>

\* userOperation.create, as PENDING, and the answer.
Store(c) ==
    /\ Goto(c, "signed", "granted")
    /\ Insert(c)
    /\ UNCHANGED <<policies, now, chosen, key, hash, usage>>

\* P2002 on userOpHash: "Duplicate sponsorship request - retry".
StoreDuplicate(c) ==
    /\ Stored(hash[c])
    /\ Goto(c, "signed", "duplicate")
    /\ UNCHANGED <<policies, now, chosen, key, hash, usage, ops>>

\* An await rejects; a write may have reached the database all the same.
Fail(c) ==
    /\ Aborts
    /\ \/ /\ \E from \in {"idle", "matched", "counted"} : Goto(c, from, "failed")
          /\ UNCHANGED <<usage, ops>>
       \/ Goto(c, "counted", "wasted") /\ UnderQuota(c) /\ Increment(c) /\ UNCHANGED ops
       \/ Goto(c, "consumed", "wasted") /\ UNCHANGED <<usage, ops>>
       \/ Goto(c, "signed", "wasted") /\ UNCHANGED <<usage, ops>>
       \/ Goto(c, "signed", "wasted") /\ Insert(c) /\ UNCHANGED usage
    /\ UNCHANGED <<policies, now, chosen, key, hash>>
-----------------------------------------------------------------------------
Tick ==
    /\ now < MaxTime
    /\ now' = now + 1
    /\ UNCHANGED <<policies, callVars, usage, ops>>

Operator ==
    /\ \/ \E p \in PolicyRows : AddPolicy(p)
       \/ \E i \in DOMAIN policies, on \in BOOLEAN : SetActive(i, on)
    /\ UNCHANGED <<now, callVars, usage, ops>>

Next ==
    \/ \E c \in Calls :
         \/ FindPolicy(c) \/ Upsert(c) \/ Consume(c) \/ Deny(c) \/ Sign(c)
         \/ SignThrows(c) \/ Store(c) \/ StoreDuplicate(c) \/ Fail(c)
    \/ Tick
    \/ Operator

Spec == Init /\ [][Next]_vars
-----------------------------------------------------------------------------
Payers(k) == {c \in Calls : pc[c] \in Paid /\ key[c] = k}

\* However the calls of a wallet race, a counter is the exact number of calls
\* that got past the quota on that day, and no more than the policy's
\* dailyQuota did (the conditional UPDATE, between two other awaits).
QuotaHolds ==
    \A k \in DOMAIN usage :
        /\ usage[k] = Cardinality(Payers(k))
        /\ usage[k] > 0 => usage[k] <= policies[k.policy].dailyQuota

\* A call is only ever denied because of its own wallet's calls of the same
\* day, under the same policy: quotas are independent.
QuotaPerWallet ==
    \A c \in Calls : pc[c] = "denied" =>
        QuotaOf(c) <= Cardinality({d \in Calls :
            /\ pc[d] \in Paid
            /\ DtoOf[d].wallet = DtoOf[c].wallet
            /\ chosen[d] = chosen[c]
            /\ key[d].day = key[c].day})

OpsOf(k) == {o \in ops : o.key = k}

\* No wallet gets more operations stored under a day's counter than the
\* policy allows, also when answers are lost or two calls sign the same hash.
OpsWithinQuota ==
    \A o \in ops : Cardinality(OpsOf(o.key)) <= policies[o.key.policy].dailyQuota

\* Each granted call has an operation of its own: no two clients are handed
\* the same userOpHash, and what a client was handed is on file.
GrantsAreDistinct ==
    \A c \in Calls : pc[c] = "granted" =>
        /\ Stored(hash[c])
        /\ \A d \in Calls : pc[d] = "granted" /\ hash[d] = hash[c] => c = d

\* An operator who adds a wildcard policy to a chain that has one changes no
\* decision: the oldest stays in force.
OldestWildcardStays ==
    [][\A a \in Contracts :
          /\ Len(policies') > Len(policies)
          /\ policies'[Len(policies')].target = Null
          /\ Applicable(a) # {}
          => Applicable(a)' = Applicable(a)]_policies

\* "A policy scoped to this exact contract takes precedence over an 'any
\* contract' wildcard policy for the same chain", however it is spelled.
ScopedTakesPrecedence ==
    [][\A c \in Calls :
          /\ pc[c] = "idle" /\ pc'[c] = "matched"
          /\ policies[chosen'[c]].target = Null
          => \A i \in DOMAIN policies : policies[i].active =>
                policies[i].target \notin {Lower(DtoOf[c].target), Mixed(DtoOf[c].target)}]_vars
=============================================================================
