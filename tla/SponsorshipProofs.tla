------------------------- MODULE SponsorshipProofs --------------------------
(***************************************************************************)
(* Proofs about Sponsorship, for any finite set of calls, any policies,    *)
(* any clock and any failures.                                             *)
(***************************************************************************)
EXTENDS Sponsorship, FiniteSetTheorems, WellFoundedInduction, TLAPS

USE DEF vars, callVars

\* What a call found and what it counts on stays on file, and is the same
\* policy, whatever an operator does to the table meanwhile.
PolicyInv ==
    /\ \A c \in Calls : pc[c] \in Paid \cup {"matched", "counted"} =>
          chosen[c] \in DOMAIN policies
    /\ \A c \in Calls : pc[c] \in Paid \cup {"counted"} => key[c].policy = chosen[c]
    /\ \A k \in DOMAIN usage : k.policy \in DOMAIN policies

(* The policy table. *)

\* An operator neither removes a policy nor changes its quota.
LEMMA OperatorEffect ==
  ASSUME PoliciesTypeOK, Operator
  PROVE  /\ PoliciesTypeOK'
         /\ DOMAIN policies \subseteq DOMAIN policies'
         /\ \A i \in DOMAIN policies : policies'[i].dailyQuota = policies[i].dailyQuota
  <1>1. ASSUME NEW p \in PolicyRows, AddPolicy(p)
        PROVE  /\ PoliciesTypeOK'
               /\ DOMAIN policies \subseteq DOMAIN policies'
               /\ \A i \in DOMAIN policies : policies'[i] = policies[i]
    <2>1. p \in Policy
      BY PolicyAssumption
    <2>2. policies' = Append(policies, p)
      BY <1>1 DEF AddPolicy
    <2> HIDE DEF Policy
    <2>3. QED
      BY <2>1, <2>2 DEF PoliciesTypeOK
  <1>2. ASSUME NEW i \in DOMAIN policies, NEW on \in BOOLEAN, SetActive(i, on)
        PROVE  /\ PoliciesTypeOK'
               /\ DOMAIN policies \subseteq DOMAIN policies'
               /\ \A j \in DOMAIN policies : policies'[j].dailyQuota = policies[j].dailyQuota
    <2> DEFINE new == [policies[i] EXCEPT !.active = on]
    <2>1. policies[i] \in Policy
      BY DEF PoliciesTypeOK
    <2>2. new \in Policy /\ new.dailyQuota = policies[i].dailyQuota
      BY <2>1 DEF Policy
    <2>3. policies' = [policies EXCEPT ![i] = new]
      BY <1>2 DEF SetActive
    <2> HIDE DEF new
    <2>4. QED
      BY <2>2, <2>3 DEF PoliciesTypeOK
  <1>3. QED
    BY <1>1, <1>2 DEF Operator

\* The policy a call finds is in the table.
LEMMA ApplicableOnFile ==
  ASSUME NEW a PROVE Applicable(a) \subseteq DOMAIN policies
  BY DEF Applicable, Candidates

(* The counters. *)

\* Payers are a finite set.
LEMMA PayersFinite == ASSUME NEW k PROVE IsFiniteSet(Payers(k))
  BY SponsorshipAssumption, FS_Subset DEF Payers
-----------------------------------------------------------------------------
(* Type correctness. *)

Inv == TypeOK /\ PolicyInv

\* The day a call counts on is a natural number.
LEMMA KeyOfType ==
  ASSUME TypeOK, NEW c \in Calls PROVE KeyOf(c) \in Keys /\ KeyOf(c).policy = chosen[c]
  <1>1. now \div SecondsPerDay \in Nat
    BY SponsorshipAssumption DEF TypeOK
  <1>2. DtoOf[c].wallet \in Wallets /\ chosen[c] \in Nat
    BY SponsorshipAssumption DEF TypeOK, Dtos
  <1>3. QED
    BY <1>1, <1>2 DEF KeyOf, Keys

\* No call is under way on an empty table.
LEMMA InitInv == Init => Inv
  BY SponsorshipAssumption
     DEF Init, PoliciesInit, Inv, TypeOK, PolicyInv, PoliciesTypeOK, Answers, Paid

\* Every await of a call, every tick and every change of a policy keeps Inv.
LEMMA NextInv ==
  ASSUME Inv, [Next]_vars PROVE Inv'
  <1> USE SponsorshipAssumption
  <1> USE DEF Inv, TypeOK, PolicyInv, Answers, Paid
  <1>1. CASE UNCHANGED vars
    BY <1>1 DEF PoliciesTypeOK
  <1>2. ASSUME NEW c \in Calls, FindPolicy(c) PROVE Inv'
    <2>1. Applicable(DtoOf[c].target) \subseteq DOMAIN policies /\ DOMAIN policies \subseteq Nat
      BY ApplicableOnFile DEF PoliciesTypeOK
    <2>2. CASE /\ Goto(c, "idle", "matched")
               /\ \E i \in Applicable(DtoOf[c].target) :
                    /\ MethodAllowed(i, DtoOf[c].selector)
                    /\ chosen' = [chosen EXCEPT ![c] = i]
      <3>1. PICK i \in DOMAIN policies : chosen' = [chosen EXCEPT ![c] = i]
        BY <2>1, <2>2
      <3>2. pc[c] = "idle" /\ pc' = [pc EXCEPT ![c] = "matched"]
        BY <2>2 DEF Goto
      <3>3. UNCHANGED <<policies, now, key, hash, usage, ops>>
        BY <1>2 DEF FindPolicy
      <3>4. QED
        BY <2>1, <3>1, <3>2, <3>3 DEF PoliciesTypeOK
    <2>3. CASE Goto(c, "idle", "violation") /\ UNCHANGED chosen
      BY <1>2, <2>3 DEF FindPolicy, Goto, PoliciesTypeOK
    <2>4. QED
      BY <1>2, <2>2, <2>3 DEF FindPolicy
  <1>3. ASSUME NEW c \in Calls, Upsert(c) PROVE Inv'
    <2>1. KeyOf(c) \in Keys /\ KeyOf(c).policy = chosen[c]
      BY KeyOfType
    <2>2. DOMAIN usage' = DOMAIN usage \cup {KeyOf(c)} /\ usage' \in [DOMAIN usage' -> Nat]
      BY <1>3 DEF Upsert
    <2>3. QED
      BY <1>3, <2>1, <2>2 DEF Upsert, Goto, PoliciesTypeOK
  <1>4. ASSUME NEW c \in Calls, Increment(c), key[c] \in DOMAIN usage
        PROVE  DOMAIN usage' = DOMAIN usage /\ usage' \in [DOMAIN usage' -> Nat]
    BY <1>4 DEF Increment
  <1>5. ASSUME NEW c \in Calls, Consume(c) PROVE Inv'
    BY <1>4, <1>5 DEF Consume, Goto, PoliciesTypeOK
  <1>6. ASSUME NEW c \in Calls, Deny(c) PROVE Inv'
    BY <1>6 DEF Deny, Goto, PoliciesTypeOK
  <1>7. ASSUME NEW c \in Calls, Sign(c) PROVE Inv'
    <2> DEFINE h == [wallet |-> DtoOf[c].wallet, payload |-> DtoOf[c].payload,
                     validUntil |-> now + ValidSeconds]
    <2>1. h \in Hashes
      BY DEF Dtos, Hashes
    <2>2. hash' = [hash EXCEPT ![c] = h]
      BY <1>7 DEF Sign
    <2> HIDE DEF h
    <2>3. QED
      BY <1>7, <2>1, <2>2 DEF Sign, Goto, PoliciesTypeOK
  <1>8. ASSUME NEW c \in Calls, SignThrows(c) PROVE Inv'
    BY <1>8 DEF SignThrows, Goto, PoliciesTypeOK
  <1>9. ASSUME NEW c \in Calls, pc[c] = "signed", Insert(c)
        PROVE  ops' \subseteq [hash : Hashes, key : Keys]
    BY <1>9 DEF Insert
  <1>10. ASSUME NEW c \in Calls, Store(c) PROVE Inv'
    BY <1>9, <1>10 DEF Store, Goto, PoliciesTypeOK
  <1>11. ASSUME NEW c \in Calls, StoreDuplicate(c) PROVE Inv'
    BY <1>11 DEF StoreDuplicate, Goto, PoliciesTypeOK
  <1>12. ASSUME NEW c \in Calls, Fail(c) PROVE Inv'
    BY <1>4, <1>9, <1>12 DEF Fail, Goto, PoliciesTypeOK
  <1>13. CASE Tick
    BY <1>13 DEF Tick, PoliciesTypeOK
  <1>14. CASE Operator
    BY <1>14, OperatorEffect DEF Operator
  <1>15. QED
    BY <1>1, <1>2, <1>3, <1>5, <1>6, <1>7, <1>8, <1>10, <1>11, <1>12, <1>13, <1>14 DEF Next

\* Every variable keeps its type; in particular a call that counts always
\* finds the counter its upsert made.
THEOREM SponsorshipTypeCorrect == Spec => []TypeOK
  <1>1. Inv => TypeOK
    BY DEF Inv
  <1>2. QED
    BY <1>1, InitInv, NextInv, PTL DEF Spec
-----------------------------------------------------------------------------
(* The quota. *)

\* A step of a call that neither pays nor is undone leaves every counter's
\* payers alone.
LEMMA SamePayers ==
  ASSUME TypeOK, NEW c \in Calls, NEW to, pc' = [pc EXCEPT ![c] = to],
         pc[c] \in Paid <=> to \in Paid, key' = key
  PROVE  \A k : Payers(k)' = Payers(k)
  BY DEF TypeOK, Payers

\* As long as no call pays and no policy's quota changes, the quota holds on.
LEMMA QuotaKept ==
  ASSUME Inv, QuotaHolds, usage' = usage, \A k : Payers(k)' = Payers(k),
         \A i \in DOMAIN policies : policies'[i].dailyQuota = policies[i].dailyQuota
  PROVE  QuotaHolds'
  BY DEF QuotaHolds, Inv, PolicyInv

\* The conditional UPDATE keeps the quota, whatever becomes of its answer.
LEMMA IncrementKeepsQuota ==
  ASSUME Inv, QuotaHolds, NEW c \in Calls, NEW to \in Paid,
         pc[c] = "counted", pc' = [pc EXCEPT ![c] = to],
         UnderQuota(c), Increment(c), key' = key, policies' = policies
  PROVE  QuotaHolds'
  <1>1. /\ key[c] \in DOMAIN usage
        /\ key[c].policy = chosen[c]
        /\ chosen[c] \in DOMAIN policies
        /\ \A k \in DOMAIN usage : usage[k] \in Nat
    BY DEF Inv, PolicyInv, TypeOK, Paid
  <1>2. policies[chosen[c]].dailyQuota \in Int
    <2>1. policies[chosen[c]] \in Policy
      BY <1>1 DEF Inv, TypeOK, PoliciesTypeOK
    <2>2. QED
      BY <2>1 DEF Policy
  <1>3. /\ DOMAIN usage' = DOMAIN usage
        /\ usage'[key[c]] = usage[key[c]] + 1
        /\ \A k \in DOMAIN usage : k # key[c] => usage'[k] = usage[k]
    BY <1>1 DEF Increment
  <1>4. /\ c \notin Payers(key[c])
        /\ Payers(key[c])' = Payers(key[c]) \cup {c}
        /\ \A k : k # key[c] => Payers(k)' = Payers(k)
    BY DEF Inv, TypeOK, Payers, Paid
  <1>5. Cardinality(Payers(key[c])') = Cardinality(Payers(key[c])) + 1
    BY <1>4, PayersFinite, FS_AddElement
  <1>6. ASSUME NEW k \in DOMAIN usage
        PROVE  /\ usage'[k] = Cardinality(Payers(k)')
               /\ usage'[k] > 0 => usage'[k] <= policies[k.policy].dailyQuota
    <2>1. CASE k = key[c]
      BY <1>1, <1>2, <1>3, <1>5, <2>1 DEF QuotaHolds, UnderQuota, QuotaOf
    <2>2. CASE k # key[c]
      BY <1>3, <1>4, <2>2 DEF QuotaHolds
    <2>3. QED
      BY <2>1, <2>2
  <1>7. QED
    BY <1>3, <1>6 DEF QuotaHolds

\* A counter that is new has no payers, one that exists is left as it is.
LEMMA UpsertKeepsQuota ==
  ASSUME Inv, QuotaHolds, NEW c \in Calls, Upsert(c)
  PROVE  QuotaHolds'
  <1>1. /\ DOMAIN usage' = DOMAIN usage \cup {KeyOf(c)}
        /\ \A k \in DOMAIN usage : usage'[k] = usage[k]
        /\ KeyOf(c) \notin DOMAIN usage => usage'[KeyOf(c)] = 0
    BY DEF Upsert
  <1>2. \A k : Payers(k)' = Payers(k)
    BY DEF Upsert, Goto, Inv, TypeOK, Payers, Paid
  <1>3. KeyOf(c) \notin DOMAIN usage => Payers(KeyOf(c)) = {}
    BY DEF Inv, TypeOK, Payers, Paid
  <1>4. Cardinality({}) = 0
    BY FS_EmptySet
  <1>5. policies' = policies
    BY DEF Upsert
  <1> HIDE DEF vars, callVars
  <1>6. ASSUME NEW k \in DOMAIN usage'
        PROVE  /\ usage'[k] = Cardinality(Payers(k)')
               /\ usage'[k] > 0 => usage'[k] <= policies[k.policy].dailyQuota
    <2>1. CASE k \in DOMAIN usage
      BY <1>1, <1>2, <2>1 DEF QuotaHolds
    <2>2. CASE k \notin DOMAIN usage
      BY <1>1, <1>2, <1>3, <1>4, <2>2
    <2>3. QED
      BY <2>1, <2>2
  <1>7. QED
    BY <1>5, <1>6 DEF QuotaHolds

\* Every step keeps the quota.
LEMMA NextQuota ==
  ASSUME Inv, QuotaHolds, [Next]_vars PROVE QuotaHolds'
  <1> USE DEF Goto, Paid
  <1>1. CASE UNCHANGED vars
    BY <1>1, QuotaKept DEF Payers
  <1>2. ASSUME NEW c \in Calls, NEW to,
               pc' = [pc EXCEPT ![c] = to], pc[c] \in Paid <=> to \in Paid,
               UNCHANGED <<key, usage, policies>>
        PROVE  QuotaHolds'
    BY <1>2, SamePayers, QuotaKept DEF Inv
  <1>3. ASSUME NEW c \in Calls, FindPolicy(c) PROVE QuotaHolds'
    BY <1>2, <1>3 DEF FindPolicy
  <1>4. ASSUME NEW c \in Calls, Upsert(c) PROVE QuotaHolds'
    BY <1>4, UpsertKeepsQuota
  <1>5. ASSUME NEW c \in Calls, Consume(c) PROVE QuotaHolds'
    BY <1>5, IncrementKeepsQuota DEF Consume
  <1>6. ASSUME NEW c \in Calls, Deny(c) PROVE QuotaHolds'
    BY <1>2, <1>6 DEF Deny
  <1>7. ASSUME NEW c \in Calls, Sign(c) \/ SignThrows(c) PROVE QuotaHolds'
    BY <1>2, <1>7 DEF Sign, SignThrows
  <1>8. ASSUME NEW c \in Calls, Store(c) \/ StoreDuplicate(c) PROVE QuotaHolds'
    BY <1>2, <1>8 DEF Store, StoreDuplicate
  <1>9. ASSUME NEW c \in Calls, Fail(c) PROVE QuotaHolds'
    <2>1. CASE /\ pc[c] = "counted" /\ pc' = [pc EXCEPT ![c] = "wasted"]
               /\ UnderQuota(c) /\ Increment(c)
      BY <1>9, <2>1, IncrementKeepsQuota DEF Fail
    <2>2. CASE /\ UNCHANGED usage
               /\ \/ \E from \in {"idle", "matched", "counted"} : Goto(c, from, "failed")
                  \/ Goto(c, "consumed", "wasted")
                  \/ Goto(c, "signed", "wasted")
      BY <1>2, <1>9, <2>2 DEF Fail
    <2>3. QED
      BY <1>9, <2>1, <2>2 DEF Fail
  <1>10. CASE Tick
    BY <1>10, QuotaKept DEF Tick, Payers
  <1>11. CASE Operator
    <2>1. \A k : Payers(k)' = Payers(k)
      BY <1>11 DEF Operator, Payers
    <2>2. QED
      BY <1>11, <2>1, QuotaKept, OperatorEffect DEF Operator, Inv, TypeOK
  <1>12. QED
    BY <1>1, <1>3, <1>4, <1>5, <1>6, <1>7, <1>8, <1>9, <1>10, <1>11 DEF Next

\* However the calls race and fail, a counter is the exact number of calls
\* that got past the quota, and no more than the policy's dailyQuota did.
THEOREM QuotaCorrect == Spec => []QuotaHolds
  <1>1. Init => QuotaHolds
    BY DEF Init, QuotaHolds
  <1>2. QED
    BY <1>1, InitInv, NextInv, NextQuota, PTL DEF Spec
-----------------------------------------------------------------------------
(* What is stored. *)

\* The calls that may have stored an operation under a counter.
Storers(k) == {c \in Calls : pc[c] \in {"granted", "wasted"} /\ key[c] = k}

\* The operations of a counter are no more than the calls that may have
\* stored one.
StoredInv ==
    \A k : IsFiniteSet(OpsOf(k)) /\ Cardinality(OpsOf(k)) <= Cardinality(Storers(k))

\* Storers are some of the payers.
LEMMA StorersPaid ==
  ASSUME NEW k
  PROVE  /\ IsFiniteSet(Storers(k))
         /\ Cardinality(Storers(k)) \in Nat
         /\ Cardinality(Payers(k)) \in Nat
         /\ Cardinality(Storers(k)) <= Cardinality(Payers(k))
  <1>1. Storers(k) \subseteq Payers(k)
    BY DEF Storers, Payers, Paid
  <1>2. QED
    BY <1>1, PayersFinite, FS_Subset, FS_CardinalityType

\* A counter with an operation is on file and not zero, so that what is
\* stored is within the quota.
LEMMA StoredWithinQuota == Inv /\ QuotaHolds /\ StoredInv => OpsWithinQuota
  <1> SUFFICES ASSUME Inv, QuotaHolds, StoredInv, NEW o \in ops
               PROVE  Cardinality(OpsOf(o.key)) <= policies[o.key.policy].dailyQuota
    BY DEF OpsWithinQuota
  <1> DEFINE k == o.key
  <1>1. o \in OpsOf(k) /\ IsFiniteSet(OpsOf(k)) /\ Cardinality(OpsOf(k)) \in Nat
    BY FS_CardinalityType DEF OpsOf, StoredInv
  <1>2. Cardinality(OpsOf(k)) # 0
    BY <1>1, FS_EmptySet
  <1>3. Cardinality(OpsOf(k)) <= Cardinality(Payers(k)) /\ Cardinality(Payers(k)) \in Nat
    BY <1>1, StorersPaid DEF StoredInv
  <1>4. Payers(k) # {}
    BY <1>1, <1>2, <1>3, FS_EmptySet
  <1>5. k \in DOMAIN usage
    BY <1>4 DEF Payers, Inv, TypeOK
  <1>6. usage[k] = Cardinality(Payers(k)) /\ usage[k] > 0
    BY <1>1, <1>2, <1>3, <1>5 DEF QuotaHolds
  <1>7. policies[k.policy] \in Policy
    BY <1>5 DEF Inv, PolicyInv, TypeOK, PoliciesTypeOK
  <1>8. policies[k.policy].dailyQuota \in Int
    BY <1>7 DEF Policy
  <1>9. usage[k] <= policies[k.policy].dailyQuota
    BY <1>5, <1>6 DEF QuotaHolds
  <1>10. QED
    BY <1>1, <1>3, <1>6, <1>8, <1>9

\* More storers never hurt as long as nothing is stored.
LEMMA StorersGrow ==
  ASSUME StoredInv, ops' = ops, \A k : Storers(k) \subseteq Storers(k)'
  PROVE  StoredInv'
  <1> SUFFICES ASSUME NEW k
               PROVE  /\ IsFiniteSet(OpsOf(k)')
                      /\ Cardinality(OpsOf(k)') <= Cardinality(Storers(k)')
    BY DEF StoredInv
  <1>1. IsFiniteSet(Storers(k)')
    BY SponsorshipAssumption, FS_Subset DEF Storers
  <1>2. Cardinality(Storers(k)) <= Cardinality(Storers(k)')
    BY <1>1, FS_Subset
  <1>3. /\ Cardinality(Storers(k)) \in Nat
        /\ Cardinality(Storers(k)') \in Nat
    BY <1>1, StorersPaid, FS_CardinalityType
  <1>4. IsFiniteSet(OpsOf(k)) /\ Cardinality(OpsOf(k)) <= Cardinality(Storers(k))
    BY DEF StoredInv
  <1>5. Cardinality(OpsOf(k)) \in Nat
    BY <1>4, FS_CardinalityType
  <1>6. OpsOf(k)' = OpsOf(k)
    BY DEF OpsOf
  <1>7. QED
    BY <1>2, <1>3, <1>4, <1>5, <1>6

\* A call that stores its operation is a storer from then on, and was none.
LEMMA InsertKeepsStored ==
  ASSUME Inv, StoredInv, NEW c \in Calls, NEW to \in {"granted", "wasted"},
         pc[c] = "signed", pc' = [pc EXCEPT ![c] = to], Insert(c), key' = key
  PROVE  StoredInv'
  <1> DEFINE row == [hash |-> hash[c], key |-> key[c]]
  <1>1. /\ \A k : k = key[c] => OpsOf(k)' = OpsOf(k) \cup {row} /\ row \notin OpsOf(k)
        /\ \A k : k # key[c] => OpsOf(k)' = OpsOf(k)
    BY DEF Insert, OpsOf, Stored
  <1>2. /\ \A k : k = key[c] => Storers(k)' = Storers(k) \cup {c} /\ c \notin Storers(k)
        /\ \A k : k # key[c] => Storers(k)' = Storers(k)
    BY DEF Inv, TypeOK, Storers
  <1> SUFFICES ASSUME NEW k
               PROVE  /\ IsFiniteSet(OpsOf(k)')
                      /\ Cardinality(OpsOf(k)') <= Cardinality(Storers(k)')
    BY DEF StoredInv
  <1>3. IsFiniteSet(OpsOf(k)) /\ Cardinality(OpsOf(k)) <= Cardinality(Storers(k))
    BY DEF StoredInv
  <1>4. CASE k = key[c]
    <2> HIDE DEF row
    <2>1. IsFiniteSet(OpsOf(k)') /\ Cardinality(OpsOf(k)') = Cardinality(OpsOf(k)) + 1
      <3>1. OpsOf(k)' = OpsOf(k) \cup {row} /\ row \notin OpsOf(k)
        BY <1>1, <1>4
      <3>2. IsFiniteSet(OpsOf(k))
        BY <1>3
      <3> DEFINE S == OpsOf(k)
      <3>3. /\ IsFiniteSet(S \cup {row})
            /\ Cardinality(S \cup {row}) = Cardinality(S) + 1
        <4> HIDE DEF S
        <4>1. row \notin S /\ IsFiniteSet(S)
          BY <3>1, <3>2 DEF S
        <4>2. QED
          BY <4>1, FS_AddElement
      <3>4. QED
        BY <3>1, <3>3
    <2>2. Cardinality(Storers(k)') = Cardinality(Storers(k)) + 1
      BY <1>2, <1>4, StorersPaid, FS_AddElement
    <2>3. Cardinality(OpsOf(k)) \in Nat /\ Cardinality(Storers(k)) \in Nat
      BY <1>3, StorersPaid, FS_CardinalityType
    <2>4. QED
      BY <1>3, <2>1, <2>2, <2>3
  <1>5. CASE k # key[c]
    BY <1>1, <1>2, <1>3, <1>5
  <1>6. QED
    BY <1>4, <1>5

\* Only a signed call stores, and a call that is over stays so.
LEMMA NextStored ==
  ASSUME Inv, StoredInv, [Next]_vars PROVE StoredInv'
  <1> USE DEF Goto
  <1>1. CASE UNCHANGED vars
    BY <1>1, StorersGrow DEF Storers
  <1>2. ASSUME NEW c \in Calls, NEW to,
               pc[c] \notin {"granted", "wasted"}, pc' = [pc EXCEPT ![c] = to],
               UNCHANGED <<key, ops>>
        PROVE  StoredInv'
    <2>1. \A k : Storers(k) \subseteq Storers(k)'
      BY <1>2 DEF Storers, Inv, TypeOK
    <2>2. QED
      BY <1>2, <2>1, StorersGrow
  <1>3. ASSUME NEW c \in Calls, FindPolicy(c) PROVE StoredInv'
    BY <1>2, <1>3 DEF FindPolicy
  <1>4. ASSUME NEW c \in Calls, Upsert(c) PROVE StoredInv'
    <2>1. \A k : Storers(k) \subseteq Storers(k)'
      BY <1>4 DEF Upsert, Storers, Inv, TypeOK
    <2>2. QED
      BY <1>4, <2>1, StorersGrow DEF Upsert
  <1>5. ASSUME NEW c \in Calls, Consume(c) \/ Deny(c) PROVE StoredInv'
    BY <1>2, <1>5 DEF Consume, Deny
  <1>6. ASSUME NEW c \in Calls, Sign(c) \/ SignThrows(c) PROVE StoredInv'
    BY <1>2, <1>6 DEF Sign, SignThrows
  <1>7. ASSUME NEW c \in Calls, Store(c) PROVE StoredInv'
    BY <1>7, InsertKeepsStored DEF Store
  <1>8. ASSUME NEW c \in Calls, StoreDuplicate(c) PROVE StoredInv'
    BY <1>2, <1>8 DEF StoreDuplicate
  <1>9. ASSUME NEW c \in Calls, Fail(c) PROVE StoredInv'
    <2>1. CASE Goto(c, "signed", "wasted") /\ Insert(c)
      BY <1>9, <2>1, InsertKeepsStored DEF Fail
    <2>2. CASE /\ UNCHANGED ops
               /\ \/ \E from \in {"idle", "matched", "counted"} : Goto(c, from, "failed")
                  \/ \E from \in {"counted", "consumed", "signed"} : Goto(c, from, "wasted")
      BY <1>2, <1>9, <2>2 DEF Fail
    <2>3. QED
      BY <1>9, <2>1, <2>2 DEF Fail
  <1>10. CASE Tick \/ Operator
    BY <1>10, StorersGrow DEF Tick, Operator, Storers
  <1>11. QED
    BY <1>1, <1>3, <1>4, <1>5, <1>6, <1>7, <1>8, <1>9, <1>10 DEF Next

\* No wallet gets more operations stored under a day's counter than the
\* policy allows, also when answers are lost.
THEOREM StoredCorrect == Spec => []OpsWithinQuota
  <1>1. Init => QuotaHolds
    BY DEF Init, QuotaHolds
  <1>2. Init => StoredInv
    <2> SUFFICES ASSUME Init, NEW k
                 PROVE  IsFiniteSet(OpsOf(k)) /\ Cardinality(OpsOf(k)) <= Cardinality(Storers(k))
      BY DEF StoredInv
    <2>1. OpsOf(k) = {}
      BY DEF Init, OpsOf
    <2>2. QED
      BY <2>1, FS_EmptySet, StorersPaid
  <1>3. QED
    BY <1>1, <1>2, InitInv, NextInv, NextQuota, NextStored, StoredWithinQuota, PTL DEF Spec
-----------------------------------------------------------------------------
(* What is granted. *)

\* The unique userOpHash makes the granted operations different, whichever
\* of the calls that signed it first stores it.
LEMMA NextGrants ==
  ASSUME Inv, GrantsAreDistinct, [Next]_vars PROVE GrantsAreDistinct'
  <1> USE DEF Goto
  <1>1. CASE UNCHANGED vars
    BY <1>1 DEF GrantsAreDistinct, Stored
  <1>2. ASSUME NEW c \in Calls, NEW to,
               pc[c] # "granted", to # "granted", pc' = [pc EXCEPT ![c] = to],
               ops \subseteq ops', \A d \in Calls \ {c} : hash'[d] = hash[d]
        PROVE  GrantsAreDistinct'
    BY <1>2 DEF GrantsAreDistinct, Stored, Inv, TypeOK
  <1>3. ASSUME NEW c \in Calls, Store(c) PROVE GrantsAreDistinct'
    <2>1. /\ pc' = [pc EXCEPT ![c] = "granted"]
          /\ UNCHANGED hash
          /\ ~Stored(hash[c])
          /\ ops' = ops \cup {[hash |-> hash[c], key |-> key[c]]}
      BY <1>3 DEF Store, Insert
    <2>2. \A h : Stored(h) => Stored(h)'
      BY <2>1 DEF Stored
    <2>3. Stored(hash[c])'
      <3>1. [hash |-> hash[c], key |-> key[c]].hash = hash'[c]
        BY <2>1
      <3>2. QED
        BY <2>1, <3>1 DEF Stored
    <2>4. \A d \in Calls \ {c} : pc'[d] = pc[d]
      BY <2>1 DEF Inv, TypeOK
    <2>5. \A d \in Calls \ {c} : pc'[d] = "granted" => Stored(hash[d]) /\ hash[d] # hash[c]
      BY <2>1, <2>4 DEF GrantsAreDistinct
    <2>6. QED
      BY <2>1, <2>2, <2>3, <2>4, <2>5 DEF GrantsAreDistinct, Stored
  <1>4. ASSUME NEW c \in Calls, FindPolicy(c) \/ Upsert(c) \/ Consume(c) \/ Deny(c)
        PROVE  GrantsAreDistinct'
    BY <1>2, <1>4 DEF FindPolicy, Upsert, Consume, Deny
  <1>5. ASSUME NEW c \in Calls, Sign(c) PROVE GrantsAreDistinct'
    <2>1. \A d \in Calls \ {c} : hash'[d] = hash[d]
      BY <1>5 DEF Sign, Inv, TypeOK
    <2>2. QED
      BY <1>2, <1>5, <2>1 DEF Sign
  <1>6. ASSUME NEW c \in Calls, SignThrows(c) \/ StoreDuplicate(c) PROVE GrantsAreDistinct'
    BY <1>2, <1>6 DEF SignThrows, StoreDuplicate
  <1>7. ASSUME NEW c \in Calls, Fail(c) PROVE GrantsAreDistinct'
    BY <1>2, <1>7 DEF Fail, Insert
  <1>8. CASE Tick \/ Operator
    BY <1>8 DEF Tick, Operator, GrantsAreDistinct, Stored
  <1>9. QED
    BY <1>1, <1>3, <1>4, <1>5, <1>6, <1>7, <1>8 DEF Next

\* No two clients are handed the same userOpHash, and what a client was
\* handed is on file.
THEOREM GrantsCorrect == Spec => []GrantsAreDistinct
  <1>1. Init => GrantsAreDistinct
    BY DEF Init, GrantsAreDistinct
  <1>2. QED
    BY <1>1, InitInv, NextInv, NextGrants, PTL DEF Spec
-----------------------------------------------------------------------------
(* What is denied. *)

\* A denied call met a full counter of its own wallet and policy, and the
\* counter has not gone down since.
DenyInv ==
    /\ \A c \in Calls : pc[c] \in Paid \cup {"counted", "denied"} =>
          key[c].wallet = DtoOf[c].wallet
    /\ \A c \in Calls : pc[c] = "denied" =>
          /\ key[c] \in DOMAIN usage
          /\ chosen[c] \in DOMAIN policies
          /\ key[c].policy = chosen[c]
          /\ QuotaOf(c) <= usage[key[c]]

\* No step takes quota back, deletes a counter or a policy, or edits a quota.
LEMMA UsageGrows ==
  ASSUME Inv, [Next]_vars
  PROVE  /\ DOMAIN usage \subseteq DOMAIN usage'
         /\ \A k \in DOMAIN usage : usage[k] \in Nat /\ usage'[k] \in Nat /\ usage[k] <= usage'[k]
         /\ DOMAIN policies \subseteq DOMAIN policies'
         /\ \A i \in DOMAIN policies : policies'[i].dailyQuota = policies[i].dailyQuota
  <1> DEFINE Goal == /\ DOMAIN usage \subseteq DOMAIN usage'
                     /\ \A k \in DOMAIN usage :
                          usage[k] \in Nat /\ usage'[k] \in Nat /\ usage[k] <= usage'[k]
                     /\ DOMAIN policies \subseteq DOMAIN policies'
                     /\ \A i \in DOMAIN policies :
                          policies'[i].dailyQuota = policies[i].dailyQuota
  <1>1. \A k \in DOMAIN usage : usage[k] \in Nat
    BY DEF Inv, TypeOK
  <1>2. CASE UNCHANGED <<usage, policies>>
    BY <1>1, <1>2
  <1>3. ASSUME NEW c \in Calls, Upsert(c) PROVE Goal
    <2>1. /\ DOMAIN usage' = DOMAIN usage \cup {KeyOf(c)}
          /\ \A k \in DOMAIN usage : usage'[k] = usage[k]
      BY <1>3 DEF Upsert
    <2>2. QED
      BY <1>1, <1>3, <2>1 DEF Upsert
  <1>4. ASSUME NEW c \in Calls, Increment(c), pc[c] = "counted", UNCHANGED policies PROVE Goal
    <2>1. key[c] \in DOMAIN usage
      BY <1>4 DEF Inv, TypeOK
    <2>2. QED
      BY <1>1, <1>4, <2>1 DEF Increment
  <1>5. CASE Operator
    BY <1>1, <1>5, OperatorEffect DEF Operator, Inv, TypeOK
  <1> HIDE DEF Goal
  <1>6. QED
    <2>1. Goal
      BY <1>2, <1>3, <1>4, <1>5 DEF Goal, Next, FindPolicy, Consume, Deny, Sign, SignThrows,
         Store, StoreDuplicate, Fail, Tick, Goto
    <2>2. QED
      BY <2>1 DEF Goal

\* A counter that was full stays full, and a call keeps the counter it has.
LEMMA NextDeny ==
  ASSUME Inv, DenyInv, [Next]_vars PROVE DenyInv'
  <1> USE DEF Goto
  <1>1. ASSUME NEW c \in Calls, pc'[c] = "denied", pc[c] = "denied",
               key'[c] = key[c], chosen'[c] = chosen[c]
        PROVE  /\ key'[c] \in DOMAIN usage'
               /\ chosen'[c] \in DOMAIN policies'
               /\ key'[c].policy = chosen'[c]
               /\ QuotaOf(c)' <= usage'[key'[c]]
    <2>1. /\ key[c] \in DOMAIN usage /\ chosen[c] \in DOMAIN policies
          /\ key[c].policy = chosen[c] /\ QuotaOf(c) <= usage[key[c]]
      BY <1>1 DEF DenyInv
    <2>2. policies[chosen[c]] \in Policy
      BY <2>1 DEF Inv, TypeOK, PoliciesTypeOK
    <2>3. QuotaOf(c) \in Int
      BY <2>2 DEF Policy, QuotaOf
    <2>4. QuotaOf(c)' = QuotaOf(c)
      BY <1>1, <2>1, UsageGrows DEF QuotaOf
    <2>5. usage[key[c]] \in Nat /\ usage'[key[c]] \in Nat /\ usage[key[c]] <= usage'[key[c]]
      BY <2>1, UsageGrows
    <2>6. key[c] \in DOMAIN usage' /\ chosen[c] \in DOMAIN policies'
      BY <2>1, UsageGrows
    <2>7. QED
      BY <1>1, <2>1, <2>3, <2>4, <2>5, <2>6
  <1>2. ASSUME UNCHANGED <<key, chosen>>,
               \A c \in Calls : pc'[c] \in Paid \cup {"counted", "denied"} =>
                                   pc[c] \in Paid \cup {"counted", "denied"},
               \A c \in Calls : pc'[c] = "denied" => pc[c] = "denied"
        PROVE  DenyInv'
    BY <1>1, <1>2 DEF DenyInv
  <1>3. CASE UNCHANGED vars \/ Tick \/ Operator
    BY <1>2, <1>3 DEF Tick, Operator
  <1>4. ASSUME NEW c \in Calls, FindPolicy(c) PROVE DenyInv'
    <2>1. /\ pc' \in {[pc EXCEPT ![c] = "matched"], [pc EXCEPT ![c] = "violation"]}
          /\ \A d \in Calls \ {c} : chosen'[d] = chosen[d]
          /\ UNCHANGED key
      BY <1>4 DEF FindPolicy, Inv, TypeOK
    <2>2. pc'[c] \notin Paid \cup {"counted", "denied"}
      BY <2>1 DEF Inv, TypeOK, Paid
    <2>3. \A d \in Calls \ {c} : pc'[d] = pc[d]
      BY <2>1 DEF Inv, TypeOK
    <2>4. QED
      BY <1>1, <2>1, <2>2, <2>3 DEF DenyInv
  <1>5. ASSUME NEW c \in Calls, Upsert(c) PROVE DenyInv'
    <2>1. /\ pc' = [pc EXCEPT ![c] = "counted"]
          /\ key' = [key EXCEPT ![c] = KeyOf(c)]
          /\ UNCHANGED chosen
      BY <1>5 DEF Upsert
    <2>2. KeyOf(c).wallet = DtoOf[c].wallet
      BY DEF KeyOf
    <2>3. pc'[c] = "counted" /\ key'[c].wallet = DtoOf[c].wallet
      BY <2>1, <2>2 DEF Inv, TypeOK
    <2>4. \A d \in Calls \ {c} : pc'[d] = pc[d] /\ key'[d] = key[d]
      BY <2>1 DEF Inv, TypeOK
    <2>5. QED
      BY <1>1, <2>1, <2>3, <2>4 DEF DenyInv
  <1>6. ASSUME NEW c \in Calls, Deny(c) PROVE DenyInv'
    <2>1. /\ key[c] \in DOMAIN usage /\ chosen[c] \in DOMAIN policies
          /\ key[c].policy = chosen[c] /\ key[c].wallet = DtoOf[c].wallet
      BY <1>6 DEF Deny, Inv, TypeOK, PolicyInv, DenyInv
    <2>2. policies[chosen[c]] \in Policy /\ usage[key[c]] \in Nat
      BY <2>1 DEF Inv, TypeOK, PoliciesTypeOK
    <2>3. QuotaOf(c) \in Int
      BY <2>2 DEF Policy, QuotaOf
    <2>4. QuotaOf(c) <= usage[key[c]]
      BY <1>6, <2>2, <2>3 DEF Deny, UnderQuota
    <2>5. /\ UNCHANGED <<key, chosen, usage, policies>>
          /\ \A d \in Calls \ {c} : pc'[d] = pc[d]
      BY <1>6 DEF Deny
    <2>6. QED
      BY <2>1, <2>4, <2>5 DEF DenyInv, QuotaOf
  <1>7. ASSUME NEW c \in Calls,
               Consume(c) \/ Sign(c) \/ SignThrows(c) \/ Store(c) \/ StoreDuplicate(c) \/ Fail(c)
        PROVE  DenyInv'
    <2>1. /\ UNCHANGED <<key, chosen>>
          /\ \E to \in Paid \cup {"failed"} : pc' = [pc EXCEPT ![c] = to]
          /\ pc'[c] \in Paid => pc[c] \in Paid \cup {"counted"}
      BY <1>7 DEF Consume, Sign, SignThrows, Store, StoreDuplicate, Fail, Paid, Inv, TypeOK
    <2>2. /\ \A d \in Calls \ {c} : pc'[d] = pc[d]
          /\ pc'[c] \in Paid \cup {"failed"}
      BY <2>1 DEF Inv, TypeOK
    <2>3. QED
      BY <1>2, <2>1, <2>2 DEF Paid
  <1>8. QED
    BY <1>3, <1>4, <1>5, <1>6, <1>7 DEF Next

\* The calls that filled a counter are calls of its wallet, policy and day.
LEMMA DeniedByOwn == Inv /\ QuotaHolds /\ DenyInv => QuotaPerWallet
  <1> SUFFICES ASSUME Inv, QuotaHolds, DenyInv, NEW c \in Calls, pc[c] = "denied"
               PROVE  QuotaOf(c) <= Cardinality({d \in Calls :
                          /\ pc[d] \in Paid
                          /\ DtoOf[d].wallet = DtoOf[c].wallet
                          /\ chosen[d] = chosen[c]
                          /\ key[d].day = key[c].day})
    BY DEF QuotaPerWallet
  <1> DEFINE Own == {d \in Calls : /\ pc[d] \in Paid
                                   /\ DtoOf[d].wallet = DtoOf[c].wallet
                                   /\ chosen[d] = chosen[c]
                                   /\ key[d].day = key[c].day}
  <1>1. Payers(key[c]) \subseteq Own
    BY DEF Payers, DenyInv, Inv, PolicyInv
  <1>2. IsFiniteSet(Own)
    BY SponsorshipAssumption, FS_Subset
  <1>3. Cardinality(Payers(key[c])) <= Cardinality(Own)
    <2> HIDE DEF Own
    <2>1. QED
      BY <1>1, <1>2, FS_Subset
  <1>4. /\ QuotaOf(c) <= Cardinality(Payers(key[c]))
        /\ chosen[c] \in DOMAIN policies
    BY DEF DenyInv, QuotaHolds
  <1>5. policies[chosen[c]] \in Policy
    BY <1>4 DEF Inv, TypeOK, PoliciesTypeOK
  <1>6. QuotaOf(c) \in Int
    BY <1>5 DEF Policy, QuotaOf
  <1>7. Cardinality(Payers(key[c])) \in Nat /\ Cardinality(Own) \in Nat
    <2> HIDE DEF Own
    <2>1. QED
      BY <1>2, PayersFinite, FS_CardinalityType
  <1> HIDE DEF Own
  <1>8. QuotaOf(c) <= Cardinality(Own)
    BY <1>3, <1>4, <1>6, <1>7
  <1>9. QED
    BY <1>8 DEF Own

\* A call is only ever denied because of its own wallet's calls of the same
\* day under the same policy, however many other wallets' calls race with it.
THEOREM QuotaIndependent == Spec => []QuotaPerWallet
  <1>1. Init => QuotaHolds /\ DenyInv
    BY DEF Init, QuotaHolds, DenyInv, Paid
  <1>2. QED
    BY <1>1, InitInv, NextInv, NextQuota, NextDeny, DeniedByOwn, PTL DEF Spec
-----------------------------------------------------------------------------
(* Which policy decides. *)

\* Every set of natural numbers that is not empty has a least element.
LEMMA LeastElement ==
  ASSUME NEW S \in SUBSET Nat, S # {}
  PROVE  \E x \in S : \A y \in S : x <= y
  <1> DEFINE R == {ss \in Nat \X Nat : ss[1] < ss[2]}
  <1>1. IsWellFoundedOn(R, Nat)
    BY NatLessThanWellFounded DEF OpToRel
  <1>2. PICK x \in S : \A y \in S : ~(<<y, x>> \in R)
    <2> HIDE DEF R
    <2>1. QED
      BY <1>1, WFMin
  <1>3. \A y \in S : ~(y < x)
    BY <1>2
  <1>4. QED
    BY <1>3

\* Min of such a set is that element.
LEMMA MinIsLeast ==
  ASSUME NEW S \in SUBSET Nat, S # {}
  PROVE  Min(S) \in S /\ \A y \in S : Min(S) <= y
  BY LeastElement DEF Min

\* Scoped and wildcard candidates are rows of the table, by their position.
LEMMA CandidatesOnFile ==
  ASSUME PoliciesTypeOK, NEW a
  PROVE  /\ Scoped(a) \subseteq Candidates(a)
         /\ Wildcard(a) \subseteq Candidates(a)
         /\ Candidates(a) \subseteq DOMAIN policies
         /\ DOMAIN policies \subseteq Nat
         /\ Candidates(a) = Scoped(a) \cup Wildcard(a)
  BY DEF PoliciesTypeOK, Scoped, Wildcard, Candidates

\* findApplicablePolicy has one answer whenever a policy covers the contract:
\* ordering by createdAt decides among any number of candidates.
LEMMA ApplicableUnique ==
  ASSUME PoliciesTypeOK, NEW a, Candidates(a) # {}
  PROVE  \E i \in Candidates(a) :
            /\ Applicable(a) = {i}
            /\ i \in Wildcard(a) => Scoped(a) = {}
  <1>1. CASE Scoped(a) # {}
    <2>1. Min(Scoped(a)) \in Scoped(a)
      <3>1. Scoped(a) \in SUBSET Nat
        BY CandidatesOnFile
      <3>2. QED
        BY <1>1, <3>1, MinIsLeast
    <2>2. Applicable(a) = {Min(Scoped(a))}
      BY <1>1, <2>1, CandidatesOnFile DEF Applicable
    <2>3. Min(Scoped(a)) \notin Wildcard(a)
      BY <2>1 DEF Scoped, Wildcard
    <2>4. QED
      BY <2>1, <2>2, <2>3, CandidatesOnFile
  <1>2. CASE Scoped(a) = {}
    <2>1. Wildcard(a) # {} /\ Wildcard(a) \in SUBSET Nat
      BY <1>2, CandidatesOnFile
    <2>2. Min(Wildcard(a)) \in Wildcard(a)
      BY <2>1, MinIsLeast
    <2>3. Applicable(a) = {Min(Wildcard(a))}
      BY <1>2, <2>2, CandidatesOnFile DEF Applicable
    <2>4. QED
      BY <1>2, <2>2, <2>3, CandidatesOnFile
  <1>3. QED
    BY <1>1, <1>2

\* A wildcard row at the end of the table comes after every candidate.
LEMMA NewWildcard ==
  ASSUME PoliciesTypeOK, NEW p \in Policy, policies' = Append(policies, p),
         p.target = Null, NEW a, Applicable(a) # {}
  PROVE  Applicable(a)' = Applicable(a)
  <1> DEFINE n == Len(policies) + 1
  <1>1. /\ DOMAIN policies' = DOMAIN policies \cup {n}
        /\ \A i \in DOMAIN policies : policies'[i] = policies[i]
        /\ policies'[n] = p
        /\ n \in Nat
        /\ \A i \in DOMAIN policies : i \in Nat /\ i < n
    <2> HIDE DEF Policy
    <2>1. QED
      BY DEF PoliciesTypeOK
  <1> HIDE DEF n
  <1>2. /\ Scoped(a)' = Scoped(a)
        /\ Candidates(a) \subseteq Candidates(a)'
        /\ Candidates(a)' \subseteq Candidates(a) \cup {n}
        /\ Wildcard(a) \subseteq Wildcard(a)'
        /\ Wildcard(a)' \subseteq Wildcard(a) \cup {n}
    BY <1>1 DEF Scoped, Wildcard, Candidates
  <1>3. CASE Scoped(a) # {}
    <2>1. Min(Scoped(a)) \in Scoped(a)
      <3>1. Scoped(a) \in SUBSET Nat
        BY CandidatesOnFile
      <3>2. QED
        BY <1>3, <3>1, MinIsLeast
    <2>2. Min(Scoped(a)) \in Candidates(a)
      BY <2>1, CandidatesOnFile
    <2>3. Applicable(a) = {Min(Scoped(a))}
      BY <1>3, <2>2 DEF Applicable
    <2>4. Applicable(a)' = {Min(Scoped(a))}
      BY <1>2, <1>3, <2>2 DEF Applicable
    <2>5. QED
      BY <2>3, <2>4
  <1>4. CASE Scoped(a) = {}
    <2> DEFINE W == Wildcard(a)
               V == Wildcard(a)'
    <2>1. /\ W \in SUBSET Nat /\ W # {} /\ \A i \in W : i < n
      BY <1>1, <1>4, CandidatesOnFile DEF Applicable
    <2>2. V \in SUBSET Nat /\ V # {} /\ W \subseteq V /\ V \subseteq W \cup {n}
      BY <1>1, <1>2, <2>1
    <2>3. Min(V) = Min(W)
      <3> HIDE DEF W, V
      <3>1. Min(W) \in W /\ \A i \in W : Min(W) <= i
        BY <2>1, MinIsLeast
      <3>2. Min(V) \in V /\ \A i \in V : Min(V) <= i
        BY <2>2, MinIsLeast
      <3>3. Min(W) \in V /\ Min(W) \in Nat /\ Min(V) \in Nat /\ Min(W) < n
        BY <2>1, <2>2, <3>1, <3>2
      <3>4. Min(V) <= Min(W)
        BY <3>2, <3>3
      <3>5. Min(V) \in W
        BY <1>1, <2>2, <3>2, <3>3, <3>4
      <3>6. Min(W) <= Min(V)
        BY <3>1, <3>5
      <3>7. QED
        BY <3>3, <3>4, <3>6
    <2>4. Min(W) \in Candidates(a)
      <3>1. Min(W) \in W
        <4> HIDE DEF W
        <4>1. QED
          BY <2>1, MinIsLeast
      <3>2. QED
        BY <3>1, CandidatesOnFile
    <2>5. Applicable(a) = {Min(W)}
      BY <1>4, <2>4 DEF Applicable
    <2>6. Applicable(a)' = {Min(V)}
      BY <1>2, <1>4, <2>3, <2>4 DEF Applicable
    <2>7. QED
      BY <2>3, <2>5, <2>6
  <1>5. QED
    BY <1>3, <1>4

\* An operator who adds a wildcard policy to a chain that has one changes no
\* decision, in a table of any size.
THEOREM OldestWildcardInForce == Spec => OldestWildcardStays
  <1> DEFINE Step == \A a \in Contracts :
                        /\ Len(policies') > Len(policies)
                        /\ policies'[Len(policies')].target = Null
                        /\ Applicable(a) # {}
                        => Applicable(a)' = Applicable(a)
  <1>1. ASSUME policies \in Seq(Policy), Operator PROVE Step
    <2>1. ASSUME NEW p \in PolicyRows, AddPolicy(p), NEW a \in Contracts,
                 policies'[Len(policies')].target = Null, Applicable(a) # {}
          PROVE  Applicable(a)' = Applicable(a)
      <3>1. p \in Policy /\ policies' = Append(policies, p)
        BY <2>1, PolicyAssumption DEF AddPolicy
      <3>2. p.target = Null
        <4> HIDE DEF Policy
        <4>1. policies'[Len(policies')] = p
          BY <1>1, <3>1
        <4>2. QED
          BY <2>1, <4>1
      <3>3. QED
        BY <1>1, <2>1, <3>1, <3>2, NewWildcard DEF PoliciesTypeOK
    <2>2. ASSUME NEW i \in DOMAIN policies, NEW on \in BOOLEAN, SetActive(i, on)
          PROVE  Len(policies') = Len(policies) /\ Len(policies) \in Nat
      <3> HIDE DEF Policy
      <3>1. QED
        BY <1>1, <2>2 DEF SetActive
    <2>3. QED
      BY <1>1, <2>1, <2>2 DEF Operator
  <1>2. ASSUME Inv, [Next]_vars PROVE [Step]_policies
    <2>1. Operator \/ UNCHANGED policies
      BY <1>2 DEF Next, FindPolicy, Upsert, Consume, Deny, Sign, SignThrows, Store,
         StoreDuplicate, Fail, Tick
    <2>2. QED
      BY <1>1, <1>2, <2>1 DEF Inv, TypeOK, PoliciesTypeOK
  <1>3. QED
    BY <1>2, InitInv, NextInv, PTL DEF Spec, OldestWildcardStays

\* Targets are stored as an operator typed them.
TargetInv == \A i \in DOMAIN policies : \E p \in PolicyRows : policies[i].target = p.target

LEMMA NextTarget ==
  ASSUME Inv, TargetInv, [Next]_vars PROVE TargetInv'
  <1>1. ASSUME UNCHANGED policies PROVE TargetInv'
    BY <1>1 DEF TargetInv
  <1>2. ASSUME NEW p \in PolicyRows, AddPolicy(p) PROVE TargetInv'
    <2>1. p \in Policy /\ policies' = Append(policies, p) /\ policies \in Seq(Policy)
      BY <1>2, PolicyAssumption DEF AddPolicy, Inv, TypeOK, PoliciesTypeOK
    <2> HIDE DEF Policy
    <2>2. ASSUME NEW i \in DOMAIN policies'
          PROVE  policies'[i] = p \/ (i \in DOMAIN policies /\ policies'[i] = policies[i])
      <3>1. i \in 1..(Len(policies) + 1)
        BY <2>1
      <3>2. i = Len(policies) + 1 \/ i \in 1..Len(policies)
        BY <2>1, <3>1
      <3>3. QED
        BY <2>1, <3>2
    <2>3. QED
      BY <2>2 DEF TargetInv
  <1>3. ASSUME NEW i \in DOMAIN policies, NEW on \in BOOLEAN, SetActive(i, on) PROVE TargetInv'
    <2>1. policies \in Seq(Policy) /\ policies[i] \in Policy
      BY DEF Inv, TypeOK, PoliciesTypeOK
    <2> DEFINE new == [policies[i] EXCEPT !.active = on]
    <2>2. policies' = [policies EXCEPT ![i] = new]
      BY <1>3 DEF SetActive
    <2>3. new.target = policies[i].target
      BY <2>1 DEF Policy
    <2> HIDE DEF new, Policy
    <2>4. \A j \in DOMAIN policies' : j \in DOMAIN policies /\ policies'[j].target = policies[j].target
      BY <2>1, <2>2, <2>3
    <2>5. QED
      BY <2>4 DEF TargetInv
  <1>4. QED
    BY <1>1, <1>2, <1>3 DEF Next, FindPolicy, Upsert, Consume, Deny, Sign, SignThrows, Store,
       StoreDuplicate, Fail, Tick, Operator

\* As long as operators type contract addresses in lower case, a policy scoped
\* to a contract takes precedence over every wildcard, for calls in flight
\* while the table is edited.
THEOREM ScopedFirst ==
  ASSUME \A p \in PolicyRows : \A a \in Contracts : p.target # Mixed(a)
  PROVE  Spec => ScopedTakesPrecedence
  <1> DEFINE Goal(c) == \A i \in DOMAIN policies : policies[i].active =>
                           policies[i].target \notin {Lower(DtoOf[c].target), Mixed(DtoOf[c].target)}
  <1>1. ASSUME Inv, TargetInv, NEW c \in Calls, FindPolicy(c), pc'[c] = "matched",
               policies[chosen'[c]].target = Null
        PROVE  Goal(c)
    <2> DEFINE a == DtoOf[c].target
    <2>1. a \in Contracts
      BY SponsorshipAssumption DEF Dtos
    <2>2. PICK j \in Applicable(a) : chosen' = [chosen EXCEPT ![c] = j]
      BY <1>1 DEF FindPolicy, Goto, Inv, TypeOK
    <2>3. chosen'[c] = j
      <3>1. chosen \in [Calls -> Nat]
        BY <1>1 DEF Inv, TypeOK
      <3>2. QED
        BY <2>2, <3>1
    <2>4. Candidates(a) # {} /\ j \in Candidates(a)
      BY <2>2 DEF Applicable
    <2>5. j \in Wildcard(a)
      BY <1>1, <2>3, <2>4 DEF Wildcard
    <2>6. Scoped(a) = {}
      <3>1. PoliciesTypeOK
        BY <1>1 DEF Inv, TypeOK
      <3>2. PICK i \in Candidates(a) : /\ Applicable(a) = {i}
                                       /\ i \in Wildcard(a) => Scoped(a) = {}
        BY <2>4, <3>1, ApplicableUnique
      <3>3. j = i
        BY <2>2, <3>2
      <3>4. QED
        BY <2>5, <3>2, <3>3
    <2>7. ASSUME NEW i \in DOMAIN policies, policies[i].active
          PROVE  policies[i].target # Lower(a)
      BY <2>1, <2>6, <2>7, PolicyAssumption DEF Scoped, Candidates
    <2>8. ASSUME NEW i \in DOMAIN policies PROVE policies[i].target # Mixed(a)
      BY <1>1, <2>1 DEF TargetInv
    <2>9. QED
      BY <2>7, <2>8
  <1>2. ASSUME Inv, TargetInv, [Next]_vars
        PROVE  [\A c \in Calls : /\ pc[c] = "idle" /\ pc'[c] = "matched"
                                 /\ policies[chosen'[c]].target = Null
                                 => Goal(c)]_vars
    <2> HIDE DEF Goal
    <2>1. ASSUME NEW c \in Calls, pc[c] = "idle", pc'[c] = "matched" PROVE FindPolicy(c)
      BY <1>2, <2>1 DEF Next, FindPolicy, Upsert, Consume, Deny, Sign, SignThrows, Store,
         StoreDuplicate, Fail, Tick, Operator, Goto, Inv, TypeOK
    <2>2. QED
      BY <1>1, <1>2, <2>1
  <1>3. Init => TargetInv
    BY DEF Init, PoliciesInit, TargetInv
  <1>4. QED
    BY <1>2, <1>3, InitInv, NextInv, NextTarget, PTL DEF Spec, ScopedTakesPrecedence
=============================================================================
