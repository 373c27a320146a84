------------------------- MODULE VerifyingPaymaster -------------------------
(***************************************************************************)
(* A sponsorship from PaymasterSigningService.sign to the EntryPoint's     *)
(* validation of it: the signer's key, the contract's verifyingSigner,     *)
(* which its owner may rotate, the validity window, and bundles in which   *)
(* anything may have been changed since.                                   *)
(***************************************************************************)
EXTENDS PackedUserOp, FiniteSets

CONSTANTS
    Signers,       \* signing keys
    ZeroAddress,   \* address(0), nobody's key
    Ops,           \* the operations clients ask to sponsor
    ValidSeconds,  \* SPONSOR_VALID_SECONDS
    MaxTime,       \* bound: the clock stops there
    MaxIssued      \* bound: sponsorships issued

VARIABLES
    now,
    signingKey,       \* the API's SIGNER_PRIVATE_KEY
    verifyingSigner,  \* the contract's
    rows,             \* user_operations: what was sponsored
    used,             \* the accounts' nonces the EntryPoint has seen
    paid              \* history: [packed, at, signer] of every accepted operation

vars == <<now, signingKey, verifyingSigner, rows, used, paid>>

ASSUME PaymasterAssumption ==
    /\ ZeroAddress \notin Signers
    /\ Ops \subseteq LooseUserOps
    /\ ValidSeconds \in Nat \ {0}
    /\ MaxTime \in Nat \ {0} /\ MaxIssued \in Nat

Init ==
    /\ now = 1
    /\ signingKey \in Signers
    /\ verifyingSigner \in Signers
    /\ rows = {}
    /\ used = {}
    /\ paid = {}
-----------------------------------------------------------------------------
(* The API. *)

\* sign: header, encoded window and signature.
Sponsorship(op) ==
    [paymaster |-> Paymaster, gas |-> HeaderGas,
     validUntil |-> now + ValidSeconds, validAfter |-> 0,
     signature |-> [signer |-> signingKey,
                    digest |-> ComputePaymasterHash(op, now + ValidSeconds, 0)]]

\* What sponsor stores and answers; see Sponsorship for the steps in between.
Row(op) == [userOpHash |-> ComputeUserOpHash(op, Sponsorship(op)),
            op |-> op, paymasterAndData |-> Sponsorship(op)]

Sponsor(op) ==
    /\ Encodable(op)
    /\ Cardinality(rows) < MaxIssued
    /\ rows' = rows \cup {Row(op)}
    /\ UNCHANGED <<now, signingKey, verifyingSigner, used, paid>>

\* The API is restarted with another key.
ReplaceKey(s) ==
    /\ s # signingKey
    /\ signingKey' = s
    /\ UNCHANGED <<now, verifyingSigner, rows, used, paid>>
-----------------------------------------------------------------------------
(* The contract. *)

\* Mutant: the zero address is not refused.
SetAnySigner(s) ==
    /\ s # verifyingSigner
    /\ verifyingSigner' = s
    /\ UNCHANGED <<now, signingKey, rows, used, paid>>

\* setVerifyingSigner, by the owner.
SetVerifyingSigner(s) ==
    /\ s # ZeroAddress
    /\ s # verifyingSigner
    /\ verifyingSigner' = s
    /\ UNCHANGED <<now, signingKey, rows, used, paid>>

\* Mutant: any signer's signature will do.
SignatureOkAnySigner(packed) ==
    LET pd == packed.paymasterAndData IN
        pd.signature.digest = GetHash(packed, pd.validUntil, pd.validAfter)

\* _validatePaymasterUserOp: ECDSA.recover of getHash gives the signer only
\* for the digest that was signed.
SignatureOk(packed) ==
    LET pd == packed.paymasterAndData IN
        /\ pd.signature.signer = verifyingSigner
        /\ pd.signature.digest = GetHash(packed, pd.validUntil, pd.validAfter)

\* The EntryPoint on the validationData: a validUntil of 0 never expires.
InWindow(pd) ==
    /\ now >= pd.validAfter
    /\ pd.validUntil = 0 \/ now <= pd.validUntil

NonceOf(packed) == <<packed.sender, packed.nonce>>

Accepts(packed) ==
    /\ NonceOf(packed) \notin used
    /\ SignatureOk(packed)
    /\ InWindow(packed.paymasterAndData)

\* handleOps: the paymaster pays for the operation.
HandleOps(packed) ==
    /\ Accepts(packed)
    /\ used' = used \cup {NonceOf(packed)}
    /\ paid' = paid \cup {[packed |-> packed, at |-> now, signer |-> verifyingSigner]}
    /\ UNCHANGED <<now, signingKey, verifyingSigner, rows>>

\* A sponsorship as issued, or with its window or gas limits changed.
Altered(pd) == {pd, [pd EXCEPT !.validUntil = 0], [pd EXCEPT !.validUntil = @ + 1],
                [pd EXCEPT !.gas = @ + 1]}

Presented == UNION {Altered(r.paymasterAndData) : r \in rows}

Fitting == {op \in Ops : Encodable(op)}

\* What a bundle may contain: any operation's fields with any sponsorship.
Bundled ==
    {BuildPackedUserOp([op |-> op, paymasterAndData |-> pd]) : op \in Fitting, pd \in Presented}

Tick ==
    /\ now < MaxTime
    /\ now' = now + 1
    /\ UNCHANGED <<signingKey, verifyingSigner, rows, used, paid>>

Next ==
    \/ \E op \in Ops : Sponsor(op)
    \/ \E s \in Signers : ReplaceKey(s)
    \/ \E s \in Signers \cup {ZeroAddress} : SetVerifyingSigner(s)
    \/ \E packed \in Bundled : HandleOps(packed)
    \/ Tick

Spec == Init /\ [][Next]_vars
-----------------------------------------------------------------------------
TypeOK ==
    /\ now \in 1 .. MaxTime
    /\ {signingKey, verifyingSigner} \subseteq Signers
    /\ \A r \in rows : r.op \in Ops /\ r.paymasterAndData.signature.signer \in Signers
    /\ used \subseteq Senders \X Nat
    /\ \A p \in paid : p.signer \in Signers /\ NonceOf(p.packed) \in used

\* Whatever is bundled, the paymaster only pays for what the API sponsored:
\* field by field the operation on file, within its window, signed by the
\* key the contract trusted at that time, and once per account nonce.
PaidAsSponsored ==
    \A p \in paid :
        /\ \E r \in rows :
             /\ BuildPackedUserOp(r) = p.packed
             /\ p.at <= r.paymasterAndData.validUntil
             /\ r.paymasterAndData.signature.signer = p.signer
        /\ \A q \in paid : NonceOf(p.packed) = NonceOf(q.packed) => p = q

\* The client can rely on what it was handed: until validUntil the contract
\* takes the operation, unless its nonce is used or a key was replaced.
SponsorshipHonoured ==
    \A r \in rows :
        /\ r.paymasterAndData.signature.signer = verifyingSigner
        /\ now <= r.paymasterAndData.validUntil
        /\ NonceOf(BuildPackedUserOp(r)) \notin used
        => Accepts(BuildPackedUserOp(r))

\* The operation the EntryPoint sees has the gas limits and fees that were
\* asked for, and the hash the client was told, which it signed.
SeenAsRequested ==
    \A r \in rows : LET packed == BuildPackedUserOp(r) IN
        /\ GetUserOpHash(packed) = r.userOpHash
        /\ High(packed.accountGasLimits) = r.op.verificationGasLimit
        /\ Low(packed.accountGasLimits) = r.op.callGasLimit
        /\ High(packed.gasFees) = r.op.maxPriorityFeePerGas
        /\ Low(packed.gasFees) = r.op.maxFeePerGas

\* userOpHash identifies a sponsorship: two different ones on file never
\* share it (it is the table's unique key).
HashIdentifies == \A r, s \in rows : r.userOpHash = s.userOpHash => r = s
=============================================================================
