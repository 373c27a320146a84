--------------------------- MODULE PaymasterProofs --------------------------
(***************************************************************************)
(* Proofs about VerifyingPaymaster, for any operations, keys, validity and *)
(* width of a packed half.                                                 *)
(***************************************************************************)
EXTENDS VerifyingPaymaster, TLAPS

(* Packing. *)

\* A packed pair unpacks to what was packed, as long as the low half fits.
LEMMA PackRoundTrip ==
  ASSUME NEW high \in Uint128, NEW low \in Uint128
  PROVE  High(PackHighLow128(high, low)) = high /\ Low(PackHighLow128(high, low)) = low
  <1>1. /\ Half \in Int /\ Half > 0
        /\ high \in Int /\ low \in Int /\ low >= 0 /\ low < Half
    BY PackingAssumption DEF Uint128
  <1> DEFINE h == Half
  <1> HIDE DEF h
  <1>2. (high * h + low) \div h = high
    BY <1>1 DEF h
  <1>3. (high * h + low) % h = low
    BY <1>1 DEF h
  <1>4. QED
    BY <1>2, <1>3 DEF h, High, Low, PackHighLow128
-----------------------------------------------------------------------------
(* Types. *)

\* A bundle names accounts and nonces of operations clients asked for.
LEMMA BundledNonce ==
  ASSUME NEW packed \in Bundled PROVE NonceOf(packed) \in Senders \X Nat
  <1>1. PICK op \in Fitting, pd \in Presented :
               packed = BuildPackedUserOp([op |-> op, paymasterAndData |-> pd])
    BY DEF Bundled
  <1>2. op.sender \in Senders /\ op.nonce \in Nat
    BY PaymasterAssumption DEF Fitting, LooseUserOps
  <1>3. packed.sender = op.sender /\ packed.nonce = op.nonce
    BY <1>1 DEF BuildPackedUserOp
  <1>4. QED
    BY <1>2, <1>3 DEF NonceOf

LEMMA NextType == ASSUME TypeOK, [Next]_vars PROVE TypeOK'
  <1>1. ASSUME NEW op \in Ops, Sponsor(op) PROVE TypeOK'
    <2>1. Row(op).op = op /\ Row(op).paymasterAndData.signature.signer = signingKey
      BY DEF Row, Sponsorship
    <2>2. QED
      BY <1>1, <2>1 DEF Sponsor, TypeOK
  <1>2. ASSUME NEW s \in Signers, ReplaceKey(s) PROVE TypeOK'
    BY <1>2 DEF ReplaceKey, TypeOK
  <1>3. ASSUME NEW s \in Signers \cup {ZeroAddress}, SetVerifyingSigner(s) PROVE TypeOK'
    BY <1>3 DEF SetVerifyingSigner, TypeOK
  <1>4. ASSUME NEW packed \in Bundled, HandleOps(packed) PROVE TypeOK'
    <2> DEFINE new == [packed |-> packed, at |-> now, signer |-> verifyingSigner]
    <2>1. new.packed = packed /\ new.signer \in Signers
      BY DEF TypeOK
    <2>2. /\ used' = used \cup {NonceOf(packed)} /\ paid' = paid \cup {new}
          /\ UNCHANGED <<now, signingKey, verifyingSigner, rows>>
      BY <1>4 DEF HandleOps
    <2> HIDE DEF new
    <2>3. \A p \in paid' : p.signer \in Signers /\ NonceOf(p.packed) \in used'
      BY <2>1, <2>2 DEF TypeOK
    <2>4. used' \subseteq Senders \X Nat
      BY <2>2, BundledNonce DEF TypeOK
    <2>5. QED
      BY <2>2, <2>3, <2>4 DEF TypeOK
  <1>5. CASE Tick
    BY <1>5, PaymasterAssumption DEF Tick, TypeOK
  <1>6. CASE UNCHANGED vars
    BY <1>6 DEF vars, TypeOK
  <1>7. QED
    BY <1>1, <1>2, <1>3, <1>4, <1>5, <1>6 DEF Next

\* The contract's signer is never the zero address, which recovers from a
\* malformed signature, and a payment always uses its account nonce up.
THEOREM TypeCorrect == Spec => []TypeOK
  <1>1. Init => TypeOK
    BY PaymasterAssumption DEF Init, TypeOK
  <1>2. QED
    BY <1>1, NextType, PTL DEF Spec
-----------------------------------------------------------------------------
(* The rows. *)

\* A row is an operation that fits, with a sponsorship signed for it.
IsRow(r) ==
    LET pd == r.paymasterAndData IN
        /\ r = [userOpHash |-> r.userOpHash, op |-> r.op, paymasterAndData |-> pd]
        /\ r.op \in LooseUserOps
        /\ Encodable(r.op)
        /\ r.userOpHash = ComputeUserOpHash(r.op, pd)
        /\ pd = [paymaster |-> Paymaster, gas |-> HeaderGas, validUntil |-> pd.validUntil,
                 validAfter |-> 0, signature |-> pd.signature]
        /\ pd.validUntil \in Nat \ {0}
        /\ pd.signature.signer \in Signers
        /\ pd.signature.digest = ComputePaymasterHash(r.op, pd.validUntil, 0)

RowInv == \A r \in rows : IsRow(r)

KeysInv == now \in Nat /\ signingKey \in Signers

\* What sponsor stores is such a row.
LEMMA RowOfSponsor ==
  ASSUME KeysInv, NEW op \in Ops, Encodable(op) PROVE IsRow(Row(op))
  <1>1. now + ValidSeconds \in Nat \ {0} /\ op \in LooseUserOps
    BY PaymasterAssumption DEF KeysInv
  <1>2. QED
    BY <1>1 DEF IsRow, Row, Sponsorship, KeysInv

\* Only Sponsor adds a row.
LEMMA NextRow ==
  ASSUME KeysInv, RowInv, [Next]_vars PROVE KeysInv' /\ RowInv'
  <1>1. ASSUME rows' = rows PROVE RowInv'
    BY <1>1 DEF RowInv
  <1>2. ASSUME NEW op \in Ops, Sponsor(op) PROVE KeysInv' /\ RowInv'
    BY <1>2, RowOfSponsor DEF Sponsor, KeysInv, RowInv
  <1>3. ASSUME NEW s, ReplaceKey(s), s \in Signers PROVE KeysInv' /\ RowInv'
    BY <1>1, <1>3 DEF ReplaceKey, KeysInv
  <1>4. ASSUME NEW s, SetVerifyingSigner(s) PROVE KeysInv' /\ RowInv'
    BY <1>1, <1>4 DEF SetVerifyingSigner, KeysInv
  <1>5. ASSUME NEW packed, HandleOps(packed) PROVE KeysInv' /\ RowInv'
    BY <1>1, <1>5 DEF HandleOps, KeysInv
  <1>6. CASE Tick
    BY <1>1, <1>6 DEF Tick, KeysInv
  <1>7. CASE UNCHANGED vars
    BY <1>1, <1>7 DEF vars, KeysInv
  <1>8. QED
    BY <1>2, <1>3, <1>4, <1>5, <1>6, <1>7 DEF Next
-----------------------------------------------------------------------------
(* What the EntryPoint sees. *)

\* What is on file packs into what was asked for, and hashes to its own hash.
LEMMA RowsSeen == RowInv => SeenAsRequested
  <1> SUFFICES ASSUME RowInv, NEW r \in rows
               PROVE  LET packed == BuildPackedUserOp(r) IN
                        /\ GetUserOpHash(packed) = r.userOpHash
                        /\ High(packed.accountGasLimits) = r.op.verificationGasLimit
                        /\ Low(packed.accountGasLimits) = r.op.callGasLimit
                        /\ High(packed.gasFees) = r.op.maxPriorityFeePerGas
                        /\ Low(packed.gasFees) = r.op.maxFeePerGas
    BY DEF SeenAsRequested
  <1>1. /\ Encodable(r.op)
        /\ r.userOpHash = ComputeUserOpHash(r.op, r.paymasterAndData)
    BY DEF RowInv, IsRow
  <1>2. /\ r.op.verificationGasLimit \in Uint128 /\ r.op.callGasLimit \in Uint128
        /\ r.op.maxPriorityFeePerGas \in Uint128 /\ r.op.maxFeePerGas \in Uint128
    BY <1>1 DEF Encodable, GasFields
  <1>3. GetUserOpHash(BuildPackedUserOp(r)) = ComputeUserOpHash(r.op, r.paymasterAndData)
    BY DEF BuildPackedUserOp, GetUserOpHash, ComputeUserOpHash
  <1>4. QED
    BY <1>1, <1>2, <1>3, PackRoundTrip
       DEF BuildPackedUserOp, PackAccountGasLimits, PackGasFees

\* The operation the EntryPoint sees has the gas limits and fees that were
\* asked for and the hash the client was told, whatever the operation.
THEOREM SeenCorrect == Spec => []SeenAsRequested
  <1>1. Init => KeysInv /\ RowInv
    BY DEF Init, KeysInv, RowInv
  <1>2. QED
    BY <1>1, NextRow, RowsSeen, PTL DEF Spec
-----------------------------------------------------------------------------
(* What the paymaster pays for. *)

\* The contract's digest is a client's digest only for the operation, the
\* gas limits and the window that were signed.
LEMMA DigestBinds ==
  ASSUME NEW op, NEW signed, NEW pd, NEW until,
         GetHash(BuildPackedUserOp([op |-> op, paymasterAndData |-> pd]),
                 pd.validUntil, pd.validAfter)
           = ComputePaymasterHash(signed, until, 0)
  PROVE  /\ BuildPackedUserOp([op |-> op, paymasterAndData |-> pd])
              = BuildPackedUserOp([op |-> signed, paymasterAndData |-> pd])
         /\ pd.gas = HeaderGas
         /\ pd.validUntil = until
  BY DEF BuildPackedUserOp, GetHash, ComputePaymasterHash

\* A bundled operation whose signature the contract takes is one on file.
LEMMA SignedIsOnFile ==
  ASSUME RowInv, NEW packed \in Bundled, SignatureOk(packed)
  PROVE  \E r \in rows :
            /\ BuildPackedUserOp(r) = packed
            /\ r.paymasterAndData = packed.paymasterAndData
            /\ r.paymasterAndData.signature.signer = verifyingSigner
            /\ r.paymasterAndData.validUntil \in Nat \ {0}
  <1>1. PICK op \in Fitting, pd \in Presented :
               packed = BuildPackedUserOp([op |-> op, paymasterAndData |-> pd])
    BY DEF Bundled
  <1>2. PICK r \in rows : pd \in Altered(r.paymasterAndData)
    BY DEF Presented
  <1> DEFINE rpd == r.paymasterAndData
  <1>3. /\ rpd = [paymaster |-> Paymaster, gas |-> HeaderGas, validUntil |-> rpd.validUntil,
                  validAfter |-> 0, signature |-> rpd.signature]
        /\ rpd.validUntil \in Nat \ {0}
        /\ rpd.signature.digest = ComputePaymasterHash(r.op, rpd.validUntil, 0)
    BY DEF RowInv, IsRow
  <1>4. HeaderGas \in Int
    BY PackingAssumption DEF HeaderGas, PackHighLow128, Uint128
  <1> HIDE DEF rpd
  <1>5. pd.signature = rpd.signature
    BY <1>2, <1>3 DEF rpd, Altered
  <1>6. packed.paymasterAndData = pd
    BY <1>1 DEF BuildPackedUserOp
  <1>7. /\ rpd.signature.signer = verifyingSigner
        /\ GetHash(packed, pd.validUntil, pd.validAfter) = ComputePaymasterHash(r.op, rpd.validUntil, 0)
    BY <1>3, <1>5, <1>6 DEF SignatureOk
  <1>8. /\ packed = BuildPackedUserOp([op |-> r.op, paymasterAndData |-> pd])
        /\ pd.gas = HeaderGas
        /\ pd.validUntil = rpd.validUntil
    BY <1>1, <1>7, DigestBinds
  <1>9. pd = rpd
    <2>1. CASE pd = [rpd EXCEPT !.validUntil = 0]
      BY <1>3, <1>8, <2>1
    <2>2. CASE pd = [rpd EXCEPT !.validUntil = @ + 1]
      BY <1>3, <1>8, <2>2
    <2>3. CASE pd = [rpd EXCEPT !.gas = @ + 1]
      BY <1>3, <1>4, <1>8, <2>3
    <2>4. QED
      BY <1>2, <2>1, <2>2, <2>3 DEF rpd, Altered
  <1>10. packed = BuildPackedUserOp(r)
    BY <1>8, <1>9 DEF BuildPackedUserOp, rpd
  <1>11. QED
    BY <1>3, <1>6, <1>7, <1>9, <1>10 DEF rpd

\* The nonces of what was paid for are used up.
PaidInv == PaidAsSponsored /\ \A p \in paid : NonceOf(p.packed) \in used

\* Only what is on file, in its window and with a fresh nonce, is paid for.
LEMMA NextPaid ==
  ASSUME RowInv, KeysInv, PaidInv, [Next]_vars PROVE PaidInv'
  <1>1. ASSUME rows \subseteq rows', UNCHANGED <<used, paid>> PROVE PaidInv'
    BY <1>1 DEF PaidInv, PaidAsSponsored
  <1>2. ASSUME NEW packed \in Bundled, HandleOps(packed) PROVE PaidInv'
    <2> DEFINE new == [packed |-> packed, at |-> now, signer |-> verifyingSigner]
    <2>1. PICK r \in rows :
            /\ BuildPackedUserOp(r) = packed
            /\ r.paymasterAndData = packed.paymasterAndData
            /\ r.paymasterAndData.signature.signer = verifyingSigner
            /\ r.paymasterAndData.validUntil \in Nat \ {0}
      BY <1>2, SignedIsOnFile DEF HandleOps, Accepts
    <2>2. now <= r.paymasterAndData.validUntil
      BY <1>2, <2>1 DEF HandleOps, Accepts, InWindow
    <2>3. /\ new.packed = packed /\ new.at = now /\ new.signer = verifyingSigner
          /\ NonceOf(packed) \notin used
          /\ used' = used \cup {NonceOf(packed)}
          /\ paid' = paid \cup {new}
          /\ rows' = rows
      BY <1>2 DEF HandleOps, Accepts
    <2> HIDE DEF new
    <2>4. ASSUME NEW p \in paid'
          PROVE  \E q \in rows :
                    /\ BuildPackedUserOp(q) = p.packed
                    /\ p.at <= q.paymasterAndData.validUntil
                    /\ q.paymasterAndData.signature.signer = p.signer
      BY <2>1, <2>2, <2>3 DEF PaidInv, PaidAsSponsored
    <2>5. ASSUME NEW p \in paid', NEW q \in paid', NonceOf(p.packed) = NonceOf(q.packed)
          PROVE  p = q
      BY <2>3, <2>5 DEF PaidInv, PaidAsSponsored
    <2>6. \A p \in paid' : NonceOf(p.packed) \in used'
      BY <2>3 DEF PaidInv
    <2>7. QED
      BY <2>3, <2>4, <2>5, <2>6 DEF PaidInv, PaidAsSponsored
  <1>3. ASSUME NEW op, Sponsor(op) PROVE PaidInv'
    BY <1>1, <1>3 DEF Sponsor
  <1>4. ASSUME NEW s, ReplaceKey(s) \/ SetVerifyingSigner(s) PROVE PaidInv'
    BY <1>1, <1>4 DEF ReplaceKey, SetVerifyingSigner
  <1>5. CASE Tick \/ UNCHANGED vars
    BY <1>1, <1>5 DEF Tick, vars
  <1>6. QED
    BY <1>2, <1>3, <1>4, <1>5 DEF Next

\* Whatever is bundled, the paymaster only pays for what the API sponsored,
\* within its window, under a key trusted then, and once per nonce.
THEOREM PaidCorrect == Spec => []PaidAsSponsored
  <1>1. Init => KeysInv /\ RowInv /\ PaidInv
    BY DEF Init, KeysInv, RowInv, PaidInv, PaidAsSponsored
  <1>2. PaidInv => PaidAsSponsored
    BY DEF PaidInv
  <1>3. QED
    BY <1>1, <1>2, NextRow, NextPaid, PTL DEF Spec
-----------------------------------------------------------------------------
(* What the client can rely on. *)

\* The contract accepts what is on file: both sides hash the same.
LEMMA RowsHonoured == KeysInv /\ RowInv => SponsorshipHonoured
  <1> SUFFICES ASSUME KeysInv, RowInv, NEW r \in rows,
                      r.paymasterAndData.signature.signer = verifyingSigner,
                      now <= r.paymasterAndData.validUntil,
                      NonceOf(BuildPackedUserOp(r)) \notin used
               PROVE  Accepts(BuildPackedUserOp(r))
    BY DEF SponsorshipHonoured
  <1> DEFINE packed == BuildPackedUserOp(r)
             pd == r.paymasterAndData
  <1>1. /\ pd.gas = HeaderGas /\ pd.validAfter = 0 /\ pd.validUntil \in Nat \ {0}
        /\ pd.signature.digest = ComputePaymasterHash(r.op, pd.validUntil, 0)
    <2>1. IsRow(r)
      BY DEF RowInv
    <2>2. /\ pd = [paymaster |-> Paymaster, gas |-> HeaderGas, validUntil |-> pd.validUntil,
                   validAfter |-> 0, signature |-> pd.signature]
          /\ pd.validUntil \in Nat \ {0}
          /\ pd.signature.digest = ComputePaymasterHash(r.op, pd.validUntil, 0)
      BY <2>1 DEF IsRow
    <2> HIDE DEF pd
    <2>3. QED
      BY <2>2
  <1>2. packed.paymasterAndData = pd
    BY DEF BuildPackedUserOp
  <1>3. GetHash(packed, pd.validUntil, pd.validAfter) = ComputePaymasterHash(r.op, pd.validUntil, 0)
    BY <1>1 DEF BuildPackedUserOp, GetHash, ComputePaymasterHash
  <1> HIDE DEF packed, pd
  <1>4. SignatureOk(packed)
    BY <1>1, <1>2, <1>3 DEF SignatureOk, pd
  <1>5. InWindow(pd)
    BY <1>1 DEF InWindow, KeysInv, pd
  <1>6. QED
    BY <1>2, <1>4, <1>5 DEF Accepts, packed

\* Different sponsorships never share a userOpHash.
LEMMA RowsIdentified == RowInv => HashIdentifies
  <1> SUFFICES ASSUME RowInv, NEW r \in rows, NEW s \in rows, r.userOpHash = s.userOpHash
               PROVE  r = s
    BY DEF HashIdentifies
  <1>1. IsRow(r) /\ IsRow(s)
    BY DEF RowInv
  <1>2. ComputeUserOpHash(r.op, r.paymasterAndData) = ComputeUserOpHash(s.op, s.paymasterAndData)
    BY <1>1 DEF IsRow
  <1>3. /\ r.op.sender = s.op.sender /\ r.op.nonce = s.op.nonce
        /\ r.op.initCode = s.op.initCode /\ r.op.callData = s.op.callData
        /\ r.op.preVerificationGas = s.op.preVerificationGas
        /\ PackAccountGasLimits(r.op) = PackAccountGasLimits(s.op)
        /\ PackGasFees(r.op) = PackGasFees(s.op)
        /\ r.paymasterAndData = s.paymasterAndData
    BY <1>2 DEF ComputeUserOpHash
  <1>4. \A f \in GasFields : r.op[f] \in Uint128 /\ s.op[f] \in Uint128
    BY <1>1 DEF IsRow, Encodable
  <1>5. /\ r.op.verificationGasLimit = s.op.verificationGasLimit
        /\ r.op.callGasLimit = s.op.callGasLimit
    BY <1>3, <1>4, PackRoundTrip DEF PackAccountGasLimits, GasFields
  <1>6. /\ r.op.maxPriorityFeePerGas = s.op.maxPriorityFeePerGas
        /\ r.op.maxFeePerGas = s.op.maxFeePerGas
    BY <1>3, <1>4, PackRoundTrip DEF PackGasFees, GasFields
  <1>7. r.op = s.op
    BY <1>1, <1>3, <1>5, <1>6 DEF IsRow, LooseUserOps
  <1>8. QED
    BY <1>1, <1>3, <1>7 DEF IsRow

\* Until validUntil the contract takes what was sponsored, unless its nonce
\* is used or a key was replaced.
THEOREM HonouredCorrect == Spec => []SponsorshipHonoured
  <1>1. Init => KeysInv /\ RowInv
    BY DEF Init, KeysInv, RowInv
  <1>2. QED
    BY <1>1, NextRow, RowsHonoured, PTL DEF Spec

\* userOpHash, the table's unique key, identifies a sponsorship.
THEOREM HashCorrect == Spec => []HashIdentifies
  <1>1. Init => KeysInv /\ RowInv
    BY DEF Init, KeysInv, RowInv
  <1>2. QED
    BY <1>1, NextRow, RowsIdentified, PTL DEF Spec
=============================================================================
