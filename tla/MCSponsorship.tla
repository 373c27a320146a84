--------------------------- MODULE MCSponsorship ----------------------------
(* Instances of Sponsorship for TLC. *)
EXTENDS Sponsorship, TLC

CONSTANTS c1, c2, c3, c4, w1, w2, p1, p2, huge, dapp, other, transfer, burn

Body(w, p, t, s) == [wallet |-> w, payload |-> p, target |-> t, selector |-> s]

\* Two calls of one wallet for the same operation; one for another
\* wallet and an operation that cannot be signed; one for another operation.
TwoWallets == c1 :> Body(w1, p1, dapp, transfer)
           @@ c2 :> Body(w1, p1, dapp, transfer)
           @@ c3 :> Body(w2, huge, dapp, transfer)
           @@ c4 :> Body(w1, p2, dapp, transfer)

\* Methods and contracts differ.
TwoTargets == c1 :> Body(w1, p1, dapp, transfer)
           @@ c2 :> Body(w1, p2, other, burn)

Row(target, selectors, quota) ==
    [target |-> target, selectors |-> selectors, dailyQuota |-> quota, active |-> TRUE]

\* prisma/seed.ts's policy, with smaller quotas.
Seeded == {Row(Null, {}, 1), Row(Null, {}, 2)}

LowerCaseRows == {Row(Null, {}, 1), Row(Null, {transfer}, 2),
                  Row(Lower(dapp), {transfer}, 1), Row(Lower(other), {}, 0)}

\* As in test/prisma.e2e-spec.ts, a scoped policy in checksum spelling.
MixedCaseRows == {Row(Null, {}, 1), Row(Mixed(dapp), {transfer}, 1)}
=============================================================================
