-------------------------- MODULE DeploymentProofs --------------------------
(***************************************************************************)
(* Proofs about Deployment, for any operations, any number of restarts,    *)
(* deployments and crashes.                                                *)
(***************************************************************************)
EXTENDS Deployment, TLAPS

USE DEF dVars, stackVars, deployVars, apiVars, chainVars, rowVars, demoVars

-----------------------------------------------------------------------------
(* The addresses an API serves from. *)

EntryPointAt(a) == [at |-> a, kind |-> "EntryPoint", ep |-> a] \in code
PaymasterAt(a, ep) == [at |-> a, kind |-> "Paymaster", ep |-> ep] \in code
Live(p) == EntryPointAt(p.ep) /\ PaymasterAt(p.pm, p.ep) /\ p.pm \in funded

Sending == {"entrypoint", "paymaster", "deposit", "truncate", "write", "done"}
Built == {"truncate", "write", "done"}

\* What contracts-deploy has built so far is on the chain, if that chain is
\* still there; the chain is gone only when it died by itself.
DeployInv ==
    /\ dep \in [at : DepPhases, first : Nat, on : Nat]
    /\ dep.on <= gen
    /\ dep.at \in Sending => dep.on = gen \/ gen \in crashed
    /\ dep.on = gen =>
         /\ dep.at \in {"paymaster", "deposit"} \cup Built => EntryPointAt(dep.first)
         /\ dep.at \in {"deposit"} \cup Built => PaymasterAt(dep.first + 1, dep.first)
         /\ dep.at \in Built => dep.first + 1 \in funded
    /\ dep.at = "done" => file = [ep |-> dep.first, pm |-> dep.first + 1, on |-> dep.on]

\* Addresses in the volume or in the environment name contracts, if they were
\* written for the chain there is; an API that was started has no others.
AddressInv ==
    /\ gen \in Nat
    /\ file \in Pairs \cup {Unset} /\ env \in Pairs \cup {Unset}
    /\ \A p \in {file, env} \ {Unset} : p.on <= gen /\ (p.on = gen => Live(p))
    /\ api # "down" /\ gen \notin crashed =>
         \A p \in {file, env} \ {Unset} : p.on = gen
    /\ api \in {"down", "load"} => env = Unset
    /\ api = "up" => env # Unset

ServeInv == DeployInv /\ AddressInv

\* Nothing is deployed or written.
LEMMA InitServeInv == DeploymentInit => ServeInv
  BY DeploymentAssumption DEF DeploymentInit, ServeInv, DeployInv, AddressInv, DepPhases, Sending, Built

\* Contracts stay where they are while their chain runs.
LEMMA LiveStays ==
  ASSUME code \subseteq code', funded \subseteq funded'
  PROVE  /\ \A a : EntryPointAt(a) => EntryPointAt(a)'
         /\ \A a, ep : PaymasterAt(a, ep) => PaymasterAt(a, ep)'
         /\ \A p : Live(p) => Live(p)'
  BY DEF EntryPointAt, PaymasterAt, Live

\* A step that leaves the addresses, contracts-deploy and the API alone.
LEMMA ServeFrame ==
  ASSUME ServeInv, UNCHANGED <<gen, crashed, dep, file, api, env>>,
         code \subseteq code', funded \subseteq funded'
  PROVE  ServeInv'
  BY LiveStays DEF ServeInv, DeployInv, AddressInv

\* docker compose and docker: a new chain outdates every address, and the
\* API is started only after a deployment on the chain there is.
LEMMA NextServeStack ==
  ASSUME ServeInv,
         Up \/ UpStartsApi \/ UpFails \/ Down \/ AnvilRestarts \/ ApiRestarts \/ DeployDies
  PROVE  ServeInv'
  <1> USE DeploymentAssumption DEF ServeInv, Live, EntryPointAt, PaymasterAt
  <1>1. CASE Up
    <2>1. DeployInv'
      BY <1>1 DEF Up, DeployInv, DeployRuns, DepPhases, Sending, Built
    <2>2. QED
      BY <1>1, <2>1 DEF Up, AddressInv
  <1>2. CASE UpStartsApi
    <2>1. DeployInv'
      BY <1>2 DEF UpStartsApi, DeployInv
    <2>2. gen \notin crashed => \A p \in {file, env} \ {Unset} : p.on = gen
      BY <1>2 DEF UpStartsApi, DeployInv, AddressInv, Sending
    <2>3. QED
      BY <1>2, <2>1, <2>2 DEF UpStartsApi, AddressInv
  <1>3. CASE UpFails
    BY <1>3, ServeFrame DEF UpFails
  <1>4. CASE Down
    <2>1. DeployInv'
      BY <1>4 DEF Down, EmptyChain, DeployInv, AddressInv, DepPhases, Sending, Built
    <2>2. \A p \in {file, env} \ {Unset} : p.on \in Nat /\ p.on <= gen
      BY DEF AddressInv, Pairs
    <2>3. /\ gen' = gen + 1 /\ gen' \in Nat
          /\ \A p \in {file, env} \ {Unset} : p.on <= gen' /\ p.on # gen'
      BY <1>4, <2>2 DEF Down, AddressInv
    <2>4. QED
      BY <1>4, <2>1, <2>3 DEF Down, AddressInv
  <1>5. CASE AnvilRestarts
    <2>1. DeployInv'
      BY <1>5 DEF AnvilRestarts, EmptyChain, DeployInv, AddressInv
    <2>2. \A p \in {file, env} \ {Unset} : p.on \in Nat /\ p.on <= gen
      BY DEF AddressInv, Pairs
    <2>3. /\ gen' = gen + 1 /\ gen' \in Nat
          /\ \A p \in {file, env} \ {Unset} : p.on <= gen' /\ p.on # gen'
      BY <1>5, <2>2 DEF AnvilRestarts, AddressInv
    <2>4. QED
      BY <1>5, <2>1, <2>3 DEF AnvilRestarts, AddressInv
  <1>6. CASE ApiRestarts
    <2>1. DeployInv'
      BY <1>6 DEF ApiRestarts, DeployInv
    <2>2. QED
      BY <1>6, <2>1 DEF ApiRestarts, AddressInv
  <1>7. CASE DeployDies
    <2>1. DeployInv'
      BY <1>7 DEF DeployDies, DeployInv, DepPhases, Sending, Built
    <2>2. QED
      BY <1>7, <2>1 DEF DeployDies, AddressInv
  <1>8. QED
    BY <1>1, <1>2, <1>3, <1>4, <1>5, <1>6, <1>7

\* contracts-deploy: the addresses it writes name what it built.
LEMMA NextServeDeploy == ASSUME ServeInv, nonce \in Nat, DeployStep PROVE ServeInv'
  <1> USE DeploymentAssumption DEF ServeInv, Live, EntryPointAt, PaymasterAt, OnTurn
  <1>1. CASE Simulate
    <2>1. DeployInv'
      BY <1>1 DEF Simulate, DeployInv, AddressInv, DepPhases, Sending, Built
    <2>2. QED
      BY <1>1, <2>1 DEF Simulate, AddressInv
  <1>2. CASE DeployEntryPoint
    <2>1. DeployInv'
      <3>1. gen \in Nat /\ dep \in [at : DepPhases, first : Nat, on : Nat] /\ nonce = dep.first
        BY <1>2 DEF DeployEntryPoint, AddressInv, DeployInv
      <3>2. dep' = [at |-> "paymaster", first |-> dep.first, on |-> gen]
        BY <1>2, <3>1 DEF DeployEntryPoint
      <3>3. EntryPointAt(dep.first)' /\ gen' = gen /\ crashed' = crashed
        BY <1>2, <3>1, <3>2 DEF DeployEntryPoint, stackVars
      <3>4. QED
        BY <3>1, <3>2, <3>3 DEF DeployInv, DepPhases, Sending, Built
    <2>2. QED
      BY <1>2, <2>1 DEF DeployEntryPoint, AddressInv
  <1>3. CASE DeployPaymaster
    <2>1. DeployInv'
      BY <1>3 DEF DeployPaymaster, DeployInv, DepPhases, Sending, Built
    <2>2. QED
      BY <1>3, <2>1 DEF DeployPaymaster, AddressInv
  <1>4. CASE FundDeposit
    <2>1. DeployInv'
      BY <1>4 DEF FundDeposit, DeployInv, DepPhases, Sending, Built
    <2>2. QED
      BY <1>4, <2>1 DEF FundDeposit, AddressInv
  <1>5. CASE DeployFails
    <2>1. DeployInv'
      BY <1>5 DEF DeployFails, DeployInv, DepPhases, Sending, Built
    <2>2. QED
      BY <1>5, <2>1 DEF DeployFails, AddressInv
  <1>6. CASE Truncate
    <2>1. DeployInv'
      BY <1>6 DEF Truncate, DeployInv, DepPhases, Sending, Built
    <2>2. QED
      BY <1>6, <2>1 DEF Truncate, AddressInv
  <1>7. CASE WriteAddresses
    <2>1. DeployInv'
      BY <1>7 DEF WriteAddresses, DeployInv, DepPhases, Sending, Built
    <2>2. file' \in Pairs /\ file'.on = dep.on /\ file'.ep = dep.first /\ file'.pm = dep.first + 1
      BY <1>7 DEF WriteAddresses, DeployInv, Pairs
    <2>3. /\ dep.on <= gen
          /\ dep.on = gen \/ gen \in crashed
          /\ dep.on = gen => Live(file')
      BY <1>7, <2>2 DEF WriteAddresses, DeployInv, Sending, Built
    <2>4. QED
      BY <1>7, <2>1, <2>2, <2>3 DEF WriteAddresses, AddressInv
  <1>8. QED
    BY <1>1, <1>2, <1>3, <1>4, <1>5, <1>6, <1>7 DEF DeployStep

\* The API's boot: what it loads is what the volume holds.
LEMMA NextServeBoot == ASSUME ServeInv, BootStep PROVE ServeInv'
  <1> USE DEF ServeInv, ApiGoes
  <1>1. DeployInv'
    BY DEF BootStep, LoadEnv, SeedFind, SeedCreate, Boot, BootRefused, DeployInv,
       EntryPointAt, PaymasterAt
  <1>2. \A p : Live(p)' <=> Live(p)
    BY DEF BootStep, LoadEnv, SeedFind, SeedCreate, Boot, BootRefused, Live, EntryPointAt, PaymasterAt
  <1>3. AddressInv'
    BY <1>2 DEF BootStep, LoadEnv, SeedFind, SeedCreate, Boot, BootRefused, AddressInv
  <1>4. QED
    BY <1>1, <1>3

\* Every step keeps what is served in line with what is deployed.
LEMMA NextServeInv ==
  ASSUME ServeInv, nonce \in Nat, [DeploymentNext]_dVars PROVE ServeInv'
  <1>1. ASSUME NEW op \in Ops, ReadStatus(op) \/ CreateAccount(op) \/ Sponsor(op) \/ Submit(op)
        PROVE ServeInv'
    BY <1>1, ServeFrame DEF ReadStatus, CreateAccount, Sponsor, Submit
  <1>2. ASSUME NEW op \in Ops, DeployFactory(op) PROVE ServeInv'
    BY <1>2, ServeFrame DEF DeployFactory
  <1>3. ASSUME NEW tx \in pool, Mine(tx) PROVE ServeInv'
    BY <1>3, ServeFrame DEF Mine
  <1>4. ASSUME NEW j \in jobs, Check(j) PROVE ServeInv'
    BY <1>4, ServeFrame DEF Check
  <1>5. CASE UNCHANGED dVars
    BY <1>5, ServeFrame
  <1>6. QED
    BY <1>1, <1>2, <1>3, <1>4, <1>5, NextServeStack, NextServeDeploy, NextServeBoot
       DEF DeploymentNext

\* The nonces of the deployer and the relayer only count up, or start anew.
NoncesNat == nonce \in Nat /\ relayerNonce \in Nat

LEMMA NextNonces == ASSUME NoncesNat, [DeploymentNext]_dVars PROVE NoncesNat'
  <1> USE DEF NoncesNat
  <1>1. CASE Up \/ UpStartsApi \/ UpFails \/ Down \/ AnvilRestarts \/ ApiRestarts \/ DeployDies
    BY <1>1 DEF Up, UpStartsApi, UpFails, Down, AnvilRestarts, ApiRestarts, DeployDies, EmptyChain
  <1>2. CASE DeployStep
    BY <1>2 DEF DeployStep, Simulate, DeployEntryPoint, DeployPaymaster, FundDeposit,
       DeployFails, Truncate, WriteAddresses
  <1>3. CASE BootStep
    BY <1>3 DEF BootStep, ApiGoes, LoadEnv, SeedFind, SeedCreate, Boot, BootRefused
  <1>4. ASSUME NEW op \in Ops,
               ReadStatus(op) \/ DeployFactory(op) \/ CreateAccount(op) \/ Sponsor(op) \/ Submit(op)
        PROVE  NoncesNat'
    BY <1>4 DEF ReadStatus, DeployFactory, CreateAccount, Sponsor, Submit
  <1>5. ASSUME NEW tx, Mine(tx) PROVE NoncesNat'
    BY <1>5 DEF Mine
  <1>6. ASSUME NEW j, Check(j) PROVE NoncesNat'
    BY <1>6 DEF Check
  <1>7. QED
    BY <1>1, <1>2, <1>3, <1>4, <1>5, <1>6 DEF DeploymentNext

LEMMA NoncesAlways == DeploymentSpec => []NoncesNat
  <1>1. DeploymentInit => NoncesNat
    BY DEF DeploymentInit, NoncesNat
  <1>2. QED
    BY <1>1, NextNonces, PTL DEF DeploymentSpec

LEMMA ServeAlways == DeploymentSpec => []ServeInv
  <1>1. ServeInv /\ NoncesNat /\ [DeploymentNext]_dVars => ServeInv'
    BY NextServeInv DEF NoncesNat
  <1>2. QED
    BY <1>1, InitServeInv, NoncesAlways, PTL DEF DeploymentSpec

\* Whatever was brought up, taken down, restarted or half written before, an
\* API that serves has the contracts of the chain there is (docker-compose's
\* depends_on, docker-deploy.sh, docker-entrypoint.sh, env.validation.ts).
THEOREM ServedCorrect == DeploymentSpec => []ServesLiveContracts
  <1>1. ServeInv => ServesLiveContracts
    BY DEF ServeInv, AddressInv, ServesLiveContracts, Live, EntryPointAt, PaymasterAt
  <1>2. QED
    BY <1>1, ServeAlways, PTL
-----------------------------------------------------------------------------
(* What the rows say about the chain they were signed for. *)

Fresh(op) == row[op].status \in {"absent", "PENDING"}

RowTypes ==
    /\ row \in [Ops -> Rows]
    /\ demo \in [Ops -> DemoPhases]
    /\ pool \subseteq Sent /\ jobs \subseteq Sent
    /\ receipts \subseteq [tx : Sent, ok : BOOLEAN]

\* A row was signed for contracts that are there as long as their chain is.
RowsAreLive ==
    \A op \in Ops : row[op].status # "absent" =>
        row[op].on <= gen /\ (row[op].on = gen => Live(row[op]))

\* Nothing is sent for an operation before it is submitted.
FreshIsUnsent ==
    \A op \in Ops :
        /\ demo[op] \in {"start", "factory", "account", "sponsor"} => row[op].status = "absent"
        /\ Fresh(op) => /\ op \notin executed
                        /\ \A tx \in pool \cup jobs : tx.op # op
                        /\ \A m \in receipts : m.tx.op # op

\* On that chain a transaction that succeeded was not sent into the void.
OkIsExecuted ==
    \A m \in receipts : m.ok /\ row[m.tx.op].on = gen => m.tx.op \in executed

\* A queued check is for the transaction the row names.
JobsMatch ==
    \A j \in jobs : row[j.op].nonce = j.nonce /\ row[j.op].bumps = j.bumps

RowInv == /\ RowTypes /\ RowsAreLive /\ FreshIsUnsent /\ JobsMatch
          /\ OkIsExecuted /\ ConfirmedWasExecuted

\* There are no rows.
LEMMA InitRowInv == DeploymentInit => RowInv
  BY DeploymentAssumption DEF DeploymentInit, RowInv, RowTypes, RowsAreLive, FreshIsUnsent, Fresh, JobsMatch,
     OkIsExecuted, ConfirmedWasExecuted, NoRow, Rows, Statuses, DemoPhases

\* A step that leaves rows, transactions and demos alone.
LEMMA RowFrame ==
  ASSUME RowInv, UNCHANGED <<gen, rowVars, demo, pool, receipts, executed>>,
         code \subseteq code', funded \subseteq funded'
  PROVE  RowInv'
  BY LiveStays DEF RowInv, RowTypes, RowsAreLive, FreshIsUnsent, Fresh, JobsMatch, OkIsExecuted,
     ConfirmedWasExecuted

\* A new chain: no row was signed for it, and nothing is on it.
LEMMA RowNewChain ==
  ASSUME RowInv, gen \in Nat, gen' = gen + 1, UNCHANGED <<rowVars, demo, executed>>, EmptyChain
  PROVE  RowInv'
  <1>1. \A op \in Ops : row[op].status # "absent" => row[op].on \in Nat /\ row[op].on <= gen
    BY DEF RowInv, RowTypes, RowsAreLive, Rows
  <1>2. \A op \in Ops : row[op].status # "absent" => row[op].on <= gen' /\ row[op].on # gen'
    BY <1>1
  <1>3. RowTypes' /\ FreshIsUnsent' /\ JobsMatch' /\ OkIsExecuted'
    BY DEF RowInv, RowTypes, FreshIsUnsent, Fresh, JobsMatch, OkIsExecuted, EmptyChain
  <1>4. RowsAreLive' /\ ConfirmedWasExecuted'
    BY <1>2 DEF RowsAreLive, ConfirmedWasExecuted
  <1>5. QED
    BY <1>3, <1>4 DEF RowInv

\* demo.ts goes one step on, before it asks for a sponsorship.
LEMMA RowDemo ==
  ASSUME RowInv, NEW op \in Ops, NEW to \in {"factory", "account", "sponsor"},
         demo[op] \in {"start", "factory", "account"}, demo' = [demo EXCEPT ![op] = to],
         UNCHANGED <<gen, rowVars, pool, receipts, executed>>,
         code \subseteq code', funded \subseteq funded'
  PROVE  RowInv'
  BY LiveStays DEF RowInv, RowTypes, RowsAreLive, FreshIsUnsent, Fresh, JobsMatch, OkIsExecuted,
     ConfirmedWasExecuted, DemoPhases

\* The sponsored row is signed for the addresses the API serves from.
LEMMA RowSponsor == ASSUME ServeInv, RowInv, NEW op \in Ops, Sponsor(op) PROVE RowInv'
  <1> USE DEF RowInv
  <1>1. /\ env \in Pairs /\ env.on <= gen
        /\ env.on = gen => Live(env)
    BY DEF Sponsor, ServeInv, AddressInv
  <1> DEFINE new == [NoRow EXCEPT !.status = "PENDING", !.ep = env.ep, !.pm = env.pm, !.on = env.on]
  <1>2. /\ new \in Rows /\ new.status = "PENDING"
        /\ new.ep = env.ep /\ new.pm = env.pm /\ new.on = env.on
    <2>1. /\ new = [NoRow EXCEPT !.status = "PENDING", !.ep = env.ep, !.pm = env.pm, !.on = env.on]
          /\ NoRow \in Rows /\ env.ep \in Nat /\ env.pm \in Nat /\ env.on \in Nat
      BY <1>1, DeploymentAssumption DEF NoRow, Rows, Statuses, Pairs
    <2>2. QED
      BY <2>1 DEF Rows, Statuses
  <1>3. row' = [row EXCEPT ![op] = new] /\ demo' = [demo EXCEPT ![op] = "submit"]
    BY DEF Sponsor
  <1> HIDE DEF new
  <1>4. UNCHANGED <<gen, code, funded, pool, receipts, executed, jobs>>
    BY DEF Sponsor
  <1>5. row[op].status = "absent"
    BY DEF Sponsor, FreshIsUnsent
  <1>6. RowTypes'
    BY <1>2, <1>3, <1>4 DEF RowTypes, DemoPhases
  <1>7. Live(new) <=> Live(env)
    BY <1>2 DEF Live
  <1>8. RowsAreLive'
    BY <1>1, <1>2, <1>3, <1>4, <1>7 DEF RowsAreLive, RowTypes, Live, EntryPointAt, PaymasterAt
  <1>9. FreshIsUnsent'
    BY <1>2, <1>3, <1>4, <1>5 DEF FreshIsUnsent, Fresh, RowTypes
  <1>10. OkIsExecuted'
    BY <1>2, <1>3, <1>4, <1>5 DEF OkIsExecuted, FreshIsUnsent, Fresh, RowTypes, Sent
  <1>11. ConfirmedWasExecuted'
    BY <1>2, <1>3, <1>4 DEF ConfirmedWasExecuted, RowTypes
  <1>12. JobsMatch'
    BY <1>3, <1>4, <1>5 DEF JobsMatch, FreshIsUnsent, Fresh, RowTypes, Sent
  <1>13. QED
    BY <1>6, <1>8, <1>9, <1>10, <1>11, <1>12

\* What tracking a transaction does to the row.
LEMMA TrackEffect ==
  ASSUME RowTypes, NEW op \in Ops, NEW tx \in Sent, Track(op, tx)
  PROVE  /\ row' \in [Ops -> Rows] /\ pool' \subseteq pool \cup {tx}
         /\ row'[op].status = "SUBMITTED"
         /\ row'[op].ep = row[op].ep /\ row'[op].pm = row[op].pm /\ row'[op].on = row[op].on
         /\ row'[op].nonce = tx.nonce /\ row'[op].bumps = tx.bumps
         /\ \A o \in Ops \ {op} : row'[o] = row[o]
  BY DEF RowTypes, Track, Rows, Sent, Statuses

\* A row that moves on from where it was signed, with a transaction of its own.
LEMMA RowMoves ==
  ASSUME RowInv, NEW op \in Ops, row[op].status # "absent",
         row' \in [Ops -> Rows], row'[op].status \notin {"absent", "PENDING"},
         row'[op].ep = row[op].ep, row'[op].pm = row[op].pm, row'[op].on = row[op].on,
         \A o \in Ops \ {op} : row'[o] = row[o],
         row'[op].status = "CONFIRMED" /\ row[op].on = gen => op \in executed,
         pool' \subseteq Sent, jobs' \subseteq Sent,
         \A tx \in (pool' \ pool) \cup (jobs' \ jobs) : tx.op = op,
         \A k \in jobs' : k.op = op => row'[op].nonce = k.nonce /\ row'[op].bumps = k.bumps,
         demo' = demo \/ demo' = [demo EXCEPT ![op] = "poll"],
         UNCHANGED <<gen, code, funded, receipts, executed>>
  PROVE  RowInv'
  <1> USE DEF RowInv
  <1>1. RowTypes'
    BY DEF RowTypes, DemoPhases
  <1>2. \A o \in Ops : Live(row[o])' <=> Live(row[o])
    BY DEF Live, EntryPointAt, PaymasterAt
  <1>3. RowsAreLive'
    BY <1>2 DEF RowsAreLive
  <1>4. FreshIsUnsent'
    BY DEF FreshIsUnsent, Fresh, RowTypes
  <1>5. OkIsExecuted'
    BY DEF OkIsExecuted, RowTypes, Sent
  <1>6. ConfirmedWasExecuted'
    BY DEF ConfirmedWasExecuted
  <1>7. JobsMatch'
    BY DEF JobsMatch, RowTypes, Sent
  <1>8. QED
    BY <1>1, <1>3, <1>4, <1>5, <1>6, <1>7

\* RelayerService.submit.
LEMMA RowSubmit ==
  ASSUME RowInv, relayerNonce \in Nat, NEW op \in Ops, Submit(op) PROVE RowInv'
  <1>1. PICK n \in {relayerNonce} \cup {tx.nonce + 1 : tx \in pool} :
           /\ Track(op, [op |-> op, nonce |-> n, bumps |-> 0])
           /\ jobs' = jobs \cup {[op |-> op, nonce |-> n, bumps |-> 0]}
    BY DEF Submit
  <1> DEFINE tx == [op |-> op, nonce |-> n, bumps |-> 0]
  <1>2. tx \in Sent /\ tx.op = op
    BY DeploymentAssumption DEF RowInv, RowTypes, Sent
  <1> HIDE DEF tx
  <1>3. Track(op, tx) /\ jobs' = jobs \cup {tx}
    BY <1>1 DEF tx
  <1>4. /\ row[op].status = "PENDING" /\ demo' = [demo EXCEPT ![op] = "poll"]
        /\ UNCHANGED <<gen, code, funded, receipts, executed>>
    BY DEF Submit
  <1>5. \A k \in jobs' : k.op = op => k = tx
    BY <1>3, <1>4 DEF RowInv, FreshIsUnsent, Fresh
  <1>6. /\ row' \in [Ops -> Rows] /\ pool' \subseteq pool \cup {tx}
        /\ row'[op].status = "SUBMITTED"
        /\ row'[op].ep = row[op].ep /\ row'[op].pm = row[op].pm /\ row'[op].on = row[op].on
        /\ row'[op].nonce = tx.nonce /\ row'[op].bumps = tx.bumps
        /\ \A o \in Ops \ {op} : row'[o] = row[o]
    BY <1>2, <1>3, TrackEffect DEF RowInv
  <1>7. pool' \subseteq Sent /\ jobs' \subseteq Sent
    BY <1>2, <1>3, <1>6 DEF RowInv, RowTypes
  <1>8. /\ row[op].status # "absent" /\ row'[op].status \notin {"absent", "PENDING", "CONFIRMED"}
        /\ \A t \in (pool' \ pool) \cup (jobs' \ jobs) : t.op = op
        /\ \A k \in jobs' : k.op = op => row'[op].nonce = k.nonce /\ row'[op].bumps = k.bumps
    BY <1>2, <1>3, <1>4, <1>5, <1>6
  <1>9. QED
    BY <1>4, <1>6, <1>7, <1>8, RowMoves

\* A block: a row signed for this chain succeeds only by being executed.
LEMMA RowMine == ASSUME RowInv, NEW tx \in pool, Mine(tx) PROVE RowInv'
  <1> USE DEF RowInv
  <1>1. tx \in Sent /\ tx.op \in Ops
    BY DEF RowTypes, Sent
  <1>2. ~Fresh(tx.op)
    BY <1>1 DEF FreshIsUnsent
  <1>3. row[tx.op].on = gen => HasCode(row[tx.op].ep)
    BY <1>1, <1>2 DEF RowsAreLive, Fresh, Live, EntryPointAt, HasCode
  <1>4. Succeeds(tx.op) /\ row[tx.op].on = gen => tx.op \in executed'
    BY <1>3 DEF Mine, Succeeds, CallTarget
  <1>5. UNCHANGED <<gen, code, funded, row, jobs, demo>> /\ executed \subseteq executed'
    BY DEF Mine
  <1>6. /\ receipts' = receipts \cup {[tx |-> tx, ok |-> Succeeds(tx.op)]}
        /\ pool' \subseteq pool /\ executed' \subseteq executed \cup {tx.op}
    BY DEF Mine
  <1>7. Succeeds(tx.op) \in BOOLEAN
    BY DEF Succeeds, Executes, HasCode, Is
  <1>8. RowTypes'
    BY <1>1, <1>5, <1>6, <1>7 DEF RowTypes
  <1>9. RowsAreLive'
    BY <1>5, LiveStays DEF RowsAreLive
  <1>10. FreshIsUnsent'
    BY <1>2, <1>5, <1>6 DEF FreshIsUnsent, Fresh
  <1>11. OkIsExecuted'
    BY <1>4, <1>5, <1>6 DEF OkIsExecuted
  <1>12. ConfirmedWasExecuted'
    BY <1>5 DEF ConfirmedWasExecuted
  <1>13. JobsMatch'
    BY <1>5 DEF JobsMatch
  <1>14. QED
    BY <1>8, <1>9, <1>10, <1>11, <1>12, <1>13

\* ConfirmationCheckProcessor.process.
LEMMA RowCheck == ASSUME RowInv, NEW j \in jobs, Check(j) PROVE RowInv'
  <1> USE DEF RowInv
  <1> DEFINE bumped == [j EXCEPT !.bumps = @ + 1]
  <1>1. j \in Sent /\ j.op \in Ops /\ ~Fresh(j.op)
    BY DEF RowTypes, FreshIsUnsent, Sent
  <1>2. row[j.op].status # "absent"
    BY <1>1 DEF Fresh
  <1>3. UNCHANGED <<gen, code, funded, receipts, executed, demo>>
    BY DEF Check
  <1>4. \A k \in jobs : k.op = j.op => k = j
    <2>1. \A k \in jobs : k = [op |-> k.op, nonce |-> k.nonce, bumps |-> k.bumps]
      BY DEF RowTypes, Sent
    <2>2. QED
      BY <2>1 DEF JobsMatch
  <1>5. ASSUME NEW status \in {"CONFIRMED", "FAILED", "STUCK"}, Settle(j, status),
               status = "CONFIRMED" => [tx |-> j, ok |-> TRUE] \in receipts
        PROVE  RowInv'
    <2>1. /\ row' \in [Ops -> Rows] /\ row'[j.op].status = status
          /\ row'[j.op].ep = row[j.op].ep /\ row'[j.op].pm = row[j.op].pm
          /\ row'[j.op].on = row[j.op].on
          /\ \A o \in Ops \ {j.op} : row'[o] = row[o]
      BY <1>1, <1>5 DEF Settle, RowTypes, Rows, Statuses
    <2>2. status = "CONFIRMED" /\ row[j.op].on = gen => j.op \in executed
      BY <1>5 DEF OkIsExecuted
    <2>3. /\ pool' = pool /\ jobs' \subseteq jobs
          /\ \A k \in jobs' : k.op # j.op
      BY <1>4, <1>5 DEF Settle
    <2>4. pool' \subseteq Sent /\ jobs' \subseteq Sent
      BY <2>3 DEF RowTypes
    <2>5. QED
      BY <1>1, <1>2, <1>3, <2>1, <2>2, <2>3, <2>4, RowMoves
  <1>6. ASSUME MayBump(j.op), Track(j.op, bumped), jobs' = (jobs \ {j}) \cup {bumped}
        PROVE  RowInv'
    <2>1. j.bumps < MaxAttempts
      BY <1>6 DEF MayBump, JobsMatch
    <2>2. bumped \in Sent /\ bumped.op = j.op
      BY <1>1, <2>1, DeploymentAssumption DEF Sent
    <2> HIDE DEF bumped
    <2>3. /\ row' \in [Ops -> Rows] /\ pool' \subseteq pool \cup {bumped}
          /\ row'[j.op].status = "SUBMITTED"
          /\ row'[j.op].ep = row[j.op].ep /\ row'[j.op].pm = row[j.op].pm
          /\ row'[j.op].on = row[j.op].on
          /\ row'[j.op].nonce = bumped.nonce /\ row'[j.op].bumps = bumped.bumps
          /\ \A o \in Ops \ {j.op} : row'[o] = row[o]
      BY <1>1, <1>6, <2>2, TrackEffect
    <2>4. \A k \in jobs' : k.op = j.op => k = bumped
      BY <1>4, <1>6
    <2>5. pool' \subseteq Sent /\ jobs' \subseteq Sent
      BY <1>6, <2>2, <2>3 DEF RowTypes
    <2>6. QED
      BY <1>1, <1>2, <1>3, <1>6, <2>2, <2>3, <2>4, <2>5, RowMoves
  <1>7. QED
    BY <1>5, <1>6 DEF Check

\* Every step of the stack, the demos and the relayer keeps the rows right.
LEMMA NextRowInv ==
  ASSUME ServeInv, RowInv, relayerNonce \in Nat, [DeploymentNext]_dVars PROVE RowInv'
  <1>1. CASE Up \/ UpStartsApi \/ UpFails \/ ApiRestarts \/ DeployDies
    BY <1>1, RowFrame DEF Up, UpStartsApi, UpFails, ApiRestarts, DeployDies
  <1>2. CASE Down \/ AnvilRestarts
    <2>1. gen \in Nat
      BY DEF ServeInv, AddressInv
    <2>2. QED
      BY <1>2, <2>1, RowNewChain DEF Down, AnvilRestarts
  <1>3. CASE DeployStep
    BY <1>3, RowFrame DEF DeployStep, Simulate, DeployEntryPoint, DeployPaymaster, FundDeposit,
       DeployFails, Truncate, WriteAddresses
  <1>4. CASE BootStep
    BY <1>4, RowFrame DEF BootStep, ApiGoes, LoadEnv, SeedFind, SeedCreate, Boot, BootRefused
  <1>5. ASSUME NEW op \in Ops, ReadStatus(op) PROVE RowInv'
    BY <1>5, RowDemo DEF ReadStatus
  <1>6. ASSUME NEW op \in Ops, DeployFactory(op) PROVE RowInv'
    BY <1>6, RowDemo DEF DeployFactory
  <1>7. ASSUME NEW op \in Ops, CreateAccount(op) PROVE RowInv'
    BY <1>7, RowDemo DEF CreateAccount
  <1>8. ASSUME NEW op \in Ops, Sponsor(op) PROVE RowInv'
    BY <1>8, RowSponsor
  <1>9. ASSUME NEW op \in Ops, Submit(op) PROVE RowInv'
    BY <1>9, RowSubmit
  <1>10. CASE UNCHANGED dVars
    BY <1>10, RowFrame
  <1>11. QED
    BY <1>1, <1>2, <1>3, <1>4, <1>5, <1>6, <1>7, <1>8, <1>9, <1>10, RowMine, RowCheck
       DEF DeploymentNext

LEMMA RowAlways == DeploymentSpec => []RowInv
  <1>1. ServeInv /\ NoncesNat /\ RowInv /\ [DeploymentNext]_dVars => RowInv'
    BY NextRowInv DEF NoncesNat
  <1>2. QED
    BY <1>1, InitRowInv, ServeAlways, NoncesAlways, PTL DEF DeploymentSpec

\* As long as the chain of a row runs, CONFIRMED is the EntryPoint's work,
\* whatever was redeployed or restarted since (ConfirmationCheckProcessor
\* trusts the receipt alone).
THEOREM ConfirmedOnItsChain == DeploymentSpec => []ConfirmedWasExecuted
  <1>1. RowInv => ConfirmedWasExecuted
    BY DEF RowInv
  <1>2. QED
    BY <1>1, RowAlways, PTL

\* A redeployment takes nothing from an operation that was signed before it
\* (RelayerService.submit calls the EntryPoint of the row).
THEOREM GrantsHold == DeploymentSpec => []GrantHolds
  <1>1. RowInv => GrantHolds
    BY DEF RowInv, RowsAreLive, FreshIsUnsent, Fresh, GrantHolds, Executes, CallTarget, Is, Live,
       EntryPointAt, PaymasterAt
  <1>2. QED
    BY <1>1, RowAlways, PTL
-----------------------------------------------------------------------------
(* Type correctness. *)

\* What the invariants above leave open.
CodeTypes ==
    /\ code \subseteq [at : 0 .. nonce - 1, kind : Kinds, ep : Nat]
    /\ \A c, d \in code : c.at = d.at => c = d
    /\ funded \subseteq {c.at : c \in code}
    /\ account \in [Ops -> [ep : Nat, on : Nat]]
    /\ executed \subseteq Ops

Bounds ==
    /\ gen \in 0 .. MaxGen /\ ups \in 0 .. MaxUps /\ crashes \in 0 .. MaxCrashes
    /\ crashed \subseteq 0 .. MaxGen
    /\ api \in ApiPhases /\ policies \in Nat

Switches == anvil \in BOOLEAN /\ starting \in BOOLEAN

StackTypes == CodeTypes /\ Bounds /\ Switches

\* A new contract takes the deployer's next nonce for its address.
LEMMA CodeGrows ==
  ASSUME CodeTypes, nonce \in Nat, nonce' = nonce + 1, NEW k \in Kinds, NEW ep \in Nat,
         code' = code \cup {[at |-> nonce, kind |-> k, ep |-> ep]}, UNCHANGED <<funded, executed>>,
         account' \in [Ops -> [ep : Nat, on : Nat]]
  PROVE  CodeTypes'
  <1> DEFINE new == [at |-> nonce, kind |-> k, ep |-> ep]
  <1>1. new \in [at : 0 .. nonce' - 1, kind : Kinds, ep : Nat] /\ new.at = nonce
    OBVIOUS
  <1>2. \A c \in code : c \in [at : 0 .. nonce' - 1, kind : Kinds, ep : Nat] /\ c.at # nonce
    BY DEF CodeTypes
  <1> HIDE DEF new
  <1>3. code' = code \cup {new}
    BY DEF new
  <1>4. QED
    BY <1>1, <1>2, <1>3 DEF CodeTypes

\* A transaction of the deployer that creates none.
LEMMA CodeKept ==
  ASSUME CodeTypes, nonce \in Nat, nonce' \in {nonce, nonce + 1}, code' = code,
         funded' \subseteq {c.at : c \in code}, executed' \subseteq Ops,
         account' \in [Ops -> [ep : Nat, on : Nat]]
  PROVE  CodeTypes'
  <1>1. \A c \in code : c \in [at : 0 .. nonce' - 1, kind : Kinds, ep : Nat]
    BY DEF CodeTypes
  <1>2. QED
    BY <1>1 DEF CodeTypes

\* What the deployer's transactions and demos do to the chain.
LEMMA NextCodeTypes ==
  ASSUME CodeTypes, ServeInv, NoncesNat, RowInv, [DeploymentNext]_dVars PROVE CodeTypes'
  <1> USE DEF NoncesNat
  <1>1. ASSUME UNCHANGED <<nonce, code, funded, executed, account>> PROVE CodeTypes'
    BY <1>1, CodeKept DEF CodeTypes
  <1>2. CASE Up \/ UpStartsApi \/ UpFails \/ ApiRestarts \/ DeployDies
    BY <1>1, <1>2 DEF Up, UpStartsApi, UpFails, ApiRestarts, DeployDies
  <1>3. CASE Down \/ AnvilRestarts
    BY <1>3 DEF Down, AnvilRestarts, EmptyChain, CodeTypes
  <1>4. CASE Simulate \/ DeployFails \/ Truncate \/ WriteAddresses
    BY <1>1, <1>4 DEF Simulate, DeployFails, Truncate, WriteAddresses
  <1>5. CASE DeployEntryPoint
    BY <1>5, CodeGrows DEF DeployEntryPoint, CodeTypes, Kinds
  <1>6. CASE DeployPaymaster
    BY <1>6, CodeGrows DEF DeployPaymaster, CodeTypes, Kinds, ServeInv, DeployInv
  <1>7. CASE FundDeposit
    <2>1. PaymasterAt(dep.first + 1, dep.first)
      BY <1>7 DEF FundDeposit, OnTurn, ServeInv, DeployInv
    <2>2. dep.first + 1 \in {c.at : c \in code}
      BY <2>1 DEF PaymasterAt
    <2>3. QED
      BY <1>7, <2>2, CodeKept DEF FundDeposit, CodeTypes
  <1>8. CASE BootStep
    BY <1>1, <1>8 DEF BootStep, ApiGoes, LoadEnv, SeedFind, SeedCreate, Boot, BootRefused
  <1>9. ASSUME NEW op \in Ops, ReadStatus(op) PROVE CodeTypes'
    <2>1. env.ep \in Nat /\ gen \in Nat
      BY <1>9 DEF ReadStatus, ServeInv, AddressInv, Pairs
    <2>2. QED
      BY <1>9, <2>1, CodeKept DEF ReadStatus, CodeTypes
  <1>10. ASSUME NEW op \in Ops, DeployFactory(op) PROVE CodeTypes'
    <2>1. account[op].ep \in Nat /\ gen \in Nat
      BY <1>10 DEF CodeTypes, ServeInv, AddressInv
    <2>2. account' \in [Ops -> [ep : Nat, on : Nat]]
      BY <1>10, <2>1 DEF DeployFactory, CodeTypes
    <2>3. QED
      BY <1>10, <2>1, <2>2, CodeGrows DEF DeployFactory, CodeTypes, Kinds
  <1>11. ASSUME NEW op \in Ops, CreateAccount(op) PROVE CodeTypes'
    BY <1>11, CodeKept DEF CreateAccount, CodeTypes
  <1>12. ASSUME NEW op \in Ops, Sponsor(op) \/ Submit(op) PROVE CodeTypes'
    BY <1>1, <1>12 DEF Sponsor, Submit
  <1>13. ASSUME NEW tx \in pool, Mine(tx) PROVE CodeTypes'
    BY <1>13, CodeKept DEF Mine, CodeTypes, RowInv, RowTypes, Sent
  <1>14. ASSUME NEW j \in jobs, Check(j) PROVE CodeTypes'
    BY <1>1, <1>14 DEF Check
  <1>15. CASE UNCHANGED dVars
    BY <1>1, <1>15
  <1>16. QED
    BY <1>2, <1>3, <1>4, <1>5, <1>6, <1>7, <1>8, <1>9, <1>10, <1>11, <1>12, <1>13, <1>14, <1>15
       DEF DeploymentNext, DeployStep

\* What compose, docker and the API's boot do to their containers.
LEMMA NextContainers ==
  ASSUME Bounds, Switches, [DeploymentNext]_dVars PROVE Bounds' /\ Switches'
  <1>1. {MaxGen, MaxUps, MaxCrashes} \subseteq Nat
    BY DeploymentAssumption
  <1>2. ASSUME UNCHANGED <<anvil, gen, starting, ups, crashes, crashed, api, policies>>
        PROVE  Bounds' /\ Switches'
    BY <1>2 DEF Bounds, Switches
  <1>3. CASE Up \/ UpStartsApi \/ UpFails \/ Down \/ AnvilRestarts \/ ApiRestarts \/ DeployDies
    <2>1. Switches'
      BY <1>3, Zenon DEF Up, UpStartsApi, UpFails, Down, AnvilRestarts, ApiRestarts, DeployDies, Switches
    <2>2. Bounds'
      BY <1>1, <1>3 DEF Up, UpStartsApi, UpFails, Down, AnvilRestarts, ApiRestarts, DeployDies,
         Bounds, ApiPhases
    <2>3. QED
      BY <2>1, <2>2
  <1>4. CASE BootStep
    <2>1. UNCHANGED <<anvil, gen, starting, ups, crashes, crashed>>
      BY <1>4 DEF BootStep, ApiGoes, LoadEnv, SeedFind, SeedCreate, Boot, BootRefused
    <2>2. api' \in ApiPhases /\ policies' \in Nat
      BY <1>4 DEF BootStep, ApiGoes, LoadEnv, SeedFind, SeedCreate, Boot, BootRefused, Bounds, ApiPhases
    <2>3. QED
      BY <2>1, <2>2 DEF Bounds, Switches
  <1>5. CASE DeployStep
    BY <1>2, <1>5 DEF DeployStep, Simulate, DeployEntryPoint, DeployPaymaster, FundDeposit,
       DeployFails, Truncate, WriteAddresses
  <1>6. ASSUME NEW op \in Ops,
               ReadStatus(op) \/ DeployFactory(op) \/ CreateAccount(op) \/ Sponsor(op) \/ Submit(op)
        PROVE  Bounds' /\ Switches'
    BY <1>2, <1>6 DEF ReadStatus, DeployFactory, CreateAccount, Sponsor, Submit
  <1>7. ASSUME NEW tx, Mine(tx) PROVE Bounds' /\ Switches'
    BY <1>2, <1>7 DEF Mine
  <1>8. ASSUME NEW j, Check(j) PROVE Bounds' /\ Switches'
    BY <1>2, <1>8 DEF Check
  <1>9. CASE UNCHANGED dVars
    BY <1>2, <1>9
  <1>10. QED
    BY <1>3, <1>4, <1>5, <1>6, <1>7, <1>8, <1>9 DEF DeploymentNext

\* The stack is well typed; in particular an address never names two
\* contracts, and bumpCount stays within MAX_GAS_BUMP_ATTEMPTS across chains.
THEOREM DeploymentTypeCorrect == DeploymentSpec => []DeploymentTypeOK
  <1>1. DeploymentInit => CodeTypes
    BY DEF DeploymentInit, CodeTypes
  <1>2. DeploymentInit => Bounds
    BY DeploymentAssumption DEF DeploymentInit, Bounds, ApiPhases
  <1>3. DeploymentInit => Switches
    BY Zenon DEF DeploymentInit, Switches
  <1>4. StackTypes /\ ServeInv /\ NoncesNat /\ RowInv /\ [DeploymentNext]_dVars => StackTypes'
    BY NextCodeTypes, NextContainers DEF StackTypes
  <1>5. StackTypes /\ ServeInv /\ NoncesNat /\ RowInv => DeploymentTypeOK
    BY DEF StackTypes, CodeTypes, Bounds, Switches, ServeInv, DeployInv, AddressInv, NoncesNat,
       RowInv, RowTypes, DeploymentTypeOK
  <1>6. QED
    BY <1>1, <1>2, <1>3, <1>4, <1>5, ServeAlways, NoncesAlways, RowAlways,
       PTL DEF DeploymentSpec, StackTypes
-----------------------------------------------------------------------------
(* The seed. *)

\* One container runs the seed at a time, and only after it found no policy.
SeedInv ==
    /\ policies \in {0, 1}
    /\ api = "create" => policies = 0
    /\ api \in {"validate", "up"} => policies = 1

\* A boot may die before, within or after the seed.
LEMMA NextSeedInv == ASSUME SeedInv, [DeploymentNext]_dVars PROVE SeedInv'
  <1> USE DEF SeedInv
  <1>1. CASE Up \/ UpStartsApi \/ UpFails \/ Down \/ AnvilRestarts \/ ApiRestarts \/ DeployDies
    BY <1>1 DEF Up, UpStartsApi, UpFails, Down, AnvilRestarts, ApiRestarts, DeployDies
  <1>2. CASE BootStep
    BY <1>2 DEF BootStep, ApiGoes, LoadEnv, SeedFind, SeedCreate, Boot, BootRefused
  <1>3. ASSUME UNCHANGED apiVars PROVE SeedInv'
    BY <1>3
  <1>4. CASE DeployStep
    BY <1>3, <1>4 DEF DeployStep, Simulate, DeployEntryPoint, DeployPaymaster, FundDeposit,
       DeployFails, Truncate, WriteAddresses
  <1>5. ASSUME NEW op \in Ops,
               ReadStatus(op) \/ DeployFactory(op) \/ CreateAccount(op) \/ Sponsor(op) \/ Submit(op)
        PROVE  SeedInv'
    BY <1>3, <1>5 DEF ReadStatus, DeployFactory, CreateAccount, Sponsor, Submit
  <1>6. ASSUME NEW tx, Mine(tx) PROVE SeedInv'
    BY <1>3, <1>6 DEF Mine
  <1>7. ASSUME NEW j, Check(j) PROVE SeedInv'
    BY <1>3, <1>7 DEF Check
  <1>8. CASE UNCHANGED dVars
    BY <1>3, <1>8
  <1>9. QED
    BY <1>1, <1>2, <1>4, <1>5, <1>6, <1>7, <1>8 DEF DeploymentNext

\* However often boots run the seed and die in it, there is one default
\* policy when the API serves (prisma/seed.ts, findFirst before create).
THEOREM SeedIdempotent == DeploymentSpec => []SeededOnce
  <1>1. DeploymentInit => SeedInv
    BY DEF DeploymentInit, SeedInv
  <1>2. SeedInv => SeededOnce
    BY DEF SeedInv, SeededOnce
  <1>3. QED
    BY <1>1, <1>2, NextSeedInv, PTL DEF DeploymentSpec
=============================================================================
