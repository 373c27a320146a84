----------------------------- MODULE Deployment -----------------------------
(***************************************************************************)
(* The stack of docker-compose.yml over its life: `docker compose up' and  *)
(* `down', containers that docker restarts, a chain that is empty after    *)
(* every restart, contracts-deploy that fills it and leaves the addresses  *)
(* in a volume, the API that loads them at boot - and a database and a     *)
(* queue that outlive all of it.  Requests and checks, whose interleavings *)
(* are in Relayer, are single actions here.                                *)
(*                                                                         *)
(* An address is the deployer nonce it was created with, so that a new     *)
(* chain hands out the same addresses again.                               *)
(***************************************************************************)
EXTENDS Integers

CONSTANTS
    Ops,        \* the operations, each of its own demo account
    MaxAttempts,\* MAX_GAS_BUMP_ATTEMPTS
    MaxGen,     \* bound: how often anvil starts anew
    MaxUps,     \* bound: how often `docker compose up' is run
    MaxCrashes, \* bound: how often the API or contracts-deploy dies
    Unset       \* an environment without the two addresses

\* An EntryPoint and a paymaster, and (history) the chain they are on.
Pairs == [ep : Nat, pm : Nat, on : Nat]

ASSUME DeploymentAssumption ==
    /\ Unset \notin Pairs
    /\ {MaxAttempts, MaxGen, MaxUps, MaxCrashes} \subseteq Nat

VARIABLES
    anvil,     \* whether the chain runs
    gen,       \* which chain it is, counted from 0
    starting,  \* a `docker compose up' waits for contracts-deploy
    dep,       \* contracts-deploy: what it does next, its first nonce, its chain
    file,      \* .env.deployed in the deployment-artifacts volume
    api,       \* what the api container is doing
    env,       \* the addresses in its environment
    policies,  \* how many default policies are in the database
    ups, crashes,  \* counters of the bounds
    nonce,     \* the deployer's next nonce
    code,      \* the contracts on the chain: address, kind, EntryPoint
    funded,    \* the paymasters with a deposit
    relayerNonce, pool, receipts,  \* the relayer's account on the chain
    row,       \* the user_operations table
    jobs,      \* the delayed checks in Redis
    demo,      \* where each run of demo.ts is
    account,   \* the account it made: its EntryPoint and its chain
    crashed,   \* history: chains that replaced one that died by itself
    executed   \* history: operations some EntryPoint executed

stackVars == <<anvil, gen, starting, ups, crashes, crashed>>
deployVars == <<dep, file>>
apiVars == <<api, env, policies>>
chainVars == <<nonce, code, funded, relayerNonce, pool, receipts, executed>>
rowVars == <<row, jobs>>
demoVars == <<demo, account>>
dVars == <<stackVars, deployVars, apiVars, chainVars, rowVars, demoVars>>

DepPhases == {"none", "simulate", "entrypoint", "paymaster", "deposit",
              "truncate", "write", "done", "failed"}
ApiPhases == {"down", "load", "find", "create", "validate", "up"}
DemoPhases == {"start", "factory", "account", "sponsor", "submit", "poll"}
Kinds == {"EntryPoint", "Paymaster", "Factory"}
Statuses == {"absent", "PENDING", "SUBMITTED", "STUCK", "CONFIRMED", "FAILED"}
Sent == [op : Ops, nonce : Nat, bumps : 0 .. MaxAttempts]
Rows == [status : Statuses, ep : Nat, pm : Nat, on : Nat, nonce : Nat, bumps : 0 .. MaxAttempts]

DeploymentTypeOK ==
    /\ anvil \in BOOLEAN /\ starting \in BOOLEAN
    /\ gen \in 0 .. MaxGen /\ ups \in 0 .. MaxUps /\ crashes \in 0 .. MaxCrashes
    /\ crashed \subseteq 0 .. MaxGen
    /\ dep \in [at : DepPhases, first : Nat, on : Nat]
    /\ file \in Pairs \cup {Unset} /\ env \in Pairs \cup {Unset}
    /\ api \in ApiPhases /\ policies \in Nat
    /\ nonce \in Nat /\ relayerNonce \in Nat
    /\ code \subseteq [at : 0 .. nonce - 1, kind : Kinds, ep : Nat]
    /\ \A c, d \in code : c.at = d.at => c = d
    /\ funded \subseteq {c.at : c \in code}
    /\ pool \subseteq Sent
    /\ receipts \subseteq [tx : Sent, ok : BOOLEAN]
    /\ row \in [Ops -> Rows]
    /\ jobs \subseteq Sent
    /\ demo \in [Ops -> DemoPhases]
    /\ account \in [Ops -> [ep : Nat, on : Nat]]
    /\ executed \subseteq Ops

NoRow == [status |-> "absent", ep |-> 0, pm |-> 0, on |-> 0, nonce |-> 0, bumps |-> 0]

EmptyChain ==
    /\ nonce' = 0 /\ code' = {} /\ funded' = {}
    /\ relayerNonce' = 0 /\ pool' = {} /\ receipts' = {}

DeploymentInit ==
    /\ anvil = FALSE /\ gen = 0 /\ starting = FALSE
    /\ ups = 0 /\ crashes = 0 /\ crashed = {}
    /\ dep = [at |-> "none", first |-> 0, on |-> 0]
    /\ file = Unset /\ env = Unset /\ api = "down" /\ policies = 0
    /\ nonce = 0 /\ code = {} /\ funded = {}
    /\ relayerNonce = 0 /\ pool = {} /\ receipts = {}
    /\ row = [op \in Ops |-> NoRow] /\ jobs = {}
    /\ demo = [op \in Ops |-> "start"]
    /\ account = [op \in Ops |-> [ep |-> 0, on |-> 0]]
    /\ executed = {}
-----------------------------------------------------------------------------
(* docker compose and the containers it restarts. *)

DeployRuns == dep.at \notin {"none", "done", "failed"}

\* Starts what is not running; contracts-deploy is run once more, an api
\* container that runs is left as it is.
Up ==
    /\ ~starting /\ ups < MaxUps
    /\ anvil' = TRUE /\ starting' = TRUE /\ ups' = ups + 1
    /\ dep' = IF DeployRuns THEN dep ELSE [dep EXCEPT !.at = "simulate"]
    /\ UNCHANGED <<gen, crashes, crashed, file, apiVars, chainVars, rowVars, demoVars>>

\* Mutant: the api does not wait for contracts-deploy.
UpStartsApiAtOnce ==
    /\ starting
    /\ starting' = FALSE
    /\ api' = IF api = "down" THEN "load" ELSE api
    /\ UNCHANGED <<anvil, gen, ups, crashes, crashed, deployVars, env, policies, chainVars, rowVars, demoVars>>

\* service_completed_successfully.
UpStartsApi ==
    /\ starting /\ dep.at = "done"
    /\ starting' = FALSE
    /\ api' = IF api = "down" THEN "load" ELSE api
    /\ UNCHANGED <<anvil, gen, ups, crashes, crashed, deployVars, env, policies, chainVars, rowVars, demoVars>>

UpFails ==
    /\ starting /\ dep.at = "failed"
    /\ starting' = FALSE
    /\ UNCHANGED <<anvil, gen, ups, crashes, crashed, deployVars, apiVars, chainVars, rowVars, demoVars>>

\* Removes the containers and keeps the volumes.
Down ==
    /\ anvil /\ gen < MaxGen
    /\ anvil' = FALSE /\ starting' = FALSE /\ gen' = gen + 1
    /\ EmptyChain
    /\ dep' = [dep EXCEPT !.at = "none"]
    /\ api' = "down" /\ env' = Unset
    /\ UNCHANGED <<ups, crashes, crashed, file, policies, rowVars, demoVars, executed>>

\* restart: unless-stopped.  Nothing makes contracts-deploy run again.
AnvilRestarts ==
    /\ anvil /\ gen < MaxGen
    /\ gen' = gen + 1 /\ crashed' = crashed \cup {gen + 1}
    /\ EmptyChain
    /\ UNCHANGED <<anvil, starting, ups, crashes, deployVars, apiVars, rowVars, demoVars, executed>>

ApiRestarts ==
    /\ api # "down" /\ crashes < MaxCrashes
    /\ crashes' = crashes + 1
    /\ api' = "load" /\ env' = Unset
    /\ UNCHANGED <<anvil, gen, starting, ups, crashed, deployVars, policies, chainVars, rowVars, demoVars>>
-----------------------------------------------------------------------------
(* contracts-deploy: docker-deploy.sh and DeployPaymaster.s.sol. *)

\* anvil answers; forge simulates the script and fixes its three nonces.
Simulate ==
    /\ dep.at = "simulate" /\ anvil
    /\ dep' = [at |-> "entrypoint", first |-> nonce, on |-> gen]
    /\ UNCHANGED <<stackVars, file, apiVars, chainVars, rowVars, demoVars>>

\* The k-th transaction of the script is the deployer's next.  A chain that
\* starts anew before the first one is as good; after it, forge misses the
\* receipts of those it sent.
OnTurn(k) == nonce = dep.first + k /\ (k > 0 => dep.on = gen)

DeployEntryPoint ==
    /\ dep.at = "entrypoint" /\ OnTurn(0)
    /\ code' = code \cup {[at |-> nonce, kind |-> "EntryPoint", ep |-> nonce]}
    /\ nonce' = nonce + 1
    /\ dep' = [dep EXCEPT !.at = "paymaster", !.on = gen]
    /\ UNCHANGED <<stackVars, file, apiVars, funded, relayerNonce, pool, receipts, executed, rowVars, demoVars>>

DeployPaymaster ==
    /\ dep.at = "paymaster" /\ OnTurn(1)
    /\ code' = code \cup {[at |-> nonce, kind |-> "Paymaster", ep |-> dep.first]}
    /\ nonce' = nonce + 1
    /\ dep' = [dep EXCEPT !.at = "deposit"]
    /\ UNCHANGED <<stackVars, file, apiVars, funded, relayerNonce, pool, receipts, executed, rowVars, demoVars>>

FundDeposit ==
    /\ dep.at = "deposit" /\ OnTurn(2)
    /\ funded' = funded \cup {dep.first + 1}
    /\ nonce' = nonce + 1
    /\ dep' = [dep EXCEPT !.at = "truncate"]
    /\ UNCHANGED <<stackVars, file, apiVars, code, relayerNonce, pool, receipts, executed, rowVars, demoVars>>

\* The chain was replaced, or another holder of the deployer's key (demo.ts)
\* took a nonce of the script.
LostTurn ==
    \/ dep.at = "entrypoint" /\ ~OnTurn(0)
    \/ dep.at = "paymaster" /\ ~OnTurn(1)
    \/ dep.at = "deposit" /\ ~OnTurn(2)

\* Mutant: docker-deploy.sh goes on when forge failed.
DeployFailsQuietly ==
    /\ LostTurn
    /\ dep' = [dep EXCEPT !.at = "truncate"]
    /\ UNCHANGED <<stackVars, file, apiVars, chainVars, rowVars, demoVars>>

DeployFails ==
    /\ LostTurn
    /\ dep' = [dep EXCEPT !.at = "failed"]
    /\ UNCHANGED <<stackVars, file, apiVars, chainVars, rowVars, demoVars>>

DeployDies ==
    /\ DeployRuns /\ crashes < MaxCrashes
    /\ crashes' = crashes + 1
    /\ dep' = [dep EXCEPT !.at = "failed"]
    /\ UNCHANGED <<anvil, gen, starting, ups, crashed, file, apiVars, chainVars, rowVars, demoVars>>

\* cat > file: the shell truncates it before cat writes.
Truncate ==
    /\ dep.at = "truncate"
    /\ file' = Unset
    /\ dep' = [dep EXCEPT !.at = "write"]
    /\ UNCHANGED <<stackVars, apiVars, chainVars, rowVars, demoVars>>

WriteAddresses ==
    /\ dep.at = "write"
    /\ file' = [ep |-> dep.first, pm |-> dep.first + 1, on |-> dep.on]
    /\ dep' = [dep EXCEPT !.at = "done"]
    /\ UNCHANGED <<stackVars, apiVars, chainVars, rowVars, demoVars>>
-----------------------------------------------------------------------------
(* The api container: docker-entrypoint.sh, the seed, Nest's boot. *)

ApiGoes(from, to) ==
    /\ api = from
    /\ api' = to
    /\ UNCHANGED <<stackVars, deployVars, chainVars, rowVars, demoVars>>

LoadEnv == ApiGoes("load", "find") /\ env' = file /\ UNCHANGED policies

\* Mutant: the seed does not look for its policy first.
SeedAlways == ApiGoes("find", "create") /\ UNCHANGED <<env, policies>>

SeedFind ==
    /\ \/ policies > 0 /\ ApiGoes("find", "validate")
       \/ policies = 0 /\ ApiGoes("find", "create")
    /\ UNCHANGED <<env, policies>>

SeedCreate ==
    ApiGoes("create", "validate") /\ policies' = policies + 1 /\ UNCHANGED env

\* envValidationSchema requires both addresses; the rest of what it checks is
\* fixed in docker-compose.yml or has a default.
Boot == ApiGoes("validate", "up") /\ env # Unset /\ UNCHANGED <<env, policies>>

\* Mutant: only the server is started anew, not its entrypoint script.
BootRetries == ApiGoes("validate", "validate") /\ env = Unset /\ UNCHANGED <<env, policies>>

\* The process exits and docker restarts the container.
BootRefused == ApiGoes("validate", "load") /\ env = Unset /\ UNCHANGED <<env, policies>>
-----------------------------------------------------------------------------
(* demo.ts up to the sponsored operation. *)

Is(a, kind) == \E c \in code : c.at = a /\ c.kind = kind
HasCode(a) == \E c \in code : c.at = a

\* GET /admin/paymaster-status reads the deposit from the EntryPoint (and
\* fails without one), and answers with its address.
ReadStatus(op) ==
    /\ api = "up" /\ demo[op] = "start"
    /\ Is(env.ep, "EntryPoint")
    /\ demo' = [demo EXCEPT ![op] = "factory"]
    /\ account' = [account EXCEPT ![op] = [ep |-> env.ep, on |-> gen]]
    /\ UNCHANGED <<stackVars, deployVars, apiVars, chainVars, rowVars>>

\* With the deployer's key; the factory's accounts trust that EntryPoint.
DeployFactory(op) ==
    /\ anvil /\ demo[op] = "factory"
    /\ demo' = [demo EXCEPT ![op] = "account"]
    /\ account' = [account EXCEPT ![op].on = gen]
    /\ code' = code \cup {[at |-> nonce, kind |-> "Factory", ep |-> account[op].ep]}
    /\ nonce' = nonce + 1
    /\ UNCHANGED <<stackVars, deployVars, apiVars, funded, relayerNonce, pool, receipts, executed, rowVars>>

CreateAccount(op) ==
    /\ anvil /\ demo[op] = "account" /\ account[op].on = gen
    /\ demo' = [demo EXCEPT ![op] = "sponsor"]
    /\ nonce' = nonce + 1
    /\ UNCHANGED <<stackVars, deployVars, apiVars, code, funded, relayerNonce, pool, receipts, executed, rowVars, account>>
-----------------------------------------------------------------------------
(* The API's work on the chain. *)

\* PaymasterService.sponsor makes no call to the chain: the operation is
\* signed for the addresses of the environment.
Sponsor(op) ==
    /\ api = "up" /\ demo[op] = "sponsor"
    /\ demo' = [demo EXCEPT ![op] = "submit"]
    /\ row' = [row EXCEPT ![op] = [NoRow EXCEPT !.status = "PENDING", !.ep = env.ep,
                                                !.pm = env.pm, !.on = env.on]]
    /\ UNCHANGED <<stackVars, deployVars, apiVars, chainVars, jobs, account>>

\* Mutant: handleOps is sent to the configured EntryPoint.
ConfiguredTarget(op) == IF env = Unset THEN row[op].ep ELSE env.ep

\* handleOps is sent to the EntryPoint of the row.
CallTarget(op) == row[op].ep

\* The EntryPoint executes the operation: it is the one the account trusts,
\* and the paymaster of the row has a deposit with it.
Executes(op) ==
    /\ Is(CallTarget(op), "EntryPoint")
    /\ [at |-> row[op].pm, kind |-> "Paymaster", ep |-> CallTarget(op)] \in code
    /\ row[op].pm \in funded
    /\ account[op] = [ep |-> CallTarget(op), on |-> gen]
    /\ op \notin executed

\* A transaction to an address without code succeeds and does nothing.
Succeeds(op) == Executes(op) \/ ~HasCode(CallTarget(op))

PoolAt(n) == {tx \in pool : tx.nonce = n}

Accepts(tx) == tx.nonce >= relayerNonce /\ \A old \in PoolAt(tx.nonce) : tx.bumps > old.bumps

\* The node takes tx, the row names it and a check is queued for it.
Track(op, tx) ==
    /\ Accepts(tx)
    /\ pool' = (pool \ PoolAt(tx.nonce)) \cup {tx}
    /\ row' = [row EXCEPT ![op].status = "SUBMITTED", ![op].nonce = tx.nonce,
                          ![op].bumps = tx.bumps]

\* RelayerService.submit: refused when the gas estimate reverts.
Submit(op) ==
    /\ api = "up" /\ anvil /\ demo[op] = "submit"
    /\ row[op].status = "PENDING" /\ Succeeds(op)
    /\ \E n \in {relayerNonce} \cup {tx.nonce + 1 : tx \in pool} :
         LET tx == [op |-> op, nonce |-> n, bumps |-> 0] IN
         /\ PoolAt(n) = {} /\ \A k \in relayerNonce .. n - 1 : PoolAt(k) # {}
         /\ Track(op, tx) /\ jobs' = jobs \cup {tx}
    /\ demo' = [demo EXCEPT ![op] = "poll"]
    /\ UNCHANGED <<stackVars, deployVars, apiVars, nonce, code, funded, relayerNonce, receipts, executed, account>>

Mine(tx) ==
    /\ anvil /\ tx \in pool /\ tx.nonce = relayerNonce
    /\ relayerNonce' = relayerNonce + 1
    /\ pool' = pool \ {tx}
    /\ receipts' = receipts \cup {[tx |-> tx, ok |-> Succeeds(tx.op)]}
    /\ executed' = IF Executes(tx.op) THEN executed \cup {tx.op} ELSE executed
    /\ UNCHANGED <<stackVars, deployVars, apiVars, nonce, code, funded, rowVars, demoVars>>

Settle(j, status) ==
    /\ row' = [row EXCEPT ![j.op].status = status]
    /\ jobs' = jobs \ {j}
    /\ UNCHANGED pool

\* Mutant: one attempt too many.
MayBumpOffByOne(op) == row[op].bumps <= MaxAttempts

MayBump(op) == row[op].bumps < MaxAttempts

\* ConfirmationCheckProcessor.process, on the chain there is now: the
\* replacement takes the nonce of the row, on whatever chain that was.
Check(j) ==
    /\ api = "up" /\ anvil /\ j \in jobs
    /\ LET unmined == \A m \in receipts : m.tx # j
           bumped == [j EXCEPT !.bumps = @ + 1] IN
         \/ [tx |-> j, ok |-> TRUE] \in receipts /\ Settle(j, "CONFIRMED")
         \/ [tx |-> j, ok |-> FALSE] \in receipts /\ Settle(j, "FAILED")
         \/ unmined /\ ~MayBump(j.op) /\ Settle(j, "FAILED")
         \/ unmined /\ MayBump(j.op) /\ ~Accepts(bumped) /\ Settle(j, "STUCK")
         \/ /\ unmined /\ MayBump(j.op)
            /\ Track(j.op, bumped) /\ jobs' = (jobs \ {j}) \cup {bumped}
    /\ UNCHANGED <<stackVars, deployVars, apiVars, nonce, code, funded, relayerNonce, receipts, executed, demoVars>>
-----------------------------------------------------------------------------
DeployStep ==
    \/ Simulate \/ DeployEntryPoint \/ DeployPaymaster \/ FundDeposit
    \/ DeployFails \/ Truncate \/ WriteAddresses

BootStep == LoadEnv \/ SeedFind \/ SeedCreate \/ Boot \/ BootRefused

DeploymentNext ==
    \/ Up \/ UpStartsApi \/ UpFails \/ Down
    \/ AnvilRestarts \/ ApiRestarts \/ DeployDies
    \/ DeployStep \/ BootStep
    \/ \E op \in Ops : ReadStatus(op) \/ DeployFactory(op) \/ CreateAccount(op)
    \/ \E op \in Ops : Sponsor(op) \/ Submit(op)
    \/ \E tx \in pool : Mine(tx)
    \/ \E j \in jobs : Check(j)

DeploymentSpec == DeploymentInit /\ [][DeploymentNext]_dVars

\* Containers that were started run, and compose waits for them no longer
\* than it says.  Nobody has to start the stack, stop it or use it.
FairDeployment ==
    /\ DeploymentSpec
    /\ WF_dVars(DeployStep) /\ WF_dVars(BootStep) /\ WF_dVars(UpStartsApi)
-----------------------------------------------------------------------------
\* An API that serves on a chain that did not die by itself serves from that
\* chain's contracts: one EntryPoint, the paymaster that was built on it, and
\* a deposit - whatever older addresses the volume held, and however often
\* the stack was brought up, taken down or crashed on the way.
ServesLiveContracts ==
    api = "up" /\ gen \notin crashed =>
        /\ env.on = gen
        /\ [at |-> env.ep, kind |-> "EntryPoint", ep |-> env.ep] \in code
        /\ [at |-> env.pm, kind |-> "Paymaster", ep |-> env.ep] \in code
        /\ env.pm \in funded

\* The seed is idempotent: an API that serves has the default policy, and
\* never two of it, although every boot runs the seed and may die within it.
SeededOnce == policies <= 1 /\ (api = "up" => policies = 1)

\* A second deployment and a restart with its addresses take nothing from
\* operations that are already signed: the chain they were signed on executes
\* them, if their account trusts the EntryPoint they were signed for.
GrantHolds ==
    \A op \in Ops :
        /\ api = "up" /\ row[op].status = "PENDING" /\ row[op].on = gen
        /\ account[op] = [ep |-> row[op].ep, on |-> gen]
        => Executes(op)

\* While the chain an operation was signed for still runs, CONFIRMED means
\* that its EntryPoint executed it.
ConfirmedWasExecuted ==
    \A op \in Ops :
        row[op].status = "CONFIRMED" /\ row[op].on = gen => op \in executed

\* Once the stack is left alone, an API that was started comes to serve,
\* unless a deployment died while it wrote the addresses.
ApiComesUp == <>[](api # "down" /\ file # Unset) => <>[](api = "up")
=============================================================================
