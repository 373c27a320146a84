# A verification project for the ERC-4337 paymaster

TLA+ modules, TLC runs and TLAPS proofs for the sponsorship API (`src/apps/api`),
its relayer, the `VerifyingPaymaster` contract (`src/contracts`), the compose stack
they are deployed as and the demo client that uses them. Every
definition that models code is listed in `PROJECT.json` with the lines it
stands for; every property has a mutant, a small plausible bug in the code that
breaks it.

## 1. The system

A dapp asks the API to sponsor a UserOperation. The API checks its policy, the
wallet's daily quota and two rate limits, signs the operation for the paymaster
contract and stores it. The client signs what it was handed and submits it; the
API's relayer sends it to the EntryPoint from an account of its own, watches the
transaction and raises its fee until it is mined or the attempts are used up.

```
docker compose --> anvil --> contracts-deploy --> .env.deployed --> api (entrypoint, seed, boot)

client --POST sponsor--> pipeline --> PaymasterService --> PolicyService --> PostgreSQL
                                            \--> signing service --> (validUntil, signature)
client --POST userop---> pipeline --> RelayerService.submit --> node / EntryPoint --> VerifyingPaymaster
                                            \--> BullMQ (45 s) --> ConfirmationCheckProcessor --> node
client --GET status----> row of user_operations
```

### Inventory

| Part | State it keeps | Operations | Makes it correct |
|---|---|---|---|
| User-operation state machine (`user-op-state-machine.service.ts`) | `user_operations.status`, tx hash, relayer nonce, fees, `bumpCount` | `markSubmitted`, `markStuck`, `markConfirmed`, `markFailed`: one conditional UPDATE each | a row follows the diagram in the file's comment, final states are final and true |
| Relayer, submit (`relayer.service.ts`) | none of its own: what each call read | read the row; fees, nonce and gas estimate; broadcast; mark; queue a check | one watcher per submitted row, no two competing transactions |
| Confirmation checks (`confirmation-check.processor.ts`) | delayed jobs in Redis | receipt lookup, settle, give up, mark stuck, rebroadcast, mark, requeue | bounded attempts, the check follows the row's transaction, checks end |
| Chain, node, EntryPoint (external) | relayer nonce, pool, mined transactions | accept, replace, mine, drop | - |
| Sponsorship policies (`policy.service.ts`) | `sponsorship_policies` | `findApplicablePolicy`; operators edit the table | the scoped policy wins over the wildcard, the choice is stable |
| Daily quota (`policy.service.ts`) | `wallet_quota_usage` | upsert, conditional increment | never exceeded, exact, per wallet, policy and day |
| Sponsor endpoint (`paymaster.service.ts`) | `user_operations` rows | policy, quota, sign, insert | a hash is granted once, stored operations stay within the quota |
| Signing and packing (`paymaster-signing.service.ts`, `packed-user-op.util.ts`) | the signer's key | hash, pack, sign, compute `userOpHash` | what the contract reads is what was asked for |
| `VerifyingPaymaster.sol` | `verifyingSigner`, owner | `setVerifyingSigner`, `getHash`, validation | pays for what was sponsored, and for nothing else |
| Rate limiter (`rate-limit.guard.ts`) | counters with a TTL in Redis | one Lua script per tier | bounded bursts, lockouts that end |
| Request pipeline (`main.ts`, `app.module.ts`, middleware, guards, interceptor, filter) | per request: correlation id, log line, answer | parse, correlate, guard, validate, handle, log, answer | handlers see only guarded requests; the log says what was answered |
| Compose stack (`docker-compose.yml`, `docker-deploy.sh`, `DeployPaymaster.s.sol`, `docker-entrypoint.sh`, `seed.ts`) | the chain, the volume with the addresses, the API's environment, database and queue | up, down, containers that restart; three deployment transactions; truncate and write the file; load, seed, boot | an API that serves does so from one deployment on the chain that runs; the seed's policy exists once |
| Demo client (`scripts/demo.ts`) | account, sponsored operation, last answer | admin status, deploy a factory and an account, sponsor, submit, poll | what it reports is true, and it waits long enough |
| Admin guard and status (`paymaster-admin.service.ts`) | none | read the deposit at the configured EntryPoint | fails where there is none |
| Health, factories and clients, Redis/queue/Prisma modules, dashboard | see section 8 | | |

### What is hard

* **Interleaving.** Every `await` is a point where any other request, check or
  replica may run. Submit reads the row once and `handleStuck` once, each before
  several awaits in which the row may change; the only protection is the `WHERE status IN (...)` of each UPDATE.
* **Failure between steps.** Quota is used up before the operation is signed
  and stored; a transaction is in the pool before its row says so; a row is
  SUBMITTED before its check is queued. There is no transaction around any pair.
* **Unreliable calls.** An RPC call may fail after it took effect; BullMQ runs
  a check again when its run stalled; ioredis resends a command.
* **Time.** Checks every 45 s, a sponsorship valid for 180 s, a client that polls
  for 50 s, a UTC day read once, a fixed rate-limit window.
* **State that outlives other state.** Rows, jobs and the address file stay when
  the chain starts anew; the API keeps its environment when the file is rewritten.
* **Two readers of one body.** The guard reads the sender before validation.

`PROJECT.json` lists these as hazards, at their lines, with the properties that
answer each.

## 2. Modules

| Module | Models | Builds on |
|---|---|---|
| `Transactions` | operations and the relayer's transactions, the vocabulary the database and the chain share | |
| `UserOpStateMachine` | `user_operations` rows and each conditional UPDATE | `Transactions` |
| `Chain` | node, pool, nonces, EntryPoint outcome (external) | `Transactions` |
| `Relayer` | submit, queue and checks, over rows and chain | `UserOpStateMachine`, `Chain`; refines `Lifecycle` |
| `Lifecycle` | abstract: what a reader of `GET /userops/:hash` may rely on | |
| `Policies` | policy table and `findApplicablePolicy` | |
| `Sponsorship` | `PaymasterService.sponsor` with quota, window and unique hash | `Policies` |
| `RateLimit` | Redis counters and their expiry | |
| `RequestPipeline` | every request from body parser to response | `RateLimit` |
| `PackedUserOp` | hashing and packing, on both sides | |
| `VerifyingPaymaster` | signature from `sign` to `_validatePaymasterUserOp` | `PackedUserOp` |
| `Journey` | a client from sponsoring to its last poll, and the three timers: delay of a check, patience, validity | `Relayer` with a clock; refines `Relayer` |
| `Deployment` | the compose stack over its life, the demo's setup, and the relayer's work on a chain that may be replaced | |
| `MC*` | instances for TLC | |
| `RelayerProofs`, `SponsorshipProofs`, `PipelineProofs`, `PaymasterProofs`, `JourneyProofs`, `DeploymentProofs` | theorems | the module they are about |
| `ResubmissionProofs` | theorems on the relayer's pending transactions, nonces and fees | `RelayerProofs` |
| `ClockProofs` | theorems on deadline and patience | `JourneyProofs`, `ResubmissionProofs` |

### How state and actions correspond to the code

* **One action per await.** What runs between two awaits is one action. A
  request's or a run's `pc`/`phase` names the await it is at; what the code holds
  in local variables across an await is kept per request or run (`reqTx`, `seen`,
  `chosen`, `key`, `hash`), so it can be stale when it is used.
* **`row[op]`** is a row of `user_operations`. `tx` stands for `submittedTxHash`,
  `relayerNonce` and the fee columns, always written together. A transaction is
  a record `[op, nonce, fee]` and is its own hash: a replacement that changes
  none of them would be the same transaction.
* **`Transition` and `TransitionConflicts`** are the two outcomes of a
  conditional UPDATE. A conflict ends a submit with a 409 and fails a check.
* **`RebroadcastFails`, `CheckConflicts`, `CheckAborts`** end a run without
  another check: the queue sets no `attempts`, so BullMQ does not retry.
* **Faults** are a constant, so that each run says which it allows: `abort`
  (process, database or Redis fails between two awaits), `rpc` (a call fails,
  before or after it took effect), `evict` (the node drops a transaction), `void`
  (the operation stops validating: it expired, or its account used the nonce).
  `void` is also how the 180 s window enters `Relayer`, which has no clock.
* **`Journey`** adds a clock to `Relayer`'s actions and disables some of them: a
  check is taken when its delay is over, `void` happens at `validUntil`, a submit
  call is made once the operation is sponsored. `Tick` waits for everything that is
  due (`Quiet`), a check at most `Latency` ticks. Timers count down, so time is
  unbounded and the state space is finite. `StageAfter` is the condition of the
  demo's polling loop; `answer` keeps the last response, which may be older than
  the row.
* **`Deployment`** takes a request or a check as one action, since their
  interleavings are in `Relayer`, and the steps of the shell scripts one by one.
  A contract address is the nonce of the deployer that created it: a chain that
  starts anew gives the same addresses to the same sequence of transactions.
  `on`, in an environment, an account or a row, is history: the chain it was made on.
  contracts-deploy is on turn (`OnTurn`) as long as the deployer's nonce is the one it
  simulated; once it has broadcast, its chain must also be the one it began on.
* **`Policies`**: a row's index is its `createdAt` order; an address has a
  spelling, lower case or not, because the query compares stored strings.
* **`Sponsorship`**: `key` is fixed in `Upsert`, where the code takes the UTC day;
  `validUntil` in `Sign`. A hash is the tuple it is computed from.
* **`RateLimit`** keeps in a counter the seconds it has left, and a count up to
  max + 1: beyond that the code does not tell counts apart. `passed` is a history
  variable: how many requests got through in the last `age + 1` seconds.
* **`RequestPipeline`**: `Unparsable` comes before the middleware, guards before
  the interceptor, the interceptor's log before the filter, as NestJS runs them. The
  body parser refuses with an exception that has a status (a syntax error) or with one
  that the filter turns into a 500 (a body that is too large). An
  await of the rate-limit guard has three outcomes (`Enforce`): the request goes on
  (`LetThrough`), is past the limit (`TooMany`, 429), or Redis rejects the script
  (`EvalFails`), which nothing catches: 500, and that tier has not counted. `Tick`,
  `CountedTwice` and any other request may come between the two awaits.
* **`PackedUserOp`** takes `keccak256`, `abi.encode` and ECDSA as injective. The
  packing of two 128-bit halves into a word is arithmetic, on halves of `Half`
  values; a value that does not fit makes the API's encoding throw.

## 3. Runs

| Run | Question | Finds |
|---|---|---|
| `relayer_races` | Two calls submit one operation; two workers; every fault. Who watches the row, and what may it say? | `WatchedAtMostOnce`, `CheckMatchesRow`, `ConfirmedIsMined`, `BumpsBounded` hold, and the rows implement `Lifecycle` |
| `relayer_two_ops` | Two operations share the relayer's nonces; no crash. | no operation competes with itself (`NoCompetingTx`), a bump outbids the row's transaction at its nonce (`ReplacesRowTx`), SUBMITTED rows are watched, checks end |
| `relayer_redelivery` | BullMQ runs a check twice, with every other fault. | CONFIRMED and "reverted" stay true (`SettledAsMined`) |
| `journey` | A client sponsors, submits and polls, against the clock, with a check that may run twice. | answers stay true (`AnswersAreTrue`), checks are over by their deadline (`SettledByDeadline`), an operation mined before its first check is not taken for failed (`MinedInTimeIsNotFailed`) and is seen (`MinedInTimeIsSeen`) |
| `deployment` | The stack goes up, down and crashes, over what older chains left behind. | an API serves from live contracts (`ServesLiveContracts`), one seeded policy (`SeededOnce`), redeployment keeps grants (`GrantHolds`), CONFIRMED is executed while the chain lasts (`ConfirmedWasExecuted`), the API comes up (`ApiComesUp`) |
| `sponsor_quota` | Four calls of two wallets, two days, half-failing awaits. | counters exact and bounded, stored operations bounded, hashes unique, wallets independent |
| `sponsor_policies` | Operators edit policies while calls are decided. | scoped before wildcard, oldest wildcard stable |
| `request_pipeline` | Two requests at a time, all routes, expiring windows, and calls to Redis that are resent or rejected. | the limiter fails closed: no work of the sponsor handler without both tiers (`SponsorCountedFirst`); bursts below 2 max (`BurstBound`), lockouts end (`LockoutEnds`), one log line that says what was answered for each request the guards let on, and none for the others (`LogMatchesAnswer`) |
| `paymaster_signatures` | Keys rotate, time passes, bundles mix fields and windows. | paid exactly what was sponsored, sponsorships honoured, hashes identify |
| `stuck_not_transient`, `exhausted_yet_executed`, `mixed_case_policy` | Is what a comment or a document says true of the code? | a counterexample each: section 7 |

### Bounds, and why they are enough

* `MaxNonce = 1`: two relayer nonces. Two submit calls can take different
  nonces or the same one, and an evicted nonce can be given away.
* `MaxAttempts` 1 or 2: with 2 a row is stuck, resubmitted, stuck again and
  resubmitted to the limit; with 1 the limit is met at once. `relayer_races`
  reaches a depth of 38 steps.
* `MarketFees`: 100, and in `relayer_races` 115 as well, the fee of one bump of
  15 percent, so that a second submit may or may not outbid the first. In
  `relayer_two_ops` it is 26, whose bump of 29.9 is rounded to 29, still above the 28.6
  a node asks for.
* `journey`: a tick is 15 s, rounded: a delay of 3 for 45 s, and 5 polls, one a
  tick, so that the first check (at most one tick late) comes within the client's
  patience and the second may not. `ValidFor = 5` lets the sponsorship expire
  between the first check and the second. The same properties hold with ticks of 5 s and the
  defaults of the configuration (delay 9, 10 polls, validity 36), in 460,000 states.
* `deployment`: three starts and two new chains: addresses in the volume are of the
  chain before or the one before that, and a chain may be replaced while
  contracts-deploy works, while the API boots and while an operation is pending. One crash of the API or of
  contracts-deploy at any step. The properties also hold with two crashes, and with
  two demo clients on two chains (each up to a million states).
* `MaxStalls = 1`: one redelivery gives two runs of one check, by either a dead
  or a live first worker.
* Two workers: a check can overlap any other. Two submit calls for one
  operation in the races, one per operation in `relayer_two_ops`.
* `SecondsPerDay = 2`, `MaxTime = 2`: one midnight, with a second before it and
  one at it. Quotas 1 and 2 for up to three calls of a wallet: above, at and below.
* `MaxPolicies = 3`: a scoped policy and two wildcards, in any order.
* `IpMax = 2`, `WalletMax = 1`, windows of 2: a window can start, fill, refuse and
  expire between the awaits of two requests. Time is not bounded here.
* `Half = 4`: each half has four values; the packed fields collide when they
  are exchanged or run over. `MaxIssued = 2`, `MaxTime = 3`, two keys on each side:
  two sponsorships of the same or different operations, one expired, one not,
  signed with different keys. The proofs have none of these bounds.

`CHECK_DEADLOCK FALSE` stands where the system may rest: all calls made, all
checks done, the clock at its bound, the stack at the bounds of its restarts.
`request_pipeline`, `paymaster_signatures` and `journey` never rest and are checked
for deadlock; in `journey` that means that time can always go on.

### Fairness

* `Relayer!FairSpec`: weak fairness of each started request and each worker, as
  Node runs a continuation and BullMQ a due job. No fairness of clients (they
  need not submit), of the chain (it need not mine) or of faults. `ChecksEnd` needs
  no more: it holds if nothing is ever mined.
* `Relayer!MiningSpec` adds fairness of the chain. It is used only by
  `stuck_not_transient`, where it rules out the excuse that nothing was mined.
* `Journey!FairJourney`: time passes; started requests, due checks, a client that is
  awake and the expiry of a sponsorship have their turn. Nothing obliges a client to submit, or
  the chain to mine: `MinedInTimeIsSeen` is about operations that were mined.
* `Deployment!FairDeployment`: containers that were started run, and compose starts
  the API when contracts-deploy has succeeded. Nobody has to start or use the stack;
  `ApiComesUp` is about what happens once it is left alone.
* `RequestPipeline!FairSpec`: time passes. Nothing is assumed of clients, so
  that `LockoutEnds` covers a client that never stops asking.

## 4. Proofs

All hold for any number of operations, calls, workers, wallets, keys and times,
under the modules' named assumptions on constants, which are the ranges the
configuration enforces.

* **`RelayerProofs`.** `TypeCorrect` and `SettledCorrect` hold with every fault and
  any number of redeliveries. `SettledCorrect` rests on `SettledInv`: a run that is
  about to settle a row holds a receipt, and receipts do not go away.
  `OneWatcher`, `ChecksMatch`, `AttemptsBounded`, `ConfirmedCorrect` and `Implements`
  assume `MaxStalls = 0`, that is, that BullMQ does not redeliver a check. The
  repository keeps BullMQ's default, which allows one redelivery: these theorems
  describe runs in which no worker stalls for as long as its lock lasts.
  `WatchedAtMostOnce` is not inductive: what makes a watcher unique is that a
  row leaves SUBMITTED only by the run that watches it. `WatchInv` says so
  (every watcher's row is SUBMITTED, two watchers are one, and each looks for
  the row's transaction); only the two UPDATEs that accept STUCK create one, and
  a STUCK row has none. `BoundInv` adds that the `bumpCount` a run compared is
  still the row's when it is incremented three awaits later. `Implements` maps
  each step to a step of `Lifecycle` or a stutter, from these.
* **`SponsorshipProofs`.** `QuotaCorrect`: the counter is the cardinality of the set
  of calls that paid with it; the conditional UPDATE adds one element and one to
  the count. Operators add and deactivate policy rows meanwhile; a row whose quota is
  edited is not modelled (nothing in the repository does it).
  `StoredCorrect` strengthens it with a map from stored operations back to calls
  (`StoredInv`): an operation on file has a call that paid for it. `QuotaIndependent`:
  a denied call met a full counter of its own wallet and policy, which has not gone down
  since (`DenyInv`), and by `QuotaHolds` as many calls of that wallet paid. The two policy theorems
  are about `find`, which takes the oldest row that qualifies: `WFMin` gives that row in a
  table of any size, and a row that is appended is not it. `ScopedFirst` assumes that no stored target is in
  checksum spelling, which nothing in the code enforces: `mixed_case_policy` shows what
  happens otherwise.
* **`PipelineProofs`.** The invariant `StageInv` says which counters a request has
  passed at each stage, that one that is handled is past its guards (`PastGuards`), and
  that it has no log line before it is answered.
  `PipelineTypeCorrect` contains the fact that no counter lacks an expiry.
  `CountedCorrect`: at each await of the guard a request either goes on with one more
  counter passed or is answered 429 or 500 there (`EnforceEffect`), also if Redis fails, and
  the wallet the guard counted is the one of the body that is validated later.
  `LogCorrect`: the interceptor and the filter resolve an exception alike
  (`HandledEffect`), and a request refused before has a counter to pass yet
  (`TiersMissing`) or no route that lets it on. `BurstCorrect` needs to know how a window's counter relates to
  what was let through (`BurstInv`): since the window began at most as many as it has
  counted, and before that at most max - 1, because the request that opened an earlier
  window has left a span of a window's length when the next can open.
* **`PaymasterProofs`.** `PackRoundTrip`: for halves of any width, high and low parts
  come back from the word. `DigestBinds`: the contract's digest of a packed
  operation determines the fields. From `KeysInv` (a signature is by a real key),
  `RowInv` (rows are what `sign` makes) and `PaidInv` the four properties follow. `KeysInv`
  needs the contract's refusal of the zero address as a signer, in the constructor
  and in `setVerifyingSigner`.
* **`ResubmissionProofs`.** `SubmittedWatched` assumes that no process dies between two
  awaits (no `abort`), and nothing else: RPC calls may fail, calls race and checks be
  redelivered. Every step that takes the last watcher of a row away settles the row,
  marks it STUCK or leaves another watcher. `NonceKept` assumes that each operation is
  submitted once: `NonceInv` says that whatever was sent for it, is on file or is in
  a run's hands has the nonce its request was given, and a nonce has one pending
  transaction. `ReplacesCorrect` assumes this, no redelivery, and `FeesBumpable`:
  `BumpSuffices` shows that a bump with integer division reaches the node's
  threshold once `fee * (BumpPercent - PriceBump) >= 99`, with 15 and 10 percent
  from 20 wei on. The condition is needed: the configuration accepts any positive
  `GAS_BUMP_PERCENT`, and below it a node may refuse each replacement and the row
  stays STUCK.
* **`JourneyProofs`.** `JourneyRefines`: each step of `Journey` is one of `Relayer` or
  leaves its variables alone, so `SettledCorrect` carries over (`JourneySettled`),
  for any delays and any number of redeliveries. `AnswersCorrect` uses
  it: an answer is a true row when it is read, and what makes it true, a mined
  transaction, stays mined (`MinedGrows`). `JourneyTypeCorrect` rests on `ClientInv`: no
  queued check is later than `Latency`, which `Quiet` in `Tick` guarantees, and no
  client that polls has used up its polls.
* **`ClockProofs`.** No assumption beyond the modules' own. `OnceInv`: a sponsored operation has
  one client, which submits it once, so `NonceKept` applies (`JourneyNonceKept`) without
  its hypothesis. `DeadlineKept` counts: for an operation whose checks are not disturbed,
  exactly one of a submit call, a queued check and a run works at a time (`Sole`), and what is there
  accounts for its age (`Timely`): `bumps` whole periods of delay and latency, plus the
  part of the present one that has passed. An operation that is
  disturbed may fare as badly as it likes; the others are still bounded. `MinedInTimeNotFailed`
  joins three facts: before the first check is due nothing has been resubmitted, so what
  is mined is the transaction the check will ask for (`Early`); an operation mined that early is
  settled as CONFIRMED by its first check (`Prompted`); and a client that polls has polled
  no more often than the operation is old (`Patient`), so with
  `CheckDelay + Latency < MaxPolls`, which the defaults satisfy, it is still there.
* **`DeploymentProofs`.** `ServedCorrect` follows the addresses from the chain to
  the environment. `DeployInv`: what contracts-deploy has built so far is on the
  chain, and that chain is gone only if it died by itself. `AddressInv`: addresses
  written for the chain there is name its contracts, and an API that was started
  has no others. The wait for `service_completed_successfully` is what preserves it.
  `GrantsHold` and `ConfirmedOnItsChain` rest on `RowInv`: a row signed on this chain
  names contracts that are live on it, one whose transaction is unsent has not been
  executed, and a job looks for a transaction of its row.
  `SeedIdempotent` rests on `SeedInv`: a boot that is about to create found nothing.

Every invariant and every action property of a passing run is thus stated by a theorem.
Liveness (`ChecksEnd`, `LockoutEnds`, `MinedInTimeIsSeen`, `ApiComesUp`) is outside what
the prover can do and is only model-checked; of `MinedInTimeIsSeen` the safety half,
`MinedInTimeIsNotFailed`, is proved. The runs that find a violation show a property false
of the code, and have no theorem.

## 5. What the properties say about the code

* A SUBMITTED row that loses its queued check is lost: nothing sweeps the table.
  `SubmittedIsWatched` therefore is checked without `abort`. With it, `queue.add`
  failing after `markSubmitted` breaks it.
* An error of the receipt call is treated as "not mined": a mined operation is
  marked STUCK and rebroadcast. `SettledAsMined` holds nevertheless; the row may be
  left STUCK.
* With a redelivery at the wrong moment a row can have two watchers and be bumped
  once more than allowed. Only `SettledAsMined` survives, and is proved for it.
* When Redis rejects the limiter's script the sponsor route answers 500 and does
  nothing: the limiter fails closed. The ip tier may have counted the request already;
  that is not given back. While Redis cannot be reached at all the request waits.
* `BurstBound` states what a fixed window gives: up to 2 max - 1 requests in a
  window's length, not max.
* `SettledByDeadline`: with the defaults a row is SUBMITTED for at most
  (5 + 1) * 45 s and what the workers are late, unless a check was run twice or missed a
  receipt; of
  the resubmissions, the last comes at 225 s, after the sponsorship has expired.
* `MinedInTimeIsSeen` holds because 45 s are less than the client's 50 s: only one
  check comes in time. An operation mined between 45 s and 50 s, or whose check
  met an RPC error, is reported as not confirmed although it was executed.
* `ServesLiveContracts` and `ConfirmedWasExecuted` name the chains they hold for. When
  anvil restarts by itself nothing deploys the contracts again: the API
  goes on with addresses that have no code, the admin status fails, and a
  `handleOps` sent to such an address succeeds without doing anything, so that the
  row is CONFIRMED. On chains that outlive their operations this does not happen.
* `ApiComesUp` assumes that the file holds addresses in the end: if contracts-deploy
  dies between truncating and writing it, the API restarts forever.
* The quota is used up by calls that end in a 409 or a 500, and is not given back:
  `QuotaHolds` counts calls, `OpsWithinQuota` operations.

## 6. Plan

Done, in this order: rows and relayer (the most concurrent part), sponsorship and
quota, rate limit and pipeline, packing and contract, and their proofs; then the
relayer under a clock and with its clients (`Journey`), and the stack's life
(`Deployment`), with theirs.

Next, the model:

1. `Sponsorship` composed with `VerifyingPaymaster` and `Journey`: an operation that
   the API granted is one the contract accepts when it is submitted in time;
2. Redis losing its counters or its queue on a restart; waiting while it is down;
3. `BasePaymaster`'s deposit, and operations that fail when it runs out.

Next, the proofs: what of `ConfirmedIsMined` and `BumpsBounded` is left under redelivery (how
many bumps more than `MAX_GAS_BUMP_ATTEMPTS` `MaxStalls` redeliveries can cause), and
`SettledByDeadline` for operations whose RPC calls failed but whose checks ran once.

## 7. Where the code and its text differ

| Run | The text | The code |
|---|---|---|
| `stuck_not_transient` | STUCK is "a transient branch off SUBMITTED" (`schema.prisma`) | if the first transaction is mined before the replacement is broadcast, the node answers "nonce too low", the job fails and the row stays STUCK |
| `exhausted_yet_executed` | "Exceeded max gas-bump attempts (N) without confirmation" | only the latest hash is looked up: an operation that an earlier transaction executed, or that is mined between two awaits, is FAILED for this reason |
| `mixed_case_policy` | a scoped policy "takes precedence" over the wildcard | a target stored in checksum spelling is never a candidate, as the query lower-cases only the request |

Noticed while modelling, without a run of their own:

* Two submit calls that both read PENDING broadcast at two nonces, although
  `src/README.md` says of a bump that a new nonce "would just create a second competing
  transaction". `NoCompetingTx` therefore is checked for operations submitted once;
  with `relayer_races`' constants it is violated.
* A second submit call can be answered with success after a check moved the row to
  STUCK; after an eviction a rebroadcast may throw out another operation's
  transaction at the same nonce.
* The configuration accepts a `GAS_BUMP_PERCENT` below what nodes ask of a replacement,
  and delays and attempts that outlast the sponsorship; the defaults do.
* `logging.interceptor.ts` says "Every request logs exactly one access-log line here,
  success or failure", and `apps/api/README.md` "a request that 429s is exactly as
  traceable by its correlation ID as one that succeeds". Interceptors run after guards
  and only on matched routes: what a guard (429 or 500 of the limiter, 401, 503) or
  the router (404) refuses has a correlation id and no line. `LogMatchesAnswer` says
  so, and `LogCorrect` proves it. Only the quota's 429 has its line.
* The error answer to a malformed body has no log line and no correlation id:
  the body parser comes before the middleware. A body that is too large is answered with a
  500, as the parser's error is no HttpException.
* `src/README.md` has the demo poll "until the UserOperation is `CONFIRMED`"; it polls for
  50 s, in which one check is due.
* `docker-compose.yml` says of anvil "Fresh state every restart - contracts-deploy
  (below) redeploys EntryPoint + VerifyingPaymaster from scratch each time"; anvil has
  `restart: unless-stopped`, and contracts-deploy runs only when compose is brought up.
* `apps/api/README.md` has the addresses change on every `docker compose up`; on a
  fresh chain they are the same again, and an API that runs through a second `up`
  keeps those it loaded.
* `apps/api/README.md` has SIGTERM trigger Nest's shutdown hooks, which `main.ts` does
  not enable.

## 8. Not modelled, or in part

* Reorganisations of a chain that goes on, gas accounting, a deposit that runs out,
  stake: the code takes the first receipt as final, and `BasePaymaster` is a vendored
  submodule.
* The regular expressions of the DTOs: a request is valid or not, plus the one
  gap that reaches further code (values of 2^128 or more pass validation and
  make the encoding throw).
* One chain id. Of the configuration only the addresses change, and only in
  `Deployment`; keys change in `VerifyingPaymaster`.
* Two API containers on one database; the compose file starts one.
* Health endpoint, Swagger, logger formatting, construction of clients and
  signers, dashboard: wiring or output without state.
* `DeployEntryPoint.s.sol` and the branch of `DeployPaymaster.s.sol` for public
  networks, which are run by hand.
* In `Journey` a request or an RPC call takes no time on the clock's scale, and the
  time for which a redelivered check was stalled is not counted.

## 9. Running it

```
tlc -config relayer_races.cfg MCRelayer.tla
tlapm RelayerProofs.tla
```

Each run's module and configuration are in `PROJECT.json`. The largest runs take
one to two minutes; `RelayerProofs`, `ResubmissionProofs` and `ClockProofs` a few minutes
each, the other proofs less.
