------------------------------ MODULE Relayer -------------------------------
(***************************************************************************)
(* RelayerService.submit, ConfirmationCheckProcessor and the BullMQ queue  *)
(* between them, over the user_operations table and the chain.             *)
(*                                                                         *)
(* A Request is one POST of a signed operation; each of its awaits is an   *)
(* action.  A Worker is one BullMQ worker, running one delayed check at a  *)
(* time; each await of process() is an action.  Whatever was read before   *)
(* an await is kept in the request or the worker, and may be stale after.  *)
(***************************************************************************)
EXTENDS UserOpStateMachine, Chain

CONSTANTS
    Requests,     \* the submit calls that will be made
    OpOf,         \* the operation each of them names
    Workers,      \* the BullMQ workers of all API replicas
    MarketFees,   \* what estimateFeesPerGas may answer
    BumpPercent,  \* GAS_BUMP_PERCENT
    MaxAttempts,  \* MAX_GAS_BUMP_ATTEMPTS
    MaxNonce,     \* bound: relayer nonces beyond it are not handed out
    MaxStalls,    \* how often BullMQ redelivers a check whose run stalled
    Faults,       \* which faults happen, of the four below
    NoJob         \* what an idle worker runs

Jobs == [op : Ops, tx : Txs, stalls : 0 .. MaxStalls]

ASSUME ConstantsAssumption ==
    /\ OpOf \in [Requests -> Ops]
    /\ MarketFees \subseteq Nat
    /\ BumpPercent \in Nat
    /\ MaxAttempts \in Nat \ {0}
    /\ MaxNonce \in Nat
    /\ MaxStalls \in Nat
    /\ Faults \subseteq {"abort",   \* a database, Redis or process failure
                         "rpc",     \* an RPC call fails or loses its answer
                         "evict",   \* the node drops a pending transaction
                         "void"}    \* the operation stops validating
    /\ NoJob \notin Jobs

VARIABLES
    pc,      \* where each request is
    reqTx,   \* the transaction each request prepared
    jobs,    \* the delayed checks in the queue, [op, tx, stalls]
    phase,   \* where each worker's run is
    job,     \* the check each worker is running
    seen,    \* the transaction in the row each run loaded
    bumped   \* the replacement each run broadcast

rVars == <<pc, reqTx>>
wVars == <<phase, job, seen, bumped>>
vars == <<row, chainVars, rVars, jobs, wVars>>

RequestPhases == {"idle", "read", "prepared", "sent", "marked",
                  "accepted", "rejected", "conflict", "error"}
RunPhases == {"idle", "check", "confirm", "revert", "load", "giveup",
              "stick", "rebroadcast", "remark", "requeue"}

TypeOK ==
    /\ RowTypeOK
    /\ ChainTypeOK
    /\ pc \in [Requests -> RequestPhases]
    /\ reqTx \in [Requests -> Txs \cup {NoTx}]
    /\ \A r \in Requests :
         pc[r] \in {"prepared", "sent", "marked"} => reqTx[r] \in Txs
    /\ jobs \subseteq Jobs
    /\ phase \in [Workers -> RunPhases]
    /\ job \in [Workers -> Jobs \cup {NoJob}]
    /\ seen \in [Workers -> Txs \cup {NoTx}]
    /\ bumped \in [Workers -> Txs \cup {NoTx}]
    /\ \A w \in Workers :
         /\ phase[w] # "idle" => job[w] \in Jobs
         /\ phase[w] \in {"giveup", "stick", "rebroadcast"} => seen[w] \in Txs
         /\ phase[w] \in {"remark", "requeue"} => bumped[w] \in Txs

Init ==
    /\ RowInit
    /\ ChainInit
    /\ pc = [r \in Requests |-> "idle"]
    /\ reqTx = [r \in Requests |-> NoTx]
    /\ jobs = {}
    /\ phase = [w \in Workers |-> "idle"]
    /\ job = [w \in Workers |-> NoJob]
    /\ seen = [w \in Workers |-> NoTx]
    /\ bumped = [w \in Workers |-> NoTx]
-----------------------------------------------------------------------------
(* POST of a signed operation: RelayerService.submit. *)

Goto(r, from, to) ==
    /\ pc[r] = from
    /\ pc' = [pc EXCEPT ![r] = to]

\* findUnique: only a PENDING row goes on; no row is a 404, another a 409.
Submit(r) ==
    /\ \/ row[OpOf[r]].status = "PENDING" /\ Goto(r, "idle", "read")
       \/ row[OpOf[r]].status # "PENDING" /\ Goto(r, "idle", "rejected")
    /\ UNCHANGED <<row, chainVars, reqTx, jobs, wVars>>

\* The Promise.all: fees, the pending nonce and a gas estimate that succeeds.
Prepare(r) ==
    /\ Goto(r, "read", "prepared")
    /\ ~WouldRevert(OpOf[r])
    /\ \E n \in 0 .. MaxNonce, f \in MarketFees :
         /\ IsPendingNonce(n)
         /\ reqTx' = [reqTx EXCEPT ![r] = [op |-> OpOf[r], nonce |-> n, fee |-> f]]
    /\ UNCHANGED <<row, chainVars, jobs, wVars>>

\* The estimate reverts (the operation or its signature is not valid), or
\* one of the three calls fails.
PrepareFails(r) ==
    /\ Goto(r, "read", "error")
    /\ UNCHANGED <<row, chainVars, reqTx, jobs, wVars>>

Broadcast(r) ==
    /\ Goto(r, "prepared", "sent")
    /\ Send(reqTx[r])
    /\ UNCHANGED <<row, reqTx, jobs, wVars>>

\* writeContract throws: refused by the node, or failed on the way there
\* or on the way back.
BroadcastFails(r) ==
    /\ Goto(r, "prepared", "error")
    /\ \/ ~Accepts(reqTx[r]) /\ UNCHANGED chainVars
       \/ "rpc" \in Faults /\ UNCHANGED chainVars
       \/ "rpc" \in Faults /\ Send(reqTx[r])
    /\ UNCHANGED <<row, reqTx, jobs, wVars>>

MarkFirst(r) ==
    /\ Goto(r, "sent", "marked")
    /\ MarkSubmitted(OpOf[r], reqTx[r], 0)
    /\ UNCHANGED <<chainVars, reqTx, jobs, wVars>>

MarkFirstConflicts(r) ==
    /\ Goto(r, "sent", "conflict")
    /\ TransitionConflicts(OpOf[r], SubmittableFrom)
    /\ UNCHANGED <<chainVars, reqTx, jobs, wVars>>

\* queue.add with a delay, then the response, or an error when the row
\* cannot be read once more for it.
Enqueue(r) ==
    /\ \/ Goto(r, "marked", "accepted")
       \/ "abort" \in Faults /\ Goto(r, "marked", "error")
    /\ jobs' = jobs \cup {[op |-> OpOf[r], tx |-> reqTx[r], stalls |-> 0]}
    /\ UNCHANGED <<row, chainVars, reqTx, wVars>>

\* The process dies, or the database or Redis fails, between two awaits.
SubmitAborts(r) ==
    /\ "abort" \in Faults
    /\ pc[r] \in {"read", "prepared", "sent", "marked"}
    /\ pc' = [pc EXCEPT ![r] = "error"]
    /\ UNCHANGED <<row, chainVars, reqTx, jobs, wVars>>
-----------------------------------------------------------------------------
(* A delayed check: ConfirmationCheckProcessor.process and handleStuck. *)

Enter(w, from, to) ==
    /\ phase[w] = from
    /\ phase' = [phase EXCEPT ![w] = to]

\* The job is over, completed or failed: a failed check is not retried.
EndRun(w) ==
    /\ phase' = [phase EXCEPT ![w] = "idle"]
    /\ job' = [job EXCEPT ![w] = NoJob]
    /\ seen' = [seen EXCEPT ![w] = NoTx]
    /\ bumped' = [bumped EXCEPT ![w] = NoTx]

\* Any free worker picks up any check whose delay is over.
Take(w, j) ==
    /\ Enter(w, "idle", "check")
    /\ jobs' = jobs \ {j}
    /\ job' = [job EXCEPT ![w] = j]
    /\ UNCHANGED <<row, chainVars, rVars, seen, bumped>>

\* Mutant: the receipt's status is not looked at.
CheckReceiptIgnoresStatus(w) ==
    /\ phase[w] = "check"
    /\ \/ Mined(job[w].tx) /\ Enter(w, "check", "confirm")
       \/ ~Mined(job[w].tx) /\ Enter(w, "check", "load")
       \/ "rpc" \in Faults /\ Enter(w, "check", "load")
    /\ UNCHANGED <<row, chainVars, rVars, jobs, job, seen, bumped>>

\* Mutant: a used-up nonce is taken for a mined transaction.
CheckReceiptByNonce(w) ==
    /\ phase[w] = "check"
    /\ \/ job[w].tx.nonce < nextNonce /\ Enter(w, "check", "confirm")
       \/ job[w].tx.nonce >= nextNonce /\ Enter(w, "check", "load")
       \/ "rpc" \in Faults /\ Enter(w, "check", "load")
    /\ UNCHANGED <<row, chainVars, rVars, jobs, job, seen, bumped>>

\* Mutant: a failed receipt call fails the job.
CheckReceiptThrows(w) ==
    /\ phase[w] = "check"
    /\ \/ MinedOk(job[w].tx) /\ Enter(w, "check", "confirm") /\ UNCHANGED <<job, seen, bumped>>
       \/ MinedReverted(job[w].tx) /\ Enter(w, "check", "revert") /\ UNCHANGED <<job, seen, bumped>>
       \/ ~Mined(job[w].tx) /\ Enter(w, "check", "load") /\ UNCHANGED <<job, seen, bumped>>
       \/ "rpc" \in Faults /\ EndRun(w)
    /\ UNCHANGED <<row, chainVars, rVars, jobs>>

\* getTransactionReceipt(...).catch(() => null): a failed call looks like a
\* transaction that is not mined.
CheckReceipt(w) ==
    /\ phase[w] = "check"
    /\ \/ MinedOk(job[w].tx) /\ Enter(w, "check", "confirm")
       \/ MinedReverted(job[w].tx) /\ Enter(w, "check", "revert")
       \/ ~Mined(job[w].tx) /\ Enter(w, "check", "load")
       \/ "rpc" \in Faults /\ Enter(w, "check", "load")
    /\ UNCHANGED <<row, chainVars, rVars, jobs, job, seen, bumped>>

Confirm(w) ==
    /\ phase[w] = "confirm"
    /\ MarkConfirmed(job[w].op)
    /\ EndRun(w)
    /\ UNCHANGED <<chainVars, rVars, jobs>>

Revert(w) ==
    /\ phase[w] = "revert"
    /\ MarkFailed(job[w].op, "reverted")
    /\ EndRun(w)
    /\ UNCHANGED <<chainVars, rVars, jobs>>

\* Mutant: one attempt too many.
LoadRowOffByOne(w) ==
    /\ phase[w] = "load"
    /\ LET r == row[job[w].op] IN
         /\ \/ r.bumps > MaxAttempts /\ Enter(w, "load", "giveup")
            \/ r.bumps <= MaxAttempts /\ Enter(w, "load", "stick")
         /\ seen' = [seen EXCEPT ![w] = r.tx]
    /\ UNCHANGED <<row, chainVars, rVars, jobs, job, bumped>>

\* Mutant: the row's transaction is not kept.
LoadRowForgets(w) ==
    /\ phase[w] = "load"
    /\ \/ row[job[w].op].bumps >= MaxAttempts /\ Enter(w, "load", "giveup")
       \/ row[job[w].op].bumps < MaxAttempts /\ Enter(w, "load", "stick")
    /\ UNCHANGED <<row, chainVars, rVars, jobs, job, seen, bumped>>

\* handleStuck reads the row once; everything below uses this copy.
LoadRow(w) ==
    /\ phase[w] = "load"
    /\ LET r == row[job[w].op] IN
         /\ \/ r.bumps >= MaxAttempts /\ Enter(w, "load", "giveup")
            \/ r.bumps < MaxAttempts /\ Enter(w, "load", "stick")
         /\ seen' = [seen EXCEPT ![w] = r.tx]
    /\ UNCHANGED <<row, chainVars, rVars, jobs, job, bumped>>

GiveUp(w) ==
    /\ phase[w] = "giveup"
    /\ MarkFailed(job[w].op, "exhausted")
    /\ EndRun(w)
    /\ UNCHANGED <<chainVars, rVars, jobs>>

Stick(w) ==
    /\ Enter(w, "stick", "rebroadcast")
    /\ MarkStuck(job[w].op)
    /\ UNCHANGED <<chainVars, rVars, jobs, job, seen, bumped>>

BumpedFee(fee) == (fee * (100 + BumpPercent)) \div 100

\* Mutant: a new transaction in place of a replacement.
ReplacementAtNextNonce(w) == [op |-> job[w].op, nonce |-> seen[w].nonce + 1,
                              fee |-> BumpedFee(seen[w].fee)]

\* The same nonce and the fee of the loaded row, raised.
Replacement(w) == [op |-> job[w].op, nonce |-> seen[w].nonce,
                   fee |-> BumpedFee(seen[w].fee)]

Rebroadcast(w) ==
    /\ Enter(w, "rebroadcast", "remark")
    /\ Send(Replacement(w))
    /\ bumped' = [bumped EXCEPT ![w] = Replacement(w)]
    /\ UNCHANGED <<row, rVars, jobs, job, seen>>

\* writeContract throws: the job fails, and the row stays STUCK.
RebroadcastFails(w) ==
    /\ phase[w] = "rebroadcast"
    /\ \/ ~Accepts(Replacement(w)) /\ UNCHANGED chainVars
       \/ "rpc" \in Faults /\ UNCHANGED chainVars
       \/ "rpc" \in Faults /\ Send(Replacement(w))
    /\ EndRun(w)
    /\ UNCHANGED <<row, rVars, jobs>>

Remark(w) ==
    /\ Enter(w, "remark", "requeue")
    /\ MarkSubmitted(job[w].op, bumped[w], 1)
    /\ UNCHANGED <<chainVars, rVars, jobs, job, seen, bumped>>

\* Mutant: the next check looks for the replaced transaction.
RequeueOldTx(w) ==
    /\ phase[w] = "requeue"
    /\ jobs' = jobs \cup {[op |-> job[w].op, tx |-> job[w].tx, stalls |-> 0]}
    /\ EndRun(w)
    /\ UNCHANGED <<row, chainVars, rVars>>

\* Mutant: a resubmission schedules no check.
RequeueForgotten(w) ==
    /\ phase[w] = "requeue"
    /\ EndRun(w)
    /\ UNCHANGED <<row, chainVars, rVars, jobs>>

Requeue(w) ==
    /\ phase[w] = "requeue"
    /\ jobs' = jobs \cup {[op |-> job[w].op, tx |-> bumped[w], stalls |-> 0]}
    /\ EndRun(w)
    /\ UNCHANGED <<row, chainVars, rVars>>

\* A transition throws its ConflictException: the job fails.
CheckConflicts(w) ==
    /\ \/ /\ phase[w] \in {"confirm", "revert", "giveup"}
          /\ TransitionConflicts(job[w].op, SettleableFrom)
       \/ /\ phase[w] = "stick"
          /\ TransitionConflicts(job[w].op, {"SUBMITTED"})
       \/ /\ phase[w] = "remark"
          /\ TransitionConflicts(job[w].op, SubmittableFrom)
    /\ EndRun(w)
    /\ UNCHANGED <<chainVars, rVars, jobs>>

\* The database or Redis fails under a run: the job fails.
CheckAborts(w) ==
    /\ "abort" \in Faults
    /\ phase[w] # "idle"
    /\ EndRun(w)
    /\ UNCHANGED <<row, chainVars, rVars, jobs>>

\* BullMQ takes a worker that stopped renewing its lock for dead and queues
\* its job once more; the worker may have died, or may go on.
Redeliver(w) ==
    /\ phase[w] # "idle"
    /\ job[w].stalls < MaxStalls
    /\ jobs' = jobs \cup {[job[w] EXCEPT !.stalls = @ + 1]}
    /\ \/ EndRun(w)
       \/ job' = [job EXCEPT ![w].stalls = @ + 1] /\ UNCHANGED <<phase, seen, bumped>>
    /\ UNCHANGED <<row, chainVars, rVars>>
-----------------------------------------------------------------------------
\* PaymasterService.sponsor stores op as PENDING.
Sponsor(op) ==
    /\ Create(op)
    /\ UNCHANGED <<chainVars, rVars, jobs, wVars>>

ChainStep ==
    /\ \/ \E tx \in sent : Mine(tx)
       \/ "evict" \in Faults /\ \E tx \in pool : Evict(tx)
       \/ "void" \in Faults /\ \E op \in Ops : Void(op)
    /\ UNCHANGED <<row, rVars, jobs, wVars>>

RequestStep(r) ==
    \/ Prepare(r) \/ PrepareFails(r)
    \/ Broadcast(r) \/ BroadcastFails(r)
    \/ MarkFirst(r) \/ MarkFirstConflicts(r)
    \/ Enqueue(r)

RunStep(w) ==
    \/ \E j \in jobs : Take(w, j)
    \/ CheckReceipt(w) \/ Confirm(w) \/ Revert(w)
    \/ LoadRow(w) \/ GiveUp(w) \/ Stick(w)
    \/ Rebroadcast(w) \/ RebroadcastFails(w)
    \/ Remark(w) \/ Requeue(w) \/ CheckConflicts(w)

Next ==
    \/ \E op \in Ops : Sponsor(op)
    \/ \E r \in Requests : Submit(r) \/ RequestStep(r) \/ SubmitAborts(r)
    \/ \E w \in Workers : RunStep(w) \/ CheckAborts(w) \/ Redeliver(w)
    \/ ChainStep

Spec == Init /\ [][Next]_vars

\* Node's event loop runs every started request and BullMQ every due check.
\* Nothing obliges a client to submit, or the chain to mine.
FairSpec ==
    /\ Spec
    /\ \A r \in Requests : WF_vars(RequestStep(r))
    /\ \A w \in Workers : WF_vars(RunStep(w))
-----------------------------------------------------------------------------
(* What the queue guarantees the rows. *)

\* Phases in which a run still answers for the operation: whatever it does
\* next either settles the row, moves it to STUCK or queues another check.
WatchPhases == {"check", "confirm", "revert", "load", "giveup", "stick", "requeue"}

JobsFor(op) == {j \in jobs : j.op = op}
SubmitsFor(op) == {r \in Requests : pc[r] = "marked" /\ OpOf[r] = op}
RunsFor(op) == {w \in Workers : phase[w] \in WatchPhases /\ job[w].op = op}

\* Whatever will yet look at op's transaction: a queued check, a submit call
\* about to queue one, a run in progress.
Watchers(op) ==
    ({"job"} \X JobsFor(op)) \cup ({"submit"} \X SubmitsFor(op))
                             \cup ({"run"} \X RunsFor(op))

\* However many requests and workers act on a row, a SUBMITTED row has at
\* most one check pending or running, and any other row has none: no check
\* meets a row that another one moved (submit's markSubmitted and queue.add,
\* handleStuck's markStuck, markSubmitted and queue.add).
WatchedAtMostOnce ==
    \A op \in Ops :
        /\ \A a, b \in Watchers(op) : a = b
        /\ Watchers(op) # {} => row[op].status = "SUBMITTED"

\* Unless a process or Redis fails between the two calls, a row never
\* stays SUBMITTED with nothing left that would look at its transaction.
SubmittedIsWatched ==
    \A op \in Ops : row[op].status = "SUBMITTED" => Watchers(op) # {}

\* A pending check looks for the very transaction the row names, although
\* the job carries its own copy of the hash and the row is rewritten by
\* every resubmission and by late submits.
CheckMatchesRow ==
    /\ \A j \in jobs : j.tx = row[j.op].tx
    /\ \A r \in Requests : pc[r] = "marked" => reqTx[r] = row[OpOf[r]].tx
    /\ \A w \in Workers :
         /\ phase[w] \in WatchPhases \ {"requeue"} => job[w].tx = row[job[w].op].tx
         /\ phase[w] = "requeue" => bumped[w] = row[job[w].op].tx

\* A row is CONFIRMED only with a mined, successful transaction: the one the
\* status response names as submittedTxHash.
ConfirmedIsMined ==
    \A op \in Ops : row[op].status = "CONFIRMED" => MinedOk(row[op].tx)

\* CONFIRMED always means that the EntryPoint executed the operation, and
\* "Transaction reverted" that a transaction carrying it did revert, even
\* when checks are redelivered.
SettledAsMined ==
    \A op \in Ops :
        /\ row[op].status = "CONFIRMED" => Executed(op)
        /\ row[op].reason = "reverted" => \E m \in mined : m.tx.op = op /\ ~m.ok

\* bumpCount never passes MAX_GAS_BUMP_ATTEMPTS, although it is compared in
\* one await and incremented three awaits later.
BumpsBounded == \A op \in Ops : row[op].bumps <= MaxAttempts

\* A resubmission replaces the transaction the row named: same nonce, a fee
\* the node takes as a replacement (handleStuck works from a copy of the row).
ReplacesRowTx ==
    [][\A op \in Ops : row'[op].bumps # row[op].bumps =>
            /\ row'[op].tx.nonce = row[op].tx.nonce
            /\ Outbids(row'[op].tx, row[op].tx)]_vars

\* What a reader of the rows sees is the lifecycle the service promises.
Promise == INSTANCE Lifecycle WITH
    status <- [op \in Ops |-> row[op].status],
    bumps <- [op \in Ops |-> row[op].bumps],
    executed <- {op \in Ops : Executed(op)},
    reverted <- {op \in Ops : \E m \in mined : m.tx.op = op /\ ~m.ok}

\* Requests, workers and the chain together do to a row only what Lifecycle
\* says: a row leaves STUCK only for SUBMITTED, is CONFIRMED only when it was
\* executed, FAILED only when reverted or out of attempts, and then is final.
ImplementsLifecycle == Promise!Spec

\* Checks come to an end: every SUBMITTED row is eventually settled or left
\* STUCK, whether or not anything is ever mined.
ChecksEnd == <>[](\A op \in Ops : row[op].status # "SUBMITTED")

\* "a stuck resubmission reuses the exact same nonce (an EIP-1559 replacement,
\* not a brand-new transaction)": an operation never has two pending
\* transactions that compete.  (True of operations that are submitted once.)
NoCompetingTx ==
    \A op \in Ops : \A s, t \in pool : s.op = op /\ t.op = op => s = t
-----------------------------------------------------------------------------
(* What the comments and docs say, and the code does not do. *)

\* The chain mines what it can.
MiningSpec == FairSpec /\ WF_vars(ChainStep)

\* "STUCK as a transient branch off SUBMITTED while the gas-bumping worker
\* retries" (UserOperation in schema.prisma): a STUCK row always moves on.
StuckIsTransient ==
    \A op \in Ops : row[op].status = "STUCK" ~> row[op].status # "STUCK"

\* "Exceeded max gas-bump attempts (N) without confirmation": an operation
\* failed for that reason has not been executed.
ExhaustedMeansUnconfirmed ==
    [][\A op \in Ops : row[op].reason # "exhausted" /\ row'[op].reason = "exhausted"
            => ~Executed(op)]_vars
=============================================================================
