------------------------------ MODULE Journey ------------------------------
(***************************************************************************)
(* A client of the API from POST /paymaster/sponsor to the answer it goes  *)
(* away with, as scripts/demo.ts does it: sponsor, sign, submit, then poll *)
(* GET /userops/:hash a fixed number of times.  It composes Relayer with   *)
(* the clients and with the three timers that run against each other: the  *)
(* delay of a check, the client's patience, the sponsorship's validity.    *)
(*                                                                         *)
(* Time is counted in ticks; what a request or a check does takes no time  *)
(* on that scale, and every timer counts down, so that time never ends.    *)
(***************************************************************************)
EXTENDS Relayer

CONSTANTS CheckDelay,  \* STUCK_CHECK_DELAY_SECONDS, in ticks
          Latency,     \* how late a worker may start a due check
          MaxPolls,    \* the client's polls, one a tick
          ValidFor     \* SPONSOR_VALID_SECONDS, in ticks

\* "void": sponsorships do expire.  With the defaults of env.validation.ts
\* (45 s, 180 s) and demo.ts's 100 polls of 500 ms, a first check comes
\* before the client leaves and a second one after.
ASSUME TimersAssumption ==
    /\ CheckDelay \in Nat \ {0}
    /\ Latency \in Nat
    /\ MaxPolls \in Nat
    /\ ValidFor \in Nat
    /\ CheckDelay + Latency < MaxPolls
    /\ "void" \in Faults

VARIABLES
    stage,      \* where each client is in demo.ts
    answer,     \* the status response each client got last
    polls,      \* how often each client polled
    awake,      \* whether each client's 500 ms sleep is over
    due,        \* ticks until each queued check is due; negative when late
    valid,      \* ticks until each operation's validUntil
    age,        \* for how long each operation has been SUBMITTED
    prompt,     \* history: operations executed before their first check
    disturbed   \* history: operations one of whose checks was redelivered
                \* or met an RPC failure

clientVars == <<stage, answer, polls, awake>>
clockVars == <<due, valid, age>>
historyVars == <<prompt, disturbed>>
jVars == <<vars, clientVars, clockVars, historyVars>>

Stages == {"start", "sponsored", "waiting", "polling", "confirmed", "failed"}

NoAnswer == [status |-> Absent, tx |-> NoTx, bumps |-> 0, reason |-> "none"]

\* All the checks of an operation, each as late as it may be.
Deadline == (MaxAttempts + 1) * (CheckDelay + Latency)

JourneyTypeOK ==
    /\ stage \in [Requests -> Stages]
    /\ answer \in [Requests -> Rows]
    /\ polls \in [Requests -> 0 .. MaxPolls]
    /\ awake \in [Requests -> BOOLEAN]
    /\ due \in [jobs -> -Latency .. CheckDelay]
    /\ valid \in [Ops -> 0 .. ValidFor]
    /\ age \in [Ops -> 0 .. Deadline + 1]
    /\ prompt \subseteq Ops
    /\ disturbed \subseteq Ops

JourneyInit ==
    /\ Init
    /\ stage = [r \in Requests |-> "start"]
    /\ answer = [r \in Requests |-> NoAnswer]
    /\ polls = [r \in Requests |-> 0]
    /\ awake = [r \in Requests |-> FALSE]
    /\ due = [j \in {} |-> 0]
    /\ valid = [op \in Ops |-> ValidFor]
    /\ age = [op \in Ops |-> 0]
    /\ prompt = {}
    /\ disturbed = {}
-----------------------------------------------------------------------------
(* The client. *)

\* POST /paymaster/sponsor; validUntil is counted from here on.
AskSponsorship(r) ==
    /\ stage[r] = "start"
    /\ Sponsor(OpOf[r])
    /\ stage' = [stage EXCEPT ![r] = "sponsored"]
    /\ UNCHANGED <<answer, polls, awake, clockVars, historyVars>>

\* Mutant: one poll too many.
StageAfterOffByOne(status, n) ==
    IF status = "CONFIRMED" THEN "confirmed"
    ELSE IF status = "FAILED" \/ n > MaxPolls THEN "failed" ELSE "polling"

\* Mutant: the client leaves when the first check becomes due.
StageAfterImpatient(status, n) ==
    IF status = "CONFIRMED" THEN "confirmed"
    ELSE IF status = "FAILED" \/ n = CheckDelay THEN "failed" ELSE "polling"

\* What the client makes of a status it read after n polls.
StageAfter(status, n) ==
    IF status = "CONFIRMED" THEN "confirmed"
    ELSE IF status = "FAILED" \/ n = MaxPolls THEN "failed" ELSE "polling"

\* A submit that ends without a 200 ends the client.
Answered(r) ==
    CASE pc'[r] = "accepted" ->
            /\ answer' = [answer EXCEPT ![r] = row[OpOf[r]]]
            /\ stage' = [stage EXCEPT ![r] = StageAfter(row[OpOf[r]].status, 0)]
      [] pc'[r] \in {"rejected", "conflict", "error"} ->
            stage' = [stage EXCEPT ![r] = "failed"] /\ UNCHANGED answer
      [] OTHER ->
            stage' = [stage EXCEPT ![r] = "waiting"] /\ UNCHANGED answer

\* Checks that are queued count from their whole delay; a redelivered one
\* has no delay, and the time its worker stalled is not counted.
Schedule ==
    due' = [j \in jobs' |-> IF j \in jobs THEN due[j]
                            ELSE IF j.stalls > 0 THEN 0 ELSE CheckDelay]

\* POST /relayer/submit, to its response.
CallSubmit(r) ==
    /\ \/ stage[r] = "sponsored" /\ Submit(r)
       \/ stage[r] = "waiting" /\ RequestStep(r)
    /\ Answered(r)
    /\ Schedule
    /\ UNCHANGED <<polls, awake, valid, age, historyVars>>

\* GET /userops/:hash: RelayerService.getStatus reads the row anew.
Poll(r) ==
    /\ stage[r] = "polling" /\ awake[r]
    /\ answer' = [answer EXCEPT ![r] = row[OpOf[r]]]
    /\ polls' = [polls EXCEPT ![r] = @ + 1]
    /\ stage' = [stage EXCEPT ![r] = StageAfter(row[OpOf[r]].status, polls'[r])]
    /\ awake' = [awake EXCEPT ![r] = FALSE]
    /\ UNCHANGED <<vars, clockVars, historyVars>>
-----------------------------------------------------------------------------
(* The relayer's workers and the chain, against the clock. *)

\* Any step of a check; one that finds no receipt although there is one
\* lost the answer of its RPC call.
RunCheck(w) ==
    /\ \/ \E j \in jobs : due[j] <= 0 /\ Take(w, j)
       \/ phase[w] # "idle" /\ RunStep(w)
    /\ disturbed' =
         IF phase[w] = "check" /\ phase'[w] = "load" /\ Mined(job[w].tx)
         THEN disturbed \cup {job[w].op} ELSE disturbed
    /\ Schedule
    /\ UNCHANGED <<clientVars, valid, age, prompt>>

Stall(w) ==
    /\ Redeliver(w)
    /\ disturbed' = disturbed \cup {job[w].op}
    /\ Schedule
    /\ UNCHANGED <<clientVars, valid, age, prompt>>

ChainGoesOn ==
    /\ ChainStep
    /\ prompt' = prompt \cup
         {op \in Ops : ~Executed(op) /\ Executed(op)' /\ age[op] < CheckDelay}
    /\ UNCHANGED <<clientVars, clockVars, disturbed>>

\* validUntil passes: the paymaster refuses the operation from now on.
Expire(op) ==
    /\ valid[op] = 0
    /\ Void(op)
    /\ UNCHANGED <<row, rVars, jobs, wVars, clientVars, clockVars, historyVars>>

\* Nothing is waiting to be done at this moment: clients, workers and
\* expired sponsorships have had their turn, and no check is overdue.
Quiet ==
    /\ \A r \in Requests : stage[r] # "waiting" /\ (stage[r] = "polling" => ~awake[r])
    /\ \A w \in Workers : phase[w] = "idle"
    /\ \A j \in jobs : due[j] > -Latency
    /\ \A op \in Ops : valid[op] = 0 => op \in void

Tick ==
    /\ Quiet
    /\ due' = [j \in jobs |-> due[j] - 1]
    /\ valid' = [op \in Ops |-> IF row[op].status = Absent \/ valid[op] = 0
                                THEN valid[op] ELSE valid[op] - 1]
    /\ age' = [op \in Ops |-> IF row[op].status = "SUBMITTED" /\ age[op] <= Deadline
                              THEN age[op] + 1 ELSE age[op]]
    /\ awake' = [r \in Requests |-> stage[r] = "polling"]
    /\ UNCHANGED <<vars, stage, answer, polls, historyVars>>

JourneyNext ==
    \/ \E r \in Requests : AskSponsorship(r) \/ CallSubmit(r) \/ Poll(r)
    \/ \E w \in Workers : RunCheck(w) \/ Stall(w)
    \/ \E op \in Ops : Expire(op)
    \/ ChainGoesOn
    \/ Tick

JourneySpec == JourneyInit /\ [][JourneyNext]_jVars

\* Time passes, a client polls while it is awake, the paymaster refuses what
\* expired, and started requests and due checks run.  Nothing obliges a
\* client to submit, or the chain to mine.
FairJourney ==
    /\ JourneySpec
    /\ WF_jVars(Tick)
    /\ \A r \in Requests : WF_jVars(stage[r] # "sponsored" /\ CallSubmit(r))
    /\ \A r \in Requests : WF_jVars(Poll(r))
    /\ \A w \in Workers : WF_jVars(RunCheck(w))
    /\ \A op \in Ops : WF_jVars(Expire(op))
-----------------------------------------------------------------------------
\* What a client was told stays true of the chain, whatever the row, the
\* queue and the chain have done since it was read: CONFIRMED is executed,
\* "Transaction reverted" is reverted; and only CONFIRMED is a success.
AnswersAreTrue ==
    \A r \in Requests :
        /\ answer[r].status = "CONFIRMED" => Executed(OpOf[r])
        /\ answer[r].reason = "reverted" =>
              \E m \in mined : m.tx.op = OpOf[r] /\ ~m.ok
        /\ stage[r] = "confirmed" => answer[r].status = "CONFIRMED"

\* The checks of an operation, however the gas bumps, the fees and the chain
\* go, are over by the deadline the configuration sets: no row is SUBMITTED
\* for longer, unless one of its checks was redelivered or missed a receipt.
SettledByDeadline ==
    \A op \in Ops : row[op].status = "SUBMITTED" =>
        age[op] <= Deadline \/ op \in disturbed

\* A client whose submit was accepted never takes an operation for failed that
\* was mined before its first check, unless that check was redelivered or its
\* RPC call failed: what demo.ts reports then, it reports of the chain.
MinedInTimeIsNotFailed ==
    \A r \in Requests :
        stage[r] = "failed" /\ answer[r].status # Absent /\ OpOf[r] \in prompt
            => OpOf[r] \in disturbed

\* The one check that comes before the client loses patience is enough: an
\* operation mined before that check is reported CONFIRMED to the client that
\* polls for it, unless the check is redelivered or its RPC call fails.
MinedInTimeIsSeen ==
    \A r \in Requests :
        stage[r] = "polling" /\ OpOf[r] \in prompt
            ~> stage[r] = "confirmed" \/ OpOf[r] \in disturbed
=============================================================================
