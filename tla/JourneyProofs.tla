--------------------------- MODULE JourneyProofs ----------------------------
(***************************************************************************)
(* Proofs about Journey, for any clients, operations, workers and delays:  *)
(* with its timers it is still the relayer of Relayer, so that what        *)
(* RelayerProofs shows holds in it, and what it tells its clients is true. *)
(***************************************************************************)
EXTENDS Journey, RelayerProofs

USE DEF vars, rVars, wVars, chainVars

\* Every step of a journey is a step of the relayer or leaves it alone
\* (demo.ts only calls the API; timers only delay its workers).
LEMMA NextRefines == JourneyNext => [Next]_vars
  <1> USE ConstantsAssumption, TimersAssumption
  <1>1. ASSUME NEW r \in Requests, AskSponsorship(r) PROVE Next
    BY <1>1 DEF AskSponsorship, Next
  <1>2. ASSUME NEW r \in Requests, CallSubmit(r) PROVE Next
    BY <1>2 DEF CallSubmit, Next
  <1>3. ASSUME NEW r \in Requests, Poll(r) PROVE UNCHANGED vars
    BY <1>3 DEF Poll
  <1>4. ASSUME NEW w \in Workers, RunCheck(w) PROVE Next
    BY <1>4 DEF RunCheck, RunStep, Next
  <1>5. ASSUME NEW w \in Workers, Stall(w) PROVE Next
    BY <1>5 DEF Stall, Next
  <1>6. ASSUME NEW op \in Ops, Expire(op) PROVE Next
    BY <1>6 DEF Expire, ChainStep, Next
  <1>7. CASE ChainGoesOn
    BY <1>7 DEF ChainGoesOn, Next
  <1>8. CASE Tick
    BY <1>8 DEF Tick
  <1>9. QED
    BY <1>1, <1>2, <1>3, <1>4, <1>5, <1>6, <1>7, <1>8 DEF JourneyNext

\* The journey implements the relayer: the theorems about Spec hold in it.
THEOREM JourneyRefines == JourneySpec => Spec
  <1>1. JourneyInit => Init
    BY DEF JourneyInit
  <1>2. [JourneyNext]_jVars => [Next]_vars
    BY NextRefines DEF jVars
  <1>3. QED
    BY <1>1, <1>2, PTL DEF JourneySpec, Spec

\* However checks are delayed, redelivered or met by failures, a settled row
\* says what the chain did to the operation.
THEOREM JourneySettled == JourneySpec => []SettledAsMined
  BY JourneyRefines, SettledCorrect, PTL
-----------------------------------------------------------------------------
(* What clients are told. *)

\* Mined transactions stay mined.
LEMMA MinedGrows == [JourneyNext]_jVars => mined \subseteq mined'
  <1> USE DEF ChainStep, Mine, Evict, Void, Send
  <1>1. ASSUME NEW r \in Requests, AskSponsorship(r) PROVE mined' = mined
    BY <1>1 DEF AskSponsorship, Sponsor
  <1>2. ASSUME NEW r \in Requests, CallSubmit(r) PROVE mined' = mined
    BY <1>2 DEF CallSubmit, Submit, RequestStep, Prepare, PrepareFails, Broadcast,
       BroadcastFails, MarkFirst, MarkFirstConflicts, Enqueue
  <1>3. ASSUME NEW w \in Workers, RunCheck(w) PROVE mined' = mined
    BY <1>3 DEF RunCheck, RunStep, Take, CheckReceipt, Confirm, Revert, LoadRow, GiveUp,
       Stick, Rebroadcast, RebroadcastFails, Remark, Requeue, CheckConflicts
  <1>4. ASSUME NEW w \in Workers, Stall(w) PROVE mined' = mined
    BY <1>4 DEF Stall, Redeliver
  <1>5. CASE ChainGoesOn
    BY <1>5 DEF ChainGoesOn
  <1>6. QED
    BY <1>1, <1>2, <1>3, <1>4, <1>5
       DEF JourneyNext, Poll, Expire, Tick, jVars

\* No client has been told anything.
LEMMA InitAnswers == JourneyInit => AnswersAreTrue
  BY DEF JourneyInit, AnswersAreTrue, NoAnswer, Absent

\* A client is told what the row says, and the row says what was mined.
LEMMA NextAnswers ==
  ASSUME JourneyTypeOK, TypeOK, SettledAsMined, AnswersAreTrue, [JourneyNext]_jVars
  PROVE  AnswersAreTrue'
  <1> USE ConstantsAssumption DEF AnswersAreTrue, JourneyTypeOK
  <1>1. mined \subseteq mined'
    BY MinedGrows
  <1>2. \A op \in Ops : Executed(op) => Executed(op)'
    BY <1>1 DEF Executed
  <1>3. ASSUME NEW r \in Requests, UNCHANGED row,
               answer' = [answer EXCEPT ![r] = row[OpOf[r]]],
               NEW n, stage' = [stage EXCEPT ![r] = StageAfter(row[OpOf[r]].status, n)]
        PROVE  AnswersAreTrue'
    <2>1. /\ row[OpOf[r]].status = "CONFIRMED" => Executed(OpOf[r])
          /\ row[OpOf[r]].reason = "reverted" =>
                \E m \in mined : m.tx.op = OpOf[r] /\ ~m.ok
      BY DEF SettledAsMined
    <2>2. stage'[r] = "confirmed" => row[OpOf[r]].status = "CONFIRMED"
      BY <1>3 DEF StageAfter
    <2>3. QED
      BY <1>1, <1>2, <1>3, <2>1, <2>2
  <1>4. ASSUME UNCHANGED answer,
               \A r \in Requests : stage'[r] = "confirmed" => stage[r] = "confirmed"
        PROVE  AnswersAreTrue'
    BY <1>1, <1>2, <1>4
  <1>5. ASSUME NEW r \in Requests, AskSponsorship(r) PROVE AnswersAreTrue'
    BY <1>4, <1>5 DEF AskSponsorship
  <1>6. ASSUME NEW r \in Requests, CallSubmit(r) PROVE AnswersAreTrue'
    <2>1. CASE pc'[r] = "accepted"
      <3>1. UNCHANGED row
        BY <1>6, <2>1 DEF CallSubmit, Submit, RequestStep, Goto, Prepare, PrepareFails,
           Broadcast, BroadcastFails, MarkFirst, MarkFirstConflicts, Enqueue, TypeOK
      <3>2. QED
        BY <1>3, <1>6, <2>1, <3>1 DEF CallSubmit, Answered
    <2>2. CASE pc'[r] # "accepted"
      BY <1>4, <1>6, <2>2 DEF CallSubmit, Answered
    <2>3. QED
      BY <2>1, <2>2
  <1>7. ASSUME NEW r \in Requests, Poll(r) PROVE AnswersAreTrue'
    BY <1>3, <1>7 DEF Poll
  <1>8. CASE UNCHANGED <<answer, stage>>
    BY <1>4, <1>8
  <1>9. QED
    BY <1>5, <1>6, <1>7, <1>8
       DEF JourneyNext, RunCheck, Stall, ChainGoesOn, Expire, Tick, jVars, clientVars
-----------------------------------------------------------------------------
(* Type correctness of clients and timers. *)

\* A client that goes on polling has polls left.
ClientInv ==
    /\ JourneyTypeOK
    /\ \A r \in Requests : stage[r] = "polling" => polls[r] < MaxPolls
    /\ \A r \in Requests : stage[r] \in {"start", "sponsored", "waiting"} => polls[r] = 0

\* The deadline is a number of ticks.
LEMMA DeadlineNat == Deadline \in Nat
  <1>1. MaxAttempts + 1 \in Nat /\ CheckDelay + Latency \in Nat
    BY ConstantsAssumption, TimersAssumption
  <1>2. \A a, b \in Nat : a * b \in Nat
    OBVIOUS
  <1>3. QED
    BY <1>1, <1>2 DEF Deadline

\* A client that has not called yet, and no checks.
LEMMA InitClientInv == JourneyInit => ClientInv
  <1> USE TimersAssumption, DeadlineNat
  <1> SUFFICES ASSUME JourneyInit PROVE ClientInv
    OBVIOUS
  <1>1. NoAnswer \in Rows
    BY DEF NoAnswer, Rows, Statuses, Reasons, Absent
  <1>2. due \in [jobs -> -Latency .. CheckDelay]
    BY DEF JourneyInit, Init
  <1>3. QED
    BY <1>1, <1>2 DEF JourneyInit, ClientInv, JourneyTypeOK, Stages

\* Scheduling gives every queued check a delay within its bounds.
LEMMA ScheduleType ==
  ASSUME JourneyTypeOK, Schedule PROVE due' \in [jobs' -> -Latency .. CheckDelay]
  <1>1. CheckDelay \in -Latency .. CheckDelay /\ 0 \in -Latency .. CheckDelay
    BY TimersAssumption
  <1>2. \A j \in jobs : due[j] \in -Latency .. CheckDelay
    BY DEF JourneyTypeOK
  <1>3. QED
    BY <1>1, <1>2 DEF Schedule

\* What a client makes of an answer is a stage, and polling only with polls left.
LEMMA StageAfterType ==
  ASSUME NEW s, NEW n \in 0 .. MaxPolls
  PROVE  /\ StageAfter(s, n) \in {"polling", "confirmed", "failed"}
         /\ StageAfter(s, n) = "polling" => n # MaxPolls
  BY DEF StageAfter

\* Every step of a client, a check, the chain or the clock keeps the types.
LEMMA NextClientInv ==
  ASSUME ClientInv, TypeOK, [JourneyNext]_jVars PROVE ClientInv'
  <1> USE ConstantsAssumption, TimersAssumption, DeadlineNat
  <1> USE DEF ClientInv, JourneyTypeOK, Stages, clientVars, clockVars, historyVars
  <1>1. row \in [Ops -> Rows]
    BY DEF TypeOK, RowTypeOK
  <1>2. ASSUME NEW r \in Requests, AskSponsorship(r) PROVE ClientInv'
    BY <1>2 DEF AskSponsorship, Sponsor
  <1>3. ASSUME NEW r \in Requests, CallSubmit(r) PROVE ClientInv'
    <2>1. stage[r] \in {"sponsored", "waiting"} /\ polls[r] = 0
      BY <1>3 DEF CallSubmit
    <2>2. /\ StageAfter(row[OpOf[r]].status, 0) \in {"polling", "confirmed", "failed"}
          /\ StageAfter(row[OpOf[r]].status, 0) = "polling" => 0 # MaxPolls
      BY StageAfterType
    <2>3. answer' \in [Requests -> Rows]
      BY <1>1, <1>3 DEF CallSubmit, Answered
    <2>4. /\ stage' \in [Requests -> Stages]
          /\ \A q \in Requests \ {r} : stage'[q] = stage[q]
          /\ stage'[r] = "polling" => 0 # MaxPolls
      BY <1>3, <2>2 DEF CallSubmit, Answered
    <2>5. due' \in [jobs' -> -Latency .. CheckDelay]
      BY <1>3, ScheduleType DEF CallSubmit
    <2>6. UNCHANGED <<polls, awake, valid, age, historyVars>>
      BY <1>3 DEF CallSubmit
    <2>7. QED
      BY <2>1, <2>3, <2>4, <2>5, <2>6
  <1>4. ASSUME NEW r \in Requests, Poll(r) PROVE ClientInv'
    <2>1. polls[r] + 1 \in 0 .. MaxPolls
      BY <1>4 DEF Poll
    <2>2. /\ StageAfter(row[OpOf[r]].status, polls[r] + 1) \in {"polling", "confirmed", "failed"}
          /\ StageAfter(row[OpOf[r]].status, polls[r] + 1) = "polling" => polls[r] + 1 # MaxPolls
      BY <2>1, StageAfterType
    <2>3. polls' = [polls EXCEPT ![r] = polls[r] + 1]
      BY <1>4 DEF Poll
    <2>4. stage' = [stage EXCEPT ![r] = StageAfter(row[OpOf[r]].status, polls[r] + 1)]
      BY <1>4, <2>3 DEF Poll
    <2>5. answer' \in [Requests -> Rows] /\ awake' \in [Requests -> BOOLEAN]
      BY <1>1, <1>4 DEF Poll
    <2>6. UNCHANGED <<jobs, clockVars, historyVars>>
      BY <1>4 DEF Poll
    <2>7. /\ polls' \in [Requests -> 0 .. MaxPolls]
          /\ stage' \in [Requests -> Stages]
          /\ \A q \in Requests \ {r} : polls'[q] = polls[q] /\ stage'[q] = stage[q]
          /\ stage'[r] \notin {"start", "sponsored", "waiting"}
      BY <2>1, <2>2, <2>3, <2>4
    <2>8. stage'[r] = "polling" => polls'[r] < MaxPolls
      BY <2>1, <2>2, <2>3, <2>4
    <2>9. QED
      BY <2>5, <2>6, <2>7, <2>8
  <1>5. ASSUME NEW w \in Workers, RunCheck(w) PROVE ClientInv'
    <2>1. phase[w] # "idle" => job[w].op \in Ops
      BY DEF TypeOK, Jobs
    <2>2. disturbed' \subseteq Ops
      BY <1>5, <2>1 DEF RunCheck
    <2>3. QED
      BY <1>5, <2>2, ScheduleType DEF RunCheck
  <1>6. ASSUME NEW w \in Workers, Stall(w) PROVE ClientInv'
    <2>1. job[w].op \in Ops
      BY <1>6 DEF Stall, Redeliver, TypeOK, Jobs
    <2>2. QED
      BY <1>6, <2>1, ScheduleType DEF Stall
  <1>7. ASSUME NEW op \in Ops, Expire(op) PROVE ClientInv'
    BY <1>7 DEF Expire
  <1>8. CASE ChainGoesOn
    BY <1>8 DEF ChainGoesOn, ChainStep
  <1>9. CASE Tick
    <2>1. \A j \in jobs : due[j] - 1 \in -Latency .. CheckDelay
      BY <1>9 DEF Tick, Quiet
    <2>2. due' \in [jobs' -> -Latency .. CheckDelay]
      BY <1>9, <2>1 DEF Tick
    <2>3. valid' \in [Ops -> 0 .. ValidFor]
      <3>1. \A op \in Ops : valid[op] \in 0 .. ValidFor
        OBVIOUS
      <3>2. \A n \in 0 .. ValidFor : n # 0 => n - 1 \in 0 .. ValidFor
        OBVIOUS
      <3>3. QED
        BY <1>9, <3>1, <3>2 DEF Tick
    <2>4. age' \in [Ops -> 0 .. Deadline + 1]
      <3>1. \A op \in Ops : age[op] \in 0 .. Deadline + 1
        OBVIOUS
      <3>2. \A n \in 0 .. Deadline + 1 : n <= Deadline => n + 1 \in 0 .. Deadline + 1
        OBVIOUS
      <3>3. QED
        BY <1>9, <3>1, <3>2 DEF Tick
    <2>5. QED
      BY <1>9, <2>2, <2>3, <2>4 DEF Tick
  <1>10. CASE UNCHANGED jVars
    BY <1>10 DEF jVars
  <1>11. QED
    BY <1>2, <1>3, <1>4, <1>5, <1>6, <1>7, <1>8, <1>9, <1>10 DEF JourneyNext

\* Clients and timers are well typed: no client polls more often than demo.ts
\* lets it, and no check is later than the workers may be.
THEOREM JourneyTypeCorrect == JourneySpec => []JourneyTypeOK
  <1>1. ClientInv => JourneyTypeOK
    BY DEF ClientInv
  <1>2. QED
    BY <1>1, InitClientInv, NextClientInv, JourneyRefines, TypeCorrect, PTL DEF JourneySpec

\* A client that was told CONFIRMED was told of an executed operation, for
\* any delays, any patience and any faults (RelayerService.getStatus after
\* UserOpStateMachineService.markConfirmed).
THEOREM AnswersCorrect == JourneySpec => []AnswersAreTrue
  BY InitAnswers, NextAnswers, JourneyTypeCorrect, JourneyRefines, TypeCorrect, SettledCorrect,
     PTL DEF JourneySpec
=============================================================================
