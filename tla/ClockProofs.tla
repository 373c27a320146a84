----------------------------- MODULE ClockProofs -----------------------------
(***************************************************************************)
(* Proofs about Journey's clocks, for any delays, patience, clients and    *)
(* workers: how long a row may stay SUBMITTED, and that the client of an   *)
(* operation mined before its first check does not leave before it.  Both  *)
(* are about operations whose checks are neither redelivered nor meet an   *)
(* RPC failure; other operations may fare as badly as they like meanwhile. *)
(***************************************************************************)
EXTENDS JourneyProofs, ResubmissionProofs

USE DEF vars, rVars, wVars, chainVars

(* Each operation is submitted by one client, once. *)

\* No client's process, database or Redis fails between two awaits.
LEMMA NextCalm == JourneyNext => Undisturbed \/ UNCHANGED vars
  <1>1. ASSUME NEW r \in Requests, AskSponsorship(r) PROVE Undisturbed
    BY <1>1, ConstantsAssumption DEF AskSponsorship, Undisturbed
  <1>2. ASSUME NEW r \in Requests, CallSubmit(r) PROVE Undisturbed
    BY <1>2 DEF CallSubmit, Undisturbed
  <1>3. ASSUME NEW r \in Requests, Poll(r) PROVE UNCHANGED vars
    BY <1>3 DEF Poll
  <1>4. ASSUME NEW w \in Workers, RunCheck(w) PROVE Undisturbed
    BY <1>4 DEF RunCheck, RunStep, Undisturbed
  <1>5. ASSUME NEW w \in Workers, Stall(w) PROVE Undisturbed
    BY <1>5 DEF Stall, Undisturbed
  <1>6. ASSUME NEW op \in Ops, Expire(op) PROVE Undisturbed
    BY <1>6, TimersAssumption DEF Expire, ChainStep, Undisturbed
  <1>7. CASE ChainGoesOn
    BY <1>7 DEF ChainGoesOn, Undisturbed
  <1>8. CASE Tick
    BY <1>8 DEF Tick
  <1>9. QED
    BY <1>1, <1>2, <1>3, <1>4, <1>5, <1>6, <1>7, <1>8 DEF JourneyNext

InFlight(r) == pc[r] \in {"read", "prepared", "sent", "marked"}

\* demo.ts submits what it asked a sponsorship for, and no two clients are
\* given one for the same operation.
OnceInv ==
    /\ \A r \in Requests :
         /\ stage[r] \in {"start", "sponsored"} => pc[r] = "idle"
         /\ InFlight(r) => stage[r] = "waiting"
         /\ stage[r] # "start" => row[OpOf[r]].status # Absent
         /\ InFlight(r) /\ pc[r] # "marked" => row[OpOf[r]].status = "PENDING"
    /\ \A r, s \in Requests :
         OpOf[r] = OpOf[s] /\ stage[r] # "start" /\ stage[s] # "start" => r = s

\* A client moves by its own calls and polls.
LEMMA ClientMoves ==
  ASSUME JourneyTypeOK, TypeOK, [JourneyNext]_jVars, NEW r \in Requests
  PROVE  \/ pc'[r] = pc[r] /\ stage'[r] = stage[r]
         \/ AskSponsorship(r)
         \/ CallSubmit(r)
         \/ Poll(r)
  <1> USE DEF JourneyTypeOK, TypeOK
  <1>1. ASSUME NEW q \in Requests \ {r}, AskSponsorship(q) \/ CallSubmit(q) \/ Poll(q)
        PROVE  pc'[r] = pc[r] /\ stage'[r] = stage[r]
    <2>1. CASE AskSponsorship(q) \/ Poll(q)
      BY <2>1 DEF AskSponsorship, Sponsor, Poll
    <2>2. CASE CallSubmit(q)
      <3>1. stage'[r] = stage[r]
        BY <2>2 DEF CallSubmit, Answered
      <3>2. pc'[r] = pc[r]
        BY <2>2 DEF CallSubmit, Submit, RequestStep, Prepare, PrepareFails, Broadcast,
           BroadcastFails, MarkFirst, MarkFirstConflicts, Enqueue, Goto
      <3>3. QED
        BY <3>1, <3>2
    <2>3. QED
      BY <1>1, <2>1, <2>2
  <1>2. ASSUME NEW w \in Workers, RunCheck(w) \/ Stall(w)
        PROVE  UNCHANGED <<pc, stage>>
    BY <1>2 DEF RunCheck, Stall, clientVars, RunStep, Take, CheckReceipt, Confirm, Revert, LoadRow,
       GiveUp, Stick, Rebroadcast, RebroadcastFails, Remark, Requeue, CheckConflicts, Redeliver
  <1>3. CASE ChainGoesOn
    BY <1>3 DEF ChainGoesOn, ChainStep, clientVars
  <1>4. ASSUME NEW op \in Ops, Expire(op) PROVE UNCHANGED <<pc, stage>>
    BY <1>4 DEF Expire, clientVars
  <1>5. QED
    BY <1>1, <1>2, <1>3, <1>4 DEF JourneyNext, Tick, jVars, clientVars

\* Where a submit call brings its request, and what it does to its row.
LEMMA CallMoves ==
  ASSUME JourneyTypeOK, TypeOK, NEW r \in Requests, CallSubmit(r)
  PROVE  /\ stage[r] \in {"sponsored", "waiting"} /\ stage'[r] # "start"
         /\ InFlight(r)' => stage'[r] = "waiting"
         /\ InFlight(r)' => stage[r] = "sponsored" \/ InFlight(r)
         /\ stage'[r] # "sponsored"
  <1> USE DEF JourneyTypeOK, TypeOK, InFlight
  <1>1. /\ stage'[r] # "start" /\ stage'[r] # "sponsored"
        /\ pc'[r] \notin {"accepted", "rejected", "conflict", "error"} => stage'[r] = "waiting"
    BY StageAfterType DEF CallSubmit, Answered, StageAfter
  <1>2. InFlight(r)' => stage[r] = "sponsored" \/ InFlight(r)
    BY DEF CallSubmit, RequestStep, Prepare, PrepareFails, Broadcast, BroadcastFails,
       MarkFirst, MarkFirstConflicts, Enqueue, Goto
  <1>3. QED
    BY <1>1, <1>2 DEF CallSubmit

\* A client's submit call is the only one for its operation, so the row it
\* found PENDING stays so until the call marks it SUBMITTED itself.
LEMMA NextOnce ==
  ASSUME JourneyTypeOK, TypeInv, OnceInv, [JourneyNext]_jVars PROVE OnceInv'
  <1> USE ConstantsAssumption DEF TypeInv, TypeOK, OnceInv, InFlight
  <1>1. [Next]_vars
    BY NextRefines DEF jVars
  <1>2. ASSUME NEW op \in Ops, row[op].status # Absent PROVE row'[op].status # Absent
    BY <1>1, <1>2, RowStep DEF Absent
  <1>3. ASSUME NEW r \in Requests, stage[r] # "start" \/ stage'[r] # "start"
        PROVE  /\ row'[OpOf[r]].status # Absent
               /\ \A s \in Requests \ {r} : OpOf[s] = OpOf[r] => stage[s] = "start"
    <2>1. CASE stage[r] # "start"
      BY <1>2, <2>1
    <2>2. CASE stage[r] = "start" /\ AskSponsorship(r)
      <3>1. row[OpOf[r]].status = Absent /\ row'[OpOf[r]].status = "PENDING"
        BY <2>2 DEF AskSponsorship, Sponsor, Create, Transition, RowTypeOK, Rows
      <3>2. QED
        BY <3>1 DEF Absent
    <2>3. QED
      BY <1>3, <2>1, <2>2, ClientMoves, CallMoves DEF Poll
  <1>4. ASSUME NEW r \in Requests, NEW s \in Requests, OpOf[r] = OpOf[s],
               stage'[r] # "start", stage'[s] # "start"
        PROVE  r = s
    <2>1. ASSUME NEW q \in Requests, stage[q] = "start", stage'[q] # "start"
          PROVE  AskSponsorship(q)
      BY <2>1, ClientMoves, CallMoves DEF Poll
    <2>2. ASSUME AskSponsorship(r), r # s PROVE stage'[s] = stage[s]
      BY <2>2 DEF AskSponsorship, JourneyTypeOK
    <2>3. ASSUME AskSponsorship(s), r # s PROVE stage'[r] = stage[r]
      BY <2>3 DEF AskSponsorship, JourneyTypeOK
    <2>4. CASE r # s
      BY <1>3, <1>4, <2>1, <2>2, <2>3, <2>4
    <2>5. QED
      BY <2>4
  <1>5. ASSUME NEW r \in Requests
        PROVE  /\ stage'[r] \in {"start", "sponsored"} => pc'[r] = "idle"
               /\ InFlight(r)' => stage'[r] = "waiting"
    <2>1. CASE AskSponsorship(r)
      BY <2>1 DEF AskSponsorship, Sponsor, JourneyTypeOK
    <2>2. CASE Poll(r)
      BY <2>2, StageAfterType DEF Poll, JourneyTypeOK, StageAfter
    <2>3. CASE CallSubmit(r)
      BY <2>3, CallMoves
    <2>4. QED
      BY <2>1, <2>2, <2>3, ClientMoves
  <1>6. ASSUME NEW r \in Requests, InFlight(r)', pc'[r] # "marked"
        PROVE  row'[OpOf[r]].status = "PENDING"
    <2>1. CASE pc[r] = "idle"
      <3>1. CallSubmit(r) /\ Submit(r)
        BY <1>6, <2>1, ClientMoves DEF AskSponsorship, Sponsor, Poll, CallSubmit, RequestStep,
           Prepare, PrepareFails, Broadcast, BroadcastFails, MarkFirst, MarkFirstConflicts,
           Enqueue, Goto
      <3>2. QED
        BY <1>6, <3>1 DEF Submit, Goto
    <2>2. CASE InFlight(r) /\ pc[r] # "marked"
      <3>1. row[OpOf[r]].status = "PENDING" /\ stage[r] # "start" /\ OpOf[r] \in Ops
        BY <2>2
      <3>2. ASSUME NEW q \in Requests, MarkFirst(q), OpOf[q] = OpOf[r] PROVE FALSE
        <4>1. pc[q] = "sent" /\ pc'[q] = "marked"
          BY <3>2 DEF MarkFirst, Goto
        <4>2. q = r
          BY <3>1, <3>2, <4>1
        <4>3. QED
          BY <1>6, <4>1, <4>2
      <3>3. ASSUME NEW w \in Workers, Remark(w), job[w].op = OpOf[r] PROVE FALSE
        BY <3>1, <3>3 DEF Remark, Enter, CheckedRowsHaveTx, Fresh
      <3>4. ASSUME NEW op \in Ops, op = OpOf[r] PROVE row'[op] = row[op]
        BY <1>1, <3>1, <3>2, <3>3, <3>4, RowStep DEF SettleableFrom, Absent
      <3>5. QED
        BY <3>1, <3>4
    <2>3. QED
      <3>1. InFlight(r) \/ pc[r] = "idle"
        BY <1>6, ClientMoves, CallMoves DEF AskSponsorship, Sponsor, Poll
      <3>2. pc[r] = "marked" => FALSE
        BY <1>6, ClientMoves DEF AskSponsorship, Sponsor, Poll, CallSubmit, Submit, RequestStep,
           Prepare, PrepareFails, Broadcast, BroadcastFails, MarkFirst, MarkFirstConflicts,
           Enqueue, Goto
      <3>3. QED
        BY <2>1, <2>2, <3>1, <3>2
  <1>7. QED
    BY <1>3, <1>4, <1>5, <1>6 DEF OnceInv
-----------------------------------------------------------------------------
(* One thing at a time happens to an operation whose checks are undisturbed. *)

Marked(r, op) == pc[r] = "marked" /\ OpOf[r] = op
Running(w, op) == phase[w] # "idle" /\ job[w].op = op

\* A queued check, a submit call about to queue one and a run exclude each other.
Sole(op) ==
    /\ \A j, k \in jobs : j.op = op /\ k.op = op => j = k
    /\ \A w, v \in Workers : Running(w, op) /\ Running(v, op) => w = v
    /\ \A w \in Workers : Running(w, op) => \A j \in jobs : j.op # op
    /\ \A r \in Requests : Marked(r, op) =>
         (\A j \in jobs : j.op # op) /\ (\A w \in Workers : ~Running(w, op))

\* Whichever it is, the row is where it expects it, with attempts left.
InStep(op) ==
    /\ row[op].bumps <= MaxAttempts
    /\ \A j \in jobs : j.op = op => row[op].status = "SUBMITTED"
    /\ \A r \in Requests : Marked(r, op) => row[op].status = "SUBMITTED"
    /\ \A w \in Workers : Running(w, op) =>
         /\ row[op].status = IF phase[w] \in {"rebroadcast", "remark"}
                             THEN "STUCK" ELSE "SUBMITTED"
         /\ phase[w] \in {"stick", "rebroadcast", "remark"} => row[op].bumps < MaxAttempts

\* What does not touch an operation leaves this as it is.
LEMMA SoleStays ==
  ASSUME NEW op \in Ops, Sole(op), InStep(op), row'[op] = row[op],
         \A j \in jobs' : j.op = op => j \in jobs,
         \A r \in Requests : Marked(r, op)' => Marked(r, op),
         \A w \in Workers : Running(w, op)' => Running(w, op) /\ phase'[w] = phase[w]
  PROVE  Sole(op)' /\ InStep(op)'
  BY DEF Sole, InStep

\* A run goes on with its operation, or leaves it.
LEMMA SoleRun ==
  ASSUME NEW op \in Ops, Sole(op), InStep(op), NEW w \in Workers, Running(w, op),
         UNCHANGED <<jobs, pc>>,
         \A v \in Workers \ {w} : phase'[v] = phase[v] /\ job'[v] = job[v],
         row'[op].bumps <= MaxAttempts,
         \/ phase'[w] = "idle"
         \/ /\ row'[op].status = IF phase'[w] \in {"rebroadcast", "remark"}
                                 THEN "STUCK" ELSE "SUBMITTED"
            /\ phase'[w] \in {"stick", "rebroadcast", "remark"} => row'[op].bumps < MaxAttempts
  PROVE  Sole(op)' /\ InStep(op)'
  BY DEF Sole, InStep, Marked, Running

\* A worker's step concerns the operation whose check it runs, and no other
\* worker or request.
LEMMA RunAlone ==
  ASSUME TypeInv, NEW w \in Workers, RunStep(w) \/ Redeliver(w)
  PROVE  /\ pc' = pc
         /\ \A v \in Workers \ {w} : phase'[v] = phase[v] /\ job'[v] = job[v]
         /\ \A op \in Ops : ~Running(w, op) =>
               /\ row'[op] = row[op]
               /\ \A j \in jobs' : j.op = op => j \in jobs
  <1> USE DEF TypeInv, TypeOK, Jobs
  <1>1. /\ pc' = pc
        /\ \A v \in Workers \ {w} : phase'[v] = phase[v] /\ job'[v] = job[v]
    BY DEF RunStep, Take, CheckReceipt, Confirm, Revert, LoadRow, GiveUp, Stick, Rebroadcast,
       RebroadcastFails, Remark, Requeue, CheckConflicts, Redeliver, Enter, EndRun
  <1>2. ASSUME NEW op \in Ops, ~Running(w, op)
        PROVE  row'[op] = row[op] /\ \A j \in jobs' : j.op = op => j \in jobs
    <2>1. CASE Confirm(w)
      BY <1>2, <2>1, MarkConfirmedEffect DEF Confirm, Running
    <2>2. CASE Revert(w) \/ GiveUp(w)
      BY <1>2, <2>2, MarkFailedEffect DEF Revert, GiveUp, Reasons, Running
    <2>3. CASE Stick(w)
      BY <1>2, <2>3, MarkStuckEffect DEF Stick, Enter, Running
    <2>4. CASE Remark(w)
      <3>1. job[w].op \in Ops /\ bumped[w] \in Txs /\ 1 \in Nat
        BY <2>4 DEF Remark, Enter
      <3>2. QED
        BY <1>2, <2>4, <3>1, MarkSubmittedEffect DEF Remark, Enter, Running
    <2>5. CASE Requeue(w)
      <3> DEFINE k == [op |-> job[w].op, tx |-> bumped[w], stalls |-> 0]
      <3>1. k.op = job[w].op /\ jobs' = jobs \cup {k} /\ phase[w] # "idle" /\ UNCHANGED row
        BY <2>5 DEF Requeue
      <3> HIDE DEF k
      <3>2. QED
        BY <1>2, <3>1 DEF Running
    <2>6. CASE Redeliver(w)
      <3> DEFINE k == [job[w] EXCEPT !.stalls = @ + 1]
      <3>1. k.op = job[w].op /\ jobs' = jobs \cup {k} /\ phase[w] # "idle" /\ UNCHANGED row
        BY <2>6 DEF Redeliver
      <3> HIDE DEF k
      <3>2. QED
        BY <1>2, <3>1 DEF Running
    <2>7. QED
      BY <2>1, <2>2, <2>3, <2>4, <2>5, <2>6 DEF RunStep, Take, CheckReceipt, LoadRow, Rebroadcast,
         RebroadcastFails, CheckConflicts, TransitionConflicts
  <1>3. QED
    BY <1>1, <1>2

\* A run of op keeps to itself what it does.
LEMMA NextSoleRun ==
  ASSUME TypeInv, NEW op \in Ops, Sole(op), InStep(op), NEW w \in Workers, RunStep(w)
  PROVE  Sole(op)' /\ InStep(op)'
  <1> USE ConstantsAssumption DEF TypeInv, TypeOK, Jobs
  <1>1. /\ pc' = pc
        /\ \A v \in Workers \ {w} : phase'[v] = phase[v] /\ job'[v] = job[v]
    BY RunAlone
  <1>2. CASE ~Running(w, op)
    <2>1. row'[op] = row[op] /\ \A j \in jobs' : j.op = op => j \in jobs
      BY <1>2, RunAlone
    <2>2. ASSUME NEW j \in jobs, Take(w, j), j.op = op PROVE Sole(op)' /\ InStep(op)'
      <3>1. /\ jobs' = jobs \ {j} /\ phase[w] = "idle" /\ phase'[w] = "check" /\ job'[w] = j
        BY <2>2 DEF Take, Enter
      <3>2. \A k \in jobs' : k.op # op
        BY <2>2, <3>1 DEF Sole
      <3>3. \A v \in Workers : Running(v, op)' => v = w
        BY <1>1, <2>2, <3>1 DEF Running, Sole
      <3>4. \A r \in Requests : ~Marked(r, op)'
        BY <1>1, <2>2 DEF Marked, Sole
      <3>5. row'[op].status = "SUBMITTED" /\ row'[op].bumps <= MaxAttempts
        BY <2>1, <2>2 DEF InStep
      <3>6. QED
        BY <3>1, <3>2, <3>3, <3>4, <3>5 DEF Sole, InStep
    <2>3. ASSUME \A j \in jobs : j.op = op => ~Take(w, j) PROVE ~Running(w, op)'
      BY <1>2, <2>3 DEF RunStep, Take, CheckReceipt, Confirm, Revert, LoadRow, GiveUp, Stick,
         Rebroadcast, RebroadcastFails, Remark, Requeue, CheckConflicts, Enter, EndRun, Running
    <2>4. CASE ~Running(w, op)'
      BY <1>1, <2>1, <2>4, SoleStays DEF Marked, Running
    <2>5. QED
      BY <2>2, <2>3, <2>4
  <1>3. CASE Running(w, op)
    <2>1. /\ phase[w] # "idle" /\ job[w].op = op /\ job[w].op \in Ops
          /\ row[op].status = IF phase[w] \in {"rebroadcast", "remark"}
                             THEN "STUCK" ELSE "SUBMITTED"
          /\ phase[w] \in {"stick", "rebroadcast", "remark"} => row[op].bumps < MaxAttempts
          /\ row[op].bumps <= MaxAttempts /\ row[op].bumps \in Nat
      BY <1>3 DEF InStep, Running, RowTypeOK, Rows
    <2>2. ASSUME UNCHANGED jobs, row'[op].bumps <= MaxAttempts,
                 \/ phase'[w] = "idle"
                 \/ /\ row'[op].status = IF phase'[w] \in {"rebroadcast", "remark"}
                                         THEN "STUCK" ELSE "SUBMITTED"
                    /\ phase'[w] \in {"stick", "rebroadcast", "remark"}
                          => row'[op].bumps < MaxAttempts
          PROVE  Sole(op)' /\ InStep(op)'
      BY <1>1, <1>3, <2>2, SoleRun
    <2>3. CASE CheckReceipt(w) \/ LoadRow(w) \/ Rebroadcast(w)
      BY <2>1, <2>2, <2>3 DEF CheckReceipt, LoadRow, Rebroadcast, Enter
    <2>4. CASE Confirm(w)
      BY <2>1, <2>2, <2>4, MarkConfirmedEffect DEF Confirm, EndRun
    <2>5. CASE Revert(w) \/ GiveUp(w)
      BY <2>1, <2>2, <2>5, MarkFailedEffect DEF Revert, GiveUp, Reasons, EndRun
    <2>6. CASE Stick(w)
      BY <2>1, <2>2, <2>6, MarkStuckEffect DEF Stick, Enter
    <2>7. CASE RebroadcastFails(w) \/ CheckConflicts(w)
      BY <2>1, <2>2, <2>7 DEF RebroadcastFails, CheckConflicts, TransitionConflicts, EndRun
    <2>8. CASE Remark(w)
      <3>1. /\ phase[w] = "remark" /\ phase'[w] = "requeue" /\ UNCHANGED jobs
            /\ bumped[w] \in Txs /\ 1 \in Nat
        BY <2>8 DEF Remark, Enter
      <3>2. row'[op].status = "SUBMITTED" /\ row'[op].bumps = row[op].bumps + 1
        BY <2>1, <2>8, <3>1, MarkSubmittedEffect DEF Remark
      <3>3. row'[op].bumps <= MaxAttempts
        BY <2>1, <3>1, <3>2
      <3>4. QED
        BY <2>2, <3>1, <3>2, <3>3
    <2>9. CASE Requeue(w)
      <3> DEFINE k == [op |-> job[w].op, tx |-> bumped[w], stalls |-> 0]
      <3>1. /\ k.op = op /\ jobs' = jobs \cup {k} /\ UNCHANGED row
            /\ phase[w] = "requeue" /\ phase'[w] = "idle"
        BY <2>1, <2>9 DEF Requeue, EndRun
      <3> HIDE DEF k
      <3>2. \A j \in jobs' : j.op = op => j = k
        BY <1>3, <3>1 DEF Sole
      <3>3. \A v \in Workers : ~Running(v, op)'
        BY <1>1, <1>3, <3>1 DEF Sole, Running
      <3>4. \A r \in Requests : ~Marked(r, op)'
        BY <1>1, <1>3 DEF Sole, Marked
      <3>5. row'[op].status = "SUBMITTED" /\ row'[op].bumps <= MaxAttempts
        BY <2>1, <3>1
      <3>6. QED
        BY <3>2, <3>3, <3>4, <3>5 DEF Sole, InStep
    <2>10. QED
      BY <2>1, <2>3, <2>4, <2>5, <2>6, <2>7, <2>8, <2>9 DEF RunStep, Take, Enter
  <1>4. QED
    BY <1>2, <1>3

\* A submit call is the only one for its operation, and hands over to the
\* check it queues.
LEMMA NextSoleCall ==
  ASSUME TypeInv, OnceInv, NEW op \in Ops, Sole(op), InStep(op),
         NEW r \in Requests, Submit(r) \/ RequestStep(r)
  PROVE  Sole(op)' /\ InStep(op)'
  <1> USE ConstantsAssumption DEF TypeInv, TypeOK, Jobs
  <1>1. UNCHANGED wVars /\ \A q \in Requests \ {r} : pc'[q] = pc[q]
    BY DEF Submit, RequestStep, Prepare, PrepareFails, Broadcast, BroadcastFails, MarkFirst,
       MarkFirstConflicts, Enqueue, Goto
  <1>2. CASE MarkFirst(r)
    <2>1. /\ pc[r] = "sent" /\ pc'[r] = "marked" /\ UNCHANGED jobs
          /\ OpOf[r] \in Ops /\ reqTx[r] \in Txs /\ 0 \in Nat
      BY <1>2 DEF MarkFirst, Goto
    <2>2. /\ row'[OpOf[r]].status = "SUBMITTED"
          /\ row'[OpOf[r]].bumps = row[OpOf[r]].bumps + 0
          /\ \A o \in Ops \ {OpOf[r]} : row'[o] = row[o]
      BY <1>2, <2>1, MarkSubmittedEffect DEF MarkFirst
    <2>3. CASE OpOf[r] # op
      BY <1>1, <2>1, <2>2, <2>3, SoleStays DEF Marked, Running
    <2>4. CASE OpOf[r] = op
      <3>1. row[op].status = "PENDING"
        BY <2>1, <2>4 DEF OnceInv, InFlight
      <3>2. /\ \A j \in jobs : j.op # op
            /\ \A w \in Workers : ~Running(w, op)
            /\ row[op].bumps = 0
        BY <3>1 DEF CheckedRowsHaveTx, Fresh, Running
      <3>3. row'[op].status = "SUBMITTED" /\ row'[op].bumps <= MaxAttempts
        BY <2>2, <2>4, <3>2
      <3>4. QED
        BY <1>1, <2>1, <3>2, <3>3 DEF Sole, InStep, Running
    <2>5. QED
      BY <2>3, <2>4
  <1>3. CASE Enqueue(r)
    <2> DEFINE k == [op |-> OpOf[r], tx |-> reqTx[r], stalls |-> 0]
    <2>1. /\ k.op = OpOf[r] /\ jobs' = jobs \cup {k} /\ UNCHANGED row
          /\ pc[r] = "marked" /\ pc'[r] # "marked"
      BY <1>3 DEF Enqueue, Goto
    <2> HIDE DEF k
    <2>2. CASE OpOf[r] # op
      BY <1>1, <2>1, <2>2, SoleStays DEF Marked, Running
    <2>3. CASE OpOf[r] = op
      <3>1. (\A j \in jobs : j.op # op) /\ (\A w \in Workers : ~Running(w, op))
        BY <2>1, <2>3 DEF Sole, Marked
      <3>2. \A q \in Requests : ~Marked(q, op)'
        BY <1>1, <2>1, <2>3 DEF Marked, OnceInv, InFlight
      <3>3. row'[op].status = "SUBMITTED" /\ row'[op].bumps <= MaxAttempts
        BY <2>1, <2>3 DEF InStep, Marked
      <3>4. QED
        BY <1>1, <2>1, <3>1, <3>2, <3>3 DEF Sole, InStep, Running
    <2>4. QED
      BY <2>2, <2>3
  <1>4. CASE Submit(r) \/ Prepare(r) \/ PrepareFails(r) \/ Broadcast(r) \/ BroadcastFails(r)
               \/ MarkFirstConflicts(r)
    <2>1. UNCHANGED <<row, jobs>> /\ pc'[r] # "marked"
      BY <1>4 DEF Submit, Prepare, PrepareFails, Broadcast, BroadcastFails, MarkFirstConflicts,
         TransitionConflicts, Goto
    <2>2. QED
      BY <1>1, <2>1, SoleStays DEF Marked, Running
  <1>5. QED
    BY <1>2, <1>3, <1>4 DEF RequestStep

\* Redelivery aside, every step leaves an operation to one thing at a time.
LEMMA NextSole ==
  ASSUME JourneyTypeOK, TypeInv, OnceInv, [JourneyNext]_jVars,
         NEW op \in Ops \ disturbed', Sole(op), InStep(op)
  PROVE  Sole(op)' /\ InStep(op)'
  <1> USE ConstantsAssumption DEF TypeInv, TypeOK, Jobs
  <1>1. CASE UNCHANGED vars
    BY <1>1 DEF Sole, InStep, Marked, Running
  <1>2. ASSUME NEW r \in Requests, AskSponsorship(r) PROVE Sole(op)' /\ InStep(op)'
    <2>1. /\ UNCHANGED <<jobs, pc, phase, job>>
          /\ row[OpOf[r]].status = Absent /\ row'[OpOf[r]].status = "PENDING"
          /\ row'[OpOf[r]].bumps = row[OpOf[r]].bumps
          /\ \A o \in Ops \ {OpOf[r]} : row'[o] = row[o]
      BY <1>2 DEF AskSponsorship, Sponsor, Create, Transition, RowTypeOK, Rows
    <2>2. CASE OpOf[r] # op
      BY <2>1, <2>2, SoleStays DEF Marked, Running
    <2>3. CASE OpOf[r] = op
      <3>1. row[op].status \in Fresh
        BY <2>1, <2>3 DEF Fresh
      <3>2. /\ \A j \in jobs : j.op # op
            /\ \A w \in Workers : ~Running(w, op)
            /\ \A q \in Requests : ~Marked(q, op)
            /\ row[op].bumps = 0
        BY <3>1 DEF CheckedRowsHaveTx, Running, Marked
      <3>3. row'[op].bumps <= MaxAttempts
        BY <2>1, <2>3, <3>2
      <3>4. QED
        BY <2>1, <3>2, <3>3 DEF Sole, InStep, Running, Marked
    <2>4. QED
      BY <2>2, <2>3
  <1>3. ASSUME NEW r \in Requests, CallSubmit(r) PROVE Sole(op)' /\ InStep(op)'
    BY <1>3, NextSoleCall DEF CallSubmit
  <1>4. ASSUME NEW w \in Workers, RunCheck(w) PROVE Sole(op)' /\ InStep(op)'
    BY <1>4, NextSoleRun DEF RunCheck, RunStep
  <1>5. ASSUME NEW w \in Workers, Stall(w) PROVE Sole(op)' /\ InStep(op)'
    <2>1. ~Running(w, op)
      BY <1>5 DEF Stall, Running
    <2>2. Redeliver(w)
      BY <1>5 DEF Stall
    <2>3. ~Running(w, op)'
      BY <2>1, <2>2 DEF Redeliver, EndRun, Running
    <2>4. QED
      BY <2>1, <2>2, <2>3, RunAlone, SoleStays DEF Marked, Running
  <1>6. CASE ChainGoesOn \/ \E o \in Ops : Expire(o)
    BY <1>6 DEF ChainGoesOn, ChainStep, Expire, Sole, InStep, Marked, Running
  <1>7. QED
    BY <1>1, <1>2, <1>3, <1>4, <1>5, <1>6 DEF JourneyNext, Poll, Tick, jVars
-----------------------------------------------------------------------------
(* How long an operation has been SUBMITTED. *)

Period == CheckDelay + Latency

\* What n checks of an operation may take.
Checks(n) == n * Period

\* The age of an operation is accounted for by its attempts: one period each,
\* and the time the check now queued has waited.
Timely(op) ==
    /\ row[op].status \in Fresh => age[op] = 0
    /\ \A r \in Requests : Marked(r, op) => age[op] = 0
    /\ \A j \in jobs : j.op = op => age[op] <= Checks(row[op].bumps) + CheckDelay - due[j]
    /\ \A w \in Workers : Running(w, op) =>
         /\ age[op] <= Checks(row[op].bumps + 1)
         /\ phase[w] = "requeue" => age[op] <= Checks(row[op].bumps)

\* Periods add up.
LEMMA ChecksNat ==
  ASSUME NEW n \in Nat
  PROVE  /\ Checks(n) \in Nat
         /\ Checks(n + 1) = Checks(n) + CheckDelay + Latency
  <1>1. Period \in Nat /\ Period = CheckDelay + Latency
    BY TimersAssumption DEF Period
  <1> HIDE DEF Period
  <1>2. \A p \in Nat : n * p \in Nat /\ (n + 1) * p = n * p + p
    OBVIOUS
  <1>3. QED
    BY <1>1, <1>2, TimersAssumption DEF Checks

\* More attempts, more time.
LEMMA ChecksMonotone ==
  ASSUME NEW n \in Nat, NEW m \in Nat, n <= m PROVE Checks(n) <= Checks(m)
  <1>1. Period \in Nat
    BY TimersAssumption DEF Period
  <1> HIDE DEF Period
  <1>2. PICK d \in Nat : m = n + d
    BY SMT
  <1>3. \A p \in Nat : (n + d) * p = n * p + d * p /\ d * p \in Nat /\ n * p \in Nat
    OBVIOUS
  <1>4. QED
    BY <1>1, <1>2, <1>3 DEF Checks

\* Between ticks nothing ages.
LEMMA TimelyStays ==
  ASSUME NEW op \in Ops, Timely(op),
         age'[op] = age[op], row'[op].bumps = row[op].bumps,
         row'[op].status \in Fresh => row[op].status \in Fresh,
         \A j \in jobs' : j.op = op => j \in jobs /\ due'[j] = due[j],
         \A r \in Requests : Marked(r, op)' => Marked(r, op),
         \A w \in Workers : Running(w, op)' =>
            Running(w, op) /\ (phase'[w] = "requeue" => phase[w] = "requeue")
  PROVE  Timely(op)'
  BY DEF Timely, Checks

\* A tick ages a SUBMITTED operation and its check alike; only a queued
\* check waits.
LEMMA TimelyTick ==
  ASSUME JourneyTypeOK, TypeInv, OnceInv, Tick, NEW op \in Ops, Sole(op), InStep(op), Timely(op)
  PROVE  Timely(op)'
  <1> USE TimersAssumption DEF TypeInv, TypeOK, JourneyTypeOK
  <1>1. UNCHANGED vars
    BY DEF Tick
  <1>2. /\ \A r \in Requests : ~Marked(r, op)'
        /\ \A w \in Workers : ~Running(w, op)'
    BY <1>1 DEF Tick, Quiet, OnceInv, InFlight, Marked, Running
  <1>3. row[op].bumps \in Nat /\ age[op] \in Nat
    BY DEF RowTypeOK, Rows
  <1>4. age'[op] \in {age[op], age[op] + 1} /\ (row[op].status \in Fresh => age'[op] = age[op])
    BY <1>3 DEF Tick, Fresh, Absent
  <1>5. ASSUME NEW j \in jobs, j.op = op
        PROVE  age'[op] <= Checks(row[op].bumps) + CheckDelay - due'[j]
    <2>1. due'[j] = due[j] - 1 /\ due[j] \in Int
      BY <1>5 DEF Tick
    <2>2. age[op] <= Checks(row[op].bumps) + CheckDelay - due[j] /\ Checks(row[op].bumps) \in Nat
      BY <1>3, <1>5, ChecksNat DEF Timely
    <2>3. QED
      BY <1>3, <1>4, <2>1, <2>2
  <1>6. QED
    BY <1>1, <1>2, <1>4, <1>5 DEF Timely, Checks

\* A run takes its check as late as it may, and its resubmission is granted
\* another period.
LEMMA TimelyRun ==
  ASSUME JourneyTypeOK, TypeInv, NEW w \in Workers, RunStep(w), Schedule,
         \A j \in jobs : Take(w, j) => due[j] <= 0, UNCHANGED age,
         NEW op \in Ops, Sole(op), InStep(op), Timely(op)
  PROVE  Timely(op)'
  <1> USE ConstantsAssumption, TimersAssumption DEF TypeInv, TypeOK, Jobs, JourneyTypeOK
  <1>1. /\ pc' = pc
        /\ \A v \in Workers \ {w} : phase'[v] = phase[v] /\ job'[v] = job[v]
    BY RunAlone
  <1>2. row[op].bumps \in Nat /\ age[op] \in Nat
    BY DEF RowTypeOK, Rows
  <1>3. \A j \in jobs \cap jobs' : due'[j] = due[j]
    BY DEF Schedule
  <1>4. CASE ~Running(w, op)
    <2>1. row'[op] = row[op] /\ \A j \in jobs' : j.op = op => j \in jobs
      BY <1>4, RunAlone
    <2>2. ASSUME NEW j \in jobs, Take(w, j), j.op = op PROVE Timely(op)'
      <3>1. /\ jobs' = jobs \ {j} /\ phase[w] = "idle" /\ phase'[w] = "check" /\ job'[w] = j
        BY <2>2 DEF Take, Enter
      <3>2. age[op] <= Checks(row[op].bumps) + CheckDelay - due[j] /\ due[j] >= -Latency
            /\ due[j] \in Int
        BY <2>2 DEF Timely
      <3>3. /\ Checks(row[op].bumps) \in Nat
            /\ Checks(row[op].bumps + 1) = Checks(row[op].bumps) + CheckDelay + Latency
        BY <1>2, ChecksNat
      <3>4. age[op] <= Checks(row[op].bumps + 1)
        BY <1>2, <3>2, <3>3
      <3>5. \A v \in Workers \ {w} : ~Running(v, op)'
        BY <1>1, <2>2 DEF Sole, Running
      <3>6. \A r \in Requests : ~Marked(r, op)'
        BY <1>1, <2>2 DEF Sole, Marked
      <3>7. \A k \in jobs' : k.op # op
        BY <2>2, <3>1 DEF Sole
      <3>8. QED
        BY <2>1, <3>1, <3>4, <3>5, <3>6, <3>7 DEF Timely, Checks
    <2>3. ASSUME \A j \in jobs : j.op = op => ~Take(w, j) PROVE ~Running(w, op)'
      BY <1>4, <2>3 DEF RunStep, Take, CheckReceipt, Confirm, Revert, LoadRow, GiveUp, Stick,
         Rebroadcast, RebroadcastFails, Remark, Requeue, CheckConflicts, Enter, EndRun, Running
    <2>4. CASE ~Running(w, op)'
      BY <1>1, <1>3, <2>1, <2>4, TimelyStays DEF Marked, Running
    <2>5. QED
      BY <2>2, <2>3, <2>4
  <1>5. CASE Running(w, op)
    <2>1. /\ job[w].op = op /\ phase[w] # "idle"
          /\ age[op] <= Checks(row[op].bumps + 1)
          /\ phase[w] = "requeue" => age[op] <= Checks(row[op].bumps)
      BY <1>5 DEF Timely, Running
    <2>2. /\ \A j \in jobs : j.op # op
          /\ \A v \in Workers \ {w} : ~Running(v, op)'
          /\ \A r \in Requests : ~Marked(r, op)'
      BY <1>1, <1>5 DEF Sole, Running, Marked
    <2>3. row'[op].status \notin Fresh
      <3>1. row[op].status \notin Fresh /\ [Next]_vars
        BY <1>5 DEF CheckedRowsHaveTx, Running, Next
      <3>2. QED
        BY <3>1, RowStep DEF Fresh, Absent
    <2>4. CASE Requeue(w)
      <3> DEFINE k == [op |-> job[w].op, tx |-> bumped[w], stalls |-> 0]
      <3>1. /\ k.op = op /\ k.stalls = 0 /\ jobs' = jobs \cup {k} /\ UNCHANGED row
            /\ phase[w] = "requeue" /\ phase'[w] = "idle"
        BY <2>1, <2>4 DEF Requeue, EndRun
      <3> HIDE DEF k
      <3>2. due'[k] = CheckDelay /\ \A j \in jobs' : j.op = op => j = k
        BY <2>2, <3>1 DEF Schedule
      <3>3. Checks(row[op].bumps) \in Nat
        BY <1>2, ChecksNat
      <3>4. age[op] <= Checks(row[op].bumps) + CheckDelay - CheckDelay
        BY <1>2, <2>1, <3>1, <3>3
      <3>5. QED
        BY <2>2, <2>3, <3>1, <3>2, <3>4 DEF Timely, Checks, Running
    <2>5. CASE Remark(w)
      <3>1. /\ phase'[w] = "requeue" /\ UNCHANGED jobs
            /\ bumped[w] \in Txs /\ 1 \in Nat /\ op \in Ops
        BY <2>5 DEF Remark, Enter
      <3>2. row'[op].bumps = row[op].bumps + 1
        BY <2>1, <2>5, <3>1, MarkSubmittedEffect DEF Remark
      <3>3. Checks(row[op].bumps + 1) <= Checks(row[op].bumps + 1 + 1)
        BY <1>2, ChecksMonotone
      <3>4. /\ age[op] <= Checks(row'[op].bumps)
            /\ age[op] <= Checks(row'[op].bumps + 1)
        <4>1. Checks(row[op].bumps + 1) \in Nat /\ Checks(row[op].bumps + 1 + 1) \in Nat
          BY <1>2, ChecksNat
        <4>2. QED
          BY <1>2, <2>1, <3>2, <3>3, <4>1
      <3>5. QED
        BY <2>2, <2>3, <3>1, <3>4 DEF Timely, Checks
    <2>6. ASSUME ~Requeue(w), ~Remark(w)
          PROVE  /\ jobs' = jobs /\ row'[op].bumps = row[op].bumps
                 /\ Running(w, op)' => phase'[w] # "requeue"
      <3>1. CASE Confirm(w)
        BY <2>1, <3>1, MarkConfirmedEffect DEF Confirm, EndRun, Running
      <3>2. CASE Revert(w) \/ GiveUp(w)
        BY <2>1, <3>2, MarkFailedEffect DEF Revert, GiveUp, Reasons, EndRun, Running
      <3>3. CASE Stick(w)
        BY <2>1, <3>3, MarkStuckEffect DEF Stick, Enter
      <3>4. CASE CheckReceipt(w) \/ LoadRow(w) \/ Rebroadcast(w)
        BY <3>4 DEF CheckReceipt, LoadRow, Rebroadcast, Enter
      <3>5. CASE RebroadcastFails(w) \/ CheckConflicts(w)
        BY <3>5 DEF RebroadcastFails, CheckConflicts, TransitionConflicts, EndRun, Running
      <3>6. QED
        BY <2>1, <2>6, <3>1, <3>2, <3>3, <3>4, <3>5 DEF RunStep, Take, Enter
    <2>7. CASE ~Requeue(w) /\ ~Remark(w)
      BY <1>5, <2>2, <2>3, <2>6, <2>7, TimelyStays
    <2>8. QED
      BY <2>4, <2>5, <2>7
  <1>6. QED
    BY <1>4, <1>5

\* An operation is marked SUBMITTED with its first period before it, and its
\* check queued with the whole delay.
LEMMA TimelyCall ==
  ASSUME JourneyTypeOK, TypeInv, OnceInv, NEW r \in Requests, Submit(r) \/ RequestStep(r),
         Schedule, UNCHANGED age, NEW op \in Ops, Sole(op), Timely(op)
  PROVE  Timely(op)'
  <1> USE ConstantsAssumption DEF TypeInv, TypeOK, Jobs
  <1>1. UNCHANGED wVars /\ \A q \in Requests \ {r} : pc'[q] = pc[q]
    BY DEF Submit, RequestStep, Prepare, PrepareFails, Broadcast, BroadcastFails, MarkFirst,
       MarkFirstConflicts, Enqueue, Goto
  <1>2. row[op].bumps \in Nat /\ Checks(row[op].bumps) \in Nat
    BY ChecksNat DEF RowTypeOK, Rows
  <1>3. \A j \in jobs \cap jobs' : due'[j] = due[j]
    BY DEF Schedule
  <1>4. CASE MarkFirst(r)
    <2>1. /\ pc[r] = "sent" /\ pc'[r] = "marked" /\ UNCHANGED jobs
          /\ OpOf[r] \in Ops /\ reqTx[r] \in Txs /\ 0 \in Nat
      BY <1>4 DEF MarkFirst, Goto
    <2>2. /\ row'[OpOf[r]].status = "SUBMITTED"
          /\ row'[OpOf[r]].bumps = row[OpOf[r]].bumps + 0
          /\ \A o \in Ops \ {OpOf[r]} : row'[o] = row[o]
      BY <1>4, <2>1, MarkSubmittedEffect DEF MarkFirst
    <2>3. CASE OpOf[r] # op
      BY <1>1, <1>3, <2>1, <2>2, <2>3, TimelyStays DEF Marked, Running
    <2>4. CASE OpOf[r] = op
      <3>1. row[op].status = "PENDING"
        BY <2>1, <2>4 DEF OnceInv, InFlight
      <3>2. /\ \A j \in jobs : j.op # op
            /\ \A w \in Workers : ~Running(w, op)
            /\ age[op] = 0
        BY <3>1 DEF CheckedRowsHaveTx, Fresh, Running, Timely
      <3>3. row'[op].status \notin Fresh
        BY <2>2, <2>4 DEF Fresh, Absent
      <3>4. QED
        BY <1>1, <2>1, <3>2, <3>3 DEF Timely, Running
    <2>5. QED
      BY <2>3, <2>4
  <1>5. CASE Enqueue(r)
    <2> DEFINE k == [op |-> OpOf[r], tx |-> reqTx[r], stalls |-> 0]
    <2>1. /\ k.op = OpOf[r] /\ k.stalls = 0 /\ jobs' = jobs \cup {k} /\ UNCHANGED row
          /\ pc[r] = "marked" /\ pc'[r] # "marked"
      BY <1>5 DEF Enqueue, Goto
    <2> HIDE DEF k
    <2>2. CASE OpOf[r] # op
      BY <1>1, <1>3, <2>1, <2>2, TimelyStays DEF Marked, Running
    <2>3. CASE OpOf[r] = op
      <3>1. /\ \A j \in jobs : j.op # op
            /\ \A w \in Workers : ~Running(w, op)
            /\ age[op] = 0
        BY <2>1, <2>3 DEF Sole, Marked, Timely
      <3>2. due'[k] = CheckDelay /\ \A j \in jobs' : j.op = op => j = k
        BY <2>1, <2>3, <3>1 DEF Schedule
      <3>3. age[op] <= Checks(row[op].bumps) + CheckDelay - CheckDelay
        BY <1>2, <3>1, TimersAssumption
      <3>4. QED
        BY <1>1, <2>1, <3>1, <3>2, <3>3 DEF Timely, Checks, Running
    <2>4. QED
      BY <2>2, <2>3
  <1>6. CASE Submit(r) \/ Prepare(r) \/ PrepareFails(r) \/ Broadcast(r) \/ BroadcastFails(r)
               \/ MarkFirstConflicts(r)
    <2>1. UNCHANGED <<row, jobs>> /\ pc'[r] # "marked"
      BY <1>6 DEF Submit, Prepare, PrepareFails, Broadcast, BroadcastFails, MarkFirstConflicts,
         TransitionConflicts, Goto
    <2>2. QED
      BY <1>1, <1>3, <2>1, TimelyStays DEF Marked, Running
  <1>7. QED
    BY <1>4, <1>5, <1>6 DEF RequestStep

\* Every step keeps an operation's age accounted for, unless it disturbs its checks.
LEMMA NextTimely ==
  ASSUME JourneyTypeOK, TypeInv, OnceInv, [JourneyNext]_jVars,
         NEW op \in Ops \ disturbed', Sole(op), InStep(op), Timely(op)
  PROVE  Timely(op)'
  <1> USE ConstantsAssumption DEF TypeInv, TypeOK, Jobs, clockVars
  <1>1. CASE UNCHANGED <<vars, due, age>>
    BY <1>1, TimelyStays DEF Marked, Running
  <1>2. ASSUME NEW r \in Requests, AskSponsorship(r) PROVE Timely(op)'
    <2>1. /\ UNCHANGED <<jobs, pc, phase, job, due, age>>
          /\ row[OpOf[r]].status = Absent
          /\ row'[OpOf[r]].bumps = row[OpOf[r]].bumps
          /\ \A o \in Ops \ {OpOf[r]} : row'[o] = row[o]
      BY <1>2 DEF AskSponsorship, Sponsor, Create, Transition, RowTypeOK, Rows
    <2>2. row'[op].bumps = row[op].bumps /\ (row'[op].status \in Fresh => row[op].status \in Fresh)
      BY <2>1 DEF Fresh
    <2>3. QED
      BY <2>1, <2>2, TimelyStays DEF Marked, Running
  <1>3. ASSUME NEW r \in Requests, CallSubmit(r) PROVE Timely(op)'
    BY <1>3, TimelyCall DEF CallSubmit
  <1>4. ASSUME NEW w \in Workers, RunCheck(w) PROVE Timely(op)'
    <2>1. RunStep(w) /\ Schedule /\ UNCHANGED age
      BY <1>4 DEF RunCheck, RunStep
    <2>2. CASE phase[w] # "idle" /\ RunStep(w)
      <3>1. \A j \in jobs : ~Take(w, j)
        BY <2>2 DEF Take, Enter
      <3>2. QED
        BY <2>1, <3>1, TimelyRun
    <2>3. CASE \E j \in jobs : due[j] <= 0 /\ Take(w, j)
      <3>1. PICK j \in jobs : due[j] <= 0 /\ Take(w, j)
        BY <2>3
      <3>2. \A i \in jobs : Take(w, i) => i = j
        BY <3>1 DEF Take
      <3>3. QED
        BY <2>1, <3>1, <3>2, TimelyRun
    <2>4. QED
      BY <1>4, <2>2, <2>3 DEF RunCheck
  <1>5. ASSUME NEW w \in Workers, Stall(w) PROVE Timely(op)'
    <2>1. Redeliver(w) /\ ~Running(w, op) /\ Schedule /\ UNCHANGED age
      BY <1>5 DEF Stall, Running
    <2>2. ~Running(w, op)'
      BY <2>1 DEF Redeliver, EndRun, Running
    <2>3. \A j \in jobs \cap jobs' : due'[j] = due[j]
      BY <2>1 DEF Schedule
    <2>4. QED
      BY <2>1, <2>2, <2>3, RunAlone, TimelyStays DEF Marked, Running
  <1>6. CASE ChainGoesOn \/ \E o \in Ops : Expire(o)
    <2>1. UNCHANGED <<row, pc, jobs, phase, job, due, age>>
      BY <1>6 DEF ChainGoesOn, ChainStep, Expire
    <2>2. QED
      BY <2>1, TimelyStays DEF Marked, Running
  <1>7. CASE Tick
    BY <1>7, TimelyTick
  <1>8. QED
    BY <1>1, <1>2, <1>3, <1>4, <1>5, <1>6, <1>7 DEF JourneyNext, Poll, jVars
-----------------------------------------------------------------------------
\* Every operation whose checks were undisturbed.
DeadlineInv ==
    /\ OnceInv
    /\ WatchedInv
    /\ \A op \in Ops \ disturbed : Sole(op) /\ InStep(op) /\ Timely(op)

\* No operation, no checks.
LEMMA InitDeadline == JourneyInit => DeadlineInv
  <1> SUFFICES ASSUME JourneyInit PROVE DeadlineInv
    OBVIOUS
  <1> USE ConstantsAssumption DEF JourneyInit, Init, RowInit, Absent
  <1>1. OnceInv /\ WatchedInv
    BY DEF OnceInv, InFlight, WatchedInv
  <1>2. ASSUME NEW op \in Ops PROVE Sole(op) /\ InStep(op) /\ Timely(op)
    BY DEF Sole, InStep, Timely, Marked, Running
  <1>3. QED
    BY <1>1, <1>2 DEF DeadlineInv

\* Disturbed checks stay so.
LEMMA DisturbedGrows == [JourneyNext]_jVars => disturbed \subseteq disturbed'
  BY DEF JourneyNext, AskSponsorship, CallSubmit, Poll, RunCheck, Stall, Expire, ChainGoesOn,
     Tick, jVars, historyVars

\* One step of a client, a check, the chain or the clock.
LEMMA NextDeadline ==
  ASSUME JourneyTypeOK, TypeInv, DeadlineInv, [JourneyNext]_jVars PROVE DeadlineInv'
  <1>1. OnceInv'
    BY NextOnce DEF DeadlineInv
  <1>2. WatchedInv'
    BY NextCalm, NextWatched DEF DeadlineInv, jVars
  <1>3. ASSUME NEW op \in Ops \ disturbed' PROVE Sole(op)' /\ InStep(op)' /\ Timely(op)'
    BY DisturbedGrows, NextSole, NextTimely DEF DeadlineInv
  <1>4. QED
    BY <1>1, <1>2, <1>3 DEF DeadlineInv

\* What watches a SUBMITTED row accounts for its age.
LEMMA AgeInPeriod ==
  ASSUME JourneyTypeOK, TypeInv, DeadlineInv,
         NEW op \in Ops \ disturbed, row[op].status = "SUBMITTED"
  PROVE  /\ row[op].bumps \in Nat /\ row[op].bumps <= MaxAttempts
         /\ age[op] \in Nat
         /\ age[op] <= Checks(row[op].bumps + 1)
  <1> USE ConstantsAssumption, TimersAssumption DEF TypeInv, TypeOK, JourneyTypeOK
  <1>1. Watched(op) /\ InStep(op) /\ Timely(op)
    BY DEF DeadlineInv, WatchedInv
  <1>2. row[op].bumps \in Nat /\ age[op] \in Nat /\ row[op].bumps <= MaxAttempts
    BY <1>1 DEF RowTypeOK, Rows, InStep
  <1>3. /\ Checks(row[op].bumps) \in Nat
        /\ Checks(row[op].bumps + 1) = Checks(row[op].bumps) + CheckDelay + Latency
    BY <1>2, ChecksNat
  <1>4. ASSUME NEW j \in jobs, j.op = op PROVE age[op] <= Checks(row[op].bumps + 1)
    <2>1. /\ age[op] <= Checks(row[op].bumps) + CheckDelay - due[j]
          /\ due[j] >= -Latency /\ due[j] \in Int
      BY <1>1, <1>4 DEF Timely
    <2>2. QED
      BY <1>2, <1>3, <2>1
  <1>5. ASSUME NEW r \in Requests, Marked(r, op) PROVE age[op] <= Checks(row[op].bumps + 1)
    BY <1>1, <1>3, <1>5 DEF Timely
  <1>6. ASSUME NEW w \in Workers, Running(w, op) PROVE age[op] <= Checks(row[op].bumps + 1)
    BY <1>1, <1>6 DEF Timely
  <1>7. QED
    BY <1>1, <1>2, <1>4, <1>5, <1>6 DEF Watched, Watching, WatchPhases, Marked, Running

\* The deadline is as many periods as there may be checks.
LEMMA DeadlineImplies ==
  ASSUME JourneyTypeOK, TypeInv, DeadlineInv PROVE SettledByDeadline
  <1> SUFFICES ASSUME NEW op \in Ops \ disturbed, row[op].status = "SUBMITTED"
               PROVE  age[op] <= Deadline
    BY DEF SettledByDeadline
  <1>1. /\ row[op].bumps \in Nat /\ row[op].bumps <= MaxAttempts /\ age[op] \in Nat
        /\ age[op] <= Checks(row[op].bumps + 1)
    BY AgeInPeriod
  <1>2. Checks(row[op].bumps + 1) \in Nat /\ Checks(MaxAttempts + 1) \in Nat
    BY <1>1, ChecksNat, ConstantsAssumption
  <1>3. Checks(row[op].bumps + 1) <= Checks(MaxAttempts + 1)
    BY <1>1, ChecksMonotone, ConstantsAssumption
  <1>4. Deadline = Checks(MaxAttempts + 1)
    BY DEF Deadline, Checks, Period
  <1>5. QED
    BY <1>1, <1>2, <1>3, <1>4

\* The inductive invariant holds throughout.
LEMMA DeadlineAlways == JourneySpec => [](JourneyTypeOK /\ TypeInv /\ DeadlineInv)
  <1>1. Spec => []TypeInv
    BY InitTypeInv, NextTypeInv, PTL DEF Spec
  <1>2. QED
    BY <1>1, InitDeadline, NextDeadline, JourneyTypeCorrect, JourneyRefines, PTL DEF JourneySpec

\* However fees, gas bumps and the chain go, no row stays SUBMITTED for longer
\* than all its checks may take, each as late as a worker may start it, unless
\* one of them was redelivered or lost its RPC answer
\* (STUCK_CHECK_DELAY_SECONDS, MAX_GAS_BUMP_ATTEMPTS of env.validation.ts).
THEOREM DeadlineKept == JourneySpec => []SettledByDeadline
  BY DeadlineAlways, DeadlineImplies, PTL
-----------------------------------------------------------------------------
(* One nonce for each operation. *)

\* Two pending transactions of an operation would be of one request.
LEMMA NoncedOnce == ASSUME TypeInv, OnceInv, NonceInv PROVE NoCompetingTx
  <1> SUFFICES ASSUME NEW op \in Ops, NEW s \in pool, NEW t \in pool, s.op = op, t.op = op
               PROVE  s = t
    BY DEF NoCompetingTx
  <1>1. Nonced(s, op, reqTx) /\ Nonced(t, op, reqTx)
    BY DEF NonceInv, TypeInv, TypeOK, ChainTypeOK
  <1>2. \A r \in Requests : reqTx[r] \in Txs => stage[r] # "start"
    BY NoTxAssumption DEF NonceInv, OnceInv
  <1>3. s.nonce = t.nonce
    BY <1>1, <1>2 DEF Nonced, OnceInv
  <1>4. QED
    BY <1>3 DEF NonceInv

\* demo.ts never has two pending transactions for its operation, however its
\* checks are redelivered and whichever RPC calls fail: a sponsored operation
\* has one client, and that one submits it once.
THEOREM JourneyNonceKept == JourneySpec => []NoCompetingTx
  <1>1. Init => NonceInv
    BY NoTxAssumption DEF Init, RowInit, ChainInit, NonceInv
  <1>2. Spec => [](TypeInv /\ NonceInv)
    BY <1>1, InitTypeInv, NextTypeInv, NextNonce, PTL DEF Spec
  <1>3. DeadlineInv => OnceInv
    BY DEF DeadlineInv
  <1>4. QED
    BY <1>2, <1>3, DeadlineAlways, JourneyRefines, NoncedOnce, PTL
-----------------------------------------------------------------------------
(* The client's patience. *)

\* A transaction is mined once, at its nonce.
ChainInv ==
    /\ \A m \in mined : m.tx.nonce < nextNonce
    /\ \A m, n \in mined : m.tx.nonce = n.tx.nonce => m = n

\* Only the chain mines.
LEMMA MinedBy ==
  ASSUME [Next]_vars PROVE UNCHANGED <<mined, nextNonce>> \/ \E tx \in sent : Mine(tx)
  <1> USE DEF Send
  <1>1. ASSUME NEW r \in Requests, Submit(r) \/ RequestStep(r) \/ SubmitAborts(r)
        PROVE  UNCHANGED <<mined, nextNonce>>
    BY <1>1 DEF Submit, RequestStep, Prepare, PrepareFails, Broadcast, BroadcastFails,
       MarkFirst, MarkFirstConflicts, Enqueue, SubmitAborts
  <1>2. ASSUME NEW w \in Workers, RunStep(w) \/ CheckAborts(w) \/ Redeliver(w)
        PROVE  UNCHANGED <<mined, nextNonce>>
    BY <1>2 DEF RunStep, Take, CheckReceipt, Confirm, Revert, LoadRow, GiveUp, Stick, Rebroadcast,
       RebroadcastFails, Remark, Requeue, CheckConflicts, CheckAborts, Redeliver
  <1>3. QED
    BY <1>1, <1>2 DEF Next, Sponsor, ChainStep, Evict, Void

\* A block takes the next nonce.
LEMMA NextChainInv == ASSUME TypeInv, ChainInv, [Next]_vars PROVE ChainInv'
  <1> USE DEF TypeInv, TypeOK, ChainTypeOK, ChainInv
  <1>1. CASE UNCHANGED <<mined, nextNonce>>
    BY <1>1
  <1>2. ASSUME NEW tx \in sent, Mine(tx) PROVE ChainInv'
    <2> DEFINE m == [tx |-> tx, ok |-> ~WouldRevert(tx.op)]
    <2>1. /\ m.tx.nonce = nextNonce /\ mined' = mined \cup {m} /\ nextNonce' = nextNonce + 1
          /\ nextNonce \in Nat
      BY <1>2 DEF Mine
    <2> HIDE DEF m
    <2>2. \A n \in mined : n.tx.nonce \in Nat
      BY DEF Txs
    <2>3. QED
      BY <2>1, <2>2
  <1>3. QED
    BY <1>1, <1>2, MinedBy

\* tx is what op's client got broadcast.
Given(tx, op) ==
    \E r \in Requests : OpOf[r] = op /\ tx = reqTx[r] /\ pc[r] \notin {"idle", "read", "prepared"}

\* Until its first check is due, an operation has no transaction but its
\* client's, which is what that check will look for.
Early(op) ==
    /\ row[op].bumps = 0
    /\ row[op].status \in Fresh \cup {"SUBMITTED"}
    /\ \A w \in Workers : ~Running(w, op)
    /\ \A j \in jobs : j.op = op => age[op] + due[j] >= CheckDelay /\ Given(j.tx, op)
    /\ \A tx \in sent : tx.op = op => Given(tx, op)

\* What was given stays given.
LEMMA GivenStays ==
  ASSUME TypeInv, [Next]_vars, NEW op \in Ops, NEW tx, Given(tx, op) PROVE Given(tx, op)'
  <1>1. PICK r \in Requests : /\ OpOf[r] = op /\ tx = reqTx[r]
                              /\ pc[r] \notin {"idle", "read", "prepared"}
    BY DEF Given
  <1>2. reqTx'[r] = reqTx[r]
    BY <1>1, RequestMoves
  <1>3. pc'[r] \notin {"idle", "read", "prepared"}
    <2>1. ASSUME NEW q \in Requests, Submit(q) \/ RequestStep(q) \/ SubmitAborts(q)
          PROVE  pc'[r] \notin {"idle", "read", "prepared"}
      BY <1>1, <2>1 DEF Submit, RequestStep, Prepare, PrepareFails, Broadcast, BroadcastFails,
         MarkFirst, MarkFirstConflicts, Enqueue, SubmitAborts, Goto, TypeInv, TypeOK
    <2>2. ASSUME NEW w \in Workers, RunStep(w) \/ CheckAborts(w) \/ Redeliver(w)
          PROVE  UNCHANGED pc
      BY <2>2 DEF RunStep, Take, CheckReceipt, Confirm, Revert, LoadRow, GiveUp, Stick, Rebroadcast,
         RebroadcastFails, Remark, Requeue, CheckConflicts, CheckAborts, Redeliver
    <2>3. QED
      BY <1>1, <2>1, <2>2 DEF Next, Sponsor, ChainStep
  <1>4. QED
    BY <1>1, <1>2, <1>3 DEF Given

\* An age only grows.
LEMMA AgeGrows ==
  ASSUME JourneyTypeOK, [JourneyNext]_jVars, NEW op \in Ops
  PROVE  age[op] \in Nat /\ age'[op] \in Nat /\ age[op] <= age'[op]
  <1>1. age[op] \in Nat
    BY DeadlineNat DEF JourneyTypeOK
  <1>2. CASE Tick
    BY <1>1, <1>2 DEF Tick
  <1>3. CASE UNCHANGED age
    BY <1>1, <1>3
  <1>4. QED
    BY <1>2, <1>3 DEF JourneyNext, AskSponsorship, CallSubmit, Poll, RunCheck, Stall, Expire,
       ChainGoesOn, jVars, clockVars

\* Before the first check only the client's own call acts on an operation.
LEMMA NextEarly ==
  ASSUME JourneyTypeOK, TypeInv, SettledInv, DeadlineInv, [JourneyNext]_jVars,
         NEW op \in Ops \ disturbed', Early(op), age'[op] < CheckDelay
  PROVE  Early(op)'
  <1> USE ConstantsAssumption, TimersAssumption
  <1>1. [Next]_vars /\ op \notin disturbed
    BY NextRefines, DisturbedGrows DEF jVars
  <1>2. age[op] \in Nat /\ age'[op] \in Nat /\ age[op] <= age'[op] /\ age[op] < CheckDelay
    BY AgeGrows
  <1>3. \A tx : Given(tx, op) => Given(tx, op)'
    BY <1>1, GivenStays
  <1>4. Sole(op) /\ InStep(op) /\ OnceInv
    BY <1>1 DEF DeadlineInv
  <1>5. /\ \A w \in Workers : ~Running(w, op)
        /\ row[op].bumps = 0 /\ row[op].status \in Fresh \cup {"SUBMITTED"}
        /\ \A j \in jobs : j.op = op => age[op] + due[j] >= CheckDelay /\ Given(j.tx, op)
        /\ \A tx \in sent : tx.op = op => Given(tx, op)
    BY DEF Early
  <1>6. row'[op].bumps = 0 /\ row'[op].status \in Fresh \cup {"SUBMITTED"}
    <2>1. ASSUME NEW w \in Workers, job[w].op = op,
                 Confirm(w) \/ Revert(w) \/ GiveUp(w) \/ Stick(w) \/ Remark(w)
          PROVE  FALSE
      BY <1>5, <2>1 DEF Confirm, Revert, GiveUp, Stick, Remark, Enter, Running
    <2>2. QED
      BY <1>1, <1>5, <2>1, RowStep DEF Fresh
  <1>7. ASSUME \A w \in Workers : ~Running(w, op)',
               \A j \in jobs' : j.op = op =>
                  \/ j \in jobs /\ age'[op] + due'[j] >= CheckDelay
                  \/ age'[op] + due'[j] >= CheckDelay /\ Given(j.tx, op)',
               \A tx \in sent' : tx.op = op => tx \in sent \/ Given(tx, op)'
        PROVE  Early(op)'
    BY <1>3, <1>5, <1>6, <1>7 DEF Early
  <1>8. ASSUME UNCHANGED <<jobs, phase, job, due, age, sent>> PROVE Early(op)'
    BY <1>5, <1>7, <1>8 DEF Running
  <1>9. ASSUME NEW r \in Requests, CallSubmit(r) PROVE Early(op)'
    <2>1. UNCHANGED <<phase, job, age>> /\ \A j \in jobs \cap jobs' : due'[j] = due[j]
      BY <1>9 DEF CallSubmit, Schedule, Submit, RequestStep, Prepare, PrepareFails, Broadcast,
         BroadcastFails, MarkFirst, MarkFirstConflicts, Enqueue
    <2>2. ASSUME NEW tx \in sent' \ sent PROVE tx.op = op => Given(tx, op)'
      <3>1. Broadcast(r) \/ BroadcastFails(r)
        BY <1>9, <2>2 DEF CallSubmit, Submit, RequestStep, Prepare, PrepareFails, MarkFirst,
           MarkFirstConflicts, Enqueue
      <3>2. /\ tx = reqTx[r] /\ pc[r] = "prepared" /\ pc'[r] \in {"sent", "error"}
            /\ reqTx' = reqTx
        BY <2>2, <3>1 DEF Broadcast, BroadcastFails, Goto, Send, TypeInv, TypeOK
      <3>3. tx.op = OpOf[r]
        BY <3>2 DEF SettledInv
      <3>4. QED
        BY <3>2, <3>3 DEF Given
    <2>3. ASSUME NEW j \in jobs' \ jobs, j.op = op
          PROVE  age'[op] + due'[j] >= CheckDelay /\ Given(j.tx, op)'
      <3>1. Enqueue(r)
        BY <1>9, <2>3 DEF CallSubmit, Submit, RequestStep, Prepare, PrepareFails, Broadcast,
           BroadcastFails, MarkFirst, MarkFirstConflicts
      <3>2. /\ j = [op |-> OpOf[r], tx |-> reqTx[r], stalls |-> 0]
            /\ reqTx' = reqTx /\ pc'[r] \in {"accepted", "error"}
        BY <2>3, <3>1 DEF Enqueue, Goto, TypeInv, TypeOK
      <3>3. j.op = OpOf[r] /\ j.tx = reqTx[r] /\ j.stalls = 0
        BY <3>2
      <3>4. due'[j] = CheckDelay
        BY <1>9, <2>3, <3>3 DEF CallSubmit, Schedule
      <3>5. Given(j.tx, op)'
        BY <2>3, <3>2, <3>3 DEF Given
      <3>6. QED
        BY <1>2, <3>4, <3>5
    <2>4. QED
      BY <1>5, <1>7, <2>1, <2>2, <2>3 DEF Running
  <1>10. ASSUME NEW w \in Workers, RunCheck(w) \/ Stall(w) PROVE Early(op)'
    <2>1. /\ RunStep(w) \/ Redeliver(w)
          /\ Schedule /\ UNCHANGED age
      BY <1>10 DEF RunCheck, RunStep, Stall
    <2>2. /\ \A v \in Workers \ {w} : phase'[v] = phase[v] /\ job'[v] = job[v]
          /\ \A j \in jobs' : j.op = op => j \in jobs
      BY <1>5, <2>1, RunAlone
    <2>3. ~Running(w, op)'
      <3>1. ASSUME NEW j \in jobs, Take(w, j) PROVE j.op # op
        <4>1. PICK i \in jobs : due[i] <= 0 /\ Take(w, i)
          BY <1>10, <3>1 DEF RunCheck, Stall, Redeliver, Take, Enter
        <4>2. i = j
          BY <3>1, <4>1 DEF Take, TypeInv, TypeOK
        <4>3. j.op = op => age[op] + due[j] >= CheckDelay /\ due[j] \in Int
          BY <1>5 DEF JourneyTypeOK
        <4>4. QED
          BY <1>2, <4>1, <4>2, <4>3
      <3>2. CASE Redeliver(w)
        BY <1>5, <3>2 DEF Redeliver, EndRun, Running, TypeInv, TypeOK, Jobs
      <3>3. CASE RunStep(w)
        BY <1>5, <3>1, <3>3 DEF RunStep, Take, CheckReceipt, Confirm, Revert, LoadRow, GiveUp, Stick,
           Rebroadcast, RebroadcastFails, Remark, Requeue, CheckConflicts, Enter, EndRun,
           Running, TypeInv, TypeOK, Jobs
      <3>4. QED
        BY <2>1, <3>2, <3>3
    <2>4. ASSUME NEW tx \in sent' \ sent PROVE tx.op # op
      <3>1. phase[w] = "rebroadcast" /\ tx = Replacement(w)
        BY <2>1, <2>4 DEF RunStep, Take, CheckReceipt, Confirm, Revert, LoadRow, GiveUp, Stick,
           Rebroadcast, RebroadcastFails, Remark, Requeue, CheckConflicts, Redeliver, Enter, Send
      <3>2. QED
        BY <1>5, <3>1 DEF Replacement, Running
    <2>5. \A j \in jobs \cap jobs' : due'[j] = due[j]
      BY <2>1 DEF Schedule
    <2>6. QED
      BY <1>5, <1>7, <2>1, <2>2, <2>3, <2>4, <2>5 DEF Running
  <1>11. CASE Tick
    <2>1. UNCHANGED vars
      BY <1>11 DEF Tick
    <2>2. ASSUME NEW j \in jobs, j.op = op PROVE age'[op] + due'[j] >= CheckDelay
      <3>1. row[op].status = "SUBMITTED"
        BY <1>4, <2>2 DEF InStep
      <3>2. age[op] <= Deadline
        BY <1>1, <3>1, DeadlineImplies DEF SettledByDeadline
      <3>3. age'[op] = age[op] + 1 /\ due'[j] = due[j] - 1
        BY <1>11, <2>2, <3>1, <3>2 DEF Tick
      <3>4. age[op] + due[j] >= CheckDelay /\ due[j] \in Int
        BY <1>5, <2>2 DEF JourneyTypeOK
      <3>5. QED
        BY <1>2, <3>3, <3>4
    <2>3. QED
      BY <1>5, <1>7, <2>1, <2>2 DEF Running
  <1>12. QED
    BY <1>8, <1>9, <1>10, <1>11 DEF JourneyNext, AskSponsorship, Sponsor, Poll, Expire, Void,
       ChainGoesOn, ChainStep, Mine, Evict, jVars, clockVars

\* What is prompt was executed, as its client's own transaction, and the check
\* that is to come, or runs, looks for it.
Prompted(op) ==
    /\ row[op].bumps = 0
    /\ row[op].status \in {"PENDING", "SUBMITTED", "CONFIRMED"}
    /\ \A j \in jobs : j.op = op => MinedOk(j.tx)
    /\ \E tx \in sent : Given(tx, op) /\ MinedOk(tx)
    /\ \A w \in Workers : Running(w, op) => phase[w] \in {"check", "confirm"} /\ MinedOk(job[w].tx)

\* Only one request of an operation is beyond its start.
LEMMA GivenBy ==
  ASSUME OnceInv, NEW op \in Ops, NEW tx, Given(tx, op),
         NEW r \in Requests, OpOf[r] = op, stage[r] # "start"
  PROVE  tx = reqTx[r] /\ pc[r] \notin {"idle", "read", "prepared"}
  BY DEF Given, OnceInv

\* Becoming prompt: the block takes what the first check will look for.
LEMMA BecomesPrompt ==
  ASSUME JourneyTypeOK, TypeInv, DeadlineInv, ChainGoesOn,
         NEW op \in Ops, Early(op), ~Executed(op), Executed(op)'
  PROVE  Prompted(op)'
  <1>1. PICK tx \in sent : Mine(tx) /\ tx.op = op /\ ~WouldRevert(op)
    <2>1. PICK m \in mined' : m.tx.op = op /\ m.ok /\ m \notin mined
      BY DEF Executed
    <2>2. PICK tx \in sent : Mine(tx)
      BY <2>1 DEF ChainGoesOn, ChainStep, Evict, Void
    <2>3. m = [tx |-> tx, ok |-> ~WouldRevert(tx.op)]
      BY <2>1, <2>2 DEF Mine
    <2>4. m.tx = tx /\ m.ok = ~WouldRevert(tx.op)
      BY <2>3
    <2>5. QED
      BY <2>1, <2>2, <2>4
  <1>2. Given(tx, op) /\ MinedOk(tx)'
    BY <1>1 DEF Early, Mine, MinedOk
  <1>3. UNCHANGED <<row, rVars, jobs, wVars, stage>> /\ sent' = sent
    BY <1>1 DEF ChainGoesOn, ChainStep, Mine, clientVars
  <1>4. PICK r \in Requests : OpOf[r] = op /\ tx = reqTx[r] /\ pc[r] \notin {"idle", "read", "prepared"}
    BY <1>2 DEF Given
  <1>5. stage[r] # "start" /\ row[op].status # Absent
    BY <1>4 DEF DeadlineInv, OnceInv
  <1>6. ASSUME NEW j \in jobs, j.op = op PROVE j.tx = tx
    <2>1. Given(j.tx, op)
      BY <1>6 DEF Early
    <2>2. QED
      BY <1>4, <1>5, <2>1, GivenBy DEF DeadlineInv
  <1>7. Given(tx, op)'
    BY <1>3, <1>4 DEF Given
  <1>8. QED
    BY <1>2, <1>3, <1>5, <1>6, <1>7 DEF Early, Prompted, Fresh, Running

\* A receipt that is there is found, unless the RPC call fails: the check of
\* a prompt operation confirms it.
LEMMA NextPrompted ==
  ASSUME JourneyTypeOK, TypeInv, ChainInv, DeadlineInv, [JourneyNext]_jVars,
         NEW op \in Ops \ disturbed', Prompted(op)
  PROVE  Prompted(op)'
  <1> USE ConstantsAssumption
  <1>1. [Next]_vars /\ op \notin disturbed
    BY NextRefines, DisturbedGrows DEF jVars
  <1>2. Sole(op) /\ InStep(op) /\ OnceInv
    BY <1>1 DEF DeadlineInv
  <1>3. /\ row[op].bumps = 0
        /\ row[op].status \in {"PENDING", "SUBMITTED", "CONFIRMED"}
        /\ \A j \in jobs : j.op = op => MinedOk(j.tx)
        /\ \A w \in Workers : Running(w, op) => phase[w] \in {"check", "confirm"} /\ MinedOk(job[w].tx)
    BY DEF Prompted
  <1>4. \A tx : MinedOk(tx) => MinedOk(tx)'
    BY MinedGrows DEF MinedOk
  <1>5. PICK tx \in sent : Given(tx, op) /\ MinedOk(tx)
    BY DEF Prompted
  <1>6. tx \in sent' /\ Given(tx, op)' /\ MinedOk(tx)'
    BY <1>1, <1>4, <1>5, GivenStays, SentBy DEF Send
  <1>7. row'[op].bumps = 0 /\ row'[op].status \in {"PENDING", "SUBMITTED", "CONFIRMED"}
    <2>1. ASSUME NEW w \in Workers, job[w].op = op, Revert(w) \/ GiveUp(w) \/ Stick(w) \/ Remark(w)
          PROVE  FALSE
      BY <1>3, <2>1 DEF Revert, GiveUp, Stick, Remark, Enter, Running
    <2>2. ASSUME NEW w \in Workers, Confirm(w), job[w].op = op
          PROVE  row'[op].status = "CONFIRMED"
      BY <2>2, MarkConfirmedEffect DEF Confirm, TypeInv, TypeOK
    <2>3. QED
      BY <1>1, <1>3, <2>1, <2>2, RowStep
  <1>8. ASSUME \A j \in jobs' : j.op = op => j \in jobs \/ MinedOk(j.tx)',
               \A w \in Workers : Running(w, op)' =>
                  \/ Running(w, op) /\ phase'[w] = phase[w] /\ job'[w] = job[w]
                  \/ phase'[w] \in {"check", "confirm"} /\ MinedOk(job[w].tx)'
        PROVE  Prompted(op)'
    <2>1. \A j \in jobs' : j.op = op => MinedOk(j.tx)'
      BY <1>3, <1>4, <1>8
    <2>2. ASSUME NEW w \in Workers, Running(w, op)'
          PROVE  phase'[w] \in {"check", "confirm"} /\ MinedOk(job[w].tx)'
      BY <1>3, <1>4, <1>8, <2>2 DEF MinedOk
    <2>3. QED
      BY <1>6, <1>7, <2>1, <2>2 DEF Prompted, MinedOk
  <1>9. CASE UNCHANGED <<jobs, phase, job>>
    BY <1>8, <1>9 DEF Running
  <1>10. ASSUME NEW r \in Requests, CallSubmit(r) PROVE Prompted(op)'
    <2>1. UNCHANGED <<phase, job>>
      BY <1>10 DEF CallSubmit, Submit, RequestStep, Prepare, PrepareFails, Broadcast,
         BroadcastFails, MarkFirst, MarkFirstConflicts, Enqueue
    <2>2. ASSUME NEW j \in jobs' \ jobs, j.op = op PROVE MinedOk(j.tx)'
      <3>1. Enqueue(r)
        BY <1>10, <2>2 DEF CallSubmit, Submit, RequestStep, Prepare, PrepareFails, Broadcast,
           BroadcastFails, MarkFirst, MarkFirstConflicts
      <3>2. j = [op |-> OpOf[r], tx |-> reqTx[r], stalls |-> 0]
        BY <2>2, <3>1 DEF Enqueue
      <3>3. OpOf[r] = op /\ j.tx = reqTx[r]
        BY <2>2, <3>2
      <3>4. stage[r] # "start"
        BY <1>10 DEF CallSubmit
      <3>5. tx = reqTx[r]
        BY <1>2, <1>5, <3>3, <3>4, GivenBy
      <3>6. QED
        BY <1>6, <3>3, <3>5
    <2>3. QED
      BY <1>8, <2>1, <2>2 DEF Running
  <1>11. ASSUME NEW w \in Workers, RunCheck(w) PROVE Prompted(op)'
    <2>1. RunStep(w)
      BY <1>11 DEF RunCheck, RunStep
    <2>2. \A v \in Workers \ {w} : phase'[v] = phase[v] /\ job'[v] = job[v]
      BY <2>1, RunAlone
    <2>3. CASE ~Running(w, op)
      <3>1. \A j \in jobs' : j.op = op => j \in jobs
        BY <2>1, <2>3, RunAlone
      <3>2. ASSUME NEW j \in jobs, Take(w, j) PROVE Prompted(op)'
        <4>1. phase'[w] = "check" /\ job'[w] = j
          BY <3>2 DEF Take, Enter, TypeInv, TypeOK
        <4>2. j.op = op => MinedOk(j.tx)'
          BY <1>3, <1>4
        <4>3. QED
          BY <1>8, <2>2, <3>1, <4>1, <4>2 DEF Running, MinedOk
      <3>3. ASSUME \A j \in jobs : ~Take(w, j) PROVE ~Running(w, op)'
        BY <2>1, <2>3, <3>3 DEF RunStep, CheckReceipt, Confirm, Revert, LoadRow, GiveUp, Stick,
           Rebroadcast, RebroadcastFails, Remark, Requeue, CheckConflicts, Enter, EndRun,
           Running, TypeInv, TypeOK, Jobs
      <3>4. QED
        BY <1>8, <2>2, <3>1, <3>2, <3>3 DEF Running
    <2>4. CASE Running(w, op)
      <3>1. phase[w] \in {"check", "confirm"} /\ MinedOk(job[w].tx) /\ job[w].op = op
        BY <1>3, <2>4 DEF Running
      <3>2. ~MinedReverted(job[w].tx)
        BY <3>1 DEF ChainInv, MinedOk, MinedReverted
      <3>3. CASE CheckReceipt(w)
        <4>1. phase[w] = "check" /\ UNCHANGED <<jobs, job>>
          BY <3>3 DEF CheckReceipt
        <4>2. phase'[w] # "load"
          BY <1>11, <3>1, <4>1 DEF RunCheck, Mined
        <4>3. phase'[w] = "confirm"
          BY <3>1, <3>2, <3>3, <4>2 DEF CheckReceipt, Enter, Mined, TypeInv, TypeOK
        <4>4. MinedOk(job[w].tx)'
          BY <1>4, <3>1, <4>1 DEF MinedOk
        <4>5. QED
          BY <1>8, <2>2, <4>1, <4>3, <4>4 DEF Running
      <3>4. CASE Confirm(w) \/ CheckConflicts(w)
        <4>1. phase'[w] = "idle" /\ UNCHANGED jobs
          BY <3>4 DEF Confirm, CheckConflicts, EndRun, TypeInv, TypeOK
        <4>2. QED
          BY <1>8, <2>2, <4>1 DEF Running
      <3>5. QED
        BY <2>1, <3>1, <3>3, <3>4 DEF RunStep, Take, Revert, LoadRow, GiveUp, Stick,
           Rebroadcast, RebroadcastFails, Remark, Requeue, Enter
    <2>5. QED
      BY <2>3, <2>4
  <1>12. ASSUME NEW w \in Workers, Stall(w) PROVE Prompted(op)'
    <2>1. ~Running(w, op) /\ Redeliver(w)
      BY <1>12 DEF Stall, Running
    <2>2. ~Running(w, op)'
      BY <2>1 DEF Redeliver, EndRun, Running, TypeInv, TypeOK, Jobs
    <2>3. /\ \A j \in jobs' : j.op = op => j \in jobs
          /\ \A v \in Workers \ {w} : phase'[v] = phase[v] /\ job'[v] = job[v]
      BY <2>1, RunAlone
    <2>4. QED
      BY <1>8, <2>2, <2>3 DEF Running
  <1>13. QED
    BY <1>9, <1>10, <1>11, <1>12 DEF JourneyNext, AskSponsorship, Sponsor, Poll, Expire,
       ChainGoesOn, ChainStep, Tick, jVars

\* A client polls once a tick: while its operation waits for its first check
\* it has polled no more often than the operation has aged.
Patient(r, op) ==
    /\ stage[r] \in {"start", "sponsored", "waiting"} => ~awake[r] /\ answer[r].status = Absent
    /\ stage[r] = "polling" => row[op].status \notin Fresh
    /\ stage[r] = "polling" /\ row[op].status = "SUBMITTED" /\ row[op].bumps = 0 =>
         polls[r] + (IF awake[r] THEN 1 ELSE 0) <= age[op]
    /\ stage[r] = "failed" /\ answer[r].status # Absent => age[op] >= CheckDelay /\ op \notin prompt

PatienceInv ==
    /\ \A op \in Ops \ disturbed :
         /\ age[op] < CheckDelay => Early(op)
         /\ op \in prompt => Prompted(op)
    /\ \A r \in Requests : OpOf[r] \notin disturbed => Patient(r, OpOf[r])

\* Everything that holds in every state, by the lemmas before.
Background == JourneyTypeOK /\ ClientInv /\ TypeInv /\ SettledInv /\ ChainInv /\ DeadlineInv

\* An operation enters prompt before its first check is due.
LEMMA PromptGrows ==
  ASSUME [JourneyNext]_jVars, NEW op \in Ops, op \in prompt', op \notin prompt
  PROVE  ChainGoesOn /\ ~Executed(op) /\ Executed(op)' /\ age[op] < CheckDelay
  BY DEF JourneyNext, AskSponsorship, CallSubmit, Poll, RunCheck, Stall, Expire, ChainGoesOn,
     Tick, jVars, historyVars

\* A row is SUBMITTED for the first time by the one call that submits it.
LEMMA FirstSubmitted ==
  ASSUME TypeInv, [Next]_vars, NEW op \in Ops,
         row'[op].status = "SUBMITTED", row'[op].bumps = 0,
         \A r \in Requests : OpOf[r] = op => ~MarkFirst(r)
  PROVE  row[op].status = "SUBMITTED" /\ row[op].bumps = 0
  <1>1. row[op].bumps \in Nat
    BY DEF TypeInv, TypeOK, RowTypeOK, Rows
  <1>2. row[op].bumps + 1 # 0
    BY <1>1
  <1>3. QED
    BY <1>2, RowStep

\* A row never becomes fresh again.
LEMMA NeverFresh ==
  ASSUME TypeInv, [Next]_vars, NEW op \in Ops, row[op].status \notin Fresh
  PROVE  row'[op].status \notin Fresh
  BY RowStep DEF Fresh, Absent

\* A poll that ends in failure comes after the first check was due, and the
\* check of a prompt operation has confirmed it by then.
LEMMA PollPatient ==
  ASSUME Background, PatienceInv, NEW r \in Requests, Poll(r), OpOf[r] \notin disturbed,
         stage'[r] = "failed"
  PROVE  age[OpOf[r]] >= CheckDelay /\ OpOf[r] \notin prompt
  <1> USE ConstantsAssumption, TimersAssumption
  <1> DEFINE op == OpOf[r]
  <1>1. op \in Ops \ disturbed
    OBVIOUS
  <1> HIDE DEF op
  <1>2. /\ stage[r] = "polling" /\ awake[r]
        /\ row[op].status # "CONFIRMED"
        /\ row[op].status = "FAILED" \/ polls[r] + 1 = MaxPolls
    BY DEF Poll, StageAfter, Background, JourneyTypeOK, op
  <1>3. Patient(r, op)
    BY DEF PatienceInv, op
  <1>4. row[op].status \notin Fresh
    BY <1>2, <1>3 DEF Patient
  <1>5. age[op] \in Nat /\ polls[r] \in Nat
    BY <1>1, DeadlineNat DEF Background, JourneyTypeOK
  <1>6. ASSUME row[op].status = "SUBMITTED", row[op].bumps = 0 PROVE polls[r] + 1 <= age[op]
    BY <1>2, <1>3, <1>6 DEF Patient
  <1>7. age[op] >= CheckDelay
    <2>1. ASSUME age[op] < CheckDelay PROVE FALSE
      <3>1. row[op].status = "SUBMITTED" /\ row[op].bumps = 0
        BY <1>1, <1>4, <2>1 DEF PatienceInv, Early
      <3>2. polls[r] + 1 = MaxPolls /\ polls[r] + 1 <= age[op]
        BY <1>2, <1>6, <3>1
      <3>3. QED
        BY <1>5, <2>1, <3>2
    <2>2. QED
      BY <1>5, <2>1
  <1>8. op \notin prompt
    <2>1. ASSUME op \in prompt PROVE FALSE
      <3>1. row[op].status = "SUBMITTED" /\ row[op].bumps = 0
        BY <1>1, <1>2, <1>4, <2>1 DEF PatienceInv, Prompted, Fresh
      <3>2. polls[r] + 1 = MaxPolls /\ polls[r] + 1 <= age[op]
        BY <1>2, <1>6, <3>1
      <3>3. age[op] <= Checks(0 + 1)
        BY <1>1, <3>1, AgeInPeriod DEF Background
      <3>4. Checks(0 + 1) = CheckDelay + Latency
        BY ChecksNat DEF Checks, Period
      <3>5. QED
        BY <1>5, <3>2, <3>3, <3>4
    <2>2. QED
      BY <2>1
  <1>9. QED
    BY <1>7, <1>8 DEF op

\* A submit call that was accepted does not end its client.
LEMMA AcceptedPatient ==
  ASSUME Background, NEW r \in Requests, CallSubmit(r), OpOf[r] \notin disturbed
  PROVE  /\ stage'[r] = "failed" => answer'[r] = answer[r]
         /\ stage'[r] = "waiting" => answer'[r] = answer[r]
         /\ stage'[r] = "polling" => row'[OpOf[r]].status \notin Fresh
  <1> USE ConstantsAssumption, TimersAssumption DEF Background
  <1>1. CASE pc'[r] = "accepted"
    <2>1. Enqueue(r) /\ pc[r] = "marked"
      BY <1>1 DEF CallSubmit, Submit, RequestStep, Prepare, PrepareFails, Broadcast, BroadcastFails,
         MarkFirst, MarkFirstConflicts, Enqueue, Goto, TypeInv, TypeOK
    <2>2. row[OpOf[r]].status = "SUBMITTED" /\ UNCHANGED row
      BY <2>1 DEF DeadlineInv, InStep, Marked, Enqueue
    <2>3. StageAfter(row[OpOf[r]].status, 0) = "polling"
      BY <2>2 DEF StageAfter
    <2>4. stage'[r] = "polling"
      BY <1>1, <2>3 DEF CallSubmit, Answered, JourneyTypeOK
    <2>5. QED
      BY <2>2, <2>4 DEF Fresh, Absent
  <1>2. CASE pc'[r] # "accepted"
    BY <1>2 DEF CallSubmit, Answered, JourneyTypeOK
  <1>3. QED
    BY <1>1, <1>2

\* Polls and ticks keep in step.
LEMMA NextPatient ==
  ASSUME Background, PatienceInv, [JourneyNext]_jVars,
         NEW op \in Ops \ disturbed', NEW r \in Requests, OpOf[r] = op
  PROVE  Patient(r, op)'
  <1> USE ConstantsAssumption, TimersAssumption
  <1>1. op \in Ops \ disturbed
    BY DisturbedGrows
  <1>2. /\ JourneyTypeOK /\ ClientInv /\ TypeInv /\ DeadlineInv /\ OnceInv /\ [Next]_vars
        /\ Patient(r, op) /\ Sole(op) /\ InStep(op)
    BY <1>1, NextRefines DEF Background, PatienceInv, DeadlineInv, jVars
  <1>3. age[op] \in Nat /\ age'[op] \in Nat /\ age[op] <= age'[op] /\ polls[r] \in Nat
    BY <1>1, <1>2, AgeGrows DEF JourneyTypeOK
  <1>4. stage[r] # "start" => \A q \in Requests : MarkFirst(q) /\ OpOf[q] = op => q = r
    BY <1>1, <1>2 DEF OnceInv, InFlight, MarkFirst, Goto
  <1>5. ASSUME stage'[r] = stage[r], answer'[r] = answer[r], polls'[r] = polls[r],
               awake'[r] = awake[r]
        PROVE  Patient(r, op)'
    <2>1. stage[r] = "polling" => row'[op].status \notin Fresh
      BY <1>1, <1>2, NeverFresh DEF Patient
    <2>2. ASSUME stage[r] = "polling", row'[op].status = "SUBMITTED", row'[op].bumps = 0
          PROVE  polls[r] + (IF awake[r] THEN 1 ELSE 0) <= age'[op]
      <3>1. \A q \in Requests : OpOf[q] = op => ~MarkFirst(q)
        BY <1>1, <1>2, <1>4, <2>2 DEF OnceInv, InFlight, MarkFirst, Goto
      <3>2. row[op].status = "SUBMITTED" /\ row[op].bumps = 0
        BY <1>1, <1>2, <2>2, <3>1, FirstSubmitted
      <3>3. polls[r] + (IF awake[r] THEN 1 ELSE 0) <= age[op]
        BY <1>2, <2>2, <3>2 DEF Patient
      <3>4. QED
        BY <1>3, <3>3
    <2>3. ASSUME stage[r] = "failed", answer[r].status # Absent
          PROVE  age'[op] >= CheckDelay /\ op \notin prompt'
      <3>1. age[op] >= CheckDelay /\ op \notin prompt
        BY <1>2, <2>3 DEF Patient
      <3>2. op \notin prompt'
        BY <1>1, <1>3, <3>1, PromptGrows
      <3>3. QED
        BY <1>3, <3>1, <3>2
    <2>4. QED
      BY <1>2, <1>5, <2>1, <2>2, <2>3 DEF Patient
  <1>6. CASE AskSponsorship(r)
    BY <1>1, <1>2, <1>6 DEF AskSponsorship, JourneyTypeOK, Patient
  <1>7. CASE CallSubmit(r)
    <2>1. stage[r] \in {"sponsored", "waiting"} /\ ~awake[r] /\ answer[r].status = Absent
          /\ UNCHANGED <<polls, awake>>
      BY <1>2, <1>7 DEF CallSubmit, Patient
    <2>2. polls[r] = 0
      BY <1>2, <2>1 DEF ClientInv
    <2>3. /\ stage'[r] = "failed" => answer'[r].status = Absent
          /\ stage'[r] = "waiting" => answer'[r].status = Absent
          /\ stage'[r] = "polling" => row'[op].status \notin Fresh
          /\ stage'[r] \notin {"start", "sponsored"}
      BY <1>1, <1>2, <1>7, <2>1, AcceptedPatient, CallMoves DEF TypeInv
    <2>4. QED
      BY <1>3, <2>1, <2>2, <2>3 DEF Patient
  <1>8. CASE Poll(r)
    <2>1. /\ stage[r] = "polling" /\ awake[r] /\ ~awake'[r] /\ polls'[r] = polls[r] + 1
          /\ stage'[r] \in {"polling", "confirmed", "failed"}
          /\ UNCHANGED <<row, age, prompt>>
      BY <1>2, <1>8 DEF Poll, StageAfter, JourneyTypeOK, clockVars, historyVars
    <2>2. stage'[r] = "failed" => age[op] >= CheckDelay /\ op \notin prompt
      BY <1>1, <1>8, PollPatient
    <2>3. QED
      BY <1>2, <1>3, <2>1, <2>2 DEF Patient
  <1>9. CASE Tick
    <2>1. /\ UNCHANGED <<row, stage, answer, polls, prompt>>
          /\ awake'[r] = (stage[r] = "polling")
          /\ stage[r] = "polling" => ~awake[r]
      BY <1>9 DEF Tick, Quiet, historyVars
    <2>2. ASSUME stage[r] = "polling", row[op].status = "SUBMITTED", row[op].bumps = 0
          PROVE  polls[r] + 1 <= age'[op]
      <3>1. age[op] <= Deadline
        BY <1>1, <1>2, <2>2, DeadlineImplies DEF SettledByDeadline
      <3>2. age'[op] = age[op] + 1
        BY <1>1, <1>9, <2>2, <3>1 DEF Tick
      <3>3. polls[r] <= age[op]
        BY <1>2, <1>3, <2>1, <2>2 DEF Patient
      <3>4. QED
        BY <1>3, <3>2, <3>3
    <2>3. stage[r] \in {"start", "sponsored", "waiting"} => ~awake'[r] /\ answer[r].status = Absent
      BY <1>2, <2>1 DEF Patient
    <2>4. /\ stage[r] = "polling" => row[op].status \notin Fresh
          /\ stage[r] = "failed" /\ answer[r].status # Absent =>
               age'[op] >= CheckDelay /\ op \notin prompt
      <3>1. /\ stage[r] = "polling" => row[op].status \notin Fresh
            /\ stage[r] = "failed" /\ answer[r].status # Absent =>
                 age[op] >= CheckDelay /\ op \notin prompt
        BY <1>2 DEF Patient
      <3>2. CheckDelay \in Nat /\ age[op] \in Nat /\ age'[op] \in Nat /\ age'[op] >= age[op]
        BY <1>3
      <3>3. QED
        BY <3>1, <3>2
    <2>5. ASSUME stage[r] = "polling", row[op].status = "SUBMITTED", row[op].bumps = 0
          PROVE  polls[r] + (IF awake'[r] THEN 1 ELSE 0) <= age'[op]
      <3>1. awake'[r]
        BY <2>1, <2>5
      <3>2. QED
        BY <2>2, <2>5, <3>1
    <2>6. QED
      BY <2>1, <2>3, <2>4, <2>5 DEF Patient
  <1>10. ASSUME NEW q \in Requests \ {r}, AskSponsorship(q) \/ CallSubmit(q) \/ Poll(q)
         PROVE  /\ stage'[r] = stage[r] /\ answer'[r] = answer[r]
                /\ polls'[r] = polls[r] /\ awake'[r] = awake[r]
    <2>1. CASE AskSponsorship(q) \/ Poll(q)
      BY <1>2, <2>1 DEF AskSponsorship, Poll, JourneyTypeOK
    <2>2. CASE CallSubmit(q)
      BY <1>2, <2>2 DEF CallSubmit, Answered, JourneyTypeOK
    <2>3. QED
      BY <1>10, <2>1, <2>2
  <1>11. QED
    BY <1>5, <1>6, <1>7, <1>8, <1>9, <1>10 DEF JourneyNext, RunCheck, Stall, Expire,
       ChainGoesOn, jVars, clientVars

\* No operation is prompt, and no client has failed.
LEMMA InitPatience == JourneyInit => PatienceInv
  <1> SUFFICES ASSUME JourneyInit PROVE PatienceInv
    OBVIOUS
  <1> USE ConstantsAssumption DEF JourneyInit, Init, RowInit, ChainInit, NoAnswer, Fresh, Absent
  <1>1. ASSUME NEW op \in Ops PROVE Early(op) /\ op \notin prompt
    BY DEF Early, Running
  <1>2. ASSUME NEW r \in Requests PROVE Patient(r, OpOf[r])
    BY DEF Patient
  <1>3. QED
    BY <1>1, <1>2 DEF PatienceInv

\* One step of a client, a check, the chain or the clock.
LEMMA NextPatience ==
  ASSUME Background, PatienceInv, [JourneyNext]_jVars PROVE PatienceInv'
  <1>1. ASSUME NEW op \in Ops \ disturbed', age'[op] < CheckDelay PROVE Early(op)'
    <2>1. age[op] < CheckDelay /\ op \notin disturbed
      BY <1>1, AgeGrows, DisturbedGrows, TimersAssumption DEF Background
    <2>2. Early(op)
      BY <2>1 DEF PatienceInv
    <2>3. QED
      BY <1>1, <2>2, NextEarly DEF Background
  <1>2. ASSUME NEW op \in Ops \ disturbed', op \in prompt' PROVE Prompted(op)'
    <2>1. op \notin disturbed
      BY DisturbedGrows
    <2>2. CASE op \in prompt
      BY <2>1, <2>2, NextPrompted DEF Background, PatienceInv
    <2>3. CASE op \notin prompt
      <3>1. ChainGoesOn /\ ~Executed(op) /\ Executed(op)' /\ age[op] < CheckDelay
        BY <1>2, <2>3, PromptGrows
      <3>2. Early(op)
        BY <2>1, <3>1 DEF PatienceInv
      <3>3. QED
        BY <3>1, <3>2, BecomesPrompt DEF Background
    <2>4. QED
      BY <2>2, <2>3
  <1>3. ASSUME NEW r \in Requests, OpOf[r] \notin disturbed' PROVE Patient(r, OpOf[r])'
    <2>1. ASSUME NEW op \in Ops \ disturbed', OpOf[r] = op PROVE Patient(r, op)'
      BY <2>1, NextPatient
    <2>2. OpOf[r] \in Ops
      BY ConstantsAssumption
    <2>3. QED
      BY <1>3, <2>1, <2>2 DEF Patient
  <1>4. QED
    BY <1>1, <1>2, <1>3 DEF PatienceInv

\* demo.ts never reports as failed an operation whose submit was accepted and
\* that was mined before its first check was due, for any delay and any number
\* of polls that outlasts it, unless that check is redelivered or its RPC call
\* fails: the first check always comes while the client still polls.
THEOREM MinedInTimeNotFailed == JourneySpec => []MinedInTimeIsNotFailed
  <1>1. JourneySpec => []ClientInv
    BY InitClientInv, NextClientInv, JourneyRefines, TypeCorrect, PTL DEF JourneySpec
  <1>2. Spec => []SettledInv
    BY InitTypeInv, NextTypeInv, InitSettledInv, NextSettledInv, PTL DEF Spec
  <1>3. Init => ChainInv
    BY DEF Init, ChainInit, ChainInv
  <1>4. Spec => []ChainInv
    BY <1>3, InitTypeInv, NextTypeInv, NextChainInv, PTL DEF Spec
  <1>5. JourneyTypeOK /\ ClientInv /\ TypeInv /\ SettledInv /\ ChainInv /\ DeadlineInv => Background
    BY DEF Background
  <1>6. JourneySpec => []Background
    BY <1>1, <1>2, <1>4, <1>5, DeadlineAlways, JourneyRefines, PTL
  <1>7. PatienceInv => MinedInTimeIsNotFailed
    BY ConstantsAssumption DEF PatienceInv, Patient, MinedInTimeIsNotFailed
  <1>8. QED
    BY <1>6, <1>7, InitPatience, NextPatience, PTL DEF JourneySpec
=============================================================================
