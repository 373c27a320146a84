------------------------- MODULE ResubmissionProofs -------------------------
(***************************************************************************)
(* Proofs about Relayer's resubmissions and about what is left without     *)
(* one: the nonce an operation keeps, what a resubmission replaces, and    *)
(* that a SUBMITTED row is looked at again.                                *)
(***************************************************************************)
EXTENDS RelayerProofs

USE DEF vars, rVars, wVars, chainVars

(* Every SUBMITTED row is watched. *)

\* What is left that will look at op's transaction.
Watched(op) ==
    \/ \E j \in jobs : j.op = op
    \/ \E r \in Requests : pc[r] = "marked" /\ OpOf[r] = op
    \/ \E w \in Workers : Watching(w) /\ job[w].op = op

WatchedInv == \A op \in Ops : row[op].status = "SUBMITTED" => Watched(op)

\* Next without processes, databases or Redis failing between two awaits.
Undisturbed ==
    \/ \E op \in Ops : Sponsor(op)
    \/ \E r \in Requests : Submit(r) \/ RequestStep(r)
    \/ \E w \in Workers : RunStep(w) \/ Redeliver(w)
    \/ ChainStep

\* The pairwise form implies the one over sets of watchers.
LEMMA WatchedImplies == WatchedInv => SubmittedIsWatched
  <1> SUFFICES ASSUME NEW op \in Ops, Watched(op) PROVE Watchers(op) # {}
    BY DEF WatchedInv, SubmittedIsWatched
  <1>1. ASSUME NEW j \in jobs, j.op = op PROVE <<"job", j>> \in Watchers(op)
    BY <1>1 DEF Watchers, JobsFor
  <1>2. ASSUME NEW r \in Requests, pc[r] = "marked", OpOf[r] = op
        PROVE  <<"submit", r>> \in Watchers(op)
    BY <1>2 DEF Watchers, SubmitsFor
  <1>3. ASSUME NEW w \in Workers, Watching(w), job[w].op = op
        PROVE  <<"run", w>> \in Watchers(op)
    BY <1>3 DEF Watchers, RunsFor, Watching
  <1>4. QED
    BY <1>1, <1>2, <1>3 DEF Watched

\* markSubmitted comes with a submit call or a run that goes on to queue.add;
\* whatever ends a run otherwise, moves the row first.
LEMMA NextWatched ==
  ASSUME TypeInv, WatchedInv, Undisturbed \/ UNCHANGED vars PROVE WatchedInv'
  <1> USE ConstantsAssumption
  <1> USE DEF TypeInv, TypeOK, Jobs, WatchedInv, Watched, Watching, WatchPhases
  <1>1. CASE UNCHANGED vars
    BY <1>1
  <1>2. ASSUME NEW op \in Ops, Sponsor(op) PROVE WatchedInv'
    BY <1>2 DEF Sponsor, Create, Transition, RowTypeOK, Absent
  <1>3. ASSUME NEW r \in Requests,
               Submit(r) \/ Prepare(r) \/ PrepareFails(r) \/ Broadcast(r) \/ BroadcastFails(r)
                 \/ MarkFirstConflicts(r)
        PROVE  WatchedInv'
    BY <1>3 DEF Submit, Prepare, PrepareFails, Broadcast, BroadcastFails, MarkFirstConflicts,
       TransitionConflicts, Goto
  <1>4. ASSUME NEW r \in Requests, MarkFirst(r) PROVE WatchedInv'
    <2>1. OpOf[r] \in Ops /\ reqTx[r] \in Txs /\ 0 \in Nat
      BY <1>4 DEF MarkFirst, Goto
    <2>2. \A o \in Ops \ {OpOf[r]} : row'[o] = row[o]
      BY <1>4, <2>1, MarkSubmittedEffect DEF MarkFirst
    <2>3. QED
      BY <1>4, <2>2 DEF MarkFirst, Goto
  <1>5. ASSUME NEW r \in Requests, Enqueue(r) PROVE WatchedInv'
    <2> DEFINE k == [op |-> OpOf[r], tx |-> reqTx[r], stalls |-> 0]
    <2>1. k.op = OpOf[r] /\ jobs' = jobs \cup {k}
      BY <1>5 DEF Enqueue
    <2> HIDE DEF k
    <2>2. QED
      BY <1>5, <2>1 DEF Enqueue, Goto
  <1>6. ASSUME NEW w \in Workers, NEW j \in jobs, Take(w, j) PROVE WatchedInv'
    BY <1>6 DEF Take, Enter
  <1>7. ASSUME NEW w \in Workers, CheckReceipt(w) \/ LoadRow(w) PROVE WatchedInv'
    BY <1>7 DEF CheckReceipt, LoadRow, Enter
  <1>8. ASSUME NEW w \in Workers, job[w].op \in Ops, row'[job[w].op].status # "SUBMITTED",
               \A o \in Ops \ {job[w].op} : row'[o] = row[o], UNCHANGED <<jobs, pc>>,
               \A v \in Workers \ {w} : phase'[v] = phase[v] /\ job'[v] = job[v]
        PROVE  WatchedInv'
    BY <1>8
  <1>9. ASSUME NEW w \in Workers, Confirm(w) PROVE WatchedInv'
    BY <1>8, <1>9, MarkConfirmedEffect DEF Confirm, EndRun
  <1>10. ASSUME NEW w \in Workers, Revert(w) PROVE WatchedInv'
    BY <1>8, <1>10, MarkFailedEffect DEF Revert, Reasons, EndRun
  <1>11. ASSUME NEW w \in Workers, GiveUp(w) PROVE WatchedInv'
    BY <1>8, <1>11, MarkFailedEffect DEF GiveUp, Reasons, EndRun
  <1>12. ASSUME NEW w \in Workers, Stick(w) PROVE WatchedInv'
    BY <1>8, <1>12, MarkStuckEffect DEF Stick, Enter
  <1>13. ASSUME NEW w \in Workers, Rebroadcast(w) \/ RebroadcastFails(w) PROVE WatchedInv'
    BY <1>13 DEF Rebroadcast, RebroadcastFails, Enter, EndRun
  <1>14. ASSUME NEW w \in Workers, Remark(w) PROVE WatchedInv'
    <2>1. job[w].op \in Ops /\ bumped[w] \in Txs /\ 1 \in Nat
      BY <1>14 DEF Remark, Enter
    <2>2. \A o \in Ops \ {job[w].op} : row'[o] = row[o]
      BY <1>14, <2>1, MarkSubmittedEffect DEF Remark
    <2>3. QED
      BY <1>14, <2>2 DEF Remark, Enter
  <1>15. ASSUME NEW w \in Workers, Requeue(w) PROVE WatchedInv'
    <2> DEFINE k == [op |-> job[w].op, tx |-> bumped[w], stalls |-> 0]
    <2>1. k.op = job[w].op /\ jobs' = jobs \cup {k}
      BY <1>15 DEF Requeue
    <2> HIDE DEF k
    <2>2. QED
      BY <1>15, <2>1 DEF Requeue, EndRun
  <1>16. ASSUME NEW w \in Workers, CheckConflicts(w) PROVE WatchedInv'
    <2>1. job[w].op \in Ops /\ UNCHANGED <<row, jobs, pc>>
      BY <1>16 DEF CheckConflicts, TransitionConflicts
    <2>2. row[job[w].op].status # "SUBMITTED" \/ ~Watching(w)
      BY <1>16 DEF CheckConflicts, TransitionConflicts, SettleableFrom
    <2>3. QED
      BY <1>16, <2>1, <2>2 DEF CheckConflicts, EndRun
  <1>17. ASSUME NEW w \in Workers, Redeliver(w) PROVE WatchedInv'
    <2> DEFINE k == [job[w] EXCEPT !.stalls = @ + 1]
    <2>1. k.op = job[w].op /\ jobs' = jobs \cup {k} /\ UNCHANGED <<row, pc>>
      BY <1>17 DEF Redeliver
    <2>2. \A v \in Workers \ {w} : phase'[v] = phase[v] /\ job'[v] = job[v]
      BY <1>17 DEF Redeliver, EndRun
    <2> HIDE DEF k
    <2>3. QED
      BY <2>1, <2>2
  <1>18. CASE ChainStep
    BY <1>18 DEF ChainStep
  <1>19. QED
    BY <1>1, <1>2, <1>3, <1>4, <1>5, <1>6, <1>7, <1>9, <1>10, <1>11, <1>12, <1>13, <1>14,
       <1>15, <1>16, <1>17, <1>18 DEF Undisturbed, RequestStep, RunStep

\* Unless a process or Redis fails between markSubmitted and queue.add, a row
\* never stays SUBMITTED with nothing left that would look at it; also when
\* checks are redelivered and calls of one operation race.
THEOREM SubmittedWatched == ASSUME "abort" \notin Faults PROVE Spec => []SubmittedIsWatched
  <1>1. Init => WatchedInv
    BY DEF Init, RowInit, WatchedInv, Absent
  <1>2. [Next]_vars => Undisturbed \/ UNCHANGED vars
    BY DEF Next, Undisturbed, SubmitAborts, CheckAborts
  <1>3. QED
    BY <1>1, <1>2, InitTypeInv, NextTypeInv, NextWatched, WatchedImplies, PTL DEF Spec
-----------------------------------------------------------------------------
(* What a step does to one row, one request, one run. *)

\* Every step that changes a row is one of the state machine's transitions,
\* made by the request or the run that answers for the row.
LEMMA RowStep ==
  ASSUME TypeInv, [Next]_vars, NEW op \in Ops, row'[op] # row[op]
  PROVE  \/ /\ Sponsor(op)
            /\ row[op].status = Absent /\ row'[op].status = "PENDING"
            /\ row'[op].tx = row[op].tx /\ row'[op].bumps = row[op].bumps
         \/ \E r \in Requests :
               /\ MarkFirst(r) /\ OpOf[r] = op
               /\ row[op].status \in SubmittableFrom /\ row'[op].status = "SUBMITTED"
               /\ row'[op].tx = reqTx[r] /\ row'[op].bumps = row[op].bumps
         \/ \E w \in Workers :
               /\ Confirm(w) \/ Revert(w) \/ GiveUp(w)
               /\ job[w].op = op
               /\ row[op].status \in SettleableFrom /\ row'[op].status \in {"CONFIRMED", "FAILED"}
               /\ row'[op].tx = row[op].tx /\ row'[op].bumps = row[op].bumps
         \/ \E w \in Workers :
               /\ Stick(w) /\ job[w].op = op
               /\ row[op].status = "SUBMITTED" /\ row'[op].status = "STUCK"
               /\ row'[op].tx = row[op].tx /\ row'[op].bumps = row[op].bumps
         \/ \E w \in Workers :
               /\ Remark(w) /\ job[w].op = op
               /\ row[op].status \in SubmittableFrom /\ row'[op].status = "SUBMITTED"
               /\ row'[op].tx = bumped[w] /\ row'[op].bumps = row[op].bumps + 1
  <1> DEFINE Goal ==
        \/ /\ Sponsor(op)
           /\ row[op].status = Absent /\ row'[op].status = "PENDING"
           /\ row'[op].tx = row[op].tx /\ row'[op].bumps = row[op].bumps
        \/ \E r \in Requests :
              /\ MarkFirst(r) /\ OpOf[r] = op
              /\ row[op].status \in SubmittableFrom /\ row'[op].status = "SUBMITTED"
              /\ row'[op].tx = reqTx[r] /\ row'[op].bumps = row[op].bumps
        \/ \E w \in Workers :
              /\ Confirm(w) \/ Revert(w) \/ GiveUp(w)
              /\ job[w].op = op
              /\ row[op].status \in SettleableFrom /\ row'[op].status \in {"CONFIRMED", "FAILED"}
              /\ row'[op].tx = row[op].tx /\ row'[op].bumps = row[op].bumps
        \/ \E w \in Workers :
              /\ Stick(w) /\ job[w].op = op
              /\ row[op].status = "SUBMITTED" /\ row'[op].status = "STUCK"
              /\ row'[op].tx = row[op].tx /\ row'[op].bumps = row[op].bumps
        \/ \E w \in Workers :
              /\ Remark(w) /\ job[w].op = op
              /\ row[op].status \in SubmittableFrom /\ row'[op].status = "SUBMITTED"
              /\ row'[op].tx = bumped[w] /\ row'[op].bumps = row[op].bumps + 1
  <1> SUFFICES Goal
    OBVIOUS
  <1> USE ConstantsAssumption
  <1> USE DEF TypeInv, TypeOK, Jobs
  <1>1. ASSUME NEW o \in Ops, Sponsor(o) PROVE Goal
    <2>1. o = op
      BY <1>1 DEF Sponsor, Create, Transition, RowTypeOK
    <2>2. QED
      BY <1>1, <2>1 DEF Sponsor, Create, Transition, RowTypeOK, Rows
  <1>2. ASSUME NEW r \in Requests, MarkFirst(r) PROVE Goal
    <2>1. OpOf[r] \in Ops /\ reqTx[r] \in Txs /\ 0 \in Nat
      BY <1>2 DEF MarkFirst, Goto
    <2>2. /\ row[OpOf[r]].status \in SubmittableFrom
          /\ row'[OpOf[r]].status = "SUBMITTED" /\ row'[OpOf[r]].tx = reqTx[r]
          /\ row'[OpOf[r]].bumps = row[OpOf[r]].bumps + 0
          /\ \A o \in Ops \ {OpOf[r]} : row'[o] = row[o]
      BY <1>2, <2>1, MarkSubmittedEffect DEF MarkFirst, SubmittableFrom
    <2>3. OpOf[r] = op /\ row[op].bumps \in Nat
      BY <2>2 DEF RowTypeOK, Rows
    <2>4. QED
      BY <1>2, <2>2, <2>3
  <1>3. ASSUME NEW w \in Workers, Confirm(w) PROVE Goal
    <2>1. /\ row[job[w].op].status \in SettleableFrom /\ row'[job[w].op].status = "CONFIRMED"
          /\ row'[job[w].op].tx = row[job[w].op].tx /\ row'[job[w].op].bumps = row[job[w].op].bumps
          /\ \A o \in Ops \ {job[w].op} : row'[o] = row[o]
      BY <1>3, MarkConfirmedEffect DEF Confirm, SettleableFrom
    <2>2. job[w].op = op
      BY <2>1
    <2>3. QED
      BY <1>3, <2>1, <2>2
  <1>4. ASSUME NEW w \in Workers, Revert(w) \/ GiveUp(w) PROVE Goal
    <2>1. /\ row[job[w].op].status \in SettleableFrom /\ row'[job[w].op].status = "FAILED"
          /\ row'[job[w].op].tx = row[job[w].op].tx /\ row'[job[w].op].bumps = row[job[w].op].bumps
          /\ \A o \in Ops \ {job[w].op} : row'[o] = row[o]
      BY <1>4, MarkFailedEffect DEF Revert, GiveUp, Reasons, SettleableFrom
    <2>2. job[w].op = op
      BY <2>1
    <2>3. QED
      BY <1>4, <2>1, <2>2
  <1>5. ASSUME NEW w \in Workers, Stick(w) PROVE Goal
    <2>1. /\ row[job[w].op].status = "SUBMITTED" /\ row'[job[w].op].status = "STUCK"
          /\ row'[job[w].op].tx = row[job[w].op].tx /\ row'[job[w].op].bumps = row[job[w].op].bumps
          /\ \A o \in Ops \ {job[w].op} : row'[o] = row[o]
      BY <1>5, MarkStuckEffect DEF Stick, Enter
    <2>2. job[w].op = op
      BY <2>1
    <2>3. QED
      BY <1>5, <2>1, <2>2
  <1>6. ASSUME NEW w \in Workers, Remark(w) PROVE Goal
    <2>1. job[w].op \in Ops /\ bumped[w] \in Txs /\ 1 \in Nat
      BY <1>6 DEF Remark, Enter
    <2>2. /\ row[job[w].op].status \in SubmittableFrom
          /\ row'[job[w].op].status = "SUBMITTED" /\ row'[job[w].op].tx = bumped[w]
          /\ row'[job[w].op].bumps = row[job[w].op].bumps + 1
          /\ \A o \in Ops \ {job[w].op} : row'[o] = row[o]
      BY <1>6, <2>1, MarkSubmittedEffect DEF Remark, SubmittableFrom
    <2>3. job[w].op = op
      BY <2>2
    <2>4. QED
      BY <1>6, <2>2, <2>3
  <1> HIDE DEF Goal
  <1>7. QED
    BY <1>1, <1>2, <1>3, <1>4, <1>5, <1>6
       DEF Next, RequestStep, RunStep, Submit, Prepare, PrepareFails, Broadcast, BroadcastFails,
           MarkFirstConflicts, Enqueue, SubmitAborts, Take, CheckReceipt, LoadRow, Rebroadcast,
           RebroadcastFails, Requeue, CheckConflicts, TransitionConflicts, CheckAborts, Redeliver,
           ChainStep

\* A run is moved by its own worker's steps only.
LEMMA RunMoves ==
  ASSUME TypeInv, [Next]_vars, NEW w \in Workers
  PROVE  \/ /\ phase'[w] = phase[w] /\ job'[w] = job[w]
            /\ seen'[w] = seen[w] /\ bumped'[w] = bumped[w]
         \/ RunStep(w) \/ CheckAborts(w) \/ Redeliver(w)
  <1> USE DEF TypeInv, TypeOK
  <1>1. ASSUME NEW v \in Workers \ {w}, RunStep(v) \/ CheckAborts(v) \/ Redeliver(v)
        PROVE  /\ phase'[w] = phase[w] /\ job'[w] = job[w]
               /\ seen'[w] = seen[w] /\ bumped'[w] = bumped[w]
    BY <1>1 DEF RunStep, Take, CheckReceipt, Confirm, Revert, LoadRow, GiveUp, Stick, Rebroadcast,
       RebroadcastFails, Remark, Requeue, CheckConflicts, CheckAborts, Redeliver, Enter, EndRun
  <1>2. ASSUME NEW r \in Requests, Submit(r) \/ RequestStep(r) \/ SubmitAborts(r)
        PROVE  UNCHANGED wVars
    BY <1>2 DEF Submit, RequestStep, Prepare, PrepareFails, Broadcast, BroadcastFails,
       MarkFirst, MarkFirstConflicts, Enqueue, SubmitAborts
  <1>3. QED
    BY <1>1, <1>2 DEF Next, Sponsor, ChainStep

\* A request's transaction is set once, as it is prepared.
LEMMA RequestMoves ==
  ASSUME TypeInv, [Next]_vars, NEW r \in Requests
  PROVE  \/ reqTx'[r] = reqTx[r] /\ (pc'[r] \in {"idle", "read"} => pc[r] \in {"idle", "read"})
         \/ /\ pc[r] = "read" /\ pc'[r] = "prepared" /\ UNCHANGED row
            /\ reqTx'[r] \in Txs /\ reqTx'[r].op = OpOf[r] /\ reqTx'[r].fee \in MarketFees
  <1> USE DEF TypeInv, TypeOK
  <1>1. ASSUME NEW q \in Requests, Prepare(q)
        PROVE  \/ q # r /\ reqTx'[r] = reqTx[r] /\ pc'[r] = pc[r]
               \/ /\ q = r /\ pc[r] = "read" /\ pc'[r] = "prepared" /\ UNCHANGED row
                  /\ reqTx'[r] \in Txs /\ reqTx'[r].op = OpOf[r] /\ reqTx'[r].fee \in MarketFees
    <2>1. PICK n \in 0 .. MaxNonce, f \in MarketFees :
            reqTx' = [reqTx EXCEPT ![q] = [op |-> OpOf[q], nonce |-> n, fee |-> f]]
      BY <1>1 DEF Prepare
    <2>2. [op |-> OpOf[q], nonce |-> n, fee |-> f] \in Txs
      BY ConstantsAssumption DEF Txs
    <2>3. QED
      BY <1>1, <2>1, <2>2 DEF Prepare, Goto
  <1>2. ASSUME NEW q \in Requests, Submit(q) \/ RequestStep(q) \/ SubmitAborts(q), ~Prepare(q)
        PROVE  reqTx'[r] = reqTx[r] /\ (pc'[r] \in {"idle", "read"} => pc[r] \in {"idle", "read"})
    BY <1>2 DEF Submit, RequestStep, PrepareFails, Broadcast, BroadcastFails, MarkFirst,
       MarkFirstConflicts, Enqueue, SubmitAborts, Goto
  <1>3. ASSUME NEW w \in Workers, RunStep(w) \/ CheckAborts(w) \/ Redeliver(w)
        PROVE  UNCHANGED rVars
    BY <1>3 DEF RunStep, Take, CheckReceipt, Confirm, Revert, LoadRow, GiveUp, Stick, Rebroadcast,
       RebroadcastFails, Remark, Requeue, CheckConflicts, CheckAborts, Redeliver
  <1>4. QED
    BY <1>1, <1>2, <1>3 DEF Next, Sponsor, ChainStep

\* What is sent is a request's transaction or a run's replacement.
LEMMA SentBy ==
  ASSUME TypeInv, [Next]_vars
  PROVE  \/ UNCHANGED sent /\ pool' \subseteq pool
         \/ \E r \in Requests : pc[r] = "prepared" /\ Send(reqTx[r])
         \/ \E w \in Workers : phase[w] = "rebroadcast" /\ Send(Replacement(w))
  <1>1. ASSUME NEW r \in Requests, Submit(r) \/ RequestStep(r) \/ SubmitAborts(r)
        PROVE  \/ UNCHANGED <<sent, pool>>
               \/ pc[r] = "prepared" /\ Send(reqTx[r])
    BY <1>1 DEF Submit, RequestStep, Prepare, PrepareFails, Broadcast, BroadcastFails,
       MarkFirst, MarkFirstConflicts, Enqueue, SubmitAborts, Goto
  <1>2. ASSUME NEW w \in Workers, RunStep(w) \/ CheckAborts(w) \/ Redeliver(w)
        PROVE  \/ UNCHANGED <<sent, pool>>
               \/ phase[w] = "rebroadcast" /\ Send(Replacement(w))
    BY <1>2 DEF RunStep, Take, CheckReceipt, Confirm, Revert, LoadRow, GiveUp, Stick, Rebroadcast,
       RebroadcastFails, Remark, Requeue, CheckConflicts, CheckAborts, Redeliver, Enter
  <1>3. CASE ChainStep
    BY <1>3 DEF ChainStep, Mine, Evict, Void
  <1>4. QED
    BY <1>1, <1>2, <1>3 DEF Next, Sponsor
-----------------------------------------------------------------------------
(* An operation that is submitted once keeps its nonce. *)

SubmittedOnce == \A r, s \in Requests : OpOf[r] = OpOf[s] => r = s

\* tx carries op at the nonce that op's request was given.
Nonced(tx, op, prepared) ==
    /\ tx.op = op
    /\ \E r \in Requests : OpOf[r] = op /\ prepared[r] \in Txs /\ tx.nonce = prepared[r].nonce

\* Whatever is sent, on file or in a run's hands has the nonce of its request.
NonceInv ==
    /\ \A r \in Requests : pc[r] \in {"idle", "read"} => reqTx[r] = NoTx
    /\ \A r \in Requests : reqTx[r] \in Txs => reqTx[r].op = OpOf[r]
    /\ \A tx \in sent : Nonced(tx, tx.op, reqTx)
    /\ \A op \in Ops : row[op].tx \in Txs => Nonced(row[op].tx, op, reqTx)
    /\ \A w \in Workers :
         /\ phase[w] \in {"giveup", "stick", "rebroadcast"} => Nonced(seen[w], job[w].op, reqTx)
         /\ phase[w] = "remark" => Nonced(bumped[w], job[w].op, reqTx)
    /\ \A s, t \in pool : s.nonce = t.nonce => s = t

\* A nonce that was given stays given.
LEMMA NoncedStays ==
  ASSUME TypeInv, NonceInv, [Next]_vars, NEW tx, NEW op, Nonced(tx, op, reqTx)
  PROVE  Nonced(tx, op, reqTx')
  <1>1. PICK r \in Requests : OpOf[r] = op /\ reqTx[r] \in Txs /\ tx.nonce = reqTx[r].nonce
    BY DEF Nonced
  <1>2. reqTx'[r] = reqTx[r]
    BY <1>1, RequestMoves, NoTxAssumption DEF NonceInv
  <1>3. QED
    BY <1>1, <1>2 DEF Nonced

\* A replacement has the nonce of what it replaces.
LEMMA ReplacementNonced ==
  ASSUME NEW w \in Workers, Nonced(seen[w], job[w].op, reqTx)
  PROVE  Nonced(Replacement(w), job[w].op, reqTx)
  BY DEF Nonced, Replacement

\* One step of a run keeps what it has in hand nonced.
LEMMA RunNonced ==
  ASSUME TypeInv, NonceInv, [Next]_vars, NEW w \in Workers
  PROVE  /\ phase'[w] \in {"giveup", "stick", "rebroadcast"} => Nonced(seen'[w], job'[w].op, reqTx')
         /\ phase'[w] = "remark" => Nonced(bumped'[w], job'[w].op, reqTx')
  <1> USE DEF TypeInv, TypeOK, Jobs
  <1>1. ASSUME phase'[w] = phase[w], phase[w] # "idle" => job'[w].op = job[w].op,
               seen'[w] = seen[w], bumped'[w] = bumped[w]
        PROVE  /\ phase'[w] \in {"giveup", "stick", "rebroadcast"} => Nonced(seen'[w], job'[w].op, reqTx')
               /\ phase'[w] = "remark" => Nonced(bumped'[w], job'[w].op, reqTx')
    BY <1>1, NoncedStays DEF NonceInv
  <1>2. ASSUME phase'[w] \notin {"giveup", "stick", "rebroadcast", "remark"}
        PROVE  /\ phase'[w] \in {"giveup", "stick", "rebroadcast"} => Nonced(seen'[w], job'[w].op, reqTx')
               /\ phase'[w] = "remark" => Nonced(bumped'[w], job'[w].op, reqTx')
    BY <1>2
  <1>3. CASE LoadRow(w)
    <2>1. job[w].op \in Ops /\ row[job[w].op].tx \in Txs
      BY <1>3 DEF LoadRow, CheckedRowsHaveTx
    <2>2. Nonced(row[job[w].op].tx, job[w].op, reqTx)
      BY <2>1 DEF NonceInv
    <2>3. /\ seen'[w] = row[job[w].op].tx /\ job'[w] = job[w] /\ reqTx' = reqTx
          /\ phase'[w] \in {"giveup", "stick"}
      BY <1>3 DEF LoadRow, Enter
    <2>4. QED
      BY <2>2, <2>3
  <1>4. CASE Stick(w)
    <2>1. /\ phase[w] = "stick" /\ phase'[w] = "rebroadcast"
          /\ seen'[w] = seen[w] /\ job'[w] = job[w] /\ reqTx' = reqTx
      BY <1>4 DEF Stick, Enter
    <2>2. QED
      BY <2>1 DEF NonceInv
  <1>5. CASE Rebroadcast(w)
    <2>1. /\ phase[w] = "rebroadcast" /\ phase'[w] = "remark"
          /\ bumped'[w] = Replacement(w) /\ job'[w] = job[w] /\ reqTx' = reqTx
      BY <1>5 DEF Rebroadcast, Enter
    <2>2. Nonced(Replacement(w), job[w].op, reqTx)
      BY <2>1, ReplacementNonced DEF NonceInv
    <2>3. QED
      BY <2>1, <2>2
  <1>6. CASE Redeliver(w)
    <2>1. phase'[w] = "idle" \/ (/\ job'[w].op = job[w].op
                                 /\ UNCHANGED <<phase, seen, bumped>>)
      BY <1>6 DEF Redeliver, EndRun
    <2>2. QED
      BY <1>1, <1>2, <2>1
  <1>7. ASSUME RunStep(w) \/ CheckAborts(w), ~LoadRow(w), ~Stick(w), ~Rebroadcast(w)
        PROVE  phase'[w] \notin {"giveup", "stick", "rebroadcast", "remark"}
    BY <1>7 DEF RunStep, Take, CheckReceipt, Confirm, Revert, GiveUp,
       RebroadcastFails, Remark, Requeue, CheckConflicts, CheckAborts, Enter, EndRun
  <1>8. QED
    BY <1>1, <1>2, <1>3, <1>4, <1>5, <1>6, <1>7, RunMoves

\* Requests and runs send, and put on file, what has the request's nonce.
LEMMA NextNonce == ASSUME TypeInv, NonceInv, [Next]_vars PROVE NonceInv'
  <1> USE ConstantsAssumption DEF TypeInv, TypeOK, Jobs
  <1>1. ASSUME NEW r \in Requests
        PROVE  /\ pc'[r] \in {"idle", "read"} => reqTx'[r] = NoTx
               /\ reqTx'[r] \in Txs => reqTx'[r].op = OpOf[r]
    BY RequestMoves DEF NonceInv
  <1>2. ASSUME NEW r \in Requests, reqTx[r] \in Txs PROVE Nonced(reqTx[r], OpOf[r], reqTx)
    BY <1>2 DEF NonceInv, Nonced
  <1>3. ASSUME NEW tx \in sent' PROVE Nonced(tx, tx.op, reqTx')
    <2>1. CASE tx \in sent
      BY <2>1, NoncedStays DEF NonceInv
    <2>2. CASE tx \notin sent
      <3>1. \/ \E r \in Requests : pc[r] = "prepared" /\ tx = reqTx[r]
            \/ \E w \in Workers : phase[w] = "rebroadcast" /\ tx = Replacement(w)
        BY <1>3, <2>2, SentBy DEF Send
      <3>2. ASSUME NEW r \in Requests, pc[r] = "prepared", tx = reqTx[r]
            PROVE  Nonced(tx, tx.op, reqTx)
        BY <1>2, <3>2 DEF NonceInv
      <3>3. ASSUME NEW w \in Workers, phase[w] = "rebroadcast", tx = Replacement(w)
            PROVE  Nonced(tx, tx.op, reqTx)
        <4>1. Nonced(tx, job[w].op, reqTx)
          BY <3>3, ReplacementNonced DEF NonceInv
        <4>2. QED
          BY <4>1 DEF Nonced
      <3>4. QED
        BY <3>1, <3>2, <3>3, NoncedStays
    <2>3. QED
      BY <2>1, <2>2
  <1>4. ASSUME NEW op \in Ops, row'[op].tx \in Txs PROVE Nonced(row'[op].tx, op, reqTx')
    <2>1. CASE row'[op].tx = row[op].tx
      BY <1>4, <2>1, NoncedStays DEF NonceInv
    <2>2. CASE row'[op].tx # row[op].tx
      <3>1. \/ \E r \in Requests : MarkFirst(r) /\ OpOf[r] = op /\ row'[op].tx = reqTx[r]
            \/ \E w \in Workers : Remark(w) /\ job[w].op = op /\ row'[op].tx = bumped[w]
        BY <2>2, RowStep
      <3>2. Nonced(row'[op].tx, op, reqTx)
        BY <1>2, <1>4, <3>1 DEF Remark, Enter, NonceInv
      <3>3. QED
        BY <3>2, NoncedStays
    <2>3. QED
      BY <2>1, <2>2
  <1>5. ASSUME NEW s \in pool', NEW t \in pool', s.nonce = t.nonce PROVE s = t
    <2>1. ASSUME NEW tx, Send(tx) PROVE s = t
      BY <1>5, <2>1 DEF Send, PendingAt, NonceInv
    <2>2. QED
      BY <1>5, <2>1, SentBy DEF NonceInv
  <1>6. QED
    BY <1>1, <1>3, <1>4, <1>5, RunNonced DEF NonceInv

\* Two pending transactions of one operation would share its nonce.
LEMMA NoncedAlone == ASSUME SubmittedOnce, TypeInv, NonceInv PROVE NoCompetingTx
  <1> SUFFICES ASSUME NEW op \in Ops, NEW s \in pool, NEW t \in pool, s.op = op, t.op = op
               PROVE  s = t
    BY DEF NoCompetingTx
  <1>1. Nonced(s, op, reqTx) /\ Nonced(t, op, reqTx)
    BY DEF NonceInv, TypeInv, TypeOK, ChainTypeOK
  <1>2. s.nonce = t.nonce
    BY <1>1 DEF Nonced, SubmittedOnce
  <1>3. QED
    BY <1>2 DEF NonceInv

\* An operation that is submitted once never has two pending transactions,
\* however its checks are redelivered and whatever fails.
THEOREM NonceKept == ASSUME SubmittedOnce PROVE Spec => []NoCompetingTx
  <1>1. Init => NonceInv
    BY NoTxAssumption DEF Init, RowInit, ChainInit, NonceInv
  <1>2. QED
    BY <1>1, InitTypeInv, NextTypeInv, NextNonce, NoncedAlone, PTL DEF Spec
-----------------------------------------------------------------------------
(* A resubmission outbids what it replaces. *)

\* A fee so large that rounding down does not bring its bump below what a
\* node asks of a replacement.
Bumpable(fee) == fee \in Nat /\ fee * (BumpPercent - PriceBump) >= 99

\* With the defaults, 15 % and 10 %, that is a fee of 20 wei or more.
FeesBumpable ==
    /\ PriceBump \in Nat /\ PriceBump <= BumpPercent
    /\ \A fee \in MarketFees : Bumpable(fee)

\* The integer division of the bump loses less than the margin.
LEMMA BumpSuffices ==
  ASSUME FeesBumpable, NEW fee, Bumpable(fee)
  PROVE  /\ Bumpable(BumpedFee(fee))
         /\ 100 * BumpedFee(fee) >= (100 + PriceBump) * fee
  <1> DEFINE margin == BumpPercent - PriceBump
             product == fee * (100 + BumpPercent)
  <1>1. fee \in Nat /\ BumpPercent \in Nat /\ PriceBump \in Nat /\ margin \in Nat
    BY ConstantsAssumption DEF FeesBumpable, Bumpable
  <1>2. product = fee * 100 + fee * PriceBump + fee * margin
    BY <1>1
  <1>3. fee * margin >= 99
    BY DEF Bumpable
  <1>4. fee * PriceBump \in Nat /\ fee * margin \in Nat
    BY <1>1
  <1>5. product \in Nat /\ (100 + PriceBump) * fee = fee * 100 + fee * PriceBump
    BY <1>1
  <1>6. BumpedFee(fee) = product \div 100
    BY DEF BumpedFee
  <1> DEFINE up == product \div 100
             bump == fee * PriceBump
             gain == fee * margin
  <1>7. product = fee * 100 + bump + gain /\ gain >= 99 /\ bump \in Nat /\ gain \in Nat
        /\ (100 + PriceBump) * fee = fee * 100 + bump
    BY <1>2, <1>3, <1>4, <1>5
  <1>8. BumpedFee(fee) = up
    BY <1>6
  <1> HIDE DEF product, bump, gain
  <1>9. up \in Nat /\ 100 * up >= product - 99
    BY <1>5
  <1> HIDE DEF up
  <1>10. 100 * up >= fee * 100 + bump
    BY <1>1, <1>7, <1>9
  <1>11. up >= fee
    BY <1>1, <1>7, <1>9, <1>10
  <1>12. up * margin >= fee * margin
    <2>1. PICK d \in Nat : up = fee + d
      BY <1>1, <1>9, <1>11
    <2> HIDE DEF margin
    <2>2. up * margin = fee * margin + d * margin
      BY <1>1, <2>1
    <2>3. d * margin \in Nat /\ fee * margin \in Nat
      BY <1>1
    <2>4. QED
      BY <2>2, <2>3
  <1>13. up * margin >= 99
    <2>1. up * margin \in Int /\ fee * margin \in Int
      BY <1>1, <1>9
    <2> HIDE DEF margin
    <2>2. QED
      BY <1>3, <1>12, <2>1
  <1>14. QED
    BY <1>7, <1>8, <1>9, <1>10, <1>13 DEF Bumpable

\* Every fee in use was the market's, or raised from it.
FeeInv ==
    /\ \A r \in Requests : reqTx[r] \in Txs => Bumpable(reqTx[r].fee)
    /\ \A op \in Ops : row[op].tx \in Txs => Bumpable(row[op].tx.fee)

Resubmitting(w) == phase[w] \in {"rebroadcast", "remark"}

\* A run that resubmits is alone to do so, and the row is still what it
\* loaded: no request is left that could submit the operation.
SeenInv ==
    /\ \A r \in Requests :
         pc[r] \in {"idle", "read", "prepared", "sent"} => row[OpOf[r]].status \in Fresh
    /\ \A w \in Workers :
         /\ Resubmitting(w) => row[job[w].op].status = "STUCK"
         /\ phase[w] \in {"giveup", "stick"} \/ Resubmitting(w) => seen[w] = row[job[w].op].tx
         /\ phase[w] = "remark" => bumped[w] = Replacement(w)
    /\ \A w, v \in Workers :
         Resubmitting(w) /\ Resubmitting(v) /\ job[w].op = job[v].op => w = v

\* A row leaves STUCK by the one run that resubmits it.
LEMMA StuckRowStep ==
  ASSUME MaxStalls = 0, TypeInv, WatchInv, SeenInv, [Next]_vars,
         NEW op \in Ops, row[op].status = "STUCK", row'[op] # row[op]
  PROVE  \E w \in Workers : Remark(w) /\ job[w].op = op
  <1>1. ASSUME NEW r \in Requests, MarkFirst(r), OpOf[r] = op PROVE FALSE
    BY <1>1 DEF MarkFirst, Goto, SeenInv, Fresh, Absent
  <1>2. ASSUME NEW w \in Workers, Confirm(w) \/ Revert(w) \/ GiveUp(w), job[w].op = op
        PROVE  FALSE
    BY <1>2 DEF Confirm, Revert, GiveUp, WatchInv, WatchesSubmitted, Watching, WatchPhases
  <1>3. QED
    BY <1>1, <1>2, RowStep DEF Absent

\* A SUBMITTED row keeps its transaction, and leaves for what is final or STUCK.
LEMMA SubmittedRowStep ==
  ASSUME TypeInv, [Next]_vars, NEW op \in Ops, row[op].status = "SUBMITTED"
  PROVE  row'[op].tx = row[op].tx
  BY RowStep DEF SubmittableFrom

\* A request that has yet to submit finds its row fresh.
LEMMA NextUnsubmitted ==
  ASSUME SubmittedOnce, TypeInv, SeenInv, [Next]_vars, NEW r \in Requests,
         pc'[r] \in {"idle", "read", "prepared", "sent"}
  PROVE  row'[OpOf[r]].status \in Fresh
  <1> USE ConstantsAssumption DEF TypeInv, TypeOK, Fresh
  <1>1. pc[r] \in {"idle", "read", "prepared", "sent"} /\ ~MarkFirst(r)
    <2>1. ASSUME NEW q \in Requests, Submit(q) \/ RequestStep(q) \/ SubmitAborts(q)
          PROVE  pc[r] \in {"idle", "read", "prepared", "sent"}
      BY <2>1 DEF Submit, RequestStep, Prepare, PrepareFails, Broadcast, BroadcastFails, MarkFirst,
         MarkFirstConflicts, Enqueue, SubmitAborts, Goto
    <2>2. ASSUME NEW w \in Workers, RunStep(w) \/ CheckAborts(w) \/ Redeliver(w)
          PROVE  UNCHANGED pc
      BY <2>2 DEF RunStep, Take, CheckReceipt, Confirm, Revert, LoadRow, GiveUp, Stick, Rebroadcast,
         RebroadcastFails, Remark, Requeue, CheckConflicts, CheckAborts, Redeliver
    <2>3. QED
      BY <2>1, <2>2 DEF Next, Sponsor, ChainStep, MarkFirst, Goto
  <1>2. OpOf[r] \in Ops /\ row[OpOf[r]].status \in Fresh
    BY <1>1 DEF SeenInv
  <1>3. ASSUME NEW q \in Requests, MarkFirst(q) PROVE OpOf[q] # OpOf[r]
    BY <1>1, <1>3 DEF SubmittedOnce
  <1>4. ASSUME NEW w \in Workers, Remark(w), job[w].op = OpOf[r] PROVE FALSE
    BY <1>2, <1>4 DEF Remark, Enter, CheckedRowsHaveTx
  <1>5. ASSUME NEW op \in Ops, op = OpOf[r] PROVE row'[op].status \in Fresh
    BY <1>2, <1>3, <1>4, <1>5, RowStep DEF SettleableFrom, Absent
  <1>6. QED
    BY <1>2, <1>5

\* What a run that resubmits, or is about to, has loaded stays what is on
\* file until the run itself puts its replacement there.
LEMMA NextSeen ==
  ASSUME MaxStalls = 0, SubmittedOnce, TypeInv, WatchInv, SeenInv, [Next]_vars
  PROVE  SeenInv'
  <1> USE ConstantsAssumption DEF TypeInv, TypeOK, Jobs
  <1> DEFINE Holds(v) == phase[v] \in {"giveup", "stick"} \/ Resubmitting(v)
  <1>1. ASSUME NEW w \in Workers, Holds(w)
        PROVE  /\ job[w].op \in Ops
               /\ row[job[w].op].status = "SUBMITTED" \/ row[job[w].op].status = "STUCK"
               /\ row[job[w].op].status = "SUBMITTED" <=> phase[w] \in {"giveup", "stick"}
    BY <1>1 DEF Resubmitting, SeenInv, WatchInv, WatchesSubmitted, Watching, WatchPhases
  <1>2. ASSUME NEW w \in Workers, Holds(w), ~Remark(w)
        PROVE  /\ row'[job[w].op].tx = row[job[w].op].tx
               /\ Resubmitting(w) => row'[job[w].op].status = "STUCK"
    <2>1. CASE phase[w] \in {"giveup", "stick"}
      BY <1>1, <1>2, <2>1, SubmittedRowStep DEF Resubmitting
    <2>2. CASE Resubmitting(w)
      <3>1. row[job[w].op].status = "STUCK" /\ job[w].op \in Ops
        BY <1>1, <2>2 DEF SeenInv
      <3>2. ASSUME NEW v \in Workers, Remark(v), job[v].op = job[w].op PROVE FALSE
        BY <1>2, <2>2, <3>2 DEF SeenInv, Remark, Enter, Resubmitting
      <3>3. ASSUME NEW op \in Ops, op = job[w].op PROVE row'[op] = row[op]
        BY <3>1, <3>2, <3>3, StuckRowStep
      <3>4. QED
        BY <3>1, <3>3
    <2>3. QED
      BY <1>2, <2>1, <2>2
  <1>3. ASSUME NEW w \in Workers, phase'[w] = phase[w], job'[w] = job[w],
               seen'[w] = seen[w], bumped'[w] = bumped[w], Holds(w)
        PROVE  /\ Resubmitting(w)' => row'[job'[w].op].status = "STUCK"
               /\ seen'[w] = row'[job'[w].op].tx
               /\ phase'[w] = "remark" => bumped'[w] = Replacement(w)'
    <2>1. ~Remark(w)
      BY <1>3 DEF Remark, Enter
    <2>2. seen[w] = row[job[w].op].tx /\ (phase[w] = "remark" => bumped[w] = Replacement(w))
      BY <1>3 DEF SeenInv
    <2>3. QED
      BY <1>2, <1>3, <2>1, <2>2 DEF Resubmitting, Replacement
  <1>4. ASSUME NEW w \in Workers, RunStep(w) \/ CheckAborts(w)
        PROVE  \/ ~Holds(w)'
               \/ LoadRow(w) \/ Stick(w) \/ Rebroadcast(w)
    BY <1>4 DEF RunStep, Take, CheckReceipt, Confirm, Revert, GiveUp, RebroadcastFails, Remark,
       Requeue, CheckConflicts, CheckAborts, Enter, EndRun, Resubmitting
  <1>5. ASSUME NEW w \in Workers PROVE ~Redeliver(w)
    BY DEF Redeliver
  <1>6. ASSUME NEW w \in Workers, Holds(w)'
        PROVE  /\ Resubmitting(w)' => row'[job'[w].op].status = "STUCK"
               /\ seen'[w] = row'[job'[w].op].tx
               /\ phase'[w] = "remark" => bumped'[w] = Replacement(w)'
    <2>1. CASE LoadRow(w)
      BY <2>1 DEF LoadRow, Enter, Resubmitting
    <2>2. CASE Stick(w)
      <3>1. /\ phase[w] = "stick" /\ phase'[w] = "rebroadcast" /\ job[w].op \in Ops
            /\ seen'[w] = seen[w] /\ job'[w] = job[w] /\ seen[w] = row[job[w].op].tx
        BY <2>2 DEF Stick, Enter, SeenInv
      <3>2. row'[job[w].op].status = "STUCK" /\ row'[job[w].op].tx = row[job[w].op].tx
        BY <2>2, <3>1, MarkStuckEffect DEF Stick
      <3>3. QED
        BY <3>1, <3>2
    <2>3. CASE Rebroadcast(w)
      <3>1. /\ phase[w] = "rebroadcast" /\ phase'[w] = "remark" /\ UNCHANGED <<row, job, seen>>
            /\ bumped'[w] = Replacement(w)
        BY <2>3 DEF Rebroadcast, Enter
      <3>2. QED
        BY <3>1 DEF SeenInv, Resubmitting, Replacement
    <2>4. CASE /\ phase'[w] = phase[w] /\ job'[w] = job[w]
               /\ seen'[w] = seen[w] /\ bumped'[w] = bumped[w]
      BY <1>3, <1>6, <2>4 DEF Resubmitting
    <2>5. QED
      BY <1>4, <1>5, <1>6, <2>1, <2>2, <2>3, <2>4, RunMoves
  <1>7. ASSUME NEW w \in Workers, NEW v \in Workers, Resubmitting(w)', Resubmitting(v)',
               job'[w].op = job'[v].op
        PROVE  w = v
    <2>1. ASSUME NEW u \in Workers, Resubmitting(u)'
          PROVE  job'[u] = job[u] /\ (Stick(u) \/ Resubmitting(u))
      <3>1. CASE LoadRow(u)
        BY <2>1, <3>1 DEF LoadRow, Enter, Resubmitting
      <3>2. CASE Stick(u) \/ Rebroadcast(u)
        BY <3>2 DEF Stick, Rebroadcast, Enter, Resubmitting
      <3>3. QED
        BY <1>4, <1>5, <2>1, <3>1, <3>2, RunMoves DEF Resubmitting
    <2>2. ASSUME NEW u \in Workers, NEW x \in Workers, Stick(u), Resubmitting(x),
                 job[u].op = job[x].op
          PROVE  FALSE
      BY <2>2 DEF Stick, Enter, SeenInv, WatchInv, WatchesSubmitted, Watching, WatchPhases
    <2>3. Stick(w) /\ Stick(v) => w = v
      BY DEF Stick, Enter
    <2>4. QED
      BY <1>7, <2>1, <2>2, <2>3 DEF SeenInv
  <1>8. QED
    BY <1>6, <1>7, NextUnsubmitted DEF SeenInv, Resubmitting

\* Fees come from the market or from a bump.
LEMMA NextFee ==
  ASSUME FeesBumpable, TypeInv, SeenInv, FeeInv, [Next]_vars PROVE FeeInv'
  <1> USE ConstantsAssumption DEF TypeInv, TypeOK
  <1>1. ASSUME NEW r \in Requests, reqTx'[r] \in Txs PROVE Bumpable(reqTx'[r].fee)
    BY <1>1, RequestMoves DEF FeeInv, FeesBumpable
  <1>2. ASSUME NEW op \in Ops, row'[op].tx \in Txs PROVE Bumpable(row'[op].tx.fee)
    <2>1. ASSUME NEW r \in Requests, row'[op].tx = reqTx[r] PROVE Bumpable(row'[op].tx.fee)
      BY <1>2, <2>1 DEF FeeInv
    <2>2. ASSUME NEW w \in Workers, Remark(w), job[w].op = op, row'[op].tx = bumped[w]
          PROVE  Bumpable(row'[op].tx.fee)
      <3>1. /\ row[op].status = "STUCK" /\ seen[w] = row[op].tx
            /\ bumped[w] = Replacement(w)
        BY <2>2 DEF Remark, Enter, SeenInv, Resubmitting
      <3>2. Bumpable(seen[w].fee)
        BY <3>1 DEF FeeInv, CheckedRowsHaveTx, Fresh, Absent
      <3>3. bumped[w].fee = BumpedFee(seen[w].fee)
        BY <3>1 DEF Replacement
      <3>4. QED
        BY <2>2, <3>2, <3>3, BumpSuffices
    <2>3. QED
      BY <1>2, <2>1, <2>2, RowStep DEF FeeInv
  <1>3. QED
    BY <1>1, <1>2 DEF FeeInv

\* A resubmission keeps the nonce of the very transaction that the row named
\* and outbids it as a node demands, for any percentage and fees whose margin
\* outweighs the rounding, when each operation is submitted once and the
\* queue does not redeliver.
THEOREM ReplacesCorrect ==
  ASSUME MaxStalls = 0, SubmittedOnce, FeesBumpable PROVE Spec => ReplacesRowTx
  <1>1. Init => SeenInv /\ FeeInv
    BY ConstantsAssumption, NoTxAssumption
       DEF Init, RowInit, SeenInv, FeeInv, Fresh, Resubmitting
  <1>2. ASSUME TypeInv, WatchInv, SeenInv, FeeInv, [Next]_vars, NEW op \in Ops,
               row'[op].bumps # row[op].bumps
        PROVE  /\ row'[op].tx.nonce = row[op].tx.nonce
               /\ Outbids(row'[op].tx, row[op].tx)
    <2>1. PICK w \in Workers : Remark(w) /\ job[w].op = op /\ row'[op].tx = bumped[w]
      BY <1>2, RowStep
    <2>2. /\ row[op].status = "STUCK" /\ seen[w] = row[op].tx
          /\ bumped[w] = Replacement(w)
      BY <1>2, <2>1 DEF Remark, Enter, SeenInv, Resubmitting
    <2>3. row[op].tx \in Txs
      BY <1>2, <2>2 DEF TypeInv, CheckedRowsHaveTx, Fresh, Absent
    <2>4. Bumpable(row[op].tx.fee)
      BY <1>2, <2>3 DEF FeeInv
    <2>5. /\ row'[op].tx.nonce = row[op].tx.nonce
          /\ row'[op].tx.fee = BumpedFee(row[op].tx.fee)
      BY <2>1, <2>2 DEF Replacement
    <2>6. QED
      BY <2>4, <2>5, BumpSuffices DEF Outbids
  <1>3. TypeInv /\ WatchInv /\ SeenInv /\ FeeInv /\ [Next]_vars => SeenInv' /\ FeeInv'
    BY NextSeen, NextFee
  <1>4. Inv => TypeInv /\ WatchInv
    BY DEF Inv
  <1>5. TypeInv /\ WatchInv /\ SeenInv /\ FeeInv /\ [Next]_vars =>
          [\A op \in Ops : row'[op].bumps # row[op].bumps =>
              /\ row'[op].tx.nonce = row[op].tx.nonce
              /\ Outbids(row'[op].tx, row[op].tx)]_vars
    BY <1>2
  <1>6. QED
    BY <1>1, <1>3, <1>4, <1>5, InvAlways, PTL DEF Spec, ReplacesRowTx
=============================================================================
