--------------------------- MODULE RelayerProofs ----------------------------
(***************************************************************************)
(* Proofs about Relayer, for any sets of operations, requests and workers, *)
(* any fees, any bound on attempts and any faults.                         *)
(***************************************************************************)
EXTENDS Relayer, TLAPS

(* Type correctness. *)

Fresh == {Absent, "PENDING"}

\* Only an operation that was marked SUBMITTED once is ever checked, so that
\* handleStuck's row.maxFeePerGas! and row.relayerNonce! are not null.
CheckedRowsHaveTx ==
    /\ \A op \in Ops : row[op].status \notin Fresh => row[op].tx \in Txs
    /\ \A op \in Ops : row[op].status \in Fresh => row[op].bumps = 0
    /\ \A j \in jobs : row[j.op].status \notin Fresh
    /\ \A r \in Requests : pc[r] = "marked" => row[OpOf[r]].status \notin Fresh
    /\ \A w \in Workers : phase[w] # "idle" => row[job[w].op].status \notin Fresh

TypeInv == TypeOK /\ CheckedRowsHaveTx

\* A raised fee is a natural number (confirmation-check.processor.ts, the
\* integer division of the bump).
LEMMA BumpedFeeNat == ASSUME NEW fee \in Nat PROVE BumpedFee(fee) \in Nat
  BY ConstantsAssumption DEF BumpedFee

\* The empty database, queue and chain are well typed.
LEMMA InitTypeInv == Init => TypeInv
  BY ConstantsAssumption DEF Init, RowInit, ChainInit, TypeInv, TypeOK, CheckedRowsHaveTx,
     RowTypeOK, ChainTypeOK, Rows, Statuses, Reasons, RequestPhases, RunPhases, Fresh, Absent

USE DEF vars, rVars, wVars, chainVars

(* What the transitions of the state machine do to the table. *)

\* A transition that matched its row wrote that row and no other.
LEMMA TransitionEffect ==
  ASSUME RowTypeOK, NEW op \in Ops, NEW from, NEW new \in Rows, Transition(op, from, new)
  PROVE  /\ RowTypeOK'
         /\ row[op].status \in from
         /\ row'[op] = new
         /\ \A o \in Ops \ {op} : row'[o] = row[o]
  BY DEF RowTypeOK, Transition

\* markSubmitted moves a PENDING or STUCK row and names the new transaction.
LEMMA MarkSubmittedEffect ==
  ASSUME RowTypeOK, NEW op \in Ops, NEW tx \in Txs, NEW increment \in Nat,
         MarkSubmitted(op, tx, increment)
  PROVE  /\ RowTypeOK'
         /\ row[op].status \in {"PENDING", "STUCK"}
         /\ row'[op].status = "SUBMITTED"
         /\ row'[op].tx = tx
         /\ row'[op].bumps = row[op].bumps + increment
         /\ row'[op].reason = row[op].reason
         /\ \A o \in Ops \ {op} : row'[o] = row[o]
  <1> DEFINE n == row[op].bumps + increment
             new == [row[op] EXCEPT !.status = "SUBMITTED", !.tx = tx, !.bumps = n]
  <1>1. n \in Nat
    BY DEF RowTypeOK, Rows
  <1>2. Transition(op, SubmittableFrom, new)
    BY DEF MarkSubmitted
  <1> HIDE DEF n
  <1>3. /\ new.status = "SUBMITTED" /\ new.tx = tx /\ new.reason = row[op].reason
        /\ new.bumps = n /\ new \in Rows
    BY <1>1 DEF RowTypeOK, Rows, Statuses
  <1> HIDE DEF new
  <1>4. QED
    BY <1>2, <1>3, TransitionEffect DEF SubmittableFrom, n

\* markStuck moves a SUBMITTED row and changes nothing but its status.
LEMMA MarkStuckEffect ==
  ASSUME RowTypeOK, NEW op \in Ops, MarkStuck(op)
  PROVE  /\ RowTypeOK'
         /\ row[op].status = "SUBMITTED"
         /\ row'[op].status = "STUCK"
         /\ row'[op].tx = row[op].tx
         /\ row'[op].bumps = row[op].bumps
         /\ row'[op].reason = row[op].reason
         /\ \A o \in Ops \ {op} : row'[o] = row[o]
  <1> DEFINE new == [row[op] EXCEPT !.status = "STUCK"]
  <1>1. new \in Rows
    BY DEF RowTypeOK, Rows, Statuses
  <1>2. /\ new.status = "STUCK" /\ new.tx = row[op].tx /\ new.bumps = row[op].bumps
        /\ new.reason = row[op].reason
    BY DEF RowTypeOK, Rows
  <1>3. Transition(op, {"SUBMITTED"}, new)
    BY DEF MarkStuck
  <1> HIDE DEF new
  <1>4. QED
    BY <1>1, <1>2, <1>3, TransitionEffect DEF SettleableFrom

\* markConfirmed settles a SUBMITTED or STUCK row and keeps its transaction.
LEMMA MarkConfirmedEffect ==
  ASSUME RowTypeOK, NEW op \in Ops, MarkConfirmed(op)
  PROVE  /\ RowTypeOK'
         /\ row[op].status \in {"SUBMITTED", "STUCK"}
         /\ row'[op].status = "CONFIRMED"
         /\ row'[op].tx = row[op].tx
         /\ row'[op].bumps = row[op].bumps
         /\ row'[op].reason = row[op].reason
         /\ \A o \in Ops \ {op} : row'[o] = row[o]
  <1> DEFINE new == [row[op] EXCEPT !.status = "CONFIRMED"]
  <1>1. new \in Rows
    BY DEF RowTypeOK, Rows, Statuses
  <1>2. /\ new.status = "CONFIRMED" /\ new.tx = row[op].tx /\ new.bumps = row[op].bumps
        /\ new.reason = row[op].reason
    BY DEF RowTypeOK, Rows
  <1>3. Transition(op, SettleableFrom, new)
    BY DEF MarkConfirmed
  <1> HIDE DEF new
  <1>4. QED
    BY <1>1, <1>2, <1>3, TransitionEffect DEF SettleableFrom

\* markFailed settles a SUBMITTED or STUCK row and records why.
LEMMA MarkFailedEffect ==
  ASSUME RowTypeOK, NEW op \in Ops, NEW why \in Reasons, MarkFailed(op, why)
  PROVE  /\ RowTypeOK'
         /\ row[op].status \in {"SUBMITTED", "STUCK"}
         /\ row'[op].status = "FAILED"
         /\ row'[op].tx = row[op].tx
         /\ row'[op].bumps = row[op].bumps
         /\ row'[op].reason = why
         /\ \A o \in Ops \ {op} : row'[o] = row[o]
  <1> DEFINE new == [row[op] EXCEPT !.status = "FAILED", !.reason = why]
  <1>1. new \in Rows
    BY DEF RowTypeOK, Rows, Statuses
  <1>2. /\ new.status = "FAILED" /\ new.tx = row[op].tx /\ new.bumps = row[op].bumps
        /\ new.reason = why
    BY DEF RowTypeOK, Rows
  <1>3. Transition(op, SettleableFrom, new)
    BY DEF MarkFailed
  <1> HIDE DEF new
  <1>4. QED
    BY <1>1, <1>2, <1>3, TransitionEffect DEF SettleableFrom

\* writeContract leaves the chain well typed and records the transaction.
LEMMA SendType ==
  ASSUME ChainTypeOK, NEW tx \in Txs, Send(tx) PROVE ChainTypeOK' /\ tx \in sent' /\ sent \subseteq sent'
  BY DEF ChainTypeOK, Send, PendingAt

\* What leaves the chain's variables alone leaves the chain well typed.
LEMMA ChainSame ==
  ASSUME ChainTypeOK, UNCHANGED chainVars PROVE ChainTypeOK'
  BY DEF ChainTypeOK

\* Every await of a submit call or a check, and every block, keeps TypeInv.
LEMMA NextTypeInv == TypeInv /\ [Next]_vars => TypeInv'
  <1> SUFFICES ASSUME TypeInv, [Next]_vars PROVE TypeInv'
    OBVIOUS
  <1> USE DEF TypeInv, TypeOK, CheckedRowsHaveTx, RequestPhases, RunPhases, Fresh, Absent, Jobs
  <1> USE ConstantsAssumption
  <1>1. CASE UNCHANGED vars
    BY <1>1 DEF ChainTypeOK, RowTypeOK
  <1>2. ASSUME NEW op \in Ops, Sponsor(op) PROVE TypeInv'
    BY <1>2 DEF Sponsor, Create, Transition, ChainTypeOK, RowTypeOK, Rows, Statuses, Absent
  <1>3. ASSUME NEW r \in Requests, Submit(r) PROVE TypeInv'
    BY <1>3, SMTT(60) DEF Submit, Goto, ChainTypeOK, RowTypeOK
  <1>4. ASSUME NEW r \in Requests, Prepare(r) PROVE TypeInv'
    <2>1. PICK n \in 0 .. MaxNonce, f \in MarketFees :
            reqTx' = [reqTx EXCEPT ![r] = [op |-> OpOf[r], nonce |-> n, fee |-> f]]
      BY <1>4 DEF Prepare
    <2>2. [op |-> OpOf[r], nonce |-> n, fee |-> f] \in Txs
      BY DEF Txs
    <2>3. QED
      BY <1>4, <2>1, <2>2 DEF Prepare, Goto, ChainTypeOK, RowTypeOK
  <1>5. ASSUME NEW r \in Requests, PrepareFails(r) PROVE TypeInv'
    BY <1>5 DEF PrepareFails, Goto, ChainTypeOK, RowTypeOK
  <1>6. ASSUME NEW r \in Requests, Broadcast(r) PROVE TypeInv'
    <2>1. ChainTypeOK'
      BY <1>6, SendType DEF Broadcast, Goto
    <2>2. QED
      BY <1>6, <2>1 DEF Broadcast, Goto, RowTypeOK
  <1>7. ASSUME NEW r \in Requests, BroadcastFails(r) PROVE TypeInv'
    <2>1. ChainTypeOK'
      BY <1>7, SendType DEF BroadcastFails, Goto, ChainTypeOK
    <2>2. QED
      BY <1>7, <2>1 DEF BroadcastFails, Goto, RowTypeOK
  <1>8. ASSUME NEW r \in Requests, MarkFirst(r) PROVE TypeInv'
    <2>1. /\ row'[OpOf[r]].status = "SUBMITTED"
          /\ row'[OpOf[r]].tx \in Txs
          /\ \A o \in Ops \ {OpOf[r]} : row'[o] = row[o]
          /\ RowTypeOK'
      <3>1. OpOf[r] \in Ops /\ reqTx[r] \in Txs /\ 0 \in Nat
        BY <1>8 DEF MarkFirst, Goto
      <3>2. QED
        BY <1>8, <3>1, MarkSubmittedEffect DEF MarkFirst
    <2>2. QED
      BY <1>8, <2>1, SMTT(60) DEF MarkFirst, Goto, ChainTypeOK
  <1>9. ASSUME NEW r \in Requests, MarkFirstConflicts(r) PROVE TypeInv'
    BY <1>9 DEF MarkFirstConflicts, Goto, TransitionConflicts, ChainTypeOK, RowTypeOK
  <1>10. ASSUME NEW r \in Requests, Enqueue(r) PROVE TypeInv'
    BY <1>10 DEF Enqueue, Goto, ChainTypeOK, RowTypeOK
  <1>11. ASSUME NEW r \in Requests, SubmitAborts(r) PROVE TypeInv'
    BY <1>11 DEF SubmitAborts, ChainTypeOK, RowTypeOK
  <1>12. ASSUME NEW w \in Workers, NEW j \in jobs, Take(w, j) PROVE TypeInv'
    BY <1>12 DEF Take, Enter, ChainTypeOK, RowTypeOK
  <1>13. ASSUME NEW w \in Workers, CheckReceipt(w) PROVE TypeInv'
    BY <1>13 DEF CheckReceipt, Enter, ChainTypeOK, RowTypeOK
  <1>14. ASSUME NEW w \in Workers, Confirm(w) PROVE TypeInv'
    <2>1. /\ row'[job[w].op].status \notin Fresh
          /\ row'[job[w].op].tx = row[job[w].op].tx
          /\ \A o \in Ops \ {job[w].op} : row'[o] = row[o]
          /\ RowTypeOK'
      BY <1>14, MarkConfirmedEffect DEF Confirm
    <2>2. QED
      BY <1>14, <2>1, ChainSame, SMTT(60) DEF Confirm, EndRun
  <1>15. ASSUME NEW w \in Workers, Revert(w) PROVE TypeInv'
    <2>1. /\ row'[job[w].op].status \notin Fresh
          /\ row'[job[w].op].tx = row[job[w].op].tx
          /\ \A o \in Ops \ {job[w].op} : row'[o] = row[o]
          /\ RowTypeOK'
      BY <1>15, MarkFailedEffect DEF Revert, Reasons
    <2>2. QED
      BY <1>15, <2>1, ChainSame, SMTT(60) DEF Revert, EndRun
  <1>16. ASSUME NEW w \in Workers, LoadRow(w) PROVE TypeInv'
    BY <1>16 DEF LoadRow, Enter, ChainTypeOK, RowTypeOK
  <1>17. ASSUME NEW w \in Workers, GiveUp(w) PROVE TypeInv'
    <2>1. /\ row'[job[w].op].status \notin Fresh
          /\ row'[job[w].op].tx = row[job[w].op].tx
          /\ \A o \in Ops \ {job[w].op} : row'[o] = row[o]
          /\ RowTypeOK'
      BY <1>17, MarkFailedEffect DEF GiveUp, Reasons
    <2>2. QED
      BY <1>17, <2>1, ChainSame, SMTT(60) DEF GiveUp, EndRun
  <1>18. ASSUME NEW w \in Workers, Stick(w) PROVE TypeInv'
    <2>1. /\ row'[job[w].op].status \notin Fresh
          /\ row'[job[w].op].tx = row[job[w].op].tx
          /\ \A o \in Ops \ {job[w].op} : row'[o] = row[o]
          /\ RowTypeOK'
      BY <1>18, MarkStuckEffect DEF Stick, Enter
    <2>2. QED
      BY <1>18, <2>1, ChainSame DEF Stick, Enter
  <1>19. ASSUME NEW w \in Workers, Rebroadcast(w) PROVE TypeInv'
    <2>1. Replacement(w) \in Txs
      BY <1>19, BumpedFeeNat DEF Rebroadcast, Enter, Replacement, Txs
    <2>2. ChainTypeOK'
      BY <1>19, <2>1, SendType DEF Rebroadcast
    <2>3. QED
      BY <1>19, <2>1, <2>2 DEF Rebroadcast, Enter, RowTypeOK
  <1>20. ASSUME NEW w \in Workers, RebroadcastFails(w) PROVE TypeInv'
    <2>1. Replacement(w) \in Txs
      BY <1>20, BumpedFeeNat DEF RebroadcastFails, Replacement, Txs
    <2>2. ChainTypeOK'
      BY <1>20, <2>1, SendType DEF RebroadcastFails, ChainTypeOK
    <2>3. QED
      BY <1>20, <2>2 DEF RebroadcastFails, EndRun, RowTypeOK
  <1>21. ASSUME NEW w \in Workers, Remark(w) PROVE TypeInv'
    <2>1. /\ row'[job[w].op].status \notin Fresh
          /\ row'[job[w].op].tx \in Txs
          /\ \A o \in Ops \ {job[w].op} : row'[o] = row[o]
          /\ RowTypeOK'
      <3>1. job[w].op \in Ops /\ bumped[w] \in Txs /\ 1 \in Nat
        BY <1>21 DEF Remark, Enter
      <3>2. QED
        BY <1>21, <3>1, MarkSubmittedEffect DEF Remark
    <2>2. QED
      BY <1>21, <2>1, ChainSame, SMTT(60) DEF Remark, Enter
  <1>22. ASSUME NEW w \in Workers, Requeue(w) PROVE TypeInv'
    BY <1>22, ChainSame DEF Requeue, EndRun, RowTypeOK
  <1>23. ASSUME NEW w \in Workers, CheckConflicts(w) PROVE TypeInv'
    BY <1>23, ChainSame DEF CheckConflicts, EndRun, TransitionConflicts, RowTypeOK
  <1>24. ASSUME NEW w \in Workers, CheckAborts(w) PROVE TypeInv'
    BY <1>24, ChainSame DEF CheckAborts, EndRun, RowTypeOK
  <1>25. ASSUME NEW w \in Workers, Redeliver(w) PROVE TypeInv'
    <2>1. [job[w] EXCEPT !.stalls = @ + 1] \in Jobs
      BY <1>25 DEF Redeliver
    <2>2. QED
      <3> DEFINE k == [job[w] EXCEPT !.stalls = @ + 1]
      <3>1. k \in Jobs /\ jobs' = jobs \cup {k} /\ k.op = job[w].op
        BY <1>25, <2>1 DEF Redeliver
      <3> HIDE DEF k
      <3>2. UNCHANGED <<row, chainVars, rVars>> /\ phase[w] # "idle" /\ ChainTypeOK'
        BY <1>25, ChainSame DEF Redeliver
      <3>3. CASE EndRun(w)
        BY <3>1, <3>2, <3>3 DEF EndRun, RowTypeOK
      <3>4. CASE job' = [job EXCEPT ![w] = k] /\ UNCHANGED <<phase, seen, bumped>>
        BY <3>1, <3>2, <3>4 DEF RowTypeOK
      <3>5. QED
        BY <1>25, <3>3, <3>4 DEF Redeliver, k
  <1>26. CASE ChainStep
    <2>1. ChainTypeOK'
      <3>1. ASSUME NEW tx \in sent, Mine(tx) PROVE ChainTypeOK'
        <4>1. (~WouldRevert(tx.op)) \in BOOLEAN
          BY DEF WouldRevert
        <4>2. [tx |-> tx, ok |-> ~WouldRevert(tx.op)] \in [tx : sent, ok : BOOLEAN]
          BY <4>1
        <4>3. mined' \subseteq [tx : sent, ok : BOOLEAN]
          BY <3>1, <4>2 DEF Mine, ChainTypeOK
        <4>4. nextNonce' \in Nat
          BY <3>1 DEF Mine, ChainTypeOK
        <4>5. QED
          BY <3>1, <4>3, <4>4 DEF Mine, ChainTypeOK
      <3>2. ASSUME NEW tx \in pool, Evict(tx) PROVE ChainTypeOK'
        BY <3>2 DEF Evict, ChainTypeOK
      <3>3. ASSUME NEW op \in Ops, Void(op) PROVE ChainTypeOK'
        BY <3>3 DEF Void, ChainTypeOK
      <3>4. QED
        BY <1>26, <3>1, <3>2, <3>3 DEF ChainStep
    <2>2. QED
      BY <1>26, <2>1 DEF ChainStep, RowTypeOK
  <1>27. QED
    BY <1>1, <1>2, <1>3, <1>4, <1>5, <1>6, <1>7, <1>8, <1>9, <1>10, <1>11, <1>12, <1>13,
       <1>14, <1>15, <1>16, <1>17, <1>18, <1>19, <1>20, <1>21, <1>22, <1>23, <1>24, <1>25,
       <1>26 DEF Next, RequestStep, RunStep

\* Every variable keeps its type whatever the faults: in particular a check
\* only ever runs for a row whose nonce and fee columns are set.
THEOREM TypeCorrect == Spec => []TypeOK
  <1>1. TypeInv => TypeOK
    BY DEF TypeInv
  <1>2. QED
    BY <1>1, InitTypeInv, NextTypeInv, PTL DEF Spec
-----------------------------------------------------------------------------
(* Without redelivery, at most one thing watches a row. *)

Watching(w) == phase[w] \in WatchPhases

\* WatchedAtMostOnce, spelled out for each pair of kinds of watcher.
UniqueWatch ==
    /\ \A j, k \in jobs : j.op = k.op => j = k
    /\ \A j \in jobs, r \in Requests : pc[r] = "marked" => OpOf[r] # j.op
    /\ \A j \in jobs, w \in Workers : Watching(w) => job[w].op # j.op
    /\ \A r, s \in Requests :
         pc[r] = "marked" /\ pc[s] = "marked" /\ OpOf[r] = OpOf[s] => r = s
    /\ \A r \in Requests, w \in Workers :
         pc[r] = "marked" /\ Watching(w) => job[w].op # OpOf[r]
    /\ \A w, v \in Workers :
         Watching(w) /\ Watching(v) /\ job[w].op = job[v].op => w = v

WatchesSubmitted ==
    /\ \A j \in jobs : row[j.op].status = "SUBMITTED"
    /\ \A r \in Requests : pc[r] = "marked" => row[OpOf[r]].status = "SUBMITTED"
    /\ \A w \in Workers : Watching(w) => row[job[w].op].status = "SUBMITTED"

WatchInv == UniqueWatch /\ WatchesSubmitted /\ CheckMatchesRow

\* Nothing watches the empty table.
LEMMA InitWatchInv == Init => WatchInv
  BY DEF Init, WatchInv, UniqueWatch, WatchesSubmitted, CheckMatchesRow, Watching, WatchPhases

\* No step gives a row a second watcher, or a check another transaction.
LEMMA NextWatchInv ==
  ASSUME MaxStalls = 0, TypeInv, WatchInv, [Next]_vars PROVE WatchInv'
  <1> USE ConstantsAssumption
  <1> USE DEF TypeInv, TypeOK, CheckedRowsHaveTx, Fresh, Absent, Jobs, WatchInv, UniqueWatch,
              WatchesSubmitted, CheckMatchesRow, Watching, WatchPhases
  <1>1. CASE UNCHANGED vars
    BY <1>1
  <1>2. ASSUME NEW op \in Ops, Sponsor(op) PROVE WatchInv'
    BY <1>2 DEF Sponsor, Create, Transition, RowTypeOK
  <1>3. ASSUME NEW r \in Requests, Submit(r) PROVE WatchInv'
    BY <1>3 DEF Submit, Goto
  <1>4. ASSUME NEW r \in Requests, Prepare(r) PROVE WatchInv'
    BY <1>4 DEF Prepare, Goto
  <1>5. ASSUME NEW r \in Requests, PrepareFails(r) PROVE WatchInv'
    BY <1>5 DEF PrepareFails, Goto
  <1>6. ASSUME NEW r \in Requests, Broadcast(r) PROVE WatchInv'
    BY <1>6 DEF Broadcast, Goto
  <1>7. ASSUME NEW r \in Requests, BroadcastFails(r) PROVE WatchInv'
    BY <1>7 DEF BroadcastFails, Goto
  <1>8. ASSUME NEW r \in Requests, MarkFirst(r) PROVE WatchInv'
    <2>1. OpOf[r] \in Ops /\ reqTx[r] \in Txs /\ 0 \in Nat
      BY <1>8 DEF MarkFirst, Goto
    <2>2. /\ row[OpOf[r]].status \in {"PENDING", "STUCK"}
          /\ row'[OpOf[r]].status = "SUBMITTED" /\ row'[OpOf[r]].tx = reqTx[r]
          /\ \A o \in Ops \ {OpOf[r]} : row'[o] = row[o]
      BY <1>8, <2>1, MarkSubmittedEffect DEF MarkFirst
    <2>3. /\ \A j \in jobs : j.op # OpOf[r]
          /\ \A s \in Requests : pc[s] = "marked" => OpOf[s] # OpOf[r]
          /\ \A v \in Workers : Watching(v) => job[v].op # OpOf[r]
      BY <1>8, <2>1, <2>2 DEF MarkFirst, Goto
    <2>4. UniqueWatch'
      BY <1>8, <2>1, <2>3 DEF MarkFirst, Goto
    <2>5. WatchesSubmitted'
      BY <1>8, <2>1, <2>2, <2>3 DEF MarkFirst, Goto
    <2>6. CheckMatchesRow'
      BY <1>8, <2>1, <2>2, <2>3 DEF MarkFirst, Goto
    <2>7. QED
      BY <2>4, <2>5, <2>6
  <1>9. ASSUME NEW r \in Requests, MarkFirstConflicts(r) PROVE WatchInv'
    BY <1>9 DEF MarkFirstConflicts, Goto, TransitionConflicts
  <1>10. ASSUME NEW r \in Requests, Enqueue(r) PROVE WatchInv'
    BY <1>10 DEF Enqueue, Goto
  <1>11. ASSUME NEW r \in Requests, SubmitAborts(r) PROVE WatchInv'
    BY <1>11 DEF SubmitAborts
  <1>12. ASSUME NEW w \in Workers, NEW j \in jobs, Take(w, j) PROVE WatchInv'
    BY <1>12 DEF Take, Enter
  <1>13. ASSUME NEW w \in Workers, CheckReceipt(w) PROVE WatchInv'
    BY <1>13 DEF CheckReceipt, Enter
  <1>14. ASSUME NEW w \in Workers, Confirm(w) PROVE WatchInv'
    <2>1. job[w].op \in Ops
      BY <1>14 DEF Confirm
    <2>2. /\ row[job[w].op].status \in {"SUBMITTED", "STUCK"}
          /\ \A o \in Ops \ {job[w].op} : row'[o] = row[o]
      BY <1>14, <2>1, MarkConfirmedEffect DEF Confirm
    <2>3. /\ \A j \in jobs : j.op # job[w].op
          /\ \A s \in Requests : pc[s] = "marked" => OpOf[s] # job[w].op
          /\ \A v \in Workers \ {w} : Watching(v) => job[v].op # job[w].op
      BY <1>14, <2>1, <2>2 DEF Confirm
    <2>4. UniqueWatch'
      BY <1>14, <2>1, <2>3 DEF Confirm, EndRun
    <2>5. WatchesSubmitted'
      BY <1>14, <2>1, <2>2, <2>3, SMTT(60) DEF Confirm, EndRun
    <2>6. CheckMatchesRow'
      BY <1>14, <2>1, <2>2, <2>3 DEF Confirm, EndRun
    <2>7. QED
      BY <2>4, <2>5, <2>6
  <1>15. ASSUME NEW w \in Workers, Revert(w) PROVE WatchInv'
    <2>1. job[w].op \in Ops
      BY <1>15 DEF Revert
    <2>2. /\ row[job[w].op].status \in {"SUBMITTED", "STUCK"}
          /\ \A o \in Ops \ {job[w].op} : row'[o] = row[o]
      BY <1>15, <2>1, MarkFailedEffect DEF Revert, Reasons
    <2>3. /\ \A j \in jobs : j.op # job[w].op
          /\ \A s \in Requests : pc[s] = "marked" => OpOf[s] # job[w].op
          /\ \A v \in Workers \ {w} : Watching(v) => job[v].op # job[w].op
      BY <1>15, <2>1, <2>2 DEF Revert
    <2>4. UniqueWatch'
      BY <1>15, <2>1, <2>3 DEF Revert, EndRun
    <2>5. WatchesSubmitted'
      BY <1>15, <2>1, <2>2, <2>3, SMTT(60) DEF Revert, EndRun
    <2>6. CheckMatchesRow'
      BY <1>15, <2>1, <2>2, <2>3, SMTT(60) DEF Revert, EndRun
    <2>7. QED
      BY <2>4, <2>5, <2>6
  <1>16. ASSUME NEW w \in Workers, LoadRow(w) PROVE WatchInv'
    BY <1>16 DEF LoadRow, Enter
  <1>17. ASSUME NEW w \in Workers, GiveUp(w) PROVE WatchInv'
    <2>1. job[w].op \in Ops
      BY <1>17 DEF GiveUp
    <2>2. /\ row[job[w].op].status \in {"SUBMITTED", "STUCK"}
          /\ \A o \in Ops \ {job[w].op} : row'[o] = row[o]
      BY <1>17, <2>1, MarkFailedEffect DEF GiveUp, Reasons
    <2>3. /\ \A j \in jobs : j.op # job[w].op
          /\ \A s \in Requests : pc[s] = "marked" => OpOf[s] # job[w].op
          /\ \A v \in Workers \ {w} : Watching(v) => job[v].op # job[w].op
      BY <1>17, <2>1, <2>2 DEF GiveUp
    <2>4. UniqueWatch'
      BY <1>17, <2>1, <2>3 DEF GiveUp, EndRun
    <2>5. WatchesSubmitted'
      BY <1>17, <2>1, <2>2, <2>3 DEF GiveUp, EndRun
    <2>6. CheckMatchesRow'
      BY <1>17, <2>1, <2>2, <2>3, SMTT(60) DEF GiveUp, EndRun
    <2>7. QED
      BY <2>4, <2>5, <2>6
  <1>18. ASSUME NEW w \in Workers, Stick(w) PROVE WatchInv'
    <2>1. job[w].op \in Ops
      BY <1>18 DEF Stick, Enter
    <2>2. /\ row[job[w].op].status = "SUBMITTED"
          /\ \A o \in Ops \ {job[w].op} : row'[o] = row[o]
      BY <1>18, <2>1, MarkStuckEffect DEF Stick
    <2>3. /\ \A j \in jobs : j.op # job[w].op
          /\ \A s \in Requests : pc[s] = "marked" => OpOf[s] # job[w].op
          /\ \A v \in Workers \ {w} : Watching(v) => job[v].op # job[w].op
      BY <1>18, <2>1, <2>2 DEF Stick, Enter
    <2>4. UniqueWatch'
      BY <1>18, <2>1, <2>3 DEF Stick, Enter
    <2>5. WatchesSubmitted'
      BY <1>18, <2>1, <2>2, <2>3 DEF Stick, Enter
    <2>6. CheckMatchesRow'
      BY <1>18, <2>1, <2>2, <2>3 DEF Stick, Enter
    <2>7. QED
      BY <2>4, <2>5, <2>6
  <1>19. ASSUME NEW w \in Workers, Rebroadcast(w) PROVE WatchInv'
    BY <1>19 DEF Rebroadcast, Enter
  <1>20. ASSUME NEW w \in Workers, RebroadcastFails(w) PROVE WatchInv'
    BY <1>20 DEF RebroadcastFails, EndRun
  <1>21. ASSUME NEW w \in Workers, Remark(w) PROVE WatchInv'
    <2>1. job[w].op \in Ops /\ bumped[w] \in Txs /\ 1 \in Nat
      BY <1>21 DEF Remark, Enter
    <2>2. /\ row[job[w].op].status \in {"PENDING", "STUCK"}
          /\ row'[job[w].op].status = "SUBMITTED" /\ row'[job[w].op].tx = bumped[w]
          /\ \A o \in Ops \ {job[w].op} : row'[o] = row[o]
      BY <1>21, <2>1, MarkSubmittedEffect DEF Remark
    <2>3. /\ \A j \in jobs : j.op # job[w].op
          /\ \A s \in Requests : pc[s] = "marked" => OpOf[s] # job[w].op
          /\ \A v \in Workers : Watching(v) => job[v].op # job[w].op
      BY <1>21, <2>1, <2>2 DEF Remark, Enter
    <2>4. UniqueWatch'
      BY <1>21, <2>1, <2>3 DEF Remark, Enter
    <2>5. WatchesSubmitted'
      BY <1>21, <2>1, <2>2, <2>3 DEF Remark, Enter
    <2>6. CheckMatchesRow'
      BY <1>21, <2>1, <2>2, <2>3, SMTT(60) DEF Remark, Enter
    <2>7. QED
      BY <2>4, <2>5, <2>6
  <1>22. ASSUME NEW w \in Workers, Requeue(w) PROVE WatchInv'
    BY <1>22 DEF Requeue, EndRun
  <1>23. ASSUME NEW w \in Workers, CheckConflicts(w) PROVE WatchInv'
    BY <1>23 DEF CheckConflicts, EndRun, TransitionConflicts
  <1>24. ASSUME NEW w \in Workers, CheckAborts(w) PROVE WatchInv'
    BY <1>24 DEF CheckAborts, EndRun
  <1>25. ASSUME NEW w \in Workers PROVE ~Redeliver(w)
    BY DEF Redeliver
  <1>26. CASE ChainStep
    BY <1>26 DEF ChainStep
  <1>27. QED
    BY <1>1, <1>2, <1>3, <1>4, <1>5, <1>6, <1>7, <1>8, <1>9, <1>10, <1>11, <1>12, <1>13,
       <1>14, <1>15, <1>16, <1>17, <1>18, <1>19, <1>20, <1>21, <1>22, <1>23, <1>24, <1>25,
       <1>26 DEF Next, RequestStep, RunStep

-----------------------------------------------------------------------------
(* Without redelivery, attempts are bounded. *)

\* BumpsBounded, with what makes it inductive: a row that may still be
\* marked SUBMITTED has an attempt left, and a run that compared the row's
\* bumpCount to the bound is still right about it when it acts on it.
BoundInv ==
    /\ BumpsBounded
    /\ \A op \in Ops :
         row[op].status \in {Absent, "PENDING", "STUCK"} => row[op].bumps < MaxAttempts
    /\ \A w \in Workers : phase[w] = "stick" => row[job[w].op].bumps < MaxAttempts
    /\ \A w \in Workers : phase[w] = "giveup" => row[job[w].op].bumps = MaxAttempts

\* No row has been resubmitted yet.
LEMMA InitBoundInv == Init => BoundInv
  BY ConstantsAssumption DEF Init, RowInit, BoundInv, BumpsBounded, Absent

\* The bumpCount a run compared is still the row's when the run increments it.
LEMMA NextBoundInv ==
  ASSUME MaxStalls = 0, TypeInv, WatchInv, BoundInv, [Next]_vars PROVE BoundInv'
  <1> USE ConstantsAssumption
  <1> USE DEF TypeInv, TypeOK, CheckedRowsHaveTx, Fresh, Absent, Jobs, BoundInv,
              BumpsBounded
  <1>1. CASE UNCHANGED vars
    BY <1>1
  <1>2. ASSUME NEW op \in Ops, Sponsor(op) PROVE BoundInv'
    BY <1>2 DEF Sponsor, Create, Transition, RowTypeOK
  <1>3. ASSUME NEW r \in Requests, Submit(r) PROVE BoundInv'
    BY <1>3 DEF Submit, Goto
  <1>4. ASSUME NEW r \in Requests, Prepare(r) PROVE BoundInv'
    BY <1>4 DEF Prepare, Goto
  <1>5. ASSUME NEW r \in Requests, PrepareFails(r) PROVE BoundInv'
    BY <1>5 DEF PrepareFails, Goto
  <1>6. ASSUME NEW r \in Requests, Broadcast(r) PROVE BoundInv'
    BY <1>6 DEF Broadcast, Goto
  <1>7. ASSUME NEW r \in Requests, BroadcastFails(r) PROVE BoundInv'
    BY <1>7 DEF BroadcastFails, Goto
  <1>8. ASSUME NEW r \in Requests, MarkFirst(r) PROVE BoundInv'
    <2>1. OpOf[r] \in Ops /\ reqTx[r] \in Txs /\ 0 \in Nat
      BY <1>8 DEF MarkFirst, Goto
    <2>2. /\ row[OpOf[r]].status \in {"PENDING", "STUCK"}
          /\ row'[OpOf[r]].status = "SUBMITTED" /\ row'[OpOf[r]].tx = reqTx[r]
          /\ row'[OpOf[r]].bumps = row[OpOf[r]].bumps + 0 /\ row'[OpOf[r]].reason = row[OpOf[r]].reason
          /\ \A o \in Ops \ {OpOf[r]} : row'[o] = row[o]
      BY <1>8, <2>1, MarkSubmittedEffect DEF MarkFirst
    <2>3. \A v \in Workers : phase[v] \in {"stick", "giveup"} => job[v].op # OpOf[r]
      BY <2>2 DEF WatchInv, WatchesSubmitted, Watching, WatchPhases
    <2>4. row[OpOf[r]].bumps \in Nat
      BY <2>1 DEF RowTypeOK, Rows
    <2>5. QED
      BY <1>8, <2>1, <2>2, <2>3, <2>4 DEF MarkFirst, Goto
  <1>9. ASSUME NEW r \in Requests, MarkFirstConflicts(r) PROVE BoundInv'
    BY <1>9 DEF MarkFirstConflicts, Goto, TransitionConflicts
  <1>10. ASSUME NEW r \in Requests, Enqueue(r) PROVE BoundInv'
    BY <1>10 DEF Enqueue, Goto
  <1>11. ASSUME NEW r \in Requests, SubmitAborts(r) PROVE BoundInv'
    BY <1>11 DEF SubmitAborts
  <1>12. ASSUME NEW w \in Workers, NEW j \in jobs, Take(w, j) PROVE BoundInv'
    BY <1>12 DEF Take, Enter
  <1>13. ASSUME NEW w \in Workers, CheckReceipt(w) PROVE BoundInv'
    BY <1>13 DEF CheckReceipt, Enter
  <1>14. ASSUME NEW w \in Workers, Confirm(w) PROVE BoundInv'
    <2>1. job[w].op \in Ops
      BY <1>14 DEF Confirm
    <2>2. /\ row[job[w].op].status \in {"SUBMITTED", "STUCK"}
          /\ row'[job[w].op].status = "CONFIRMED" /\ row'[job[w].op].tx = row[job[w].op].tx
          /\ row'[job[w].op].bumps = row[job[w].op].bumps /\ row'[job[w].op].reason = row[job[w].op].reason
          /\ \A o \in Ops \ {job[w].op} : row'[o] = row[o]
      BY <1>14, <2>1, MarkConfirmedEffect DEF Confirm
    <2>3. \A v \in Workers \ {w} : phase[v] \in {"stick", "giveup"} => job[v].op # job[w].op
      BY <1>14, <2>2 DEF Confirm, WatchInv, UniqueWatch, WatchesSubmitted, Watching, WatchPhases
    <2>4. row[job[w].op].bumps \in Nat
      BY <2>1 DEF RowTypeOK, Rows
    <2>5. QED
      BY <1>14, <2>1, <2>2, <2>3, <2>4, SMTT(60) DEF Confirm, EndRun
  <1>15. ASSUME NEW w \in Workers, Revert(w) PROVE BoundInv'
    <2>1. job[w].op \in Ops
      BY <1>15 DEF Revert
    <2>2. /\ row[job[w].op].status \in {"SUBMITTED", "STUCK"}
          /\ row'[job[w].op].status = "FAILED" /\ row'[job[w].op].tx = row[job[w].op].tx
          /\ row'[job[w].op].bumps = row[job[w].op].bumps /\ row'[job[w].op].reason = "reverted"
          /\ \A o \in Ops \ {job[w].op} : row'[o] = row[o]
      BY <1>15, <2>1, MarkFailedEffect DEF Revert, Reasons
    <2>3. \A v \in Workers \ {w} : phase[v] \in {"stick", "giveup"} => job[v].op # job[w].op
      BY <1>15, <2>2 DEF Revert, WatchInv, UniqueWatch, WatchesSubmitted, Watching, WatchPhases
    <2>4. row[job[w].op].bumps \in Nat
      BY <2>1 DEF RowTypeOK, Rows
    <2>5. QED
      BY <1>15, <2>1, <2>2, <2>3, <2>4, SMTT(60) DEF Revert, EndRun
  <1>16. ASSUME NEW w \in Workers, LoadRow(w) PROVE BoundInv'
    <2>1. row[job[w].op].bumps \in Nat /\ row[job[w].op].bumps <= MaxAttempts
      BY <1>16 DEF LoadRow, RowTypeOK, Rows
    <2>2. CASE row[job[w].op].bumps >= MaxAttempts
      <3>1. row[job[w].op].bumps = MaxAttempts
        <4>1. \A m, n \in Nat : m >= n /\ m <= n => m = n
          OBVIOUS
        <4>2. MaxAttempts \in Nat
          OBVIOUS
        <4>3. QED
          BY <2>1, <2>2, <4>1, <4>2
      <3>2. phase' = [phase EXCEPT ![w] = "giveup"]
        BY <1>16, <2>1, <2>2 DEF LoadRow, Enter
      <3>3. QED
        BY <1>16, <3>1, <3>2 DEF LoadRow
    <2>3. CASE row[job[w].op].bumps < MaxAttempts
      <3>1. phase' = [phase EXCEPT ![w] = "stick"]
        BY <1>16, <2>1, <2>3 DEF LoadRow, Enter
      <3>2. QED
        BY <1>16, <2>3, <3>1 DEF LoadRow
    <2>4. QED
      BY <2>1, <2>2, <2>3
  <1>17. ASSUME NEW w \in Workers, GiveUp(w) PROVE BoundInv'
    <2>1. job[w].op \in Ops
      BY <1>17 DEF GiveUp
    <2>2. /\ row[job[w].op].status \in {"SUBMITTED", "STUCK"}
          /\ row'[job[w].op].status = "FAILED" /\ row'[job[w].op].tx = row[job[w].op].tx
          /\ row'[job[w].op].bumps = row[job[w].op].bumps /\ row'[job[w].op].reason = "exhausted"
          /\ \A o \in Ops \ {job[w].op} : row'[o] = row[o]
      BY <1>17, <2>1, MarkFailedEffect DEF GiveUp, Reasons
    <2>3. \A v \in Workers \ {w} : phase[v] \in {"stick", "giveup"} => job[v].op # job[w].op
      BY <1>17, <2>2 DEF GiveUp, WatchInv, UniqueWatch, WatchesSubmitted, Watching, WatchPhases
    <2>4. row[job[w].op].bumps \in Nat
      BY <2>1 DEF RowTypeOK, Rows
    <2>5. QED
      BY <1>17, <2>1, <2>2, <2>3, <2>4, SMTT(60) DEF GiveUp, EndRun
  <1>18. ASSUME NEW w \in Workers, Stick(w) PROVE BoundInv'
    <2>1. job[w].op \in Ops
      BY <1>18 DEF Stick, Enter
    <2>2. /\ row[job[w].op].status = "SUBMITTED"
          /\ row'[job[w].op].status = "STUCK" /\ row'[job[w].op].tx = row[job[w].op].tx
          /\ row'[job[w].op].bumps = row[job[w].op].bumps /\ row'[job[w].op].reason = row[job[w].op].reason
          /\ \A o \in Ops \ {job[w].op} : row'[o] = row[o]
      BY <1>18, <2>1, MarkStuckEffect DEF Stick
    <2>3. \A v \in Workers \ {w} : phase[v] \in {"stick", "giveup"} => job[v].op # job[w].op
      BY <1>18, <2>2 DEF Stick, Enter, WatchInv, UniqueWatch, WatchesSubmitted, Watching, WatchPhases
    <2>4. row[job[w].op].bumps \in Nat
      BY <2>1 DEF RowTypeOK, Rows
    <2>5. QED
      BY <1>18, <2>1, <2>2, <2>3, <2>4 DEF Stick, Enter
  <1>19. ASSUME NEW w \in Workers, Rebroadcast(w) PROVE BoundInv'
    BY <1>19 DEF Rebroadcast, Enter
  <1>20. ASSUME NEW w \in Workers, RebroadcastFails(w) PROVE BoundInv'
    BY <1>20 DEF RebroadcastFails, EndRun
  <1>21. ASSUME NEW w \in Workers, Remark(w) PROVE BoundInv'
    <2>1. job[w].op \in Ops /\ bumped[w] \in Txs /\ 1 \in Nat
      BY <1>21 DEF Remark, Enter
    <2>2. /\ row[job[w].op].status \in {"PENDING", "STUCK"}
          /\ row'[job[w].op].status = "SUBMITTED" /\ row'[job[w].op].tx = bumped[w]
          /\ row'[job[w].op].bumps = row[job[w].op].bumps + 1 /\ row'[job[w].op].reason = row[job[w].op].reason
          /\ \A o \in Ops \ {job[w].op} : row'[o] = row[o]
      BY <1>21, <2>1, MarkSubmittedEffect DEF Remark
    <2>3. \A v \in Workers : phase[v] \in {"stick", "giveup"} => job[v].op # job[w].op
      BY <2>2 DEF WatchInv, WatchesSubmitted, Watching, WatchPhases
    <2>4. row[job[w].op].bumps \in Nat
      BY <2>1 DEF RowTypeOK, Rows
    <2>5. QED
      BY <1>21, <2>1, <2>2, <2>3, <2>4 DEF Remark, Enter
  <1>22. ASSUME NEW w \in Workers, Requeue(w) PROVE BoundInv'
    BY <1>22 DEF Requeue, EndRun
  <1>23. ASSUME NEW w \in Workers, CheckConflicts(w) PROVE BoundInv'
    BY <1>23 DEF CheckConflicts, EndRun, TransitionConflicts
  <1>24. ASSUME NEW w \in Workers, CheckAborts(w) PROVE BoundInv'
    BY <1>24 DEF CheckAborts, EndRun
  <1>25. ASSUME NEW w \in Workers PROVE ~Redeliver(w)
    BY DEF Redeliver
  <1>26. CASE ChainStep
    BY <1>26 DEF ChainStep
  <1>27. QED
    BY <1>1, <1>2, <1>3, <1>4, <1>5, <1>6, <1>7, <1>8, <1>9, <1>10, <1>11, <1>12, <1>13,
       <1>14, <1>15, <1>16, <1>17, <1>18, <1>19, <1>20, <1>21, <1>22, <1>23, <1>24,
       <1>25, <1>26 DEF Next, RequestStep, RunStep
-----------------------------------------------------------------------------
(* What settled rows say about the chain, with any redelivery. *)

\* SettledAsMined, with what makes it inductive: every copy of a transaction
\* is one of the operation it is kept for, and a run that has a receipt has
\* the receipt of such a transaction.
SettledInv ==
    /\ SettledAsMined
    /\ \A r \in Requests : pc[r] \in {"prepared", "sent", "marked"} => reqTx[r].op = OpOf[r]
    /\ \A j \in jobs : j.tx.op = j.op
    /\ \A w \in Workers :
         /\ phase[w] # "idle" => job[w].tx.op = job[w].op
         /\ phase[w] \in {"remark", "requeue"} => bumped[w].op = job[w].op
         /\ phase[w] = "confirm" => MinedOk(job[w].tx)
         /\ phase[w] = "revert" => MinedReverted(job[w].tx)

\* No row is settled yet.
LEMMA InitSettledInv == Init => SettledInv
  BY DEF Init, RowInit, ChainInit, SettledInv, SettledAsMined, Absent

\* A receipt, once seen, stays valid until the run settles the row with it.
LEMMA NextSettledInv ==
  ASSUME TypeInv, SettledInv, [Next]_vars PROVE SettledInv'
  <1> USE ConstantsAssumption
  <1> USE DEF TypeInv, TypeOK, Jobs, SettledInv, SettledAsMined, MinedOk, MinedReverted,
              Executed
  <1>1. CASE UNCHANGED vars
    BY <1>1
  <1>2. ASSUME NEW op \in Ops, Sponsor(op) PROVE SettledInv'
    BY <1>2 DEF Sponsor, Create, Transition, RowTypeOK, Rows, Absent
  <1>3. ASSUME NEW r \in Requests, Submit(r) PROVE SettledInv'
    BY <1>3 DEF Submit, Goto
  <1>4. ASSUME NEW r \in Requests, Prepare(r) PROVE SettledInv'
    BY <1>4 DEF Prepare, Goto
  <1>5. ASSUME NEW r \in Requests, PrepareFails(r) PROVE SettledInv'
    BY <1>5 DEF PrepareFails, Goto
  <1>6. ASSUME NEW r \in Requests, Broadcast(r) PROVE SettledInv'
    BY <1>6 DEF Broadcast, Goto, Send
  <1>7. ASSUME NEW r \in Requests, BroadcastFails(r) PROVE SettledInv'
    BY <1>7 DEF BroadcastFails, Goto, Send
  <1>8. ASSUME NEW r \in Requests, MarkFirst(r) PROVE SettledInv'
    <2>1. OpOf[r] \in Ops /\ reqTx[r] \in Txs /\ 0 \in Nat
      BY <1>8 DEF MarkFirst, Goto
    <2>2. /\ row[OpOf[r]].status \in {"PENDING", "STUCK"}
          /\ row'[OpOf[r]].status = "SUBMITTED" /\ row'[OpOf[r]].tx = reqTx[r]
          /\ row'[OpOf[r]].bumps = row[OpOf[r]].bumps + 0 /\ row'[OpOf[r]].reason = row[OpOf[r]].reason
          /\ \A o \in Ops \ {OpOf[r]} : row'[o] = row[o]
      BY <1>8, <2>1, MarkSubmittedEffect DEF MarkFirst
    <2>3. QED
      BY <1>8, <2>1, <2>2 DEF MarkFirst, Goto
  <1>9. ASSUME NEW r \in Requests, MarkFirstConflicts(r) PROVE SettledInv'
    BY <1>9 DEF MarkFirstConflicts, Goto, TransitionConflicts
  <1>10. ASSUME NEW r \in Requests, Enqueue(r) PROVE SettledInv'
    BY <1>10 DEF Enqueue, Goto
  <1>11. ASSUME NEW r \in Requests, SubmitAborts(r) PROVE SettledInv'
    BY <1>11 DEF SubmitAborts
  <1>12. ASSUME NEW w \in Workers, NEW j \in jobs, Take(w, j) PROVE SettledInv'
    BY <1>12 DEF Take, Enter
  <1>13. ASSUME NEW w \in Workers, CheckReceipt(w) PROVE SettledInv'
    <2>1. SettledAsMined'
      BY <1>13 DEF CheckReceipt
    <2>2. \A v \in Workers \ {w} : phase'[v] = phase[v]
      BY <1>13 DEF CheckReceipt, Enter
    <2>3. /\ UNCHANGED <<mined, pc, reqTx, jobs, job, bumped>>
          /\ phase[w] = "check"
          /\ phase'[w] \in {"load", "confirm", "revert"}
          /\ phase'[w] = "confirm" => MinedOk(job[w].tx)
          /\ phase'[w] = "revert" => MinedReverted(job[w].tx)
      BY <1>13 DEF CheckReceipt, Enter
    <2>4. ASSUME NEW v \in Workers
          PROVE  /\ phase'[v] # "idle" => job'[v].tx.op = job'[v].op
                 /\ phase'[v] \in {"remark", "requeue"} => bumped'[v].op = job'[v].op
                 /\ phase'[v] = "confirm" => MinedOk(job[v].tx)'
                 /\ phase'[v] = "revert" => MinedReverted(job[v].tx)'
      <3>1. CASE v = w
        BY <2>3, <3>1
      <3>2. CASE v # w
        BY <2>2, <2>3, <3>2
      <3>3. QED
        BY <3>1, <3>2
    <2>5. QED
      BY <2>1, <2>3, <2>4
  <1>14. ASSUME NEW w \in Workers, Confirm(w) PROVE SettledInv'
    <2>1. job[w].op \in Ops
      BY <1>14 DEF Confirm
    <2>2. /\ row[job[w].op].status \in {"SUBMITTED", "STUCK"}
          /\ row'[job[w].op].status = "CONFIRMED" /\ row'[job[w].op].tx = row[job[w].op].tx
          /\ row'[job[w].op].bumps = row[job[w].op].bumps /\ row'[job[w].op].reason = row[job[w].op].reason
          /\ \A o \in Ops \ {job[w].op} : row'[o] = row[o]
      BY <1>14, <2>1, MarkConfirmedEffect DEF Confirm
    <2>3. Executed(job[w].op)
      <3> DEFINE m == [tx |-> job[w].tx, ok |-> TRUE]
      <3>1. m \in mined /\ m.tx.op = job[w].op /\ m.ok = TRUE
        BY <1>14 DEF Confirm
      <3>2. QED
        BY <3>1
    <2>4. SettledAsMined'
      BY <1>14, <2>1, <2>2, <2>3 DEF Confirm
    <2>5. QED
      BY <1>14, <2>4 DEF Confirm, EndRun
  <1>15. ASSUME NEW w \in Workers, Revert(w) PROVE SettledInv'
    <2>1. job[w].op \in Ops
      BY <1>15 DEF Revert
    <2>2. /\ row[job[w].op].status \in {"SUBMITTED", "STUCK"}
          /\ row'[job[w].op].status = "FAILED" /\ row'[job[w].op].tx = row[job[w].op].tx
          /\ row'[job[w].op].bumps = row[job[w].op].bumps /\ row'[job[w].op].reason = "reverted"
          /\ \A o \in Ops \ {job[w].op} : row'[o] = row[o]
      BY <1>15, <2>1, MarkFailedEffect DEF Revert, Reasons
    <2>3. \E m \in mined : m.tx.op = job[w].op /\ ~m.ok
      <3> DEFINE m == [tx |-> job[w].tx, ok |-> FALSE]
      <3>1. m \in mined /\ m.tx.op = job[w].op /\ m.ok = FALSE
        BY <1>15 DEF Revert
      <3>2. QED
        BY <3>1
    <2>4. SettledAsMined'
      BY <1>15, <2>1, <2>2, <2>3 DEF Revert
    <2>5. QED
      BY <1>15, <2>4 DEF Revert, EndRun
  <1>16. ASSUME NEW w \in Workers, LoadRow(w) PROVE SettledInv'
    BY <1>16 DEF LoadRow, Enter
  <1>17. ASSUME NEW w \in Workers, GiveUp(w) PROVE SettledInv'
    <2>1. job[w].op \in Ops
      BY <1>17 DEF GiveUp
    <2>2. /\ row[job[w].op].status \in {"SUBMITTED", "STUCK"}
          /\ row'[job[w].op].status = "FAILED" /\ row'[job[w].op].tx = row[job[w].op].tx
          /\ row'[job[w].op].bumps = row[job[w].op].bumps /\ row'[job[w].op].reason = "exhausted"
          /\ \A o \in Ops \ {job[w].op} : row'[o] = row[o]
      BY <1>17, <2>1, MarkFailedEffect DEF GiveUp, Reasons
    <2>3. QED
      BY <1>17, <2>1, <2>2, SMTT(60) DEF GiveUp, EndRun
  <1>18. ASSUME NEW w \in Workers, Stick(w) PROVE SettledInv'
    <2>1. job[w].op \in Ops
      BY <1>18 DEF Stick, Enter
    <2>2. /\ row[job[w].op].status = "SUBMITTED"
          /\ row'[job[w].op].status = "STUCK" /\ row'[job[w].op].tx = row[job[w].op].tx
          /\ row'[job[w].op].bumps = row[job[w].op].bumps /\ row'[job[w].op].reason = row[job[w].op].reason
          /\ \A o \in Ops \ {job[w].op} : row'[o] = row[o]
      BY <1>18, <2>1, MarkStuckEffect DEF Stick
    <2>3. QED
      BY <1>18, <2>1, <2>2 DEF Stick, Enter
  <1>19. ASSUME NEW w \in Workers, Rebroadcast(w) PROVE SettledInv'
    BY <1>19 DEF Rebroadcast, Enter, Send, Replacement
  <1>20. ASSUME NEW w \in Workers, RebroadcastFails(w) PROVE SettledInv'
    BY <1>20 DEF RebroadcastFails, EndRun, Send
  <1>21. ASSUME NEW w \in Workers, Remark(w) PROVE SettledInv'
    <2>1. job[w].op \in Ops /\ bumped[w] \in Txs /\ 1 \in Nat
      BY <1>21 DEF Remark, Enter
    <2>2. /\ row[job[w].op].status \in {"PENDING", "STUCK"}
          /\ row'[job[w].op].status = "SUBMITTED" /\ row'[job[w].op].tx = bumped[w]
          /\ row'[job[w].op].bumps = row[job[w].op].bumps + 1 /\ row'[job[w].op].reason = row[job[w].op].reason
          /\ \A o \in Ops \ {job[w].op} : row'[o] = row[o]
      BY <1>21, <2>1, MarkSubmittedEffect DEF Remark
    <2>3. QED
      BY <1>21, <2>1, <2>2 DEF Remark, Enter
  <1>22. ASSUME NEW w \in Workers, Requeue(w) PROVE SettledInv'
    <2> DEFINE k == [op |-> job[w].op, tx |-> bumped[w], stalls |-> 0]
    <2>1. k.tx.op = k.op
      BY <1>22 DEF Requeue
    <2>2. jobs' = jobs \cup {k}
      BY <1>22 DEF Requeue
    <2> HIDE DEF k
    <2>3. QED
      BY <1>22, <2>1, <2>2 DEF Requeue, EndRun
  <1>23. ASSUME NEW w \in Workers, CheckConflicts(w) PROVE SettledInv'
    BY <1>23 DEF CheckConflicts, EndRun, TransitionConflicts
  <1>24. ASSUME NEW w \in Workers, CheckAborts(w) PROVE SettledInv'
    BY <1>24 DEF CheckAborts, EndRun
  <1>25. ASSUME NEW w \in Workers, Redeliver(w) PROVE SettledInv'
    <2> DEFINE k == [job[w] EXCEPT !.stalls = @ + 1]
    <2>1. k.tx.op = k.op
      <3>1. job[w] \in Jobs /\ job[w].tx.op = job[w].op
        BY <1>25 DEF Redeliver
      <3>2. k.tx = job[w].tx /\ k.op = job[w].op
        BY <3>1
      <3>3. QED
        BY <3>1, <3>2
    <2>2. jobs' = jobs \cup {k}
      BY <1>25 DEF Redeliver
    <2> HIDE DEF k
    <2>3. \A j \in jobs' : j.tx.op = j.op
      BY <2>1, <2>2
    <2>4. CASE EndRun(w)
      BY <1>25, <2>3, <2>4 DEF Redeliver, EndRun
    <2>5. CASE job' = [job EXCEPT ![w].stalls = @ + 1] /\ UNCHANGED <<phase, seen, bumped>>
      <3>1. \A v \in Workers : phase[v] # "idle" =>
               job'[v].tx = job[v].tx /\ job'[v].op = job[v].op
        BY <1>25, <2>5 DEF Redeliver
      <3>2. QED
        BY <1>25, <2>3, <2>5, <3>1 DEF Redeliver
    <2>6. QED
      BY <1>25, <2>4, <2>5 DEF Redeliver
  <1>26. CASE ChainStep
    BY <1>26 DEF ChainStep, Mine, Evict, Void
  <1>27. QED
    BY <1>1, <1>2, <1>3, <1>4, <1>5, <1>6, <1>7, <1>8, <1>9, <1>10, <1>11, <1>12, <1>13,
       <1>14, <1>15, <1>16, <1>17, <1>18, <1>19, <1>20, <1>21, <1>22, <1>23, <1>24,
       <1>25, <1>26 DEF Next, RequestStep, RunStep

\* Whatever is redelivered, lost or delayed, CONFIRMED means executed and
\* "Transaction reverted" means reverted.
THEOREM SettledCorrect == Spec => []SettledAsMined
  <1>1. SettledInv => SettledAsMined
    BY DEF SettledInv
  <1>2. TypeInv /\ SettledInv /\ [Next]_vars => TypeInv' /\ SettledInv'
    BY NextTypeInv, NextSettledInv
  <1>3. QED
    BY <1>1, <1>2, InitTypeInv, InitSettledInv, PTL DEF Spec
-----------------------------------------------------------------------------
(* Without redelivery, a confirmed row names the transaction that was mined. *)

\* No row is CONFIRMED yet.
LEMMA InitConfirmedIsMined == Init => ConfirmedIsMined
  BY DEF Init, RowInit, ConfirmedIsMined, Absent

\* A row is confirmed with the receipt of the transaction it names.
LEMMA NextConfirmedIsMined ==
  ASSUME MaxStalls = 0, TypeInv, WatchInv, SettledInv, ConfirmedIsMined, [Next]_vars PROVE ConfirmedIsMined'
  <1> USE ConstantsAssumption
  <1> USE DEF TypeInv, TypeOK, Jobs, ConfirmedIsMined, MinedOk
  <1>1. CASE UNCHANGED vars
    BY <1>1
  <1>2. ASSUME NEW op \in Ops, Sponsor(op) PROVE ConfirmedIsMined'
    BY <1>2 DEF Sponsor, Create, Transition, RowTypeOK, Rows
  <1>3. ASSUME NEW r \in Requests, Submit(r) PROVE ConfirmedIsMined'
    BY <1>3 DEF Submit, Goto
  <1>4. ASSUME NEW r \in Requests, Prepare(r) PROVE ConfirmedIsMined'
    BY <1>4 DEF Prepare, Goto
  <1>5. ASSUME NEW r \in Requests, PrepareFails(r) PROVE ConfirmedIsMined'
    BY <1>5 DEF PrepareFails, Goto
  <1>6. ASSUME NEW r \in Requests, Broadcast(r) PROVE ConfirmedIsMined'
    BY <1>6 DEF Broadcast, Send
  <1>7. ASSUME NEW r \in Requests, BroadcastFails(r) PROVE ConfirmedIsMined'
    BY <1>7 DEF BroadcastFails, Send
  <1>8. ASSUME NEW r \in Requests, MarkFirst(r) PROVE ConfirmedIsMined'
    <2>1. OpOf[r] \in Ops /\ reqTx[r] \in Txs /\ 0 \in Nat
      BY <1>8 DEF MarkFirst, Goto
    <2>2. /\ row[OpOf[r]].status \in {"PENDING", "STUCK"}
          /\ row'[OpOf[r]].status = "SUBMITTED" /\ row'[OpOf[r]].tx = reqTx[r]
          /\ row'[OpOf[r]].bumps = row[OpOf[r]].bumps + 0 /\ row'[OpOf[r]].reason = row[OpOf[r]].reason
          /\ \A o \in Ops \ {OpOf[r]} : row'[o] = row[o]
      BY <1>8, <2>1, MarkSubmittedEffect DEF MarkFirst
    <2>3. QED
      BY <1>8, <2>1, <2>2 DEF MarkFirst, Goto
  <1>9. ASSUME NEW r \in Requests, MarkFirstConflicts(r) PROVE ConfirmedIsMined'
    BY <1>9 DEF MarkFirstConflicts, Goto, TransitionConflicts
  <1>10. ASSUME NEW r \in Requests, Enqueue(r) PROVE ConfirmedIsMined'
    BY <1>10 DEF Enqueue, Goto
  <1>11. ASSUME NEW r \in Requests, SubmitAborts(r) PROVE ConfirmedIsMined'
    BY <1>11 DEF SubmitAborts
  <1>12. ASSUME NEW w \in Workers, NEW j \in jobs, Take(w, j) PROVE ConfirmedIsMined'
    BY <1>12 DEF Take, Enter
  <1>13. ASSUME NEW w \in Workers, CheckReceipt(w) PROVE ConfirmedIsMined'
    BY <1>13 DEF CheckReceipt, Enter
  <1>14. ASSUME NEW w \in Workers, Confirm(w) PROVE ConfirmedIsMined'
    <2>1. job[w].op \in Ops
      BY <1>14 DEF Confirm
    <2>2. /\ row[job[w].op].status \in {"SUBMITTED", "STUCK"}
          /\ row'[job[w].op].status = "CONFIRMED" /\ row'[job[w].op].tx = row[job[w].op].tx
          /\ row'[job[w].op].bumps = row[job[w].op].bumps /\ row'[job[w].op].reason = row[job[w].op].reason
          /\ \A o \in Ops \ {job[w].op} : row'[o] = row[o]
      BY <1>14, <2>1, MarkConfirmedEffect DEF Confirm
    <2>3. row[job[w].op].tx = job[w].tx /\ MinedOk(job[w].tx)
      BY <1>14 DEF Confirm, WatchInv, CheckMatchesRow, WatchPhases, SettledInv
    <2>4. QED
      BY <1>14, <2>1, <2>2, <2>3 DEF Confirm
  <1>15. ASSUME NEW w \in Workers, Revert(w) PROVE ConfirmedIsMined'
    <2>1. job[w].op \in Ops
      BY <1>15 DEF Revert
    <2>2. /\ row[job[w].op].status \in {"SUBMITTED", "STUCK"}
          /\ row'[job[w].op].status = "FAILED" /\ row'[job[w].op].tx = row[job[w].op].tx
          /\ row'[job[w].op].bumps = row[job[w].op].bumps /\ row'[job[w].op].reason = "reverted"
          /\ \A o \in Ops \ {job[w].op} : row'[o] = row[o]
      BY <1>15, <2>1, MarkFailedEffect DEF Revert, Reasons
    <2>3. QED
      BY <1>15, <2>1, <2>2 DEF Revert
  <1>16. ASSUME NEW w \in Workers, LoadRow(w) PROVE ConfirmedIsMined'
    BY <1>16 DEF LoadRow, Enter
  <1>17. ASSUME NEW w \in Workers, GiveUp(w) PROVE ConfirmedIsMined'
    <2>1. job[w].op \in Ops
      BY <1>17 DEF GiveUp
    <2>2. /\ row[job[w].op].status \in {"SUBMITTED", "STUCK"}
          /\ row'[job[w].op].status = "FAILED" /\ row'[job[w].op].tx = row[job[w].op].tx
          /\ row'[job[w].op].bumps = row[job[w].op].bumps /\ row'[job[w].op].reason = "exhausted"
          /\ \A o \in Ops \ {job[w].op} : row'[o] = row[o]
      BY <1>17, <2>1, MarkFailedEffect DEF GiveUp, Reasons
    <2>3. QED
      BY <1>17, <2>1, <2>2 DEF GiveUp
  <1>18. ASSUME NEW w \in Workers, Stick(w) PROVE ConfirmedIsMined'
    <2>1. job[w].op \in Ops
      BY <1>18 DEF Stick, Enter
    <2>2. /\ row[job[w].op].status = "SUBMITTED"
          /\ row'[job[w].op].status = "STUCK" /\ row'[job[w].op].tx = row[job[w].op].tx
          /\ row'[job[w].op].bumps = row[job[w].op].bumps /\ row'[job[w].op].reason = row[job[w].op].reason
          /\ \A o \in Ops \ {job[w].op} : row'[o] = row[o]
      BY <1>18, <2>1, MarkStuckEffect DEF Stick
    <2>3. QED
      BY <1>18, <2>1, <2>2 DEF Stick, Enter
  <1>19. ASSUME NEW w \in Workers, Rebroadcast(w) PROVE ConfirmedIsMined'
    BY <1>19 DEF Rebroadcast, Send
  <1>20. ASSUME NEW w \in Workers, RebroadcastFails(w) PROVE ConfirmedIsMined'
    BY <1>20 DEF RebroadcastFails, Send
  <1>21. ASSUME NEW w \in Workers, Remark(w) PROVE ConfirmedIsMined'
    <2>1. job[w].op \in Ops /\ bumped[w] \in Txs /\ 1 \in Nat
      BY <1>21 DEF Remark, Enter
    <2>2. /\ row[job[w].op].status \in {"PENDING", "STUCK"}
          /\ row'[job[w].op].status = "SUBMITTED" /\ row'[job[w].op].tx = bumped[w]
          /\ row'[job[w].op].bumps = row[job[w].op].bumps + 1 /\ row'[job[w].op].reason = row[job[w].op].reason
          /\ \A o \in Ops \ {job[w].op} : row'[o] = row[o]
      BY <1>21, <2>1, MarkSubmittedEffect DEF Remark
    <2>3. QED
      BY <1>21, <2>1, <2>2 DEF Remark, Enter
  <1>22. ASSUME NEW w \in Workers, Requeue(w) PROVE ConfirmedIsMined'
    BY <1>22 DEF Requeue, EndRun
  <1>23. ASSUME NEW w \in Workers, CheckConflicts(w) PROVE ConfirmedIsMined'
    BY <1>23 DEF CheckConflicts, EndRun, TransitionConflicts
  <1>24. ASSUME NEW w \in Workers, CheckAborts(w) PROVE ConfirmedIsMined'
    BY <1>24 DEF CheckAborts, EndRun
  <1>25. ASSUME NEW w \in Workers PROVE ~Redeliver(w)
    BY DEF Redeliver
  <1>26. CASE ChainStep
    BY <1>26 DEF ChainStep, Mine, Evict, Void
  <1>27. QED
    BY <1>1, <1>2, <1>3, <1>4, <1>5, <1>6, <1>7, <1>8, <1>9, <1>10, <1>11, <1>12, <1>13,
       <1>14, <1>15, <1>16, <1>17, <1>18, <1>19, <1>20, <1>21, <1>22, <1>23, <1>24,
       <1>25, <1>26 DEF Next, RequestStep, RunStep
-----------------------------------------------------------------------------
(* The theorems for a queue that does not redeliver. *)

\* The pairwise form implies the one over sets of watchers.
LEMMA WatchInvImplies == WatchInv => WatchedAtMostOnce
  BY DEF WatchInv, UniqueWatch, WatchesSubmitted, Watching, WatchedAtMostOnce,
         Watchers, JobsFor, SubmitsFor, RunsFor

Inv == TypeInv /\ WatchInv /\ BoundInv /\ SettledInv /\ ConfirmedIsMined

\* The inductive invariant holds throughout.
LEMMA InvAlways == ASSUME MaxStalls = 0 PROVE Spec => []Inv
  <1>1. Init => Inv
    BY InitTypeInv, InitWatchInv, InitBoundInv, InitSettledInv, InitConfirmedIsMined DEF Inv
  <1>2. Inv /\ [Next]_vars => Inv'
    BY NextTypeInv, NextWatchInv, NextBoundInv, NextSettledInv, NextConfirmedIsMined DEF Inv
  <1>3. QED
    BY <1>1, <1>2, PTL DEF Spec

\* However many calls and workers act on a row, at most one check of it is
\* pending or running, and only while it is SUBMITTED.
THEOREM OneWatcher == ASSUME MaxStalls = 0 PROVE Spec => []WatchedAtMostOnce
  <1>1. Inv => WatchedAtMostOnce
    BY WatchInvImplies DEF Inv
  <1>2. QED
    BY <1>1, InvAlways, PTL

\* Every pending check looks for the transaction its row names.
THEOREM ChecksMatch == ASSUME MaxStalls = 0 PROVE Spec => []CheckMatchesRow
  <1>1. Inv => CheckMatchesRow
    BY DEF Inv, WatchInv
  <1>2. QED
    BY <1>1, InvAlways, PTL

\* bumpCount stays within MAX_GAS_BUMP_ATTEMPTS.
THEOREM AttemptsBounded == ASSUME MaxStalls = 0 PROVE Spec => []BumpsBounded
  <1>1. Inv => BumpsBounded
    BY DEF Inv, BoundInv
  <1>2. QED
    BY <1>1, InvAlways, PTL

\* A CONFIRMED row names a transaction that was mined and succeeded.
THEOREM ConfirmedCorrect == ASSUME MaxStalls = 0 PROVE Spec => []ConfirmedIsMined
  <1>1. Inv => ConfirmedIsMined
    BY DEF Inv
  <1>2. QED
    BY <1>1, InvAlways, PTL
-----------------------------------------------------------------------------
(* Without redelivery, Relayer implements Lifecycle. *)

StatusMap == [op \in Ops |-> row[op].status]
BumpsMap == [op \in Ops |-> row[op].bumps]
ExecutedSet == {op \in Ops : Executed(op)}
RevertedSet == {op \in Ops : \E m \in mined : m.tx.op = op /\ ~m.ok}

\* Promise's state, and its actions, in terms of the four above.
LEMMA PromiseVars ==
  /\ Promise!lifecycleVars = <<StatusMap, BumpsMap, ExecutedSet, RevertedSet>>
  /\ Promise!lifecycleVars' = <<StatusMap', BumpsMap', ExecutedSet', RevertedSet'>>
  BY DEF Promise!lifecycleVars, StatusMap, BumpsMap, ExecutedSet, RevertedSet

\* Moving one row moves one entry of each mapped function.
LEMMA RowMove ==
  ASSUME NEW op \in Ops, NEW s, NEW b, row'[op].status = s, row'[op].bumps = b,
         \A o \in Ops \ {op} : row'[o] = row[o]
  PROVE  /\ StatusMap' = [StatusMap EXCEPT ![op] = s]
         /\ BumpsMap' = [BumpsMap EXCEPT ![op] = b]
         /\ StatusMap[op] = row[op].status
         /\ BumpsMap[op] = row[op].bumps
         /\ row[op].bumps = b => BumpsMap' = BumpsMap
  BY DEF StatusMap, BumpsMap

\* What is executed and reverted depends on the mined transactions only.
LEMMA MinedSame ==
  ASSUME UNCHANGED mined PROVE UNCHANGED <<ExecutedSet, RevertedSet>>
  BY DEF ExecutedSet, RevertedSet, Executed

\* What a reader sees of the rows depends on the rows only.
LEMMA RowSame ==
  ASSUME UNCHANGED row PROVE UNCHANGED <<StatusMap, BumpsMap>>
  BY DEF StatusMap, BumpsMap

\* Relayer starts as Lifecycle does.
LEMMA InitPromise == Init => Promise!Init
  BY DEF Init, RowInit, ChainInit, Promise!Init, Executed, Absent

\* Every step of Relayer is a step of Lifecycle or changes nothing it sees.
LEMMA NextPromise ==
  ASSUME MaxStalls = 0, Inv, [Next]_vars
  PROVE  [Promise!Next]_(Promise!lifecycleVars)
  <1> DEFINE Goal == Promise!Next \/ UNCHANGED <<StatusMap, BumpsMap, ExecutedSet, RevertedSet>>
  <1> SUFFICES Goal
    BY PromiseVars
  <1> USE ConstantsAssumption
  <1> USE DEF Inv, TypeInv, TypeOK, Jobs
  <1>1. CASE UNCHANGED row /\ UNCHANGED mined
    BY <1>1, RowSame, MinedSame
  <1>2. ASSUME NEW op \in Ops, Sponsor(op) PROVE Goal
    <2>1. /\ row[op].status = "absent" /\ row'[op].status = "PENDING"
          /\ row'[op].bumps = row[op].bumps
          /\ \A o \in Ops \ {op} : row'[o] = row[o]
      BY <1>2 DEF Sponsor, Create, Transition, RowTypeOK, Rows, Absent
    <2>2. UNCHANGED mined
      BY <1>2 DEF Sponsor
    <2>3. Promise!Sponsor(op)
      BY <2>1, <2>2, RowMove, MinedSame DEF Promise!Sponsor, Promise!Move,
         StatusMap, BumpsMap, ExecutedSet, RevertedSet
    <2>4. QED
      BY <2>3 DEF Promise!Next
  <1>3. ASSUME NEW r \in Requests, MarkFirst(r) PROVE Goal
    <2>1. OpOf[r] \in Ops /\ reqTx[r] \in Txs /\ 0 \in Nat
      BY <1>3 DEF MarkFirst, Goto
    <2>2. /\ row[OpOf[r]].status \in {"PENDING", "STUCK"} /\ row'[OpOf[r]].status = "SUBMITTED"
          /\ row'[OpOf[r]].bumps = row[OpOf[r]].bumps + 0
          /\ \A o \in Ops \ {OpOf[r]} : row'[o] = row[o]
      BY <1>3, <2>1, MarkSubmittedEffect DEF MarkFirst
    <2>3. UNCHANGED <<ExecutedSet, RevertedSet>>
      BY <1>3, MinedSame DEF MarkFirst
    <2>4. row[OpOf[r]].bumps \in Nat
      BY <2>1 DEF RowTypeOK, Rows
    <2>5. /\ StatusMap' = [StatusMap EXCEPT ![OpOf[r]] = "SUBMITTED"]
          /\ BumpsMap' = BumpsMap
          /\ StatusMap[OpOf[r]] = row[OpOf[r]].status /\ BumpsMap[OpOf[r]] = row[OpOf[r]].bumps
      BY <2>1, <2>2, <2>4, RowMove
    <2>6. ASSUME NEW op \in Ops, op = OpOf[r] PROVE Promise!Submit(op)
      BY <2>2, <2>3, <2>5, <2>6 DEF Promise!Submit, Promise!Move,
         StatusMap, BumpsMap, ExecutedSet, RevertedSet
    <2>7. \E op \in Ops : Promise!Submit(op)
      BY <2>1, <2>6
    <2>8. QED
      BY <2>7 DEF Promise!Next
  <1>4. ASSUME NEW w \in Workers, Confirm(w) PROVE Goal
    <2>1. job[w].op \in Ops
      BY <1>4 DEF Confirm
    <2>2. /\ row[job[w].op].status = "SUBMITTED" /\ row'[job[w].op].status = "CONFIRMED"
          /\ row'[job[w].op].bumps = row[job[w].op].bumps
          /\ \A o \in Ops \ {job[w].op} : row'[o] = row[o]
      BY <1>4, <2>1, MarkConfirmedEffect DEF Confirm, WatchInv, WatchesSubmitted, Watching, WatchPhases
    <2>3. UNCHANGED <<ExecutedSet, RevertedSet>>
      BY <1>4, MinedSame DEF Confirm
    <2>4. row[job[w].op].bumps \in Nat
      BY <2>1 DEF RowTypeOK, Rows
    <2>5. job[w].op \in ExecutedSet
      <3> DEFINE m == [tx |-> job[w].tx, ok |-> TRUE]
      <3>1. m \in mined /\ m.tx.op = job[w].op /\ m.ok
        BY <1>4 DEF Confirm, SettledInv, MinedOk
      <3>2. QED
        BY <2>1, <3>1 DEF ExecutedSet, Executed
    <2>6. /\ StatusMap' = [StatusMap EXCEPT ![job[w].op] = "CONFIRMED"]
          /\ BumpsMap' = BumpsMap
          /\ StatusMap[job[w].op] = row[job[w].op].status /\ BumpsMap[job[w].op] = row[job[w].op].bumps
      BY <2>1, <2>2, <2>4, RowMove
    <2>7. ASSUME NEW op \in Ops, op = job[w].op PROVE Promise!Confirm(op)
      BY <2>2, <2>3, <2>6, <2>7, <2>5 DEF Promise!Confirm, Promise!Move,
         StatusMap, BumpsMap, ExecutedSet, RevertedSet
    <2>8. \E op \in Ops : Promise!Confirm(op)
      BY <2>1, <2>7
    <2>9. QED
      BY <2>8 DEF Promise!Next
  <1>5. ASSUME NEW w \in Workers, Revert(w) PROVE Goal
    <2>1. job[w].op \in Ops
      BY <1>5 DEF Revert
    <2>2. /\ row[job[w].op].status = "SUBMITTED" /\ row'[job[w].op].status = "FAILED"
          /\ row'[job[w].op].bumps = row[job[w].op].bumps
          /\ \A o \in Ops \ {job[w].op} : row'[o] = row[o]
      BY <1>5, <2>1, MarkFailedEffect DEF Revert, Reasons, WatchInv, WatchesSubmitted, Watching, WatchPhases
    <2>3. UNCHANGED <<ExecutedSet, RevertedSet>>
      BY <1>5, MinedSame DEF Revert
    <2>4. row[job[w].op].bumps \in Nat
      BY <2>1 DEF RowTypeOK, Rows
    <2>5. job[w].op \in RevertedSet
      <3> DEFINE m == [tx |-> job[w].tx, ok |-> FALSE]
      <3>1. m \in mined /\ m.tx.op = job[w].op /\ ~m.ok
        BY <1>5 DEF Revert, SettledInv, MinedReverted
      <3>2. QED
        BY <2>1, <3>1 DEF RevertedSet
    <2>6. /\ StatusMap' = [StatusMap EXCEPT ![job[w].op] = "FAILED"]
          /\ BumpsMap' = BumpsMap
          /\ StatusMap[job[w].op] = row[job[w].op].status /\ BumpsMap[job[w].op] = row[job[w].op].bumps
      BY <2>1, <2>2, <2>4, RowMove
    <2>7. ASSUME NEW op \in Ops, op = job[w].op PROVE Promise!Fail(op)
      BY <2>2, <2>3, <2>6, <2>7, <2>5 DEF Promise!Fail, Promise!Move,
         StatusMap, BumpsMap, ExecutedSet, RevertedSet
    <2>8. \E op \in Ops : Promise!Fail(op)
      BY <2>1, <2>7
    <2>9. QED
      BY <2>8 DEF Promise!Next
  <1>6. ASSUME NEW w \in Workers, GiveUp(w) PROVE Goal
    <2>1. job[w].op \in Ops
      BY <1>6 DEF GiveUp
    <2>2. /\ row[job[w].op].status = "SUBMITTED" /\ row'[job[w].op].status = "FAILED"
          /\ row'[job[w].op].bumps = row[job[w].op].bumps
          /\ \A o \in Ops \ {job[w].op} : row'[o] = row[o]
      BY <1>6, <2>1, MarkFailedEffect DEF GiveUp, Reasons, WatchInv, WatchesSubmitted, Watching, WatchPhases
    <2>3. UNCHANGED <<ExecutedSet, RevertedSet>>
      BY <1>6, MinedSame DEF GiveUp
    <2>4. row[job[w].op].bumps \in Nat
      BY <2>1 DEF RowTypeOK, Rows
    <2>5. row[job[w].op].bumps = MaxAttempts
      BY <1>6 DEF GiveUp, BoundInv
    <2>6. /\ StatusMap' = [StatusMap EXCEPT ![job[w].op] = "FAILED"]
          /\ BumpsMap' = BumpsMap
          /\ StatusMap[job[w].op] = row[job[w].op].status /\ BumpsMap[job[w].op] = row[job[w].op].bumps
      BY <2>1, <2>2, <2>4, RowMove
    <2>7. ASSUME NEW op \in Ops, op = job[w].op PROVE Promise!Fail(op)
      BY <2>2, <2>3, <2>6, <2>7, <2>5 DEF Promise!Fail, Promise!Move,
         StatusMap, BumpsMap, ExecutedSet, RevertedSet
    <2>8. \E op \in Ops : Promise!Fail(op)
      BY <2>1, <2>7
    <2>9. QED
      BY <2>8 DEF Promise!Next
  <1>7. ASSUME NEW w \in Workers, Stick(w) PROVE Goal
    <2>1. job[w].op \in Ops
      BY <1>7 DEF Stick, Enter
    <2>2. /\ row[job[w].op].status = "SUBMITTED" /\ row'[job[w].op].status = "STUCK"
          /\ row'[job[w].op].bumps = row[job[w].op].bumps
          /\ \A o \in Ops \ {job[w].op} : row'[o] = row[o]
      BY <1>7, <2>1, MarkStuckEffect DEF Stick
    <2>3. UNCHANGED <<ExecutedSet, RevertedSet>>
      BY <1>7, MinedSame DEF Stick
    <2>4. row[job[w].op].bumps \in Nat
      BY <2>1 DEF RowTypeOK, Rows
    <2>5. row[job[w].op].bumps < MaxAttempts
      BY <1>7 DEF Stick, Enter, BoundInv
    <2>6. /\ StatusMap' = [StatusMap EXCEPT ![job[w].op] = "STUCK"]
          /\ BumpsMap' = BumpsMap
          /\ StatusMap[job[w].op] = row[job[w].op].status /\ BumpsMap[job[w].op] = row[job[w].op].bumps
      BY <2>1, <2>2, <2>4, RowMove
    <2>7. ASSUME NEW op \in Ops, op = job[w].op PROVE Promise!GetStuck(op)
      BY <2>2, <2>3, <2>6, <2>7, <2>5 DEF Promise!GetStuck, Promise!Move,
         StatusMap, BumpsMap, ExecutedSet, RevertedSet
    <2>8. \E op \in Ops : Promise!GetStuck(op)
      BY <2>1, <2>7
    <2>9. QED
      BY <2>8 DEF Promise!Next
  <1>8. ASSUME NEW w \in Workers, Remark(w) PROVE Goal
    <2>1. job[w].op \in Ops /\ bumped[w] \in Txs /\ 1 \in Nat
      BY <1>8 DEF Remark, Enter
    <2>2. /\ row[job[w].op].status = "STUCK" /\ row'[job[w].op].status = "SUBMITTED"
          /\ row'[job[w].op].bumps = row[job[w].op].bumps + 1
          /\ \A o \in Ops \ {job[w].op} : row'[o] = row[o]
      BY <1>8, <2>1, MarkSubmittedEffect DEF Remark, Enter, CheckedRowsHaveTx, Fresh
    <2>3. UNCHANGED <<ExecutedSet, RevertedSet>>
      BY <1>8, MinedSame DEF Remark
    <2>4. row[job[w].op].bumps \in Nat
      BY <2>1 DEF RowTypeOK, Rows
    <2>5. /\ StatusMap' = [StatusMap EXCEPT ![job[w].op] = "SUBMITTED"]
          /\ BumpsMap' = [BumpsMap EXCEPT ![job[w].op] = BumpsMap[job[w].op] + 1]
          /\ StatusMap[job[w].op] = row[job[w].op].status
      BY <2>1, <2>2, <2>4, RowMove
    <2>6. ASSUME NEW op \in Ops, op = job[w].op PROVE Promise!Resubmit(op)
      BY <2>2, <2>3, <2>5, <2>6 DEF Promise!Resubmit, Promise!Move,
         StatusMap, BumpsMap, ExecutedSet, RevertedSet
    <2>7. \E op \in Ops : Promise!Resubmit(op)
      BY <2>1, <2>6
    <2>8. QED
      BY <2>7 DEF Promise!Next
  <1>9. ASSUME NEW tx \in sent, Mine(tx), UNCHANGED row PROVE Goal
    <2>1. UNCHANGED <<StatusMap, BumpsMap>>
      BY <1>9, RowSame
    <2>2. tx.op \in Ops
      BY DEF ChainTypeOK, Txs
    <2>3. CASE WouldRevert(tx.op)
      <3> DEFINE k == [tx |-> tx, ok |-> FALSE]
      <3>1. mined' = mined \cup {k}
        BY <1>9, <2>3 DEF Mine
      <3>2. k.tx.op = tx.op /\ ~k.ok
        OBVIOUS
      <3> HIDE DEF k
      <3>3. \A op \in Ops : op \in ExecutedSet' <=> op \in ExecutedSet
        BY <3>1, <3>2 DEF ExecutedSet, Executed
      <3>4. \A op \in Ops : op \in RevertedSet' <=> op \in RevertedSet \/ op = tx.op
        BY <3>1, <3>2 DEF RevertedSet, Executed
      <3>5. ExecutedSet \subseteq Ops /\ RevertedSet \subseteq Ops
            /\ ExecutedSet' \subseteq Ops /\ RevertedSet' \subseteq Ops
        BY DEF ExecutedSet, RevertedSet
      <3>6. ExecutedSet' = ExecutedSet
        BY <3>3, <3>5
      <3>7. RevertedSet' = RevertedSet \cup {tx.op}
        BY <2>2, <3>4, <3>5
      <3>8. ExecutedSet' = ExecutedSet /\ RevertedSet' = RevertedSet \cup {tx.op}
        BY <3>6, <3>7
      <3>9. Promise!Block(tx.op)
        BY <2>1, <3>8 DEF Promise!Block, StatusMap, BumpsMap, ExecutedSet, RevertedSet
      <3>10. QED
        BY <2>2, <3>9 DEF Promise!Next
    <2>4. CASE ~WouldRevert(tx.op)
      <3> DEFINE k == [tx |-> tx, ok |-> TRUE]
      <3>1. mined' = mined \cup {k}
        BY <1>9, <2>4 DEF Mine
      <3>2. k.tx.op = tx.op /\ k.ok
        OBVIOUS
      <3> HIDE DEF k
      <3>3. \A op \in Ops : op \in RevertedSet' <=> op \in RevertedSet
        BY <3>1, <3>2 DEF RevertedSet, Executed
      <3>4. \A op \in Ops : op \in ExecutedSet' <=> op \in ExecutedSet \/ op = tx.op
        BY <3>1, <3>2 DEF ExecutedSet, Executed
      <3>5. ExecutedSet \subseteq Ops /\ RevertedSet \subseteq Ops
            /\ ExecutedSet' \subseteq Ops /\ RevertedSet' \subseteq Ops
        BY DEF ExecutedSet, RevertedSet
      <3>6. RevertedSet' = RevertedSet
        BY <3>3, <3>5
      <3>7. ExecutedSet' = ExecutedSet \cup {tx.op}
        BY <2>2, <3>4, <3>5
      <3>8. ExecutedSet' = ExecutedSet \cup {tx.op} /\ RevertedSet' = RevertedSet
        BY <3>6, <3>7
      <3>9. Promise!Block(tx.op)
        BY <2>1, <3>8 DEF Promise!Block, StatusMap, BumpsMap, ExecutedSet, RevertedSet
      <3>10. QED
        BY <2>2, <3>9 DEF Promise!Next
    <2>5. QED
      BY <2>3, <2>4
  <1>10. CASE ChainStep
    BY <1>1, <1>9, <1>10 DEF ChainStep, Evict, Void
  <1>11. ASSUME NEW r \in Requests,
                Submit(r) \/ Prepare(r) \/ PrepareFails(r) \/ MarkFirstConflicts(r)
                  \/ Enqueue(r) \/ SubmitAborts(r)
         PROVE  UNCHANGED row /\ UNCHANGED mined
    BY <1>11 DEF Submit, Prepare, PrepareFails, MarkFirstConflicts, TransitionConflicts,
       Enqueue, SubmitAborts
  <1>12. ASSUME NEW r \in Requests, Broadcast(r) \/ BroadcastFails(r)
         PROVE  UNCHANGED row /\ UNCHANGED mined
    BY <1>12 DEF Broadcast, BroadcastFails, Send
  <1>13. ASSUME NEW w \in Workers, NEW j \in jobs,
                Take(w, j) \/ CheckReceipt(w) \/ LoadRow(w) \/ Requeue(w) \/ CheckAborts(w)
         PROVE  UNCHANGED row /\ UNCHANGED mined
    BY <1>13 DEF Take, CheckReceipt, LoadRow, Requeue, CheckAborts
  <1>14. ASSUME NEW w \in Workers,
                CheckReceipt(w) \/ LoadRow(w) \/ Requeue(w) \/ CheckAborts(w)
                  \/ CheckConflicts(w) \/ Redeliver(w)
         PROVE  UNCHANGED row /\ UNCHANGED mined
    BY <1>14 DEF CheckReceipt, LoadRow, Requeue, CheckAborts, CheckConflicts,
       TransitionConflicts, Redeliver
  <1>15. ASSUME NEW w \in Workers, Rebroadcast(w) \/ RebroadcastFails(w)
         PROVE  UNCHANGED row /\ UNCHANGED mined
    BY <1>15 DEF Rebroadcast, RebroadcastFails, Send
  <1>16. CASE UNCHANGED vars
    BY <1>1, <1>16
  <1> HIDE DEF Goal
  <1>17. QED
    BY <1>1, <1>2, <1>3, <1>4, <1>5, <1>6, <1>7, <1>8, <1>10, <1>11, <1>12, <1>13, <1>14,
       <1>15, <1>16 DEF Next, RequestStep, RunStep

\* Whatever the interleaving of calls, checks and blocks, a reader of the
\* rows sees only what Lifecycle promises.
THEOREM Implements == ASSUME MaxStalls = 0 PROVE Spec => ImplementsLifecycle
  <1>1. Inv /\ [Next]_vars => [Promise!Next]_(Promise!lifecycleVars)
    BY NextPromise
  <1>2. QED
    BY <1>1, InitPromise, InvAlways, PTL DEF Spec, ImplementsLifecycle, Promise!Spec
=============================================================================
