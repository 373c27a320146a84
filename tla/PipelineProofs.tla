---------------------------- MODULE PipelineProofs --------------------------
(***************************************************************************)
(* Proofs about RateLimit and RequestPipeline, for any limits, windows,    *)
(* clients and requests.                                                   *)
(***************************************************************************)
EXTENDS RequestPipeline, TLAPS

(* The counters. *)

\* Both tiers have a positive limit and a positive window.
LEMMA LimitsPositive ==
  ASSUME NEW k PROVE MaxOf(k) \in Nat \ {0} /\ WindowOf(k) \in Nat \ {0}
  BY RateLimitAssumption DEF MaxOf, WindowOf

\* The script leaves a counter with an expiry in the future, whether it
\* finds one or creates it.
LEMMA ScriptKeeps ==
  ASSUME RateLimitTypeOK, NEW k \in Keys, Script(k)
  PROVE  /\ DOMAIN counters' \subseteq Keys
         /\ \A j \in DOMAIN counters' :
              /\ counters'[j].count \in 1 .. MaxOf(j) + 1
              /\ counters'[j].ttl \in 1 .. WindowOf(j)
  <1> DEFINE count == IF Incremented(k) > MaxOf(k) THEN MaxOf(k) + 1 ELSE Incremented(k)
             ttl == IF Incremented(k) = 1 THEN WindowOf(k) ELSE counters[k].ttl
  <1>1. count \in 1 .. MaxOf(k) + 1
    BY LimitsPositive DEF RateLimitTypeOK, Incremented, Live
  <1>2. ttl \in 1 .. WindowOf(k)
    BY LimitsPositive DEF RateLimitTypeOK, Incremented, Live
  <1>3. counters' = [j \in DOMAIN counters \cup {k} |->
                        IF j = k THEN [count |-> count, ttl |-> ttl] ELSE counters[j]]
    BY DEF Script, Counter
  <1> HIDE DEF count, ttl
  <1>4. QED
    BY <1>1, <1>2, <1>3 DEF RateLimitTypeOK

\* So does a request that is let through, or refused.
LEMMA HitKeeps ==
  ASSUME RateLimitTypeOK, NEW k \in Keys, Pass(k) \/ Refuse(k) \/ (Script(k) /\ UNCHANGED passed)
  PROVE  RateLimitTypeOK'
  <1>1. Script(k)
    BY DEF Pass, Refuse
  <1>2. DOMAIN passed' = Keys /\ \A j \in Keys : passed'[j] \in [Ages(j) -> Nat]
    <2>1. CASE passed' = passed
      BY <2>1 DEF RateLimitTypeOK
    <2>2. CASE passed' = [passed EXCEPT ![k] = [age \in Ages(k) |-> passed[k][age] + 1]]
      <3>1. passed[k] \in [Ages(k) -> Nat]
        BY DEF RateLimitTypeOK
      <3>2. [age \in Ages(k) |-> passed[k][age] + 1] \in [Ages(k) -> Nat]
        <4> HIDE DEF Ages
        <4>1. QED
          BY <3>1
      <3> HIDE DEF Keys, Ages
      <3>3. QED
        BY <2>2, <3>2 DEF RateLimitTypeOK
    <2>3. QED
      BY <2>1, <2>2 DEF Pass, Refuse
  <1>3. QED
    BY <1>1, <1>2, ScriptKeeps DEF RateLimitTypeOK

\* And a second that passes.
LEMMA ElapseKeeps == ASSUME RateLimitTypeOK, Elapse PROVE RateLimitTypeOK'
  <1>1. ASSUME NEW k \in DOMAIN counters'
        PROVE  /\ k \in Keys
               /\ counters'[k].count \in 1 .. MaxOf(k) + 1
               /\ counters'[k].ttl \in 1 .. WindowOf(k)
    <2>1. /\ k \in DOMAIN counters /\ counters[k].ttl > 1
          /\ counters'[k] = [counters[k] EXCEPT !.ttl = @ - 1]
      BY <1>1 DEF Elapse
    <2>2. QED
      BY <2>1, LimitsPositive DEF RateLimitTypeOK
  <1>2. \A k \in Keys : \A age \in Ages(k) \ {0} : age - 1 \in Ages(k)
    BY LimitsPositive DEF Ages
  <1>3. DOMAIN passed' = Keys /\ \A k \in Keys : passed'[k] \in [Ages(k) -> Nat]
    <2> HIDE DEF Keys, Ages
    <2>1. QED
      BY <1>2 DEF RateLimitTypeOK, Elapse
  <1>4. QED
    BY <1>1, <1>3 DEF RateLimitTypeOK
-----------------------------------------------------------------------------
(* Bursts. *)

\* How many requests of its window a live counter has let through at most:
\* none past the maximum.
Counted(k) == IF counters[k].count > MaxOf(k) THEN MaxOf(k) ELSE counters[k].count

\* A live counter was created WindowOf(k) - ttl seconds ago, by a request of
\* that second; what came through before, of earlier windows, is no more than
\* the maximum less one, because the first request of a window has left the
\* span of a window's length by the time that the next window can begin.
BurstOf(k) ==
    /\ Live(k) =>
         \A age \in Ages(k) :
             /\ age < WindowOf(k) - counters[k].ttl => passed[k][age] <= Counted(k) - 1
             /\ age <= WindowOf(k) - counters[k].ttl => passed[k][age] <= Counted(k)
             /\ passed[k][age] <= Counted(k) + MaxOf(k) - 1
    /\ ~Live(k) =>
         /\ passed[k][0] = 0
         /\ \A age \in Ages(k) : passed[k][age] <= MaxOf(k) - 1

BurstInv == \A k \in Keys : BurstOf(k)

\* What the script does to the counter it is called on.
LEMMA ScriptCounts ==
  ASSUME RateLimitTypeOK, NEW k \in Keys, Script(k)
  PROVE  /\ Live(k)' /\ \A j \in Keys \ {k} : Live(j)' = Live(j)
         /\ \A j \in DOMAIN counters \ {k} : counters'[j] = counters[j]
         /\ Live(k) => /\ counters'[k].ttl = counters[k].ttl
                       /\ Counted(k)' >= Counted(k)
                       /\ ~Limited(k) => Counted(k)' = Counted(k) + 1
         /\ ~Live(k) => counters'[k].ttl = WindowOf(k) /\ Counted(k)' = 1
  <1> DEFINE count == IF Incremented(k) > MaxOf(k) THEN MaxOf(k) + 1 ELSE Incremented(k)
             ttl == IF Incremented(k) = 1 THEN WindowOf(k) ELSE counters[k].ttl
  <1>1. MaxOf(k) \in Nat \ {0}
    BY LimitsPositive
  <1>2. counters' = [j \in DOMAIN counters \cup {k} |->
                        IF j = k THEN [count |-> count, ttl |-> ttl] ELSE counters[j]]
    BY DEF Script, Counter
  <1> HIDE DEF count, ttl
  <1>3. counters'[k] = [count |-> count, ttl |-> ttl]
    BY <1>2
  <1>4. Counted(k)' = IF count > MaxOf(k) THEN MaxOf(k) ELSE count
    BY <1>3 DEF Counted, MaxOf
  <1>5. /\ Live(k)' /\ \A j \in Keys \ {k} : Live(j)' = Live(j)
        /\ \A j \in DOMAIN counters \ {k} : counters'[j] = counters[j]
    BY <1>2 DEF Live
  <1>6. ASSUME Live(k)
        PROVE  /\ counters'[k].ttl = counters[k].ttl
               /\ Counted(k)' >= Counted(k)
               /\ ~Limited(k) => Counted(k)' = Counted(k) + 1
    <2>1. counters[k].count \in Nat \ {0}
      BY <1>6, <1>1 DEF RateLimitTypeOK, Live
    <2>2. Incremented(k) = counters[k].count + 1
      BY <1>6 DEF Incremented
    <2>3. counters'[k].ttl = counters[k].ttl
      BY <1>3, <2>1, <2>2 DEF ttl
    <2>4. QED
      BY <1>1, <1>4, <2>1, <2>2, <2>3 DEF Counted, Limited, count
  <1>7. ASSUME ~Live(k) PROVE counters'[k].ttl = WindowOf(k) /\ Counted(k)' = 1
    <2>1. Incremented(k) = 1
      BY <1>7 DEF Incremented
    <2>2. QED
      BY <1>1, <1>3, <1>4, <2>1 DEF count, ttl
  <1>8. QED
    BY <1>5, <1>6, <1>7

\* The numbers the invariant compares.
LEMMA BurstNumbers ==
  ASSUME RateLimitTypeOK, NEW k \in Keys
  PROVE  /\ MaxOf(k) \in Nat \ {0} /\ WindowOf(k) \in Nat \ {0}
         /\ \A age \in Ages(k) : passed[k][age] \in Nat /\ age \in Nat /\ age <= WindowOf(k) - 1
         /\ Live(k) => /\ counters[k].ttl \in 1 .. WindowOf(k)
                       /\ Counted(k) \in 1 .. MaxOf(k)
  <1>1. MaxOf(k) \in Nat \ {0} /\ WindowOf(k) \in Nat \ {0}
    BY LimitsPositive
  <1>2. passed[k] \in [Ages(k) -> Nat]
    BY DEF RateLimitTypeOK
  <1>3. \A age \in Ages(k) : passed[k][age] \in Nat
    <2> HIDE DEF Ages
    <2>1. QED
      BY <1>2
  <1>4. QED
    BY <1>1, <1>3 DEF RateLimitTypeOK, Live, Counted, Ages

\* A request that is let through adds one to what its counter counts, or is
\* the first of a window; one that is not, or is counted twice, adds to the
\* counter only.
LEMMA HitBurst ==
  ASSUME RateLimitTypeOK, BurstInv, NEW k \in Keys,
         Pass(k) \/ Refuse(k) \/ (Script(k) /\ UNCHANGED passed)
  PROVE  BurstInv'
  <1>1. Script(k)
    BY DEF Pass, Refuse
  <1>2. /\ Live(k)' /\ \A j \in Keys \ {k} : Live(j)' = Live(j)
        /\ \A j \in DOMAIN counters \ {k} : counters'[j] = counters[j]
        /\ Live(k) => /\ counters'[k].ttl = counters[k].ttl
                      /\ Counted(k)' >= Counted(k)
                      /\ ~Limited(k) => Counted(k)' = Counted(k) + 1
        /\ ~Live(k) => counters'[k].ttl = WindowOf(k) /\ Counted(k)' = 1
    BY <1>1, ScriptCounts
  <1>3. /\ MaxOf(k) \in Nat \ {0} /\ WindowOf(k) \in Nat \ {0}
        /\ \A age \in Ages(k) : passed[k][age] \in Nat /\ age \in Nat /\ age <= WindowOf(k) - 1
        /\ Live(k) => counters[k].ttl \in 1 .. WindowOf(k) /\ Counted(k) \in 1 .. MaxOf(k)
    BY BurstNumbers
  <1>4. RateLimitTypeOK' /\ Counted(k)' \in 1 .. MaxOf(k)
    <2>1. RateLimitTypeOK'
      BY HitKeeps
    <2>2. counters'[k].count \in 1 .. MaxOf(k) + 1
      BY <1>2, <2>1 DEF RateLimitTypeOK, Live
    <2>3. QED
      BY <1>3, <2>1, <2>2 DEF Counted, MaxOf
  <1>5. DOMAIN passed = Keys /\ \A j \in Keys \ {k} : passed'[j] = passed[j]
    BY DEF Pass, Refuse, RateLimitTypeOK
  <1>6. ASSUME NEW j \in Keys \ {k} PROVE BurstOf(j)'
    <2>1. Live(j)' = Live(j) /\ passed'[j] = passed[j] /\ BurstOf(j)
      BY <1>2, <1>5 DEF BurstInv
    <2>2. Live(j) => counters'[j] = counters[j]
      BY <1>2 DEF Live
    <2>3. Live(j) => Counted(j)' = Counted(j)
      BY <2>2 DEF Counted, MaxOf
    <2>4. QED
      BY <2>1, <2>2, <2>3 DEF BurstOf, Ages, WindowOf, MaxOf
  <1>7. CASE UNCHANGED passed
    <2>1. BurstOf(k)
      BY DEF BurstInv
    <2>2. ASSUME Live(k) PROVE BurstOf(k)'
      <3>1. ASSUME NEW age \in Ages(k)
            PROVE  /\ age < WindowOf(k) - counters'[k].ttl => passed'[k][age] <= Counted(k)' - 1
                   /\ age <= WindowOf(k) - counters'[k].ttl => passed'[k][age] <= Counted(k)'
                   /\ passed'[k][age] <= Counted(k)' + MaxOf(k) - 1
        BY <1>2, <1>3, <1>4, <1>7, <2>1, <2>2 DEF BurstOf
      <3>2. QED
        BY <1>2, <3>1 DEF BurstOf, Ages, WindowOf, MaxOf
    <2>3. ASSUME ~Live(k) PROVE BurstOf(k)'
      <3>1. ASSUME NEW age \in Ages(k)
            PROVE  /\ age < WindowOf(k) - counters'[k].ttl => passed'[k][age] <= Counted(k)' - 1
                   /\ age <= WindowOf(k) - counters'[k].ttl => passed'[k][age] <= Counted(k)'
                   /\ passed'[k][age] <= Counted(k)' + MaxOf(k) - 1
        BY <1>2, <1>3, <1>4, <1>7, <2>1, <2>3 DEF BurstOf
      <3>2. QED
        BY <1>2, <3>1 DEF BurstOf, Ages, WindowOf, MaxOf
    <2>4. BurstOf(k)'
      BY <2>2, <2>3
    <2>5. QED
      BY <1>6, <2>4 DEF BurstInv
  <1>8. CASE Pass(k)
    <2>1. BurstOf(k) /\ ~Limited(k)
      BY <1>8 DEF BurstInv, Pass
    <2>2. \A age \in Ages(k) : passed'[k][age] = passed[k][age] + 1
      BY <1>5, <1>8 DEF Pass
    <2>3. ASSUME Live(k) PROVE BurstOf(k)'
      <3>1. ASSUME NEW age \in Ages(k)
            PROVE  /\ age < WindowOf(k) - counters'[k].ttl => passed'[k][age] <= Counted(k)' - 1
                   /\ age <= WindowOf(k) - counters'[k].ttl => passed'[k][age] <= Counted(k)'
                   /\ passed'[k][age] <= Counted(k)' + MaxOf(k) - 1
        BY <1>2, <1>3, <1>4, <2>1, <2>2, <2>3 DEF BurstOf
      <3>2. QED
        BY <1>2, <3>1 DEF BurstOf, Ages, WindowOf, MaxOf
    <2>4. ASSUME ~Live(k) PROVE BurstOf(k)'
      <3>1. ASSUME NEW age \in Ages(k)
            PROVE  /\ age < WindowOf(k) - counters'[k].ttl => passed'[k][age] <= Counted(k)' - 1
                   /\ age <= WindowOf(k) - counters'[k].ttl => passed'[k][age] <= Counted(k)'
                   /\ passed'[k][age] <= Counted(k)' + MaxOf(k) - 1
        BY <1>2, <1>3, <1>4, <2>1, <2>2, <2>4 DEF BurstOf
      <3>2. QED
        BY <1>2, <3>1 DEF BurstOf, Ages, WindowOf, MaxOf
    <2>5. BurstOf(k)'
      BY <2>3, <2>4
    <2>6. QED
      BY <1>6, <2>5 DEF BurstInv
  <1>9. QED
    BY <1>7, <1>8 DEF Refuse

\* As a second passes, the span moves on with its window; when the window
\* ends, the request that began it is no longer in the span.
LEMMA ElapseBurst == ASSUME RateLimitTypeOK, BurstInv, Elapse PROVE BurstInv'
  <1> SUFFICES ASSUME NEW k \in Keys PROVE BurstOf(k)'
    BY DEF BurstInv
  <1>1. BurstOf(k)
    BY DEF BurstInv
  <1>2. /\ MaxOf(k) \in Nat \ {0} /\ WindowOf(k) \in Nat \ {0}
        /\ \A age \in Ages(k) : passed[k][age] \in Nat /\ age \in Nat /\ age <= WindowOf(k) - 1
        /\ Live(k) => counters[k].ttl \in 1 .. WindowOf(k) /\ Counted(k) \in 1 .. MaxOf(k)
    BY BurstNumbers
  <1>3. \A age \in Ages(k) : passed'[k][age] = IF age = 0 THEN 0 ELSE passed[k][age - 1]
    BY DEF Elapse
  <1>4. 0 \in Ages(k) /\ \A age \in Ages(k) : age = 0 \/ age - 1 \in Ages(k)
    BY <1>2 DEF Ages
  <1>5. Live(k)' <=> Live(k) /\ counters[k].ttl > 1
    BY DEF Elapse, Live
  <1>6. CASE ~Live(k)
    <2>1. passed'[k][0] = 0 /\ \A age \in Ages(k) : passed'[k][age] <= MaxOf(k) - 1
      BY <1>1, <1>2, <1>3, <1>4, <1>6 DEF BurstOf
    <2>2. QED
      BY <1>5, <1>6, <2>1 DEF BurstOf, Ages, WindowOf, MaxOf
  <1>7. CASE Live(k) /\ ~(counters[k].ttl > 1)
    <2>1. counters[k].ttl = 1
      BY <1>2, <1>7
    <2>2. \A age \in Ages(k) \ {0} : passed[k][age - 1] <= Counted(k) - 1
      BY <1>1, <1>2, <1>4, <1>7, <2>1 DEF BurstOf
    <2>3. passed'[k][0] = 0 /\ \A age \in Ages(k) : passed'[k][age] <= MaxOf(k) - 1
      BY <1>2, <1>3, <1>4, <1>7, <2>2
    <2>4. QED
      BY <1>5, <1>7, <2>3 DEF BurstOf, Ages, WindowOf, MaxOf
  <1>8. CASE Live(k) /\ counters[k].ttl > 1
    <2>1. counters'[k].ttl = counters[k].ttl - 1 /\ counters'[k].count = counters[k].count
      <3>1. counters'[k] = [counters[k] EXCEPT !.ttl = @ - 1]
        BY <1>8 DEF Elapse, Live
      <3>2. counters[k].ttl \in Int
        BY <1>2, <1>8
      <3>3. QED
        BY <1>8, <3>1, <3>2
    <2>2. Counted(k)' = Counted(k)
      BY <2>1 DEF Counted, MaxOf
    <2>3. ASSUME NEW age \in Ages(k)
          PROVE  /\ age < WindowOf(k) - counters'[k].ttl => passed'[k][age] <= Counted(k)' - 1
                 /\ age <= WindowOf(k) - counters'[k].ttl => passed'[k][age] <= Counted(k)'
                 /\ passed'[k][age] <= Counted(k)' + MaxOf(k) - 1
      <3>1. CASE age = 0
        BY <1>2, <1>3, <1>8, <2>1, <2>2, <3>1
      <3>2. CASE age # 0
        BY <1>1, <1>2, <1>3, <1>4, <1>8, <2>1, <2>2, <3>2 DEF BurstOf
      <3>3. QED
        BY <3>1, <3>2
    <2>4. QED
      BY <1>5, <1>8, <2>3 DEF BurstOf, Ages, WindowOf, MaxOf
  <1>9. QED
    BY <1>6, <1>7, <1>8

\* The span of a window's length ends at the bound.
LEMMA BurstBounded == ASSUME RateLimitTypeOK, BurstInv PROVE BurstBound
  <1> SUFFICES ASSUME NEW k \in Keys PROVE passed[k][WindowOf(k) - 1] <= 2 * MaxOf(k) - 1
    BY DEF BurstBound
  <1>1. /\ MaxOf(k) \in Nat \ {0} /\ WindowOf(k) \in Nat \ {0}
        /\ \A age \in Ages(k) : passed[k][age] \in Nat
        /\ Live(k) => Counted(k) \in 1 .. MaxOf(k)
    BY BurstNumbers
  <1>2. WindowOf(k) - 1 \in Ages(k)
    BY <1>1 DEF Ages
  <1>3. BurstOf(k)
    BY DEF BurstInv
  <1>4. QED
    BY <1>1, <1>2, <1>3 DEF BurstOf
-----------------------------------------------------------------------------
(* The pipeline. *)

\* Every exception a handler or the pipe throws has a status of the list,
\* and the interceptor and the filter work out the same one.
LEMMA ExceptionStatus ==
  ASSUME NEW r \in Slots,
         NEW e \in IF Valid(r) THEN Throws(request[r].route) ELSE {Http(400)}
  PROVE  ErrorStatus(e) = ResolveException(e) /\ ResolveException(e) \in Statuses
  <1>1. \/ e = OtherError
        \/ \E status \in {400, 403, 404, 409, 429} : e = Http(status)
    BY DEF Throws
  <1>2. QED
    BY <1>1 DEF ErrorStatus, ResolveException, OtherError, Http, Statuses

\* The filter answers with one of the listed statuses and known ids.
LEMMA RejectKeeps ==
  ASSUME TypeOK, NEW r \in Slots, NEW e, ResolveException(e) \in Statuses, Reject(r, e)
  PROVE  pc' \in [Slots -> Stages] /\ answer' \in [Slots -> Answers]
  <1>1. correlationId[r] \in Ids
    BY DEF TypeOK
  <1>2. [status |-> ResolveException(e), header |-> correlationId[r],
         body |-> correlationId[r]] \in Answers
    BY <1>1 DEF Answers
  <1>3. QED
    BY <1>2 DEF TypeOK, Reject, Stages

\* The interceptor appends a well-formed line.
LEMMA LogKeeps ==
  ASSUME TypeOK, NEW r \in Slots, NEW status \in Statuses, Log(r, status)
  PROVE  accessLog' \in [Slots -> Seq([status : Statuses, id : Ids])]
  <1>1. correlationId[r] \in Ids
    BY DEF TypeOK
  <1> DEFINE Lines == [status : Statuses, id : Ids]
  <1>2. [status |-> status, id |-> correlationId[r]] \in Lines
    BY <1>1
  <1>3. accessLog \in [Slots -> Seq(Lines)]
    BY DEF TypeOK
  <1> HIDE DEF Lines
  <1>4. Append(accessLog[r], [status |-> status, id |-> correlationId[r]]) \in Seq(Lines)
    BY <1>2, <1>3
  <1>5. accessLog' \in [Slots -> Seq(Lines)]
    BY <1>4, <1>3 DEF Log
  <1>6. QED
    BY <1>5 DEF Lines

\* The counters a sponsor request names exist.
LEMMA RequestKeys ==
  ASSUME TypeOK, NEW r \in Slots
  PROVE  /\ IpKey(request[r].ip) \in Keys
         /\ HasWallet(r) => WalletKey(request[r].sender.wallet) \in Keys
  BY PipelineAssumption DEF TypeOK, HasWallet, Keys

\* There is some request to initialise a slot with.
LEMMA SomeKind == (CHOOSE k \in Kinds : TRUE) \in Kinds
  BY PipelineAssumption

\* What holds of a request at each stage: which counters it has passed, that
\* only guarded requests are handled, and that nothing is logged before the
\* answer.
StageOf(r) ==
    /\ pc[r] \in {"idle", "routed"} => tiers[r] = {}
    /\ pc[r] \in {"routed", "ipPassed"} => request[r].json
    /\ pc[r] = "ipPassed" => /\ request[r].route = "sponsor" /\ HasWallet(r)
                             /\ tiers[r] = {IpKey(request[r].ip)}
    /\ pc[r] = "handling" => PastGuards(r)
    /\ pc[r] # "answered" => accessLog[r] = <<>>

StageInv == \A r \in Slots : StageOf(r)

\* A guard's await keeps the types.
LEMMA EnforceKeeps ==
  ASSUME TypeOK, NEW r \in Slots, NEW k \in Keys, NEW next \in Stages, Enforce(r, k, next)
  PROVE  TypeOK'
  <1> USE DEF Enforce, LetThrough, TooMany, EvalFails
  <1>1. RateLimitTypeOK'
    <2>1. CASE UNCHANGED rateVars
      BY <2>1 DEF TypeOK, RateLimitTypeOK, rateVars
    <2>2. CASE Pass(k) \/ Refuse(k)
      BY <2>2, HitKeeps DEF TypeOK
    <2>3. QED
      BY <2>1, <2>2
  <1>2. tiers' \in [Slots -> SUBSET Keys]
    <2>1. tiers \in [Slots -> SUBSET Keys]
      BY DEF TypeOK
    <2>2. tiers' = [tiers EXCEPT ![r] = @ \cup {k}] \/ tiers' = tiers
      OBVIOUS
    <2>3. tiers[r] \cup {k} \in SUBSET Keys
      BY <2>1
    <2>4. QED
      BY <2>1, <2>2, <2>3
  <1>3. pc' \in [Slots -> Stages] /\ answer' \in [Slots -> Answers]
    <2>1. CASE Reject(r, Http(429)) \/ Reject(r, OtherError)
      BY <2>1, RejectKeeps DEF ResolveException, Http, OtherError, Statuses
    <2>2. CASE pc' = [pc EXCEPT ![r] = next] /\ UNCHANGED answer
      BY <2>2 DEF TypeOK
    <2>3. QED
      BY <2>1, <2>2
  <1>4. QED
    BY <1>1, <1>2, <1>3 DEF TypeOK

\* The pipeline starts with idle slots.
LEMMA PipelineStart == ASSUME Init PROVE TypeOK /\ StageInv
  <1>1. RateLimitTypeOK
    BY LimitsPositive DEF Init, RateLimitInit, RateLimitTypeOK, Ages
  <1>2. NoAnswer \in Answers /\ NoId \in Ids
    BY DEF NoAnswer, Answers, Ids
  <1>3. <<>> \in Seq([status : Statuses, id : Ids])
    OBVIOUS
  <1>4. pc \in [Slots -> Stages] /\ request \in [Slots -> Kinds]
        /\ tiers \in [Slots -> SUBSET Keys]
    BY SomeKind DEF Init, Stages
  <1>5. StageInv
    BY DEF Init, StageInv, StageOf
  <1>6. QED
    BY <1>1, <1>2, <1>3, <1>4, <1>5 DEF Init, TypeOK

\* Every step of a request, and a second passing, keeps the types.
LEMMA TypeStep == ASSUME TypeOK, StageInv, [Next]_vars PROVE TypeOK'
  <1>1. CASE Tick
    BY <1>1, ElapseKeeps DEF Tick, TypeOK, reqVars
  <1>2. CASE UNCHANGED vars
    <2>1. RateLimitTypeOK'
      BY <1>2 DEF TypeOK, RateLimitTypeOK, vars, rateVars
    <2>2. QED
      BY <1>2, <2>1 DEF TypeOK, vars, reqVars
  <1>3. ASSUME UNCHANGED rateVars PROVE RateLimitTypeOK'
    BY <1>3 DEF TypeOK, RateLimitTypeOK, rateVars
  <1>4. ASSUME NEW r \in Slots, NEW k \in Kinds, Unparsable(r, k) \/ Correlate(r, k)
        PROVE  TypeOK'
    <2>1. request' \in [Slots -> Kinds]
      BY <1>4 DEF Unparsable, Correlate, Fresh, TypeOK
    <2>2. CASE Unparsable(r, k)
      <3>1. pc' \in [Slots -> Stages] /\ answer' \in [Slots -> Answers]
        <4>1. PICK e \in {Http(400), OtherError} : Reject(r, e)
          BY <2>2 DEF Unparsable
        <4>2. ResolveException(e) \in Statuses
          BY DEF ResolveException, Http, OtherError, Statuses
        <4>3. QED
          BY <4>1, <4>2, RejectKeeps
      <3>2. QED
        BY <1>3, <2>1, <2>2, <3>1 DEF Unparsable, TypeOK
    <2>3. CASE Correlate(r, k)
      <3>1. (IF k.header = NoId THEN Uuid[r] ELSE k.header) \in Ids
        BY DEF Ids
      <3>2. correlationId' \in [Slots -> Ids] /\ pc' \in [Slots -> Stages]
        BY <2>3, <3>1 DEF Correlate, TypeOK, Stages
      <3>3. QED
        BY <1>3, <2>1, <2>3, <3>2 DEF Correlate, TypeOK
    <2>4. QED
      BY <1>4, <2>2, <2>3
  <1>5. ASSUME NEW r \in Slots, NotFound(r) \/ Unguarded(r) \/ AdminGuard(r)
        PROVE  TypeOK'
    <2>1. pc' \in [Slots -> Stages] /\ answer' \in [Slots -> Answers]
      <3>1. CASE \E status \in {401, 404, 503} : Reject(r, Http(status))
        <4>1. PICK status \in {401, 404, 503} : Reject(r, Http(status))
          BY <3>1
        <4>2. ResolveException(Http(status)) \in Statuses
          BY DEF ResolveException, Http, Statuses
        <4>3. QED
          BY <4>1, <4>2, RejectKeeps
      <3>2. CASE pc' = [pc EXCEPT ![r] = "handling"] /\ UNCHANGED answer
        BY <3>2 DEF TypeOK, Stages
      <3>3. QED
        BY <1>5, <3>1, <3>2 DEF NotFound, Unguarded, AdminGuard, AdminRefusal
    <2>2. UNCHANGED <<rateVars, request, correlationId, tiers, accessLog>>
      BY <1>5 DEF NotFound, Unguarded, AdminGuard, AdminRefusal
    <2>3. QED
      BY <1>3, <2>1, <2>2 DEF TypeOK
  <1>6. ASSUME NEW r \in Slots, GuardIp(r) \/ GuardWallet(r) PROVE TypeOK'
    <2>1. GuardWallet(r) => HasWallet(r)
      BY DEF GuardWallet, StageInv, StageOf
    <2>2. QED
      BY <1>6, <2>1, EnforceKeeps, RequestKeys DEF GuardIp, GuardWallet, AfterIp, Stages
  <1>7. ASSUME NEW r \in Slots, CountedTwice(r) PROVE TypeOK'
    <2>1. PICK k \in Keys : Script(k)
      BY <1>7, RequestKeys DEF CountedTwice, StageInv, StageOf
    <2>2. RateLimitTypeOK'
      BY <1>7, <2>1, HitKeeps DEF TypeOK, CountedTwice
    <2>3. QED
      BY <1>7, <2>2 DEF CountedTwice, TypeOK, reqVars
  <1>8. ASSUME NEW r \in Slots, Succeed(r) PROVE TypeOK'
    <2>1. accessLog' \in [Slots -> Seq([status : Statuses, id : Ids])]
      <3>1. 200 \in Statuses
        BY DEF Statuses
      <3>2. QED
        BY <1>8, <3>1, LogKeeps DEF Succeed
    <2>2. [status |-> 200, header |-> correlationId[r], body |-> NoId] \in Answers
      BY DEF TypeOK, Answers, Ids, Statuses
    <2>3. pc' \in [Slots -> Stages] /\ answer' \in [Slots -> Answers]
      BY <1>8, <2>2 DEF Succeed, TypeOK, Stages
    <2>4. QED
      BY <1>3, <1>8, <2>1, <2>3 DEF Succeed, TypeOK
  <1>9. ASSUME NEW r \in Slots, Throw(r) PROVE TypeOK'
    <2>1. PICK e \in IF Valid(r) THEN Throws(request[r].route) ELSE {Http(400)} :
              Log(r, ErrorStatus(e)) /\ Reject(r, e)
      BY <1>9 DEF Throw
    <2>2. ErrorStatus(e) \in Statuses /\ ResolveException(e) \in Statuses
      BY ExceptionStatus
    <2>3. /\ pc' \in [Slots -> Stages] /\ answer' \in [Slots -> Answers]
          /\ accessLog' \in [Slots -> Seq([status : Statuses, id : Ids])]
      BY <2>1, <2>2, RejectKeeps, LogKeeps
    <2>4. QED
      BY <1>3, <1>9, <2>3 DEF Throw, TypeOK
  <1>10. ASSUME NEW r \in Slots, Close(r) PROVE TypeOK'
    <2>1. NoAnswer \in Answers /\ NoId \in Ids
      BY DEF NoAnswer, Answers, Ids
    <2>2. /\ pc' \in [Slots -> Stages] /\ answer' \in [Slots -> Answers]
          /\ correlationId' \in [Slots -> Ids]
      BY <1>10, <2>1 DEF Close, TypeOK, Stages
    <2>3. tiers' \in [Slots -> SUBSET Keys] /\ request' \in [Slots -> Kinds]
      BY <1>10, SomeKind DEF Close, TypeOK
    <2> DEFINE Lines == [status : Statuses, id : Ids]
    <2>4. accessLog' \in [Slots -> Seq(Lines)]
      <3>1. accessLog \in [Slots -> Seq(Lines)] /\ accessLog' = [accessLog EXCEPT ![r] = <<>>]
        BY <1>10 DEF Close, TypeOK
      <3> HIDE DEF Lines
      <3>2. QED
        BY <3>1
    <2>5. QED
      BY <1>3, <1>10, <2>2, <2>3, <2>4 DEF Close, TypeOK
  <1>11. QED
    BY <1>1, <1>2, <1>4, <1>5, <1>6, <1>7, <1>8, <1>9, <1>10 DEF Next

\* A step moves one request along and leaves the others where they were.
Still(s) ==
    /\ pc'[s] = pc[s] /\ request'[s] = request[s] /\ tiers'[s] = tiers[s]
    /\ accessLog'[s] = accessLog[s] /\ answer'[s] = answer[s]

Moves(s) ==
    \/ \E k \in Kinds : Unparsable(s, k) \/ Correlate(s, k)
    \/ NotFound(s) \/ Unguarded(s) \/ AdminGuard(s) \/ GuardIp(s) \/ GuardWallet(s)
    \/ Succeed(s) \/ Throw(s) \/ Close(s)

LEMMA StillOrMoves == ASSUME TypeOK, [Next]_vars, NEW s \in Slots PROVE Still(s) \/ Moves(s)
  <1> USE DEF TypeOK, Still
  <1>1. ASSUME NEW r \in Slots \ {s}, NEW k \in Kinds, Unparsable(r, k) \/ Correlate(r, k)
        PROVE  Still(s)
    BY <1>1 DEF Unparsable, Correlate, Fresh, Reject
  <1>2. ASSUME NEW r \in Slots \ {s}, NotFound(r) \/ Unguarded(r) \/ AdminGuard(r)
        PROVE  Still(s)
    BY <1>2 DEF NotFound, Unguarded, AdminGuard, AdminRefusal, Reject
  <1>3. ASSUME NEW r \in Slots \ {s}, GuardIp(r) \/ GuardWallet(r) PROVE Still(s)
    BY <1>3 DEF GuardIp, GuardWallet, Enforce, LetThrough, TooMany, EvalFails, Reject
  <1>4. ASSUME NEW r \in Slots \ {s}, Succeed(r) \/ Throw(r) PROVE Still(s)
    BY <1>4 DEF Succeed, Throw, Log, Reject
  <1>5. ASSUME NEW r \in Slots \ {s}, Close(r) PROVE Still(s)
    BY <1>5 DEF Close
  <1>6. ASSUME Tick \/ UNCHANGED vars \/ \E r \in Slots : CountedTwice(r) PROVE Still(s)
    BY <1>6 DEF Tick, CountedTwice, vars, reqVars
  <1>7. QED
    BY <1>1, <1>2, <1>3, <1>4, <1>5, <1>6 DEF Next, Moves

\* What a request may become at each of the guard's awaits: it goes on, with
\* one more counter passed, or is answered by the filter.
LEMMA EnforceEffect ==
  ASSUME TypeOK, NEW r \in Slots, NEW k, NEW next, Enforce(r, k, next)
  PROVE  /\ request'[r] = request[r] /\ accessLog'[r] = accessLog[r]
         /\ \/ pc'[r] = next /\ tiers'[r] = tiers[r] \cup {k} /\ answer'[r] = answer[r]
            \/ /\ pc'[r] = "answered" /\ tiers'[r] = tiers[r]
               /\ answer'[r].status \in {429, 500} /\ answer'[r].body = answer'[r].header
  BY DEF TypeOK, Enforce, LetThrough, TooMany, EvalFails, Reject, ResolveException, Http, OtherError

\* A request that has yet to pass a counter is not past the guards.
LEMMA TiersMissing ==
  ASSUME NEW r \in Slots, request[r].route = "sponsor",
         tiers[r] = {} \/ (HasWallet(r) /\ tiers[r] = {IpKey(request[r].ip)})
  PROVE  ~PastGuards(r)
  <1>1. \A ip, w : IpKey(ip) # WalletKey(w)
    BY DEF IpKey, WalletKey
  <1>2. QED
    BY <1>1 DEF PastGuards, TiersOf

LEMMA StageStep == ASSUME TypeOK, StageInv, [Next]_vars PROVE StageInv'
  <1> SUFFICES ASSUME NEW s \in Slots PROVE StageOf(s)'
    BY DEF StageInv
  <1>1. StageOf(s)
    BY DEF StageInv
  <1>2. CASE Still(s)
    BY <1>1, <1>2 DEF Still, StageOf, PastGuards, TiersOf, HasWallet
  <1>3. ASSUME NEW k \in Kinds, Unparsable(s, k) \/ Correlate(s, k) PROVE StageOf(s)'
    BY <1>1, <1>3 DEF Unparsable, Correlate, Fresh, Reject, TypeOK, StageOf
  <1>4. CASE NotFound(s) \/ Unguarded(s) \/ AdminGuard(s)
    <2>1. UNCHANGED <<request, tiers, accessLog>>
      BY <1>4 DEF NotFound, Unguarded, AdminGuard, AdminRefusal
    <2>2. \/ pc'[s] = "answered"
          \/ pc'[s] = "handling" /\ PastGuards(s) /\ accessLog[s] = <<>>
      BY <1>1, <1>4 DEF NotFound, Unguarded, AdminGuard, AdminRefusal, Reject, TypeOK,
         StageOf, PastGuards
    <2>3. QED
      BY <2>1, <2>2 DEF StageOf, PastGuards, TiersOf, HasWallet
  <1>5. CASE GuardIp(s)
    <2>1. /\ pc[s] = "routed" /\ request[s].route = "sponsor"
          /\ Enforce(s, IpKey(request[s].ip), AfterIp(s))
      BY <1>5 DEF GuardIp
    <2>2. QED
      BY <1>1, <2>1, EnforceEffect DEF AfterIp, StageOf, PastGuards, TiersOf, HasWallet
  <1>6. CASE GuardWallet(s)
    <2>1. /\ pc[s] = "ipPassed"
          /\ Enforce(s, WalletKey(request[s].sender.wallet), "handling")
      BY <1>6 DEF GuardWallet
    <2>2. QED
      BY <1>1, <2>1, EnforceEffect DEF StageOf, PastGuards, TiersOf, HasWallet
  <1>7. CASE Succeed(s) \/ Throw(s)
    BY <1>7 DEF Succeed, Throw, Reject, TypeOK, StageOf
  <1>8. CASE Close(s)
    BY <1>8 DEF Close, TypeOK, StageOf
  <1>9. QED
    BY <1>2, <1>3, <1>4, <1>5, <1>6, <1>7, <1>8, StillOrMoves DEF Moves

\* The inductive invariant: types and stages together.
LEMMA PipelineInductive == Spec => [](TypeOK /\ StageInv)
  BY PipelineStart, TypeStep, StageStep, PTL DEF Spec

\* Every variable of the pipeline keeps its type: in particular Redis keeps
\* no counter without an expiry, so that no client is locked out forever.
THEOREM PipelineTypeCorrect == Spec => []TypeOK
  BY PipelineInductive, PTL

\* Within any span of a window's length, twice the maximum less one is let
\* through at worst, per address and per wallet, for any limit and window:
\* a fixed window is no more than that worse than a sliding one.
THEOREM BurstCorrect == Spec => []BurstBound
  <1>1. Init => BurstInv
    BY LimitsPositive DEF Init, RateLimitInit, BurstInv, BurstOf, Live, Ages
  <1>2. ASSUME TypeOK, StageInv, BurstInv, [Next]_vars PROVE BurstInv'
    <2>1. RateLimitTypeOK
      BY <1>2 DEF TypeOK
    <2>2. ASSUME UNCHANGED rateVars PROVE BurstInv'
      BY <1>2, <2>2 DEF BurstInv, BurstOf, Live, Counted, rateVars
    <2>3. CASE Tick
      BY <1>2, <2>1, <2>3, ElapseBurst DEF Tick
    <2>4. ASSUME NEW r \in Slots, GuardIp(r) \/ GuardWallet(r) \/ CountedTwice(r)
          PROVE  BurstInv'
      <3>1. \/ UNCHANGED rateVars
            \/ \E k \in Keys : Pass(k) \/ Refuse(k) \/ (Script(k) /\ UNCHANGED passed)
        BY <1>2, <2>4, RequestKeys DEF GuardIp, GuardWallet, CountedTwice, Enforce, LetThrough,
           TooMany, EvalFails, StageInv, StageOf
      <3>2. QED
        BY <1>2, <2>1, <2>2, <3>1, HitBurst
    <2>5. QED
      BY <1>2, <2>2, <2>3, <2>4 DEF Next, Unparsable, Correlate, NotFound, Unguarded, AdminGuard,
         Succeed, Throw, Close, vars
  <1>3. TypeOK /\ BurstInv => BurstBound
    BY BurstBounded DEF TypeOK
  <1>4. QED
    BY PipelineInductive, <1>1, <1>2, <1>3, PTL DEF Spec

\* A handled request is answered with the outcome of its handler, which only
\* a request with a valid body has, and with one line in the log about it.
LEMMA HandledEffect ==
  ASSUME TypeOK, StageInv, NEW r \in Slots, Succeed(r) \/ Throw(r)
  PROVE  /\ PastGuards(r) /\ request'[r] = request[r] /\ tiers'[r] = tiers[r]
         /\ Valid(r) \/ answer'[r].status = 400
         /\ accessLog'[r] = <<[status |-> answer'[r].status, id |-> answer'[r].header]>>
         /\ answer'[r].status # 200 => answer'[r].body = answer'[r].header
  <1>1. PastGuards(r) /\ accessLog[r] = <<>> /\ request'[r] = request[r] /\ tiers'[r] = tiers[r]
    BY DEF Succeed, Throw, StageInv, StageOf
  <1>2. PICK status : /\ Log(r, status) /\ answer'[r].status = status
                      /\ answer'[r].header = correlationId[r]
                      /\ Valid(r) \/ status = 400
                      /\ status # 200 => answer'[r].body = correlationId[r]
    <2>1. CASE Succeed(r)
      BY <2>1 DEF Succeed, TypeOK
    <2>2. CASE Throw(r)
      <3>1. PICK e \in IF Valid(r) THEN Throws(request[r].route) ELSE {Http(400)} :
                Log(r, ErrorStatus(e)) /\ Reject(r, e)
        BY <2>2 DEF Throw
      <3>2. ErrorStatus(e) = ResolveException(e)
        BY ExceptionStatus
      <3>3. Valid(r) \/ ResolveException(e) = 400
        BY DEF ResolveException, Http
      <3>4. QED
        BY <3>1, <3>2, <3>3 DEF Reject, TypeOK
    <2>3. QED
      BY <2>1, <2>2
  <1> DEFINE line == [status |-> status, id |-> correlationId[r]]
  <1>3. accessLog'[r] = Append(<<>>, line)
    BY <1>1, <1>2 DEF Log, TypeOK
  <1>4. Append(<<>>, line) = <<line>>
    <2> HIDE DEF line
    <2>1. QED
      OBVIOUS
  <1>5. QED
    BY <1>1, <1>2, <1>3, <1>4

\* The sponsor handler works only on requests that both tiers let through,
\* under the wallet the validated body names, whichever calls to Redis fail:
\* by the stage a request is at, which counters it has passed.
THEOREM CountedCorrect == Spec => []SponsorCountedFirst
  <1> DEFINE CountedOf(r) ==
               /\ request[r].route = "sponsor"
               /\ \/ pc[r] = "handling" /\ Valid(r)
                  \/ pc[r] = "answered" /\ answer[r].status \in {200, 403, 409}
               => tiers[r] = {IpKey(request[r].ip), WalletKey(request[r].sender.wallet)}
  <1>1. Init => SponsorCountedFirst
    BY DEF Init, SponsorCountedFirst
  <1>2. ASSUME TypeOK, StageInv, SponsorCountedFirst, [Next]_vars PROVE SponsorCountedFirst'
    <2> SUFFICES ASSUME NEW s \in Slots PROVE CountedOf(s)'
      BY DEF SponsorCountedFirst
    <2>1. StageOf(s) /\ StageOf(s)' /\ CountedOf(s)
      BY <1>2, StageStep DEF StageInv, SponsorCountedFirst
    <2>2. CASE pc'[s] # "answered"
      BY <2>1, <2>2 DEF StageOf, PastGuards, TiersOf, Valid, HasWallet
    <2>3. CASE Still(s)
      BY <2>1, <2>3 DEF Still, Valid
    <2>4. CASE pc'[s] = "answered" /\ Moves(s)
      <3>1. ASSUME NEW k \in Kinds, Unparsable(s, k) PROVE answer'[s].status \in {400, 500}
        BY <1>2, <3>1 DEF Unparsable, Reject, ResolveException, Http, OtherError, TypeOK
      <3>2. ASSUME NotFound(s) \/ AdminGuard(s) PROVE request'[s].route # "sponsor"
        BY <3>2 DEF NotFound, AdminGuard
      <3>3. ASSUME GuardIp(s) \/ GuardWallet(s) PROVE answer'[s].status \in {429, 500}
        <4>1. PICK k, next : Enforce(s, k, next) /\ next # "answered"
          BY <3>3 DEF GuardIp, GuardWallet, AfterIp
        <4>2. QED
          BY <1>2, <2>4, <4>1, EnforceEffect
      <3>4. ASSUME Succeed(s) \/ Throw(s) PROVE CountedOf(s)'
        <4>1. /\ PastGuards(s) /\ request'[s] = request[s] /\ tiers'[s] = tiers[s]
              /\ Valid(s) \/ answer'[s].status = 400
          BY <1>2, <3>4, HandledEffect
        <4>2. QED
          BY <2>4, <4>1 DEF PastGuards, TiersOf, Valid, HasWallet
      <3>5. ASSUME (\E k \in Kinds : Correlate(s, k)) \/ Unguarded(s) \/ Close(s) PROVE FALSE
        BY <1>2, <2>4, <3>5 DEF Correlate, Unguarded, Close, TypeOK
      <3>6. QED
        BY <2>4, <3>1, <3>2, <3>3, <3>4, <3>5 DEF Moves
    <2>5. QED
      BY <1>2, <2>2, <2>3, <2>4, StillOrMoves
  <1>3. QED
    BY PipelineInductive, <1>1, <1>2, PTL DEF Spec

\* A request that the guards let on has exactly one line in the access log,
\* which agrees with its answer on the status and the correlation id: the
\* interceptor writes it before the filter resolves the exception, and both
\* resolve it alike.  One that was refused before has none.
THEOREM LogCorrect == Spec => []LogMatchesAnswer
  <1> DEFINE LoggedOf(r) ==
               pc[r] = "answered" =>
                 /\ accessLog[r] = IF PastGuards(r)
                                   THEN <<[status |-> answer[r].status, id |-> answer[r].header]>>
                                   ELSE <<>>
                 /\ answer[r].status # 200 => answer[r].body = answer[r].header
  <1>1. Init => LogMatchesAnswer
    BY DEF Init, LogMatchesAnswer
  <1>2. ASSUME TypeOK, StageInv, LogMatchesAnswer, [Next]_vars PROVE LogMatchesAnswer'
    <2> SUFFICES ASSUME NEW s \in Slots, pc'[s] = "answered" PROVE LoggedOf(s)'
      BY DEF LogMatchesAnswer
    <2>1. StageOf(s) /\ LoggedOf(s)
      BY <1>2 DEF StageInv, LogMatchesAnswer
    <2>2. CASE Still(s)
      BY <2>1, <2>2 DEF Still, PastGuards, TiersOf, HasWallet
    <2>3. CASE Succeed(s) \/ Throw(s)
      <3>1. /\ PastGuards(s) /\ request'[s] = request[s] /\ tiers'[s] = tiers[s]
            /\ accessLog'[s] = <<[status |-> answer'[s].status, id |-> answer'[s].header]>>
            /\ answer'[s].status # 200 => answer'[s].body = answer'[s].header
        BY <1>2, <2>3, HandledEffect
      <3>2. PastGuards(s)'
        BY <3>1 DEF PastGuards, TiersOf, HasWallet
      <3>3. QED
        BY <3>1, <3>2
    <2>4. ASSUME ~PastGuards(s)', accessLog'[s] = <<>>, answer'[s].body = answer'[s].header
          PROVE  LoggedOf(s)'
      BY <2>4
    <2>5. ASSUME NEW k \in Kinds, Unparsable(s, k) PROVE LoggedOf(s)'
      <3>1. ~PastGuards(s)'
        BY <1>2, <2>5 DEF Unparsable, Fresh, PastGuards, TypeOK
      <3>2. accessLog'[s] = <<>> /\ answer'[s].body = answer'[s].header
        BY <1>2, <2>1, <2>5 DEF Unparsable, Fresh, Reject, StageOf, TypeOK
      <3>3. QED
        BY <2>4, <3>1, <3>2
    <2>6. CASE NotFound(s) \/ AdminGuard(s)
      <3>1. ~PastGuards(s)'
        BY <1>2, <2>6 DEF NotFound, AdminGuard, PastGuards, TypeOK
      <3>2. accessLog'[s] = <<>> /\ answer'[s].body = answer'[s].header
        BY <1>2, <2>1, <2>6 DEF NotFound, AdminGuard, Reject, StageOf, TypeOK
      <3>3. QED
        BY <2>4, <3>1, <3>2
    <2>7. CASE GuardIp(s) \/ GuardWallet(s)
      <3>1. PICK k, next : Enforce(s, k, next) /\ next # "answered"
        BY <2>7 DEF GuardIp, GuardWallet, AfterIp
      <3>2. /\ request'[s] = request[s] /\ tiers'[s] = tiers[s] /\ accessLog'[s] = accessLog[s]
            /\ answer'[s].body = answer'[s].header
        BY <1>2, <3>1, EnforceEffect
      <3>3. ~PastGuards(s)
        BY <2>1, <2>7, TiersMissing DEF GuardIp, GuardWallet, StageOf
      <3>4. ~PastGuards(s)' /\ accessLog'[s] = <<>>
        BY <2>1, <2>7, <3>2, <3>3 DEF GuardIp, GuardWallet, StageOf, PastGuards, TiersOf, HasWallet
      <3>5. QED
        BY <2>4, <3>2, <3>4
    <2>8. ASSUME (\E k \in Kinds : Correlate(s, k)) \/ Unguarded(s) \/ Close(s) PROVE FALSE
      BY <1>2, <2>8 DEF Correlate, Unguarded, Close, TypeOK
    <2>9. QED
      BY <1>2, <2>2, <2>3, <2>5, <2>6, <2>7, <2>8, StillOrMoves DEF Moves
  <1>3. QED
    BY PipelineInductive, <1>1, <1>2, PTL DEF Spec
=============================================================================
