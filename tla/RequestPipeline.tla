--------------------------- MODULE RequestPipeline --------------------------
(***************************************************************************)
(* What a request passes on its way to a handler and back: the JSON body   *)
(* parser, CorrelationIdMiddleware, the route's guards, LoggingInterceptor,*)
(* the ValidationPipe, the handler, AllExceptionsFilter.  NestJS runs them *)
(* in this order; main.ts, app.module.ts and the controllers say which     *)
(* apply.  Any number of requests are between two awaits at a time.        *)
(***************************************************************************)
EXTENDS RateLimit

CONSTANTS
    Slots,          \* requests in flight
    Kinds,          \* the requests clients send
    Uuid,           \* the id the middleware makes up for the request in a slot
    NoId, NoSender, \* no x-correlation-id header; sender missing, empty or no string
    AdminKeySet,    \* whether ADMIN_API_KEY is configured
    NoStatus        \* not answered yet

VARIABLES
    pc, request,
    correlationId,  \* of each request, as the middleware attached it
    tiers,          \* history: the counters that let the request through
    accessLog,      \* the access-log lines about the request
    answer          \* the response: status, header's id, error body's id

reqVars == <<pc, request, correlationId, tiers, accessLog, answer>>
vars == <<rateVars, reqVars>>

Routes == {"sponsor", "submit", "status", "admin", "unknown"}

\* A sender as spelled: the wallet and whether it matches the DTO's pattern.
ASSUME PipelineAssumption ==
    /\ Kinds # {}
    /\ \A k \in Kinds :
         /\ k.route \in Routes /\ k.ip \in Ips
         /\ k.sender # NoSender => k.sender.wallet \in Wallets /\ k.sender.valid \in BOOLEAN
         /\ {k.json, k.rest, k.key} \subseteq BOOLEAN
    /\ AdminKeySet \in BOOLEAN

Stages == {"idle", "routed", "ipPassed", "handling", "answered"}

Statuses == {200, 400, 401, 403, 404, 409, 429, 500, 503}

Ids == {Uuid[r] : r \in Slots} \cup {k.header : k \in Kinds} \cup {NoId}

Answers == [status : Statuses \cup {NoStatus}, header : Ids, body : Ids]

TypeOK ==
    /\ RateLimitTypeOK
    /\ pc \in [Slots -> Stages]
    /\ request \in [Slots -> Kinds]
    /\ correlationId \in [Slots -> Ids]
    /\ tiers \in [Slots -> SUBSET Keys]
    /\ accessLog \in [Slots -> Seq([status : Statuses, id : Ids])]
    /\ answer \in [Slots -> Answers]

NoAnswer == [status |-> NoStatus, header |-> NoId, body |-> NoId]

Init ==
    /\ RateLimitInit
    /\ pc = [r \in Slots |-> "idle"]
    /\ request = [r \in Slots |-> CHOOSE k \in Kinds : TRUE]
    /\ correlationId = [r \in Slots |-> NoId]
    /\ tiers = [r \in Slots |-> {}]
    /\ accessLog = [r \in Slots |-> <<>>]
    /\ answer = [r \in Slots |-> NoAnswer]
-----------------------------------------------------------------------------
(* Exceptions: an HttpException has a status of its own.                   *)

Http(status) == [http |-> TRUE, status |-> status]
OtherError == [http |-> FALSE, status |-> 500]

\* AllExceptionsFilter.resolveException.
ResolveException(e) == IF e.http THEN e.status ELSE 500

\* AllExceptionsFilter.catch: the body has the request's correlation id; the
\* header is what the middleware has set by then.
Reject(r, e) ==
    /\ pc' = [pc EXCEPT ![r] = "answered"]
    /\ answer' = [answer EXCEPT ![r] = [status |-> ResolveException(e),
                                        header |-> correlationId[r],
                                        body |-> correlationId[r]]]

\* LoggingInterceptor, both branches of its tap.
Log(r, status) ==
    accessLog' = [accessLog EXCEPT ![r] =
                    Append(@, [status |-> status, id |-> correlationId[r]])]

\* Mutant: the error branch logs res.statusCode, which is not set yet.
ErrorStatusUnset(e) == 200

\* The error branch's status.
ErrorStatus(e) == IF e.http THEN e.status ELSE 500
-----------------------------------------------------------------------------
(* On the way in.                                                          *)

Fresh(r, k) ==
    /\ pc[r] = "idle"
    /\ request' = [request EXCEPT ![r] = k]

\* The body parser comes before every middleware of the application.  Nest
\* makes a syntax error an HttpException, and leaves others (a body that is
\* too large) as they are.
Unparsable(r, k) ==
    /\ ~k.json
    /\ Fresh(r, k)
    /\ \E e \in {Http(400), OtherError} : Reject(r, e)
    /\ UNCHANGED <<rateVars, correlationId, tiers, accessLog>>

\* CorrelationIdMiddleware.use.
Correlate(r, k) ==
    /\ k.json
    /\ Fresh(r, k)
    /\ correlationId' = [correlationId EXCEPT ![r] = IF k.header = NoId THEN Uuid[r] ELSE k.header]
    /\ pc' = [pc EXCEPT ![r] = "routed"]
    /\ UNCHANGED <<rateVars, tiers, accessLog, answer>>

\* No route matches: Nest's 404.
NotFound(r) ==
    /\ pc[r] = "routed"
    /\ request[r].route = "unknown"
    /\ Reject(r, Http(404))
    /\ UNCHANGED <<rateVars, request, correlationId, tiers, accessLog>>

\* Routes without a guard.
Unguarded(r) ==
    /\ pc[r] = "routed"
    /\ request[r].route \in {"submit", "status"}
    /\ pc' = [pc EXCEPT ![r] = "handling"]
    /\ UNCHANGED <<rateVars, request, correlationId, tiers, accessLog, answer>>

\* AdminApiKeyGuard: no key configured disables the route.
AdminRefusal == IF AdminKeySet THEN 401 ELSE 503

AdminGuard(r) ==
    /\ pc[r] = "routed"
    /\ request[r].route = "admin"
    /\ \/ ~(AdminKeySet /\ request[r].key) /\ Reject(r, Http(AdminRefusal))
       \/ /\ AdminKeySet /\ request[r].key
          /\ pc' = [pc EXCEPT ![r] = "handling"]
          /\ UNCHANGED answer
    /\ UNCHANGED <<rateVars, request, correlationId, tiers, accessLog>>

\* Within the limit: on to what comes next.
LetThrough(r, k, next) ==
    /\ Pass(k)
    /\ tiers' = [tiers EXCEPT ![r] = @ \cup {k}]
    /\ pc' = [pc EXCEPT ![r] = next]
    /\ UNCHANGED <<answer, request, correlationId, accessLog>>

\* Past the limit.
TooMany(r, k) ==
    /\ Refuse(k)
    /\ Reject(r, Http(429))
    /\ UNCHANGED <<tiers, request, correlationId, accessLog>>

\* redis.eval rejects, as Redis refuses to write (a failed snapshot, no
\* memory, a replica) or the client is closed: nothing is counted, and the
\* guard does not catch the error.
EvalFails(r, k) ==
    /\ Reject(r, OtherError)
    /\ UNCHANGED <<rateVars, tiers, request, correlationId, accessLog>>

\* Mutant: the guard fails open, a request that could not be counted goes on.
EnforceFailsOpen(r, k, next) ==
    \/ LetThrough(r, k, next)
    \/ TooMany(r, k)
    \/ /\ pc' = [pc EXCEPT ![r] = next]
       /\ UNCHANGED <<rateVars, tiers, answer, request, correlationId, accessLog>>

\* One await of RateLimitGuard, and what comes of it.
Enforce(r, k, next) == LetThrough(r, k, next) \/ TooMany(r, k) \/ EvalFails(r, k)

\* extractWallet: any non-empty string, the body is not validated yet.
HasWallet(r) == request[r].sender # NoSender

AfterIp(r) == IF HasWallet(r) THEN "ipPassed" ELSE "handling"

GuardIp(r) ==
    /\ pc[r] = "routed"
    /\ request[r].route = "sponsor"
    /\ Enforce(r, IpKey(request[r].ip), AfterIp(r))

GuardWallet(r) ==
    /\ pc[r] = "ipPassed"
    /\ Enforce(r, WalletKey(request[r].sender.wallet), "handling")

\* ioredis sends a command again when the connection broke before its
\* answer: it counts twice.
CountedTwice(r) ==
    /\ \/ /\ pc[r] = "routed" /\ request[r].route = "sponsor"
          /\ Script(IpKey(request[r].ip))
       \/ /\ pc[r] = "ipPassed"
          /\ Script(WalletKey(request[r].sender.wallet))
    /\ UNCHANGED <<passed, reqVars>>
-----------------------------------------------------------------------------
(* Interceptor, pipe and handler.                                          *)

\* The ValidationPipe on the body's DTO; sender is the sponsor DTO's.
Valid(r) ==
    /\ request[r].rest
    /\ request[r].route = "sponsor" => request[r].sender # NoSender /\ request[r].sender.valid

\* What a handler may throw.
Throws(route) ==
    {OtherError} \cup {Http(status) : status \in
        (CASE route = "sponsor" -> {403, 409, 429}
           [] route = "submit"  -> {404, 409}
           [] route = "status"  -> {404}
           [] OTHER             -> {})}

\* next: the route's status was set on the response before the interceptor.
Succeed(r) ==
    /\ pc[r] = "handling"
    /\ Valid(r)
    /\ Log(r, 200)
    /\ pc' = [pc EXCEPT ![r] = "answered"]
    /\ answer' = [answer EXCEPT ![r] = [status |-> 200, header |-> correlationId[r], body |-> NoId]]
    /\ UNCHANGED <<rateVars, request, correlationId, tiers>>

\* error: first the access log, then the filter.
Throw(r) ==
    /\ pc[r] = "handling"
    /\ \E e \in IF Valid(r) THEN Throws(request[r].route) ELSE {Http(400)} :
         Log(r, ErrorStatus(e)) /\ Reject(r, e)
    /\ UNCHANGED <<rateVars, request, correlationId, tiers>>

\* The client has its answer; the slot is free.
Close(r) ==
    /\ pc[r] = "answered"
    /\ pc' = [pc EXCEPT ![r] = "idle"]
    /\ correlationId' = [correlationId EXCEPT ![r] = NoId]
    /\ tiers' = [tiers EXCEPT ![r] = {}]
    /\ accessLog' = [accessLog EXCEPT ![r] = <<>>]
    /\ answer' = [answer EXCEPT ![r] = NoAnswer]
    /\ request' = [request EXCEPT ![r] = CHOOSE k \in Kinds : TRUE]
    /\ UNCHANGED rateVars

Tick == Elapse /\ UNCHANGED reqVars

Next ==
    \/ \E r \in Slots :
         \/ \E k \in Kinds : Unparsable(r, k) \/ Correlate(r, k)
         \/ NotFound(r) \/ Unguarded(r) \/ AdminGuard(r)
         \/ GuardIp(r) \/ GuardWallet(r) \/ CountedTwice(r)
         \/ Succeed(r) \/ Throw(r) \/ Close(r)
    \/ Tick

Spec == Init /\ [][Next]_vars

\* Time passes; nothing is assumed of clients, handlers or Redis.
FairSpec == Spec /\ WF_vars(Tick)
-----------------------------------------------------------------------------
\* The limiter fails closed: the sponsor handler only ever works on, and its
\* outcomes are only ever given to, a request that both tiers let through,
\* under the wallet the validated body names - although the guard reads the
\* sender before the body is validated, and whatever calls to Redis fail.
SponsorCountedFirst ==
    \A r \in Slots :
        /\ request[r].route = "sponsor"
        /\ \/ pc[r] = "handling" /\ Valid(r)
           \/ pc[r] = "answered" /\ answer[r].status \in {200, 403, 409}
        => tiers[r] = {IpKey(request[r].ip), WalletKey(request[r].sender.wallet)}

\* The counters RateLimitGuard has to consult for a sponsor request.
TiersOf(r) ==
    {IpKey(request[r].ip)}
        \cup (IF HasWallet(r) THEN {WalletKey(request[r].sender.wallet)} ELSE {})

\* A request that its route's guards let on to the interceptor.
PastGuards(r) ==
    /\ request[r].json
    /\ CASE request[r].route = "sponsor" -> tiers[r] = TiersOf(r)
         [] request[r].route = "admin"   -> AdminKeySet /\ request[r].key
         [] request[r].route = "unknown" -> FALSE
         [] OTHER                        -> TRUE

\* An answered request that got past the guards has exactly one line in the
\* access log, with the status the client got and the id of its response,
\* although it is written before the filter decides on either; a request
\* that did not has none.  An error body repeats the id.
LogMatchesAnswer ==
    \A r \in Slots : pc[r] = "answered" =>
        /\ accessLog[r] = IF PastGuards(r)
                          THEN <<[status |-> answer[r].status, id |-> answer[r].header]>>
                          ELSE <<>>
        /\ answer[r].status # 200 => answer[r].body = answer[r].header
=============================================================================
