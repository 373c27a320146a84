------------------------------ MODULE RateLimit -----------------------------
(***************************************************************************)
(* The fixed-window counters RateLimitGuard keeps in Redis, one per IP     *)
(* address and one per sender wallet, and Redis expiring them.             *)
(*                                                                         *)
(* A counter holds the seconds it has left, so that time need not be       *)
(* bounded.  Counts above max + 1 are not told apart: all are refused.     *)
(***************************************************************************)
EXTENDS Integers, Sequences

CONSTANTS
    Ips,       \* clients' addresses, as Express's req.ip
    Wallets,   \* what may be sent as "sender", upper and lower case alike
    IpMax,     \* RATE_LIMIT_IP_MAX
    IpWindow,  \* RATE_LIMIT_IP_WINDOW_SECONDS
    WalletMax,
    WalletWindow

ASSUME RateLimitAssumption ==
    /\ {IpMax, WalletMax} \subseteq Nat \ {0}
    /\ {IpWindow, WalletWindow} \subseteq Nat \ {0}

VARIABLES
    counters,  \* Redis: the live keys, with their count and time to live
    passed     \* history: per key, how many were let through in the last age + 1 seconds

rateVars == <<counters, passed>>

IpKey(ip) == [tier |-> "ip", id |-> ip]
WalletKey(w) == [tier |-> "wallet", id |-> w]
Keys == {IpKey(ip) : ip \in Ips} \cup {WalletKey(w) : w \in Wallets}

MaxOf(k) == IF k.tier = "ip" THEN IpMax ELSE WalletMax
WindowOf(k) == IF k.tier = "ip" THEN IpWindow ELSE WalletWindow

Ages(k) == 0 .. WindowOf(k) - 1

\* Redis never keeps a counter that has no expiry, or one beyond its window.
RateLimitTypeOK ==
    /\ DOMAIN counters \subseteq Keys
    /\ \A k \in DOMAIN counters :
         /\ counters[k].count \in 1 .. MaxOf(k) + 1
         /\ counters[k].ttl \in 1 .. WindowOf(k)
    /\ DOMAIN passed = Keys
    /\ \A k \in Keys : passed[k] \in [Ages(k) -> Nat]

RateLimitInit ==
    /\ counters = [k \in {} |-> 0]
    /\ passed = [k \in Keys |-> [age \in Ages(k) |-> 0]]
-----------------------------------------------------------------------------
Live(k) == k \in DOMAIN counters

\* INCR's answer.
Incremented(k) == IF Live(k) THEN counters[k].count + 1 ELSE 1

Counter(k, count, ttl) ==
    [j \in DOMAIN counters \cup {k} |->
        IF j = k THEN [count |-> IF count > MaxOf(k) THEN MaxOf(k) + 1 ELSE count, ttl |-> ttl]
                 ELSE counters[j]]

\* Mutant: EXPIRE is called on every hit.
ScriptExtends(k) == counters' = Counter(k, Incremented(k), WindowOf(k))

\* Mutant: EXPIRE is never called on a new key.
ScriptWithoutExpiry(k) ==
    counters' = Counter(k, Incremented(k), IF Live(k) THEN counters[k].ttl ELSE 0)

\* INCR_WITH_EXPIRY_SCRIPT: one atomic step in Redis.
Script(k) ==
    counters' = Counter(k, Incremented(k),
                        IF Incremented(k) = 1 THEN WindowOf(k) ELSE counters[k].ttl)

\* Mutant: limits at count > max + 1.
LimitedOffByOne(k) == Incremented(k) > MaxOf(k) + 1

Limited(k) == Incremented(k) > MaxOf(k)

\* hit and enforce, when the request is let through.
Pass(k) ==
    /\ ~Limited(k)
    /\ Script(k)
    /\ passed' = [passed EXCEPT ![k] = [age \in Ages(k) |-> passed[k][age] + 1]]

\* The same when it is over the limit: it counts all the same.
Refuse(k) ==
    /\ Limited(k)
    /\ Script(k)
    /\ UNCHANGED passed

\* A second passes.
Elapse ==
    /\ counters' = [k \in {j \in DOMAIN counters : counters[j].ttl > 1} |->
                       [counters[k] EXCEPT !.ttl = @ - 1]]
    /\ passed' = [k \in Keys |->
                     [age \in Ages(k) |-> IF age = 0 THEN 0 ELSE passed[k][age - 1]]]
-----------------------------------------------------------------------------
\* A fixed window lets a burst at its end meet a burst at the start of the
\* next one: within any span of one window's length, twice the maximum less
\* one is let through at worst, and never more.
BurstBound ==
    \A k \in Keys : passed[k][WindowOf(k) - 1] <= 2 * MaxOf(k) - 1

Locked(k) == Live(k) /\ counters[k].count >= MaxOf(k)

\* However often a client that is locked out tries again, its lockout ends:
\* refused requests do not extend the window.
LockoutEnds == \A k \in Keys : Locked(k) ~> ~Locked(k)
=============================================================================
