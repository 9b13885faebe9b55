---------------------------- MODULE RateLimiter ----------------------------
(***************************************************************************)
(* The rate limiter of the API gateway (middleware/ratelimit.go): a token    *)
(* bucket per key in Redis, refilled and tapped by a Lua script that runs    *)
(* atomically, with the time that the gateway read before it called Redis.   *)
(*                                                                          *)
(* One address and one public path: every request takes a token of the       *)
(* address, a request to a public endpoint also one of the path. Tokens are  *)
(* counted in thousandths; a unit of time is any number of ms.              *)
(***************************************************************************)
EXTENDS Integers

CONSTANTS
    Calls,          \* requests that are in the limiter at the same time
    GlobalRate,     \* GlobalRPS, in thousandths of a token per unit of time
    GlobalBurst,
    PublicRate,     \* AuthRPS or PublicRPS
    PublicBurst,    \* AuthBurst or PublicBurst
    Ttl,            \* of a key: 3600 s
    MaxDelay,       \* what a call to Redis takes at most
    Horizon         \* bound on the clock

\* A key expires only when its bucket would be full anyway: an hour against two seconds.
ASSUME LimiterAssumption ==
    /\ {GlobalRate, PublicRate, GlobalBurst, PublicBurst, Ttl} \subseteq Nat \ {0}
    /\ {MaxDelay, Horizon} \subseteq Nat
    /\ 1000 * GlobalBurst <= GlobalRate * (Ttl - MaxDelay)
    /\ 1000 * PublicBurst <= PublicRate * (Ttl - MaxDelay)

VARIABLES
    clock,          \* of gateways and Redis
    bucket,         \* what Redis last stored under each key
    call,           \* the state of each request
    since,          \* history: tokens given for readings not before a time, by key and time
    inOrder         \* history: keys whose readings reached Redis in the order they were taken

limiterVars == <<clock, bucket, call, since, inOrder>>

LimitKeys == {"global", "public"}
Instants == 0..Horizon

RateOf(k) == IF k = "global" THEN GlobalRate ELSE PublicRate
BurstOf(k) == 1000 * (IF k = "global" THEN GlobalBurst ELSE PublicBurst)

\* touched is when EXPIRE was last called.
Bucket(k) == [tokens: 0..BurstOf(k), last: Instants, touched: Instants]
NoBucket == [tokens |-> -1, last |-> 0, touched |-> 0]    \* nil
Resting == [at |-> "rest"]

\* What the limiter keeps; no bucket ever holds more than its burst.
LimiterTypeOK ==
    /\ clock \in Instants
    /\ DOMAIN bucket = LimitKeys
    /\ \A k \in LimitKeys : bucket[k] \in Bucket(k) \cup {NoBucket}
    /\ call \in [Calls -> [at: LimitKeys, public: BOOLEAN, now: Instants] \cup {Resting}]
    /\ since \in [LimitKeys -> [Instants -> Nat]]
    /\ inOrder \subseteq LimitKeys

LimiterInit ==
    /\ clock = 0
    /\ bucket = [k \in LimitKeys |-> NoBucket]
    /\ call = [c \in Calls |-> Resting]
    /\ since = [k \in LimitKeys |-> [t \in Instants |-> 0]]
    /\ inOrder = LimitKeys

-----------------------------------------------------------------------------
(* The Lua script *)

\* HMGET finds nothing when the key has expired.
Absent(k) == bucket[k] = NoBucket \/ clock - bucket[k].touched >= Ttl

\* Mutant: time is rounded up.
BugElapsed(k, now) == IF now > bucket[k].last THEN now - bucket[k].last + 1 ELSE 0

Elapsed(k, now) == IF now > bucket[k].last THEN now - bucket[k].last ELSE 0

Refilled(k, now) ==
    LET sum == bucket[k].tokens + Elapsed(k, now) * RateOf(k)
    IN  IF Absent(k) \/ sum > BurstOf(k) THEN BurstOf(k) ELSE sum

\* Mutant: the last token is never given.
BugAllowed(k, now) == Refilled(k, now) > 1000

Allowed(k, now) == Refilled(k, now) >= 1000

\* Mutant: a call that is refused stores the time, and not the refill.
BugLeft(k, now) ==
    IF Allowed(k, now) THEN Refilled(k, now) - 1000
    ELSE IF Absent(k) THEN BurstOf(k) ELSE bucket[k].tokens

Left(k, now) == IF Allowed(k, now) THEN Refilled(k, now) - 1000 ELSE Refilled(k, now)

\* HMSET and EXPIRE, whatever the answer; last_refill becomes now, even if that is earlier.
RunScript(k, now) ==
    /\ bucket' = [bucket EXCEPT ![k] = [tokens |-> Left(k, now), last |-> now, touched |-> clock]]
    /\ inOrder' = IF bucket[k] # NoBucket /\ now < bucket[k].last THEN inOrder \ {k} ELSE inOrder
    /\ IF Allowed(k, now)
       THEN since' = [since EXCEPT ![k] = [t \in Instants |-> IF t <= now THEN @[t] + 1 ELSE @[t]]]
       ELSE UNCHANGED since

-----------------------------------------------------------------------------
(* Requests *)

Await(c, state) == call' = [call EXCEPT ![c] = state]

\* RateLimit, for every request; time.Now() comes before the call of Redis.
Arrive(c, public) ==
    /\ call[c] = Resting
    /\ Await(c, [at |-> "global", public |-> public, now |-> clock])
    /\ UNCHANGED <<clock, bucket, since, inOrder>>

\* On to RateLimitPublic, or to the handler.
GoOn(c) ==
    Await(c, IF call[c].at = "global" /\ call[c].public
             THEN [at |-> "public", public |-> TRUE, now |-> clock]
             ELSE Resting)

\* The answer of the script: go on, or 429.
Evaluate(c) ==
    /\ call[c] # Resting
    /\ RunScript(call[c].at, call[c].now)
    /\ IF Allowed(call[c].at, call[c].now) THEN GoOn(c) ELSE Await(c, Resting)
    /\ UNCHANGED clock

\* Fail open: Redis did not run the script, or did and the answer was lost.
EvaluateFails(c) ==
    /\ call[c] # Resting
    /\ \/ RunScript(call[c].at, call[c].now)
       \/ UNCHANGED <<bucket, since, inOrder>>
    /\ GoOn(c)
    /\ UNCHANGED clock

\* Time passes, up to the timeouts of the calls under way.
Tock ==
    /\ clock < Horizon
    /\ \A c \in Calls : call[c] # Resting => clock < call[c].now + MaxDelay
    /\ clock' = clock + 1
    /\ UNCHANGED <<bucket, call, since, inOrder>>

LimiterNext ==
    \/ Tock
    \/ \E c \in Calls :
         \/ \E public \in BOOLEAN : Arrive(c, public)
         \/ Evaluate(c)
         \/ EvaluateFails(c)

LimiterSpec == LimiterInit /\ [][LimiterNext]_limiterVars

-----------------------------------------------------------------------------
(* Properties: the script against the definition of a limit, which says that in any  *)
(* interval a key gives its burst and what its rate yields, and not more.            *)

\* What a key may still give in the interval from a time to a reading.
Room(k, from, to) == BurstOf(k) + RateOf(k) * (to - from) - 1000 * since[k][from]

\* No interval gets more than its limit, whatever was refused, lost or expired, on keys
\* whose readings Redis saw in order.
LimitIsKept ==
    \A k \in inOrder : bucket[k] # NoBucket =>
        \A t \in 0..bucket[k].last : Room(k, t, bucket[k].last) >= 0

\* The answer to each call under way is the one of that definition: 429 if and only if one
\* token more would exceed the limit in some interval that ends with its reading.
AnswersAreDue ==
    \A c \in Calls :
        LET k == call[c].at
            now == call[c].now
        IN  call[c] # Resting /\ k \in inOrder /\ bucket[k].last <= now =>
              (Allowed(k, now) <=> \A t \in 0..now : Room(k, t, now) >= 1000)

\* The same without the condition, as docs/SECURITY.md:141 has it. Two readings that reach
\* Redis in the wrong order count the time between them twice.
LimitIsAlwaysKept ==
    \A k \in LimitKeys : bucket[k] # NoBucket =>
        \A t \in 0..bucket[k].last : Room(k, t, bucket[k].last) >= 0

\* What the limiter allows.
LimiterSafety ==
    /\ LimiterTypeOK
    /\ LimitIsKept
    /\ AnswersAreDue
=============================================================================
