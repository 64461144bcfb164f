----------------------------- MODULE RateLimiter -----------------------------
(***************************************************************************)
(* core/ratelimit/limiter.py: one token bucket per agent, created on first *)
(* use, refilled by elapsed time on every check, and swept away again when *)
(* the map has grown large.  check() awaits nothing while it holds the     *)
(* agent's lock, so a check is one step.                                   *)
(*                                                                         *)
(* A token is Grain units and one unit flows in per tick, so rps is        *)
(* 1/Grain per tick and a bucket can hold a fraction of a token, as the    *)
(* float of the code can.                                                  *)
(***************************************************************************)
EXTENDS Integers, Sequences, FiniteSets

CONSTANTS
    Agents,
    Burst,        \* rate_limit_burst, in tokens
    Grain,        \* ticks per token
    MapLimit,     \* the 1024 buckets below which nothing is swept
    IdleTicks,    \* idle_seconds, 3600
    MaxNow        \* bound: the clock

ASSUME LimiterAssumption ==
    /\ Burst \in Nat /\ Grain \in Nat \ {0}
    /\ MapLimit \in Nat /\ IdleTicks \in Nat /\ MaxNow \in Nat

VARIABLES
    buckets,      \* _buckets: a function on the agents that have one
    now,          \* time.monotonic()
    admitted,     \* the times of each agent's admitted calls (history)
    refused       \* agents whose latest check was refused (history)

limiterVars == <<buckets, now, admitted, refused>>

Full == Burst * Grain

LimiterTypeOK ==
    /\ DOMAIN buckets \subseteq Agents
    /\ \A a \in DOMAIN buckets :
          buckets[a] \in [tokens : 0 .. Full, last : 0 .. MaxNow]
    /\ now \in 0 .. MaxNow
    /\ admitted \in [Agents -> Seq(0 .. MaxNow)]
    /\ refused \subseteq Agents

LimiterInit ==
    /\ buckets = <<>>
    /\ now = 0
    /\ admitted = [a \in Agents |-> <<>>]
    /\ refused = {}

----------------------------------------------------------------------------

\* The agent's bucket; the defaultdict makes a full one.
BucketOf(a) ==
    IF a \in DOMAIN buckets THEN buckets[a] ELSE [tokens |-> Full, last |-> now]

\* Mutant: the refill is rounded down to whole tokens.
Refilled_Whole(b) ==
    LET t == b.tokens + ((now - b.last) \div Grain) * Grain
    IN  IF t > Full THEN Full ELSE t

\* min(burst, tokens + elapsed * rps)
Refilled(b) ==
    LET t == b.tokens + (now - b.last) IN IF t > Full THEN Full ELSE t

\* Mutant: every idle bucket is swept, full or not.
Evictable_Idle(b) == now - b.last > IdleTicks

\* What _maybe_evict() sweeps: idle, and full by its stored count of tokens.
Evictable(b) == now - b.last > IdleTicks /\ b.tokens >= Full

\* The map after _maybe_evict().
Sweep(m) ==
    IF Cardinality(DOMAIN m) < MapLimit THEN m
    ELSE [a \in {x \in DOMAIN m : ~Evictable(m[x])} |-> m[a]]

\* check(a): refill, take a token if there is one, sweep.
Check(a) ==
    LET t  == Refilled(BucketOf(a))
        ok == t >= Grain
        b  == [tokens |-> IF ok THEN t - Grain ELSE t, last |-> now]
        m  == [x \in DOMAIN buckets \union {a} |-> IF x = a THEN b ELSE buckets[x]]
    IN  /\ buckets' = Sweep(m)
        /\ admitted' = IF ok THEN [admitted EXCEPT ![a] = Append(@, now)] ELSE admitted
        /\ refused' = IF ok THEN refused \ {a} ELSE refused \union {a}
        /\ UNCHANGED now

Tick ==
    /\ now < MaxNow
    /\ now' = now + 1
    /\ UNCHANGED <<buckets, admitted, refused>>

LimiterNext == Tick \/ \E a \in Agents : Check(a)

LimiterSpec == LimiterInit /\ [][LimiterNext]_limiterVars

----------------------------------------------------------------------------

\* Over any stretch of time an agent gets no more calls through than the burst
\* and the sustained rate allow together, whatever is swept in between.
RateHeld ==
    \A a \in Agents : \A i, j \in DOMAIN admitted[a] :
        i <= j => (j - i + 1) * Grain <= Full + admitted[a][j] - admitted[a][i]

\* An agent is never starved by its own polling: it is refused only if the last
\* of its calls to get through is less than one token's time ago.
PollingDoesNotStarve ==
    Burst > 0 =>
        \A a \in Agents :
            a \in refused /\ a \in DOMAIN buckets /\ admitted[a] # <<>> =>
                buckets[a].last - admitted[a][Len(admitted[a])] < Grain

=============================================================================
