---------------------------- MODULE RateLimiter ----------------------------
(***************************************************************************)
(* internal/platform/ratelimiter for one client: the script in Redis, which *)
(* all API processes share, and the memory of each process, which the auth  *)
(* tier falls back to when Redis fails.  A request passes the read tier,    *)
(* then the tier of its route.  Time moves in ticks.  The response headers  *)
(* are left out; a key outlives its use, so its expiry is too.              *)
(***************************************************************************)
EXTENDS Integers, FiniteSets

CONSTANTS
    Slots,      \* API processes
    Window,     \* in ticks, of all rules
    Limit,      \* Limit[tier]: Rule.Requests
    Keys        \* Keys[tier]: "ip" or "user"

Tiers == {"read", "auth", "write"}
Ages == 0..Window - 1

ASSUME RateAssumption ==
    /\ Window \in Nat \ {0}
    /\ Limit \in [Tiers -> Nat \ {0}]
    /\ Keys \in [Tiers -> {"ip", "user"}]

VARIABLES
    elapsed,    \* ticks since the current bucket began, the clock of all processes
    counters,   \* counters[k]: the current and the previous bucket of the key
    memory,     \* memory[s]: MemoryLimiter of a process: count, ticks to expiresAt
    pending,    \* pending[s][tier]: requests past the read tier, before that one
    admitted,   \* admitted[a]: logins that Redis admitted a ticks ago
    fellBack    \* fellBack[s][a]: logins that the memory of s admitted

rateVars == <<elapsed, counters, memory, pending, admitted, fellBack>>

\* now.After(expiresAt): no bucket.
Expired == [count |-> 0, left |-> -1]
Never == [a \in Ages |-> 0]
NoneWaits == [t \in Tiers \ {"read"} |-> 0]

\* The logins that f counts at the ages of A, each known by its age and a number.
Marks(f, A) == UNION {{a} \X (1..f[a]) : a \in A}

Sum(f) == Cardinality(Marks(f, Ages))

-----------------------------------------------------------------------------
(* The script.                                                             *)

\* Mutant: a fixed window.
WeightedFixed(key) == counters[key].current * Window

\* The count of a key, times the window.
Weighted(key) ==
    counters[key].previous * (Window - elapsed) + counters[key].current * Window

\* Mutant: one too many.
AdmitsInclusive(tier) == Weighted(Keys[tier]) <= Limit[tier] * Window

\* The check: compared before the increment.
Admits(tier) == Weighted(Keys[tier]) < Limit[tier] * Window

\* Allow: ran, and its reply arrived.
RedisAllows(tier) ==
    /\ Admits(tier)
    /\ counters' = [counters EXCEPT ![Keys[tier]].current = @ + 1]

RedisDenies(tier) == ~Admits(tier) /\ UNCHANGED counters

\* An error, or the reply is lost.
RedisFails(tier) == RedisAllows(tier) \/ UNCHANGED counters

-----------------------------------------------------------------------------
(* The middleware.                                                         *)

\* MemoryLimiter.Allow: the bucket that counts.
Bucket(s) == IF memory[s].left < 0 THEN [count |-> 0, left |-> Window] ELSE memory[s]

\* ByIP on every route, open when Redis fails; then ByIPAuth, ByUser or nothing.
ReadCheck(s) ==
    /\ \/ /\ RedisAllows("read") \/ RedisFails("read")
          /\ \/ UNCHANGED pending
             \/ \E t \in Tiers \ {"read"} : pending' = [pending EXCEPT ![s][t] = @ + 1]
       \/ RedisDenies("read") /\ UNCHANGED pending
    /\ UNCHANGED <<elapsed, memory, admitted, fellBack>>

Waiting(s, t) == pending[s][t] > 0 /\ pending' = [pending EXCEPT ![s][t] = @ - 1]

\* ByIPAuth while Redis answers.
AuthCheck(s) ==
    /\ Waiting(s, "auth")
    /\ \/ RedisAllows("auth") /\ admitted' = [admitted EXCEPT ![0] = @ + 1]
       \/ RedisDenies("auth") /\ UNCHANGED admitted
    /\ UNCHANGED <<elapsed, memory, fellBack>>

\* ByIPAuth with an error from Redis: the memory of this process.
AuthFallback(s) ==
    /\ Waiting(s, "auth")
    /\ RedisFails("auth")
    /\ IF Bucket(s).count < Limit["auth"]
       THEN /\ memory' = [memory EXCEPT ![s] = [Bucket(s) EXCEPT !.count = @ + 1]]
            /\ fellBack' = [fellBack EXCEPT ![s][0] = @ + 1]
       ELSE memory' = [memory EXCEPT ![s] = Bucket(s)] /\ UNCHANGED fellBack
    /\ UNCHANGED <<elapsed, admitted>>

\* ByUser, open when Redis fails.
WriteCheck(s) ==
    /\ Waiting(s, "write")
    /\ RedisAllows("write") \/ RedisDenies("write") \/ RedisFails("write")
    /\ UNCHANGED <<elapsed, memory, admitted, fellBack>>

\* A new process has an empty memory, and its requests are gone.
Restarted(s) ==
    /\ memory' = [memory EXCEPT ![s] = Expired]
    /\ pending' = [pending EXCEPT ![s] = NoneWaits]
    /\ fellBack' = [fellBack EXCEPT ![s] = Never]
    /\ UNCHANGED <<elapsed, counters, admitted>>

Older(f) == [a \in Ages |-> IF a = 0 THEN 0 ELSE f[a - 1]]

\* Time passes, at a multiple of the window into the next bucket.
Tick ==
    /\ elapsed' = (elapsed + 1) % Window
    /\ counters' = IF elapsed' # 0 THEN counters
                   ELSE [k \in DOMAIN counters |->
                            [current |-> 0, previous |-> counters[k].current]]
    /\ memory' = [s \in Slots |-> IF memory[s].left <= 0 THEN Expired
                                  ELSE [memory[s] EXCEPT !.left = @ - 1]]
    /\ admitted' = Older(admitted)
    /\ fellBack' = [s \in Slots |-> Older(fellBack[s])]
    /\ UNCHANGED pending

RateInit ==
    /\ elapsed = 0
    /\ counters = [k \in {"ip", "user"} |-> [current |-> 0, previous |-> 0]]
    /\ memory = [s \in Slots |-> Expired]
    /\ pending = [s \in Slots |-> NoneWaits]
    /\ admitted = Never
    /\ fellBack = [s \in Slots |-> Never]

-----------------------------------------------------------------------------

\* architecture.md, auth tier, 10 a minute: in any span of a window Redis
\* admits more logins than the limit only by the part of the previous bucket
\* that the weight has let go, rounded up; the memory of one process admits,
\* across the end of its bucket, at most twice the limit.
LoginsBounded ==
    /\ (Sum(admitted) - Limit["auth"]) * Window < Limit["auth"] * elapsed + Window
    /\ \A s \in Slots : Sum(fellBack[s]) <= 2 * Limit["auth"]

=============================================================================
