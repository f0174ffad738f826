---------------------------- MODULE RateLimiter ----------------------------
(***************************************************************************)
(* The upload rate limiter of the relay (relay/ratelimit.go).  A request    *)
(* reads the clock first and takes the mutex afterwards, so requests can be *)
(* decided in another order than that of their timestamps.                  *)
(*                                                                         *)
(* hits[k], a slice of timestamps in the code, is the set of the admitted   *)
(* requests whose timestamps it holds.                                      *)
(***************************************************************************)
EXTENDS Integers, FiniteSets

CONSTANTS
  Requests,  \* calls of allow
  Keys,      \* client addresses
  Limit,     \* accepted requests per window (10)
  Window,    \* length of the window (one minute)
  MaxLag,    \* bound on the time between reading the clock and getting the mutex
  MaxTime    \* bound on the clock

ASSUME LimiterAssumption ==
  /\ IsFiniteSet(Requests)
  /\ Limit \in Nat \ {0}
  /\ Window \in Nat \ {0}
  /\ MaxLag \in Nat /\ MaxLag < Window
  /\ MaxTime \in Nat

VARIABLES
  clock,   \* time.Now()
  pc,      \* pc[r]: "new", "waiting" for the mutex, "allowed" or "refused"
  key,     \* key[r]: the client of request r
  stamp,   \* stamp[r]: the time r read
  tracked, \* the keys present in the map hits
  hits,    \* hits[k]: the admitted requests the map remembers of k
  lastGC   \* time of the last gc

limiterVars == <<clock, pc, key, stamp, tracked, hits, lastGC>>

LimiterTypeOK ==
  /\ clock \in 0..MaxTime
  /\ pc \in [Requests -> {"new", "waiting", "allowed", "refused"}]
  /\ key \in [Requests -> Keys]
  /\ stamp \in [Requests -> 0..MaxTime]
  /\ tracked \subseteq Keys
  /\ hits \in [Keys -> SUBSET Requests]
  /\ lastGC \in (-Window)..MaxTime

\* lastGC is the zero time: further back than any window.
LimiterInit ==
  /\ clock = 0
  /\ pc = [r \in Requests |-> "new"]
  /\ key \in [Requests -> Keys]
  /\ stamp = [r \in Requests |-> 0]
  /\ tracked = {}
  /\ hits = [k \in Keys |-> {}]
  /\ lastGC = -Window

\* Mutated Fresh: the cutoff is never applied.
FreshForever(S, now) == S

\* The timestamps of S that are after the cutoff of a call made at time now.
Fresh(S, now) == {r \in S : stamp[r] > now - Window}

\* gc: at most once per window, drops the keys none of whose hits is fresh.
GCDue(now) == now - lastGC >= Window

\* Mutated AfterGC: a key is dropped as soon as one of its hits is not fresh.
AfterEagerGC(now) == IF GCDue(now) THEN {k \in tracked : Fresh(hits[k], now) = hits[k]} ELSE tracked

\* Mutated AfterGC: no key is ever dropped.
AfterNoGC(now) == tracked

AfterGC(now) == IF GCDue(now) THEN {k \in tracked : Fresh(hits[k], now) # {}} ELSE tracked

LastGC(now) == IF GCDue(now) THEN now ELSE lastGC

\* now := time.Now(), before rl.mu.Lock().
Arrive(r) ==
  /\ pc[r] = "new"
  /\ pc' = [pc EXCEPT ![r] = "waiting"]
  /\ stamp' = [stamp EXCEPT ![r] = clock]
  /\ UNCHANGED <<clock, key, tracked, hits, lastGC>>

\* The rest of allow, under the mutex: gc, then keep the fresh hits of the key,
\* then refuse or record this request.
Decide(r) ==
  LET k    == key[r]
      now  == stamp[r]
      kept == IF k \in AfterGC(now) THEN Fresh(hits[k], now) ELSE {}
      full == Cardinality(kept) >= Limit
  IN
  /\ pc[r] = "waiting"
  /\ pc' = [pc EXCEPT ![r] = IF full THEN "refused" ELSE "allowed"]
  /\ hits' = [x \in Keys |-> IF x = k THEN (IF full THEN kept ELSE kept \cup {r})
                             ELSE IF x \in AfterGC(now) THEN hits[x] ELSE {}]
  /\ tracked' = AfterGC(now) \cup {k}
  /\ lastGC' = LastGC(now)
  /\ UNCHANGED <<clock, key, stamp>>

\* Time passes; no request waits longer than MaxLag for the mutex.
LimiterTick ==
  /\ clock < MaxTime
  /\ \A r \in Requests : pc[r] = "waiting" => clock < stamp[r] + MaxLag
  /\ clock' = clock + 1
  /\ UNCHANGED <<pc, key, stamp, tracked, hits, lastGC>>

LimiterNext ==
  \/ \E r \in Requests : Arrive(r) \/ Decide(r)
  \/ LimiterTick

LimiterSpec == LimiterInit /\ [][LimiterNext]_limiterVars

-----------------------------------------------------------------------------
(* Properties *)

\* The requests of client k that were let through.
Allowed(k) == {r \in Requests : pc[r] = "allowed" /\ key[r] = k}

\* Those whose timestamps are in the half-open interval (from, to].
AllowedIn(k, from, to) == {r \in Allowed(k) : from < stamp[r] /\ stamp[r] <= to}

\* The cap (ratelimit.go:8-10).  Requests wait up to MaxLag for the mutex and so
\* overtake one another; what the limiter still guarantees of every client is
\* at most Limit uploads in any window shortened by that lag.
WindowCap ==
  \A k \in Keys, t \in 0..MaxTime :
    Cardinality(AllowedIn(k, t - (Window - MaxLag), t)) <= Limit

\* Nobody is refused for old uploads: when a request is refused, Limit requests
\* of the same client were let through with timestamps after its own cutoff.
RefusedForCause ==
  \A r \in Requests : pc[r] = "refused" =>
    Cardinality({q \in Allowed(key[r]) : stamp[q] > stamp[r] - Window}) >= Limit

\* "The map can't grow unbounded" (ratelimit.go:54): every key in the map has a
\* hit from the window before the last gc, or a later one.
MapIsRecent ==
  \A k \in tracked : \E r \in hits[k] : stamp[r] > lastGC - Window

\* The inductive invariant: a request that was let through is remembered until
\* the clock itself, not just some late request, is past its window.
Remembered ==
  \A k \in Keys :
    /\ hits[k] \subseteq Allowed(k)
    /\ \A r \in Allowed(k) \ hits[k] : stamp[r] <= clock - Window
    /\ k \notin tracked => hits[k] = {}

\* Waiting requests are recent, and no timestamp is in the future.
StampsInOrder ==
  /\ \A r \in Requests : pc[r] # "new" => stamp[r] <= clock
  /\ \A r \in Requests : pc[r] = "waiting" => clock <= stamp[r] + MaxLag
  /\ lastGC <= clock

LimiterIInv == LimiterTypeOK /\ Remembered /\ StampsInOrder /\ WindowCap /\ RefusedForCause /\ MapIsRecent

=============================================================================
