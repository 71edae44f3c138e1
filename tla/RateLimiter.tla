----------------------------- MODULE RateLimiter -----------------------------
(***************************************************************************)
(* The per-IP token bucket of the API server (cmd/server/ratelimit.go):    *)
(* allow, and the loop that forgets callers not seen for a while.  Both    *)
(* run under one mutex, so each is one step.  Time is a counter; a token   *)
(* is `Unit` parts of which Rate come back per unit of time, so that the   *)
(* code's fractions stay integers.                                         *)
(*                                                                         *)
(* An observer, which is not in the code, starts to count the requests     *)
(* that one IP is granted at any moment it likes; what the limiter         *)
(* promises is a bound for every such window.                              *)
(***************************************************************************)
EXTENDS Integers

CONSTANTS
  IP,          \* the callers
  Watched,     \* the caller the observer counts for
  Rate,        \* parts of a token that come back per unit of time
  Unit,        \* parts that make a token
  Burst,       \* rl.burst in parts
  StaleAfter,  \* how long a caller is remembered; 30 minutes
  Period,      \* the ticker of cleanupLoop; 10 minutes
  MaxTime      \* bound on the clock, to keep the state space finite

ASSUME SizesAssumption ==
  /\ Watched \in IP
  /\ Rate \in Nat /\ Unit \in Nat \ {0} /\ Burst \in Nat /\ Burst >= Unit
  /\ StaleAfter \in Nat /\ Period \in Nat \ {0} /\ MaxTime \in Nat

\* Who is forgotten would have had a full bucket: the defaults refill ten
\* tokens at five a second, in much less than half an hour.
ASSUME RefillsAssumption == Rate * StaleAfter >= Burst

VARIABLES
  now,       \* the clock
  buckets,   \* the IPs that have a bucket
  tokens,    \* its tokens, in parts; 0 without a bucket
  lastSeen,  \* when it was refilled; 0 without a bucket
  ticked,    \* when cleanupLoop last ran
  since,     \* when the observer began to count
  granted    \* the requests it has counted, in parts

bucketVars == <<buckets, tokens, lastSeen>>
vars == <<now, bucketVars, ticked, since, granted>>

Init ==
  /\ now = 0
  /\ buckets = {}
  /\ tokens = [ip \in IP |-> 0] /\ lastSeen = [ip \in IP |-> 0]
  /\ ticked = 0 /\ since = 0 /\ granted = 0
-----------------------------------------------------------------------------
\* Mutant of Refilled: the cap is missing.
Uncapped(ip) == tokens[ip] + Rate * (now - lastSeen[ip])

\* Lines 65-69.
Refilled(ip) ==
  LET t == tokens[ip] + Rate * (now - lastSeen[ip]) IN IF t > Burst THEN Burst ELSE t

Counted(ip, parts) == granted' = IF ip = Watched THEN granted + parts ELSE granted

\* Lines 58-63: a caller without a bucket gets a full one, less one token.
AllowNew(ip) ==
  /\ ip \notin buckets
  /\ buckets' = buckets \cup {ip}
  /\ tokens' = [tokens EXCEPT ![ip] = Burst - Unit]
  /\ lastSeen' = [lastSeen EXCEPT ![ip] = now]
  /\ Counted(ip, Unit)
  /\ UNCHANGED <<now, ticked, since>>

\* Lines 65-75: a token is there.
Allow(ip) ==
  /\ ip \in buckets
  /\ Refilled(ip) >= Unit
  /\ tokens' = [tokens EXCEPT ![ip] = Refilled(ip) - Unit]
  /\ lastSeen' = [lastSeen EXCEPT ![ip] = now]
  /\ Counted(ip, Unit)
  /\ UNCHANGED <<now, buckets, ticked, since>>

\* Lines 65-70 and 76: no token; the part that came back is kept.
Refuse(ip) ==
  /\ ip \in buckets
  /\ Refilled(ip) < Unit
  /\ tokens' = [tokens EXCEPT ![ip] = Refilled(ip)]
  /\ lastSeen' = [lastSeen EXCEPT ![ip] = now]
  /\ UNCHANGED <<now, buckets, ticked, since, granted>>

\* Lines 44-46.
Stale(ip) == lastSeen[ip] < now - StaleAfter

\* Mutant of CleanupDue: the ticker is as long as the cutoff and the period.
SlowTicker == ticked + Period + StaleAfter

\* Line 40.
CleanupDue == ticked + Period

\* Lines 42-51.
Cleanup ==
  /\ now = CleanupDue
  /\ ticked' = now
  /\ buckets' = {ip \in buckets : ~Stale(ip)}
  /\ tokens' = [ip \in IP |-> IF ip \in buckets /\ Stale(ip) THEN 0 ELSE tokens[ip]]
  /\ lastSeen' = [ip \in IP |-> IF ip \in buckets /\ Stale(ip) THEN 0 ELSE lastSeen[ip]]
  /\ UNCHANGED <<now, since, granted>>

\* Time passes; the ticker does not miss its turn.
Pass ==
  /\ now < MaxTime
  /\ now < CleanupDue
  /\ now' = now + 1
  /\ UNCHANGED <<bucketVars, ticked, since, granted>>

\* The observer starts to count.
Observe ==
  /\ since' = now
  /\ granted' = 0
  /\ UNCHANGED <<now, bucketVars, ticked>>

Next ==
  \/ \E ip \in IP : AllowNew(ip) \/ Allow(ip) \/ Refuse(ip)
  \/ Cleanup \/ Pass \/ Observe

Spec == Init /\ [][Next]_vars
-----------------------------------------------------------------------------
(* Properties. *)

\* Every variable has its type; a bucket never overflows.
TypeOK ==
  /\ now \in Nat /\ ticked \in 0 .. now /\ since \in 0 .. now /\ granted \in Nat
  /\ buckets \subseteq IP
  /\ tokens \in [IP -> 0 .. Burst]
  /\ lastSeen \in [IP -> 0 .. now]

\* In every window one caller is granted at most a burst and what came back
\* meanwhile, forgotten and remembered again or not (ratelimit.go:10-14, 54-77).
WindowBound == granted <= Burst + Rate * (now - since)

\* A bucket is not kept longer than the cutoff and one turn of the ticker, so
\* the map does not grow with every caller there ever was (ratelimit.go:37-51).
BucketsExpire ==
  \A ip \in buckets : now - lastSeen[ip] <= StaleAfter + Period
=============================================================================
