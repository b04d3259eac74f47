----------------------------- MODULE RateLimiter ------------------------------
(* IpRateLimiter: a token bucket for every address that was seen lately.  The *)
(* bucket is brought up to date only when its address calls, by a clock that  *)
(* may be set back (Date.now), and is forgotten when the address is idle.  It *)
(* is held against an account kept in true time that nothing is forgotten of. *)
EXTENDS Integers, FiniteSets

CONSTANTS Addresses,
          Capacity,   \* of a bucket, in the smallest units the refill comes in
          Cost,       \* units a request takes: one token
          Refill,     \* units of a tick of the clock
          Idle,       \* idleEvictMs, in ticks
          MaxTime,    \* bound on true time
          MaxBack     \* bound on how far behind true time the clock falls

ASSUME LimiterAssumption ==
  /\ Capacity \in Nat /\ Cost \in Nat \ {0} /\ Refill \in Nat /\ Idle \in Nat
  /\ MaxTime \in Nat /\ MaxBack \in Nat
  \* Who was forgotten would have had a full bucket again.
  /\ Idle * Refill >= Capacity

VARIABLES now,      \* the clock, as Date.now() tells it
          time,     \* true time
          buckets,  \* the addresses with an entry
          tokens,   \* what their buckets hold, as of
          last,     \* their last call, by the clock
          account,  \* what each address may still spend, kept in true time
          quiet,    \* ticks since each address called last
          steady    \* the clock was not set since

limiterVars == <<now, time, buckets, tokens, last, account, quiet, steady>>

Least(a, b) == IF a <= b THEN a ELSE b
Greatest(a, b) == IF a >= b THEN a ELSE b
-----------------------------------------------------------------------------
LimiterInit ==
  /\ now = 0 /\ time = 0
  /\ buckets = {}
  /\ tokens = [ip \in Addresses |-> Capacity] /\ last = [ip \in Addresses |-> 0]
  /\ account = [ip \in Addresses |-> Capacity]
  /\ quiet = [ip \in Addresses |-> 0] /\ steady = [ip \in Addresses |-> FALSE]

\* sweep: what allow() leaves of the map before it looks the address up.  The
\* lastSeen of an entry is the last of its bucket, for allow() sets both.
Kept == {ip \in buckets : now - last[ip] <= Idle}

\* Mutant: time that ran backwards counts as time that passed.
Elapsed_Absolute(ip) == IF now >= last[ip] THEN now - last[ip] ELSE last[ip] - now

Elapsed(ip) == Greatest(0, now - last[ip])

\* What the bucket holds after the refill of tryConsume; a new one is full.
Filled(ip) == IF ip \in Kept THEN Least(Capacity, tokens[ip] + Elapsed(ip) * Refill) ELSE Capacity

LastSeen(ip) == now

\* allow(ip): true when the bucket holds a whole token.
Allow(ip) ==
  /\ buckets' = Kept \cup {ip}
  /\ last' = [last EXCEPT ![ip] = LastSeen(ip)]
  /\ tokens' = [tokens EXCEPT ![ip] = IF Filled(ip) >= Cost THEN Filled(ip) - Cost ELSE Filled(ip)]
  /\ account' = [account EXCEPT ![ip] = IF Filled(ip) >= Cost THEN @ - Cost ELSE @]
  /\ quiet' = [quiet EXCEPT ![ip] = 0] /\ steady' = [steady EXCEPT ![ip] = TRUE]
  /\ UNCHANGED <<now, time>>

\* A tick of true time, and of the clock.
Tick ==
  /\ time < MaxTime
  /\ time' = time + 1 /\ now' = now + 1
  /\ account' = [ip \in Addresses |-> Least(Capacity, account[ip] + Refill)]
  /\ quiet' = [ip \in Addresses |-> quiet[ip] + 1]
  /\ UNCHANGED <<buckets, tokens, last, steady>>

\* The clock is set back.
SetBack ==
  /\ time - now < MaxBack
  /\ now' = now - 1
  /\ steady' = [ip \in Addresses |-> FALSE]
  /\ UNCHANGED <<time, buckets, tokens, last, account, quiet>>

LimiterNext == Tick \/ SetBack \/ \E ip \in Addresses : Allow(ip)
LimiterSpec == LimiterInit /\ [][LimiterNext]_limiterVars
-----------------------------------------------------------------------------
LimiterTypeOK ==
  /\ now \in Int /\ time \in 0..MaxTime
  /\ buckets \subseteq Addresses
  /\ tokens \in [Addresses -> 0..Capacity] /\ last \in [Addresses -> Int]
  /\ account \in [Addresses -> Int] /\ quiet \in [Addresses -> Nat]
  /\ steady \in [Addresses -> BOOLEAN]

\* The account is overdrawn only if the limiter was too generous: in no stretch
\* of true time does an address get more than a full bucket and the refill of
\* that time, however the clock is set back and whenever it was forgotten.
NeverMoreThanRate == \A ip \in Addresses : account[ip] >= 0

\* No address is locked out: who stays away until a token has been refilled is
\* let in, also after the clock was set back by any time.
NotLockedOut ==
  \A ip \in Addresses :
    steady[ip] /\ quiet[ip] * Refill >= Cost /\ Capacity >= Cost => Filled(ip) >= Cost

\* Both: the limiter is neither too generous nor too hard.
LimiterJust == NeverMoreThanRate /\ NotLockedOut
=============================================================================
