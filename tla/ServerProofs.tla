----------------------------- MODULE ServerProofs -----------------------------
(* What of the servers outside the rooms is proved: the rate limiter, the     *)
(* sockets of a room, the way down after a signal, and the HTTP boundary.     *)
EXTENDS RateLimiter, SocketAuth, Shutdown, HttpApi, FiniteSetTheorems, FunctionTheorems,
        WellFoundedInduction, TLAPS

-----------------------------------------------------------------------------
(* The limiter of rate-limit.ts never grants more than its rate, nor locks an *)
(* address out, for every capacity, cost, refill and idle time for which an   *)
(* idle address would have a full bucket again.                               *)

\* A bucket that is not there was full, and so is the account; one that is there
\* holds, once brought up to date, no more than the account.
Owed(ip) == Least(Capacity, tokens[ip] + Elapsed(ip) * Refill)
Covered == \A ip \in Addresses : ip \in buckets => Owed(ip) <= account[ip]
Restored == \A ip \in Addresses : ip \notin buckets => account[ip] = Capacity
Bounded == \A ip \in Addresses : 0 <= account[ip] /\ account[ip] <= Capacity
Counted == \A ip \in Addresses : steady[ip] => now - last[ip] = quiet[ip]
LimiterInv == LimiterTypeOK /\ Covered /\ Restored /\ Bounded /\ Counted

\* One more tick refills once more.
LEMMA OneMore ==
  ASSUME NEW e \in Nat, NEW r \in Nat
  PROVE (e + 1) * r = e * r + r /\ e * r \in Nat
  BY SMT

\* A longer time refills no less.
LEMMA Longer ==
  ASSUME NEW d \in Nat, NEW e \in Nat, d <= e, NEW r \in Nat
  PROVE d * r <= e * r /\ d * r \in Nat /\ e * r \in Nat
<1>1. PICK k \in Nat : e = d + k
  BY SMT
<1>2. (d + k) * r = d * r + k * r /\ k * r >= 0 /\ d * r \in Nat /\ k * r \in Nat
  BY SMT
<1>3. QED
  BY <1>1, <1>2, SMT

\* The time that passed is a number of ticks.
LEMMA ElapsedType == ASSUME LimiterTypeOK, NEW ip \in Addresses PROVE Elapsed(ip) \in Nat
  BY DEF LimiterTypeOK, Elapsed, Greatest

\* What the next call of an address finds never exceeds its account.
LEMMA FilledCovered ==
  ASSUME LimiterInv, NEW ip \in Addresses
  PROVE Filled(ip) <= account[ip] /\ Filled(ip) \in Nat /\ Filled(ip) <= Capacity
<1>0. Elapsed(ip) \in Nat /\ Capacity \in Nat /\ Refill \in Nat /\ Idle \in Nat
      /\ tokens[ip] \in 0..Capacity /\ account[ip] \in Int /\ account[ip] <= Capacity
      /\ Idle * Refill >= Capacity
  BY ElapsedType, LimiterAssumption DEF LimiterInv, LimiterTypeOK, Bounded
<1>1. Elapsed(ip) * Refill \in Nat
  BY <1>0, SMT
<1>2. CASE ip \in Kept
  <2>1. ip \in buckets
    BY <1>2 DEF Kept
  <2>2. Owed(ip) <= account[ip]
    BY <2>1 DEF LimiterInv, Covered
  <2>3. Filled(ip) = Owed(ip)
    BY <1>2 DEF Filled, Owed
  <2>4. Owed(ip) \in Nat /\ Owed(ip) <= Capacity
    BY <1>0, <1>1 DEF Owed, Least
  <2>5. QED
    BY <2>2, <2>3, <2>4
<1>3. CASE ip \notin Kept
  <2>1. Filled(ip) = Capacity
    BY <1>3 DEF Filled
  <2>2. CASE ip \notin buckets
    BY <2>1, <2>2, <1>0 DEF LimiterInv, Restored
  <2>3. CASE ip \in buckets
    <3>1. Idle <= Elapsed(ip)
      BY <1>3, <2>3, <1>0 DEF Kept, Elapsed, Greatest, LimiterInv, LimiterTypeOK
    <3>2. Idle * Refill <= Elapsed(ip) * Refill
      BY ONLY <1>0, <3>1, Longer
    <3>3. Owed(ip) = Capacity
      BY <1>0, <1>1, <3>2 DEF Owed, Least
    <3>4. Owed(ip) <= account[ip]
      BY <2>3 DEF LimiterInv, Covered
    <3>5. QED
      BY <3>3, <3>4, <2>1, <1>0
  <2>4. QED
    BY <2>2, <2>3
<1>4. QED
  BY <1>2, <1>3

\* Initially nobody has called.
LEMMA InitLimiter == LimiterInit => LimiterInv
<1> SUFFICES ASSUME LimiterInit PROVE LimiterInv
  OBVIOUS
<1>1. LimiterTypeOK
  BY LimiterAssumption DEF LimiterInit, LimiterTypeOK
<1>2. Covered /\ Restored /\ Bounded /\ Counted
  BY LimiterAssumption DEF LimiterInit, Covered, Restored, Bounded, Counted
<1>3. QED
  BY <1>1, <1>2 DEF LimiterInv

\* A call takes from the account what it takes from the bucket.
LEMMA AllowKeeps ==
  ASSUME LimiterInv, NEW ip \in Addresses, Allow(ip)
  PROVE LimiterInv'
<1> DEFINE left == IF Filled(ip) >= Cost THEN Filled(ip) - Cost ELSE Filled(ip)
           paid == IF Filled(ip) >= Cost THEN account[ip] - Cost ELSE account[ip]
<1>0. Capacity \in Nat /\ Cost \in Nat \ {0} /\ Refill \in Nat
      /\ Filled(ip) \in Nat /\ Filled(ip) <= account[ip] /\ Filled(ip) <= Capacity
      /\ account[ip] \in Int /\ account[ip] <= Capacity /\ now \in Int
  BY FilledCovered, LimiterAssumption DEF LimiterInv, LimiterTypeOK, Bounded
<1>1. left \in 0..Capacity /\ paid \in Int /\ left <= paid /\ 0 <= paid /\ paid <= Capacity
  BY <1>0
<1>2. /\ tokens' = [tokens EXCEPT ![ip] = left] /\ account' = [account EXCEPT ![ip] = paid]
      /\ last' = [last EXCEPT ![ip] = now] /\ now' = now /\ time' = time
      /\ buckets' = Kept \cup {ip}
      /\ quiet' = [quiet EXCEPT ![ip] = 0] /\ steady' = [steady EXCEPT ![ip] = TRUE]
  BY DEF Allow, LastSeen
<1> HIDE DEF left, paid
<1>3. Kept \subseteq buckets
  BY DEF Kept
<1>4. LimiterTypeOK'
  <2>1. tokens' \in [Addresses -> 0..Capacity] /\ account' \in [Addresses -> Int]
    BY <1>1, <1>2 DEF LimiterInv, LimiterTypeOK
  <2>2. last' \in [Addresses -> Int] /\ quiet' \in [Addresses -> Nat] /\ steady' \in [Addresses -> BOOLEAN]
    BY <1>0, <1>2 DEF LimiterInv, LimiterTypeOK
  <2>3. buckets' \subseteq Addresses /\ now' \in Int /\ time' \in 0..MaxTime
    BY <1>2, <1>3 DEF LimiterInv, LimiterTypeOK
  <2>4. QED
    BY <2>1, <2>2, <2>3 DEF LimiterTypeOK
<1>5. ASSUME NEW o \in Addresses, o # ip
      PROVE /\ tokens'[o] = tokens[o] /\ account'[o] = account[o] /\ last'[o] = last[o]
            /\ quiet'[o] = quiet[o] /\ steady'[o] = steady[o]
  BY <1>2, <1>5 DEF LimiterInv, LimiterTypeOK
<1>6. /\ tokens'[ip] = left /\ account'[ip] = paid /\ last'[ip] = now
      /\ quiet'[ip] = 0
  BY <1>2 DEF LimiterInv, LimiterTypeOK
<1>7. Covered'
  <2> SUFFICES ASSUME NEW o \in Addresses, o \in buckets' PROVE Owed(o)' <= account'[o]
    BY DEF Covered
  <2>1. CASE o = ip
    <3>1. Elapsed(ip)' = 0
      BY <1>0, <1>2, <1>6 DEF Elapsed, Greatest
    <3>2. Owed(ip)' = Least(Capacity, left + 0 * Refill)
      BY <3>1, <1>6 DEF Owed
    <3>3. 0 * Refill = 0
      BY <1>0
    <3>4. Owed(ip)' <= paid
      BY <3>2, <3>3, <1>0, <1>1 DEF Least
    <3>5. QED
      BY <3>4, <1>6, <2>1
  <2>2. CASE o # ip
    <3>1. o \in buckets
      BY <2>2, <1>2, <1>3
    <3>2. Owed(o)' = Owed(o)
      BY <1>5, <2>2, <1>2 DEF Owed, Elapsed
    <3>3. QED
      BY <3>1, <3>2, <1>5, <2>2 DEF LimiterInv, Covered
  <2>3. QED
    BY <2>1, <2>2
<1>8. Restored'
  <2> SUFFICES ASSUME NEW o \in Addresses, o \notin buckets' PROVE account'[o] = Capacity
    BY DEF Restored
  <2>1. o # ip /\ o \notin Kept
    BY <1>2
  <2>2. Filled(o) = Capacity
    BY <2>1 DEF Filled
  <2>3. Capacity <= account[o] /\ account[o] <= Capacity /\ account[o] \in Int
    BY <2>2, FilledCovered DEF LimiterInv, Bounded, LimiterTypeOK
  <2>4. QED
    BY <2>1, <2>3, <1>0, <1>5
<1>9. Bounded'
  <2> SUFFICES ASSUME NEW o \in Addresses PROVE 0 <= account'[o] /\ account'[o] <= Capacity
    BY <1>2 DEF Bounded
  <2>1. QED
    BY <1>1, <1>5, <1>6 DEF LimiterInv, Bounded
<1>10. Counted'
  <2> SUFFICES ASSUME NEW o \in Addresses, steady'[o] PROVE now' - last'[o] = quiet'[o]
    BY DEF Counted
  <2>1. CASE o = ip
    BY <2>1, <1>0, <1>2, <1>6
  <2>2. CASE o # ip
    BY <2>2, <1>2, <1>5 DEF LimiterInv, Counted
  <2>3. QED
    BY <2>1, <2>2
<1>11. QED
  BY <1>4, <1>7, <1>8, <1>9, <1>10 DEF LimiterInv

\* A tick refills the account as it will refill the bucket.
LEMMA TickKeeps ==
  ASSUME LimiterInv, Tick
  PROVE LimiterInv'
<1>0. /\ now' = now + 1 /\ time' = time + 1 /\ time < MaxTime
      /\ account' = [ip \in Addresses |-> Least(Capacity, account[ip] + Refill)]
      /\ quiet' = [ip \in Addresses |-> quiet[ip] + 1]
      /\ buckets' = buckets /\ tokens' = tokens /\ last' = last /\ steady' = steady
      /\ Capacity \in Nat /\ Refill \in Nat /\ MaxTime \in Nat
  BY LimiterAssumption DEF Tick
<1>1. ASSUME NEW ip \in Addresses
      PROVE /\ account[ip] \in Int /\ 0 <= account[ip] /\ account[ip] <= Capacity
            /\ account'[ip] = Least(Capacity, account[ip] + Refill)
            /\ account'[ip] \in Int /\ account[ip] <= account'[ip] /\ account'[ip] <= Capacity
            /\ (account[ip] = Capacity => account'[ip] = Capacity)
  <2>1. account[ip] \in Int /\ 0 <= account[ip] /\ account[ip] <= Capacity
    BY DEF LimiterInv, LimiterTypeOK, Bounded
  <2>2. account'[ip] = Least(Capacity, account[ip] + Refill)
    BY <1>0
  <2>3. QED
    BY <1>0, <2>1, <2>2 DEF Least
<1>2. LimiterTypeOK'
  <2>1. account' \in [Addresses -> Int]
    BY <1>0, <1>1
  <2>2. quiet' \in [Addresses -> Nat]
    BY <1>0 DEF LimiterInv, LimiterTypeOK
  <2>3. now' \in Int /\ time' \in 0..MaxTime
    BY <1>0 DEF LimiterInv, LimiterTypeOK
  <2>4. QED
    BY <2>1, <2>2, <2>3, <1>0 DEF LimiterInv, LimiterTypeOK
<1>3. Covered'
  <2> SUFFICES ASSUME NEW ip \in Addresses, ip \in buckets' PROVE Owed(ip)' <= account'[ip]
    BY DEF Covered
  <2> DEFINE e == Elapsed(ip)
             f == Elapsed(ip)'
  <2>1. e \in Nat /\ f \in Nat
    BY <1>2, ElapsedType, <1>0 DEF LimiterInv, LimiterTypeOK, Elapsed, Greatest
  <2>2. f <= e + 1
    BY <1>0 DEF Elapsed, Greatest, LimiterInv, LimiterTypeOK
  <2>3. Owed(ip) = Least(Capacity, tokens[ip] + e * Refill)
        /\ Owed(ip)' = Least(Capacity, tokens[ip] + f * Refill)
    BY <1>0 DEF Owed
  <2>4. Owed(ip) <= account[ip] /\ tokens[ip] \in 0..Capacity
    BY <1>0 DEF LimiterInv, Covered, LimiterTypeOK
  <2> HIDE DEF e, f
  <2>5. (e + 1) * Refill = e * Refill + Refill /\ e * Refill \in Nat
    BY ONLY OneMore, <2>1, <1>0
  <2>6. f * Refill <= (e + 1) * Refill /\ f * Refill \in Nat
    <3>1. e + 1 \in Nat
      BY <2>1
    <3>2. QED
      BY ONLY Longer, <2>1, <2>2, <1>0, <3>1
  <2>7. QED
    <3> DEFINE x == e * Refill
               y == f * Refill
    <3>1. x \in Nat /\ y \in Nat /\ y <= x + Refill
      BY <2>5, <2>6, <1>0
    <3>2. Least(Capacity, tokens[ip] + x) <= account[ip]
          /\ Owed(ip)' = Least(Capacity, tokens[ip] + y)
      BY <2>3, <2>4
    <3> HIDE DEF x, y
    <3>3. QED
      BY <3>1, <3>2, <1>1, <1>0, <2>4 DEF Least
<1>4. Restored'
  BY <1>0, <1>1 DEF LimiterInv, Restored
<1>5. Bounded'
  <2> SUFFICES ASSUME NEW ip \in Addresses PROVE 0 <= account'[ip] /\ account'[ip] <= Capacity
    BY <1>0 DEF Bounded
  <2>1. QED
    BY <1>1, <1>0
<1>6. Counted'
  BY <1>0 DEF LimiterInv, LimiterTypeOK, Counted
<1>7. QED
  BY <1>2, <1>3, <1>4, <1>5, <1>6 DEF LimiterInv

\* Setting the clock back lets less time seem to have passed.
LEMMA SetBackKeeps ==
  ASSUME LimiterInv, SetBack
  PROVE LimiterInv'
<1>0. /\ now' = now - 1 /\ time' = time /\ account' = account /\ quiet' = quiet
      /\ buckets' = buckets /\ tokens' = tokens /\ last' = last
      /\ steady' = [ip \in Addresses |-> FALSE] /\ Capacity \in Nat /\ Refill \in Nat
  BY LimiterAssumption DEF SetBack
<1>1. LimiterTypeOK'
  BY <1>0 DEF LimiterInv, LimiterTypeOK
<1>2. Covered'
  <2> SUFFICES ASSUME NEW ip \in Addresses, ip \in buckets' PROVE Owed(ip)' <= account'[ip]
    BY DEF Covered
  <2> DEFINE e == Elapsed(ip)
             f == Elapsed(ip)'
  <2>1. e \in Nat /\ f \in Nat /\ f <= e
    BY <1>0 DEF Elapsed, Greatest, LimiterInv, LimiterTypeOK
  <2>2. Owed(ip) = Least(Capacity, tokens[ip] + e * Refill)
        /\ Owed(ip)' = Least(Capacity, tokens[ip] + f * Refill)
        /\ Owed(ip) <= account[ip] /\ tokens[ip] \in 0..Capacity /\ account[ip] \in Int
    BY <1>0 DEF Owed, LimiterInv, Covered, LimiterTypeOK
  <2> HIDE DEF e, f
  <2>3. f * Refill <= e * Refill /\ f * Refill \in Nat /\ e * Refill \in Nat
    BY ONLY Longer, <2>1, <1>0
  <2> DEFINE x == e * Refill
             y == f * Refill
  <2>4. x \in Nat /\ y \in Nat /\ y <= x /\ Least(Capacity, tokens[ip] + x) <= account[ip]
        /\ Owed(ip)' = Least(Capacity, tokens[ip] + y)
    BY <2>2, <2>3
  <2> HIDE DEF x, y
  <2>5. QED
    BY <2>4, <2>2, <1>0 DEF Least
<1>3. Restored' /\ Bounded'
  BY <1>0 DEF LimiterInv, Restored, Bounded
<1>4. Counted'
  BY <1>0 DEF Counted
<1>5. QED
  BY <1>1, <1>2, <1>3, <1>4 DEF LimiterInv

\* The invariant is kept by every step.
LEMMA LimiterKept == LimiterInv /\ [LimiterNext]_limiterVars => LimiterInv'
<1> SUFFICES ASSUME LimiterInv, [LimiterNext]_limiterVars PROVE LimiterInv'
  OBVIOUS
<1>1. CASE Tick
  BY <1>1, TickKeeps
<1>2. CASE SetBack
  BY <1>2, SetBackKeeps
<1>3. ASSUME NEW ip \in Addresses, Allow(ip) PROVE LimiterInv'
  BY <1>3, AllowKeeps
<1>4. CASE UNCHANGED limiterVars
  BY <1>4 DEF limiterVars, LimiterInv, LimiterTypeOK, Covered, Restored, Bounded, Counted, Owed, Elapsed
<1>5. QED
  BY <1>1, <1>2, <1>3, <1>4 DEF LimiterNext

\* TryConsume: no address ever gets more than a full bucket and the refill of
\* the time that passed, whatever the clock says and whatever was swept.
THEOREM SpecNeverMoreThanRate == LimiterSpec => [](LimiterTypeOK /\ NeverMoreThanRate)
<1>1. LimiterInv => LimiterTypeOK /\ NeverMoreThanRate
  BY DEF LimiterInv, Bounded, NeverMoreThanRate
<1>2. QED
  BY <1>1, InitLimiter, LimiterKept, PTL DEF LimiterSpec

\* Nobody is locked out: who waits for one refill after a call is let in, also
\* when the clock had been set back before that call.
THEOREM SpecNotLockedOut == LimiterSpec => []NotLockedOut
<1>1. LimiterInv => NotLockedOut
  <2> SUFFICES ASSUME LimiterInv, NEW ip \in Addresses, steady[ip],
                      quiet[ip] * Refill >= Cost, Capacity >= Cost
               PROVE Filled(ip) >= Cost
    BY DEF NotLockedOut
  <2>1. quiet[ip] \in Nat /\ now - last[ip] = quiet[ip] /\ tokens[ip] \in 0..Capacity
    BY DEF LimiterInv, LimiterTypeOK, Counted
  <2>2. Elapsed(ip) = quiet[ip]
    BY <2>1 DEF Elapsed, Greatest, LimiterInv, LimiterTypeOK
  <2>3. Refill \in Nat /\ Capacity \in Nat /\ Cost \in Nat
    BY LimiterAssumption
  <2>4. quiet[ip] * Refill \in Nat
    BY <2>1, <2>3
  <2>5. CASE ip \in Kept
    <3>1. Filled(ip) = Least(Capacity, tokens[ip] + quiet[ip] * Refill)
      BY <2>5, <2>2 DEF Filled
    <3>2. QED
      BY <3>1, <2>1, <2>3, <2>4 DEF Least
  <2>6. CASE ip \notin Kept
    BY <2>6 DEF Filled
  <2>7. QED
    BY <2>5, <2>6
<1>2. QED
  BY <1>1, InitLimiter, LimiterKept, PTL DEF LimiterSpec

\* Both together, as the model checker checks them.
THEOREM SpecLimiterJust == LimiterSpec => []LimiterJust
<1>1. NeverMoreThanRate /\ NotLockedOut => LimiterJust
  BY DEF LimiterJust
<1>2. QED
  BY <1>1, SpecNeverMoreThanRate, SpecNotLockedOut, PTL
-----------------------------------------------------------------------------
(* The sockets of a room: any number of them, with any number of frames, and  *)
(* with or without a heartbeat.                                               *)

\* One ticket for each time a socket was counted and not yet taken back.
Tickets == {t \in Sockets \X (1 .. MaxFrames) : t[2] <= handlers[t[1]]}

\* A snapshot awaited or a registration stands for a frame; only a socket that
\* is there is in the set of the room, with a handler that will take it out; one
\* that has not connected has sent nothing; the store has counted the tickets.
Framed  == \A s \in Sockets : loads[s] + handlers[s] <= frames[s]
Held    == \A s \in Sockets : /\ s \in sockets <=> handlers[s] > 0
                              /\ s \in sockets => s \in Clients
Unheard == \A s \in Sockets : ready[s] = "none" => frames[s] = 0 /\ ~authed[s]
CountIsTickets == connections = Cardinality(Tickets)
SocketInv ==
  SocketTypeOK /\ Framed /\ Held /\ Unheard /\ CountIsTickets /\ NoMissedRevision

\* There are finitely many tickets.
LEMMA TicketsFinite == IsFiniteSet(Tickets) /\ Cardinality(Tickets) \in Nat
<1>1. IsFiniteSet(Sockets) /\ IsFiniteSet(1 .. MaxFrames)
  BY FS_Interval, SocketAssumption
<1>2. IsFiniteSet(Sockets \X (1 .. MaxFrames))
  BY <1>1, FS_Product
<1>3. IsFiniteSet(Tickets)
  BY <1>2, FS_Subset DEF Tickets
<1> QED
  BY <1>3, FS_CardinalityType

\* Registering a socket once more adds one ticket.
LEMMA OneTicketMore ==
  ASSUME SocketTypeOK, NEW s \in Sockets, handlers[s] < MaxFrames,
         handlers' = [handlers EXCEPT ![s] = @ + 1]
  PROVE  Cardinality(Tickets') = Cardinality(Tickets) + 1
<1>1. handlers \in [Sockets -> 0 .. MaxFrames] /\ MaxFrames \in Nat
  BY SocketAssumption DEF SocketTypeOK
<1>2. handlers[s] + 1 \in 1 .. MaxFrames
  BY <1>1
<1>3. Tickets' = Tickets \cup {<<s, handlers[s] + 1>>}
  <2>1. ASSUME NEW t \in Sockets \X (1 .. MaxFrames)
        PROVE  t[2] <= handlers'[t[1]] <=> t[2] <= handlers[t[1]] \/ t = <<s, handlers[s] + 1>>
    <3>1. PICK u \in Sockets, i \in 1 .. MaxFrames : t = <<u, i>>
      OBVIOUS
    <3>2. i <= handlers'[u] <=> i <= handlers[u] \/ (u = s /\ i = handlers[s] + 1)
      BY <1>1
    <3> QED
      BY <3>1, <3>2
  <2> QED
    BY <1>2, <2>1 DEF Tickets
<1>4. <<s, handlers[s] + 1>> \notin Tickets
  BY <1>1 DEF Tickets
<1> QED
  BY <1>3, <1>4, TicketsFinite, FS_AddElement

\* The handlers of a socket that closes take back exactly its own tickets.
LEMMA TicketsTakenBack ==
  ASSUME SocketTypeOK, NEW s \in Sockets,
         handlers' = [handlers EXCEPT ![s] = 0]
  PROVE  /\ handlers[s] <= Cardinality(Tickets)
         /\ Cardinality(Tickets') = Cardinality(Tickets) - handlers[s]
<1>1. handlers \in [Sockets -> 0 .. MaxFrames] /\ MaxFrames \in Nat
  BY SocketAssumption DEF SocketTypeOK
<1> DEFINE mine == {t \in Tickets : t[1] = s}
<1>2. Tickets' = Tickets \ mine
  <2>1. ASSUME NEW t \in Sockets \X (1 .. MaxFrames)
        PROVE  t[2] <= handlers'[t[1]] <=> t[2] <= handlers[t[1]] /\ t[1] # s
    <3>1. PICK u \in Sockets, i \in 1 .. MaxFrames : t = <<u, i>>
      OBVIOUS
    <3>2. i <= handlers'[u] <=> i <= handlers[u] /\ u # s
      BY <1>1
    <3> QED
      BY <3>1, <3>2
  <2> QED
    BY <2>1 DEF Tickets
<1>3. IsFiniteSet(mine) /\ Cardinality(mine) = handlers[s]
  <2> DEFINE f == [i \in 1 .. handlers[s] |-> <<s, i>>]
  <2>1. IsFiniteSet(1 .. handlers[s]) /\ Cardinality(1 .. handlers[s]) = handlers[s]
    BY <1>1, FS_Interval
  <2>2. f \in Bijection(1 .. handlers[s], mine)
    <3>1. \A i \in 1 .. handlers[s] : f[i] \in mine
      BY <1>1 DEF Tickets
    <3>2. \A i, j \in 1 .. handlers[s] : f[i] = f[j] => i = j
      OBVIOUS
    <3>3. \A t \in mine : \E i \in 1 .. handlers[s] : f[i] = t
      <4> SUFFICES ASSUME NEW t \in mine PROVE \E i \in 1 .. handlers[s] : f[i] = t
        OBVIOUS
      <4>1. PICK u \in Sockets, i \in 1 .. MaxFrames : t = <<u, i>>
        BY DEF Tickets
      <4>2. u = s /\ i \in 1 .. handlers[s]
        BY <1>1, <4>1 DEF Tickets
      <4> QED
        BY <4>1, <4>2
    <3>4. f \in [1 .. handlers[s] -> mine]
      BY <3>1
    <3> HIDE DEF f
    <3> QED
      BY <3>2, <3>3, <3>4, Fun_IsBij
  <2> QED
    BY <2>1, <2>2, FS_Bijection DEF ExistsBijection
<1>4. /\ IsFiniteSet(Tickets) /\ mine \subseteq Tickets
      /\ Cardinality(mine) <= Cardinality(Tickets)
  BY TicketsFinite, FS_Subset
<1>5. Cardinality(Tickets \ mine) = Cardinality(Tickets) - Cardinality(Tickets \cap mine)
  BY <1>4, FS_Difference
<1>6. Tickets \cap mine = mine
  OBVIOUS
<1> QED
  BY <1>2, <1>3, <1>4, <1>5, <1>6

LEMMA InitSockets == SocketInit => SocketInv
<1> SUFFICES ASSUME SocketInit PROVE SocketInv
  OBVIOUS
<1>1. SocketTypeOK
  BY SocketAssumption DEF SocketInit, SocketTypeOK
<1>2. Framed /\ Held /\ Unheard /\ NoMissedRevision
  BY DEF SocketInit, Framed, Held, Unheard, NoMissedRevision
<1>3. Tickets = {}
  BY DEF SocketInit, Tickets
<1>4. CountIsTickets
  BY <1>3, FS_EmptySet DEF CountIsTickets, SocketInit
<1> QED
  BY <1>1, <1>2, <1>4 DEF SocketInv

\* A step that counts nobody and takes nobody back leaves the tickets alone.
LEMMA SameTickets ==
  ASSUME CountIsTickets, UNCHANGED <<handlers, connections>>
  PROVE  CountIsTickets'
<1>1. Tickets' = Tickets
  BY DEF Tickets
<1> QED
  BY <1>1 DEF CountIsTickets

LEMMA ConnectKept ==
  ASSUME SocketInv, NEW s \in Sockets, Connect(s)
  PROVE  SocketInv'
<1> USE DEF Connect
<1>1. SocketTypeOK'
  BY DEF SocketInv, SocketTypeOK
<1>2. Framed' /\ Unheard'
  BY DEF SocketInv, Framed, Unheard, SocketTypeOK
<1>3. Held'
  BY DEF SocketInv, Held, Clients, SocketTypeOK
<1>4. NoMissedRevision'
  BY DEF SocketInv, NoMissedRevision, Unheard, SocketTypeOK
<1>5. CountIsTickets'
  BY SameTickets DEF SocketInv
<1> QED
  BY <1>1, <1>2, <1>3, <1>4, <1>5 DEF SocketInv

LEMMA AuthTimeoutKept ==
  ASSUME SocketInv, NEW s \in Sockets, AuthTimeout(s)
  PROVE  SocketInv'
<1> USE DEF AuthTimeout, Shut
<1>1. SocketTypeOK'
  BY DEF SocketInv, SocketTypeOK
<1>2. Framed' /\ Unheard'
  BY DEF SocketInv, Framed, Unheard, SocketTypeOK
<1>3. Held'
  BY DEF SocketInv, Held, Clients, SocketTypeOK
<1>4. NoMissedRevision'
  BY DEF SocketInv, NoMissedRevision, SocketTypeOK
<1>5. CountIsTickets'
  BY SameTickets DEF SocketInv
<1> QED
  BY <1>1, <1>2, <1>3, <1>4, <1>5 DEF SocketInv

LEMMA AuthFrameKept ==
  ASSUME SocketInv, NEW s \in Sockets, AuthFrame(s)
  PROVE  SocketInv'
<1> USE DEF AuthFrame, Shut
<1>0. loads[s] + 1 <= frames[s] + 1 /\ frames[s] + 1 \in 0 .. MaxFrames /\ loads[s] + 1 \in 0 .. MaxFrames
  BY SocketAssumption DEF SocketInv, SocketTypeOK, Framed
<1>1. SocketTypeOK'
  BY <1>0 DEF SocketInv, SocketTypeOK
<1>2. Framed'
  BY <1>0 DEF SocketInv, Framed, SocketTypeOK
<1>3. Held'
  BY DEF SocketInv, Held, Clients, SocketTypeOK
<1>4. NoMissedRevision' /\ Unheard'
  BY DEF SocketInv, NoMissedRevision, Unheard, Clients, SocketTypeOK
<1>5. CountIsTickets'
  BY SameTickets DEF SocketInv
<1> QED
  BY <1>1, <1>2, <1>3, <1>4, <1>5 DEF SocketInv

\* A token is good while its socket is open: the socket is counted.
LEMMA AuthAcceptedKept ==
  ASSUME SocketInv, NEW s \in Sockets, AuthAccepted(s)
  PROVE  SocketInv'
<1> USE DEF AuthAccepted, Register
<1>0. /\ loads[s] \in 1 .. MaxFrames /\ handlers[s] < MaxFrames
      /\ loads[s] + handlers[s] <= frames[s] /\ frames[s] \in 1 .. MaxFrames /\ ready[s] # "none"
  BY SocketAssumption DEF SocketInv, SocketTypeOK, Framed, Unheard
<1>1. SocketTypeOK'
  BY <1>0, SocketAssumption DEF SocketInv, SocketTypeOK
<1>2. Framed' /\ Unheard'
  BY <1>0 DEF SocketInv, Framed, Unheard, SocketTypeOK
<1>3. Held'
  BY <1>0 DEF SocketInv, Held, Clients, SocketTypeOK
<1>4. NoMissedRevision'
  <2> SUFFICES ASSUME NEW u \in Sockets, ready'[u] = "open", authed'[u]
               PROVE  u \in sockets' /\ sent'[u] = revision'
    BY DEF NoMissedRevision
  <2>1. CASE u = s
    BY <2>1 DEF SocketInv, SocketTypeOK
  <2>2. CASE u # s
    BY <2>2 DEF SocketInv, SocketTypeOK, NoMissedRevision
  <2> QED
    BY <2>1, <2>2
<1>5. CountIsTickets'
  <2>1. CASE ready[s] # "open"
    BY <2>1, SameTickets DEF SocketInv
  <2>2. CASE ready[s] = "open"
    <3>1. Cardinality(Tickets') = Cardinality(Tickets) + 1
      BY <2>2, <1>0, OneTicketMore DEF SocketInv
    <3> QED
      BY <2>2, <3>1 DEF SocketInv, CountIsTickets
  <2> QED
    BY <2>1, <2>2
<1> QED
  BY <1>1, <1>2, <1>3, <1>4, <1>5 DEF SocketInv

LEMMA AuthRefusedKept ==
  ASSUME SocketInv, NEW s \in Sockets, AuthRefused(s)
  PROVE  SocketInv'
<1> USE DEF AuthRefused, Shut
<1>0. loads[s] - 1 \in 0 .. MaxFrames
  BY SocketAssumption DEF SocketInv, SocketTypeOK
<1>1. SocketTypeOK'
  BY <1>0 DEF SocketInv, SocketTypeOK
<1>2. Framed' /\ Unheard'
  BY DEF SocketInv, Framed, Unheard, SocketTypeOK
<1>3. Held'
  BY DEF SocketInv, Held, Clients, SocketTypeOK
<1>4. NoMissedRevision'
  BY DEF SocketInv, NoMissedRevision, SocketTypeOK
<1>5. CountIsTickets'
  BY SameTickets DEF SocketInv
<1> QED
  BY <1>1, <1>2, <1>3, <1>4, <1>5 DEF SocketInv

LEMMA NotifyKept ==
  ASSUME SocketInv, Notify
  PROVE  SocketInv'
<1> USE DEF Notify
<1>1. SocketTypeOK'
  BY SocketAssumption DEF SocketInv, SocketTypeOK
<1>2. Framed' /\ Unheard'
  BY DEF SocketInv, Framed, Unheard
<1>3. Held'
  BY DEF SocketInv, Held, Clients
<1>4. NoMissedRevision'
  <2> SUFFICES ASSUME NEW u \in Sockets, ready'[u] = "open", authed'[u]
               PROVE  u \in sockets' /\ sent'[u] = revision'
    BY DEF NoMissedRevision
  <2>1. u \in sockets /\ ready[u] = "open"
    BY DEF SocketInv, NoMissedRevision
  <2> QED
    BY <2>1
<1>5. CountIsTickets'
  BY SameTickets DEF SocketInv
<1> QED
  BY <1>1, <1>2, <1>3, <1>4, <1>5 DEF SocketInv

\* A socket ends, by its peer or by the heartbeat: what it was counted for is
\* taken back, and no more.
LEMMA CloseKept ==
  ASSUME SocketInv, NEW s \in Sockets, s \in Clients, Close(s),
         UNCHANGED <<authed, frames, loads, revision, sent, peer, alive>>
  PROVE  SocketInv'
<1> USE DEF Close
<1>0. /\ handlers[s] <= connections
      /\ Cardinality(Tickets') = connections - handlers[s]
      /\ handlers[s] \in Nat /\ connections \in Nat
  <2>1. handlers[s] <= Cardinality(Tickets) /\ Cardinality(Tickets') = Cardinality(Tickets) - handlers[s]
    BY TicketsTakenBack DEF SocketInv
  <2>2. connections = Cardinality(Tickets)
    BY DEF SocketInv, CountIsTickets
  <2>3. handlers[s] \in Nat /\ connections \in Nat
    BY SocketAssumption DEF SocketInv, SocketTypeOK
  <2> QED
    BY ONLY <2>1, <2>2, <2>3
<1>1. SocketTypeOK'
  <2>1. connections' \in Nat
    <3>1. connections' = IF handlers[s] >= connections THEN 0 ELSE connections - handlers[s]
      OBVIOUS
    <3> HIDE DEF Close
    <3> QED
      BY <1>0, <3>1
  <2>0. 0 \in 0 .. MaxFrames /\ sockets' \subseteq Sockets
    BY SocketAssumption DEF SocketInv, SocketTypeOK
  <2>2. /\ ready' \in [Sockets -> {"none", "open", "closing", "closed"}]
        /\ timer' \in [Sockets -> BOOLEAN] /\ handlers' \in [Sockets -> 0 .. MaxFrames]
    BY <2>0 DEF SocketInv, SocketTypeOK
  <2> HIDE DEF Close
  <2> QED
    BY <2>0, <2>1, <2>2 DEF SocketInv, SocketTypeOK
<1>2. Framed' /\ Unheard'
  BY DEF SocketInv, Framed, Unheard, SocketTypeOK, Clients
<1>3. Held'
  BY DEF SocketInv, Held, Clients, SocketTypeOK
<1>4. NoMissedRevision'
  BY DEF SocketInv, NoMissedRevision, SocketTypeOK
<1>5. CountIsTickets'
  BY <1>0 DEF CountIsTickets
<1> QED
  BY <1>1, <1>2, <1>3, <1>4, <1>5 DEF SocketInv

\* Pings and pongs, and a peer that dies, touch nothing the room counts.
LEMMA HeartbeatKept ==
  ASSUME SocketInv, NEW s \in Sockets, PeerDies(s) \/ Ping(s) \/ Pong(s)
  PROVE  SocketInv'
<1>0. UNCHANGED <<ready, timer, authed, frames, loads, handlers, sockets, connections, revision, sent>>
  BY DEF PeerDies, Ping, Pong
<1>1. SocketTypeOK'
  BY <1>0 DEF SocketInv, SocketTypeOK, PeerDies, Ping, Pong
<1>2. Framed' /\ Unheard' /\ Held' /\ NoMissedRevision'
  BY <1>0 DEF SocketInv, Framed, Unheard, Held, Clients, NoMissedRevision
<1>3. CountIsTickets'
  BY <1>0, SameTickets DEF SocketInv
<1> QED
  BY <1>1, <1>2, <1>3 DEF SocketInv

LEMMA SocketsKept == SocketInv /\ [SocketNext]_socketVars => SocketInv'
<1> SUFFICES ASSUME SocketInv, [SocketNext]_socketVars PROVE SocketInv'
  OBVIOUS
<1>1. CASE Notify
  BY <1>1, NotifyKept
<1>2. ASSUME NEW s \in Sockets,
             \/ Connect(s) \/ AuthTimeout(s) \/ AuthFrame(s) \/ Answered(s)
             \/ Closed(s) \/ PeerDies(s) \/ Ping(s) \/ Terminate(s) \/ Pong(s)
      PROVE  SocketInv'
  <2>1. CASE Connect(s)
    BY <2>1, ConnectKept
  <2>2. CASE AuthTimeout(s)
    BY <2>2, AuthTimeoutKept
  <2>3. CASE AuthFrame(s)
    BY <2>3, AuthFrameKept
  <2>4. CASE Answered(s)
    BY <2>4, AuthAcceptedKept, AuthRefusedKept DEF Answered
  <2>5. CASE Closed(s)
    BY <2>5, CloseKept DEF Closed
  <2>6. CASE Terminate(s)
    BY <2>6, CloseKept DEF Terminate, Watched
  <2>7. CASE PeerDies(s) \/ Ping(s) \/ Pong(s)
    BY <2>7, HeartbeatKept
  <2> QED
    BY <1>2, <2>1, <2>2, <2>3, <2>4, <2>5, <2>6, <2>7
<1>3. CASE UNCHANGED socketVars
  <2>1. SocketTypeOK' /\ Framed' /\ Unheard' /\ Held' /\ NoMissedRevision'
    BY <1>3 DEF socketVars, SocketInv, SocketTypeOK, Framed, Unheard, Held, Clients, NoMissedRevision
  <2>2. CountIsTickets'
    BY <1>3, SameTickets DEF socketVars, SocketInv
  <2> QED
    BY <2>1, <2>2 DEF SocketInv
<1> QED
  BY <1>1, <1>2, <1>3 DEF SocketNext

\* The room is counted as in use exactly while somebody is in its set, because
\* the tickets run out only when the last socket has taken back its own.
LEMMA CountIsRight == SocketInv => CountsWhoIsThere
<1> SUFFICES ASSUME SocketInv PROVE CountsWhoIsThere
  OBVIOUS
<1>1. Tickets # {} <=> sockets # {}
  <2>1. ASSUME NEW t \in Tickets PROVE sockets # {}
    <3>1. PICK u \in Sockets, i \in 1 .. MaxFrames : t = <<u, i>>
      BY DEF Tickets
    <3>2. handlers[u] > 0
      BY <3>1 DEF Tickets, SocketInv, SocketTypeOK
    <3> QED
      BY <3>2 DEF SocketInv, Held
  <2>2. ASSUME NEW s \in sockets PROVE Tickets # {}
    <3>1. s \in Sockets /\ handlers[s] \in 0 .. MaxFrames /\ handlers[s] > 0
      BY DEF SocketInv, Held, SocketTypeOK
    <3>2. <<s, 1>> \in Tickets
      BY <3>1, SocketAssumption DEF Tickets
    <3> QED
      BY <3>2
  <2> QED
    BY <2>1, <2>2
<1>2. connections > 0 <=> Tickets # {}
  BY TicketsFinite, FS_EmptySet DEF SocketInv, CountIsTickets
<1> QED
  BY <1>1, <1>2 DEF CountsWhoIsThere

\* However often a token is checked at once, however sockets close, die or time
\* out meanwhile: the set of the room holds nobody who is gone, the store's count
\* of the room is right, and nobody misses a revision.
THEOREM SocketsAlwaysSound == SocketSpec => []SocketsSound
<1>1. SocketInv => SocketsSound
  BY CountIsRight DEF SocketInv, SocketsSound, Held, NoGhostSocket, SocketTypeOK
<1> QED
  BY <1>1, InitSockets, SocketsKept, PTL DEF SocketSpec
-----------------------------------------------------------------------------
(* The way down: any connections, web sockets and signals, any delays in the  *)
(* order of index.ts.                                                         *)

\* /healthz tells of the first signal; while the load balancer still sends
\* clients it has not probed since; a call whose deadline has passed is done; and
\* the pool ends, but for a deadline, behind a door that is closed and with no
\* connection left that could carry another request.
HealthTold  == healthy <=> called = {}
NotYetAsked == \A i \in called : routed => clock - since[i] <= probed
ExpiredDone == \A i \in expired : step[i] = "done"
PoolLast    == pool \in {"ending", "ended"} /\ expired = {} =>
                 ~listening /\ \A c \in Conns : conn[c] \in {"none", "gone"}
ShutdownInv ==
  /\ ShutdownTypeOK /\ HealthTold /\ NotYetAsked /\ NobodyRefused
  /\ ExpiredDone /\ ResolvesInTime /\ PoolLast /\ OnlyDeadlineCuts

LEMMA InitShutdown == ShutdownInit => ShutdownInv
<1> SUFFICES ASSUME ShutdownInit PROVE ShutdownInv
  OBVIOUS
<1>1. ShutdownTypeOK
  <2>1. 0 \in 0 .. MaxClock /\ 0 \in 0 .. Probe
    BY ShutdownAssumption
  <2>2. pool \in {"none", "open"} /\ web \in [Webs -> {"open", "closing", "gone"}]
    BY DEF ShutdownInit
  <2> QED
    BY <2>1, <2>2 DEF ShutdownInit, ShutdownTypeOK
<1> QED
  BY <1>1 DEF ShutdownInit, ShutdownInv, HealthTold, NotYetAsked, NobodyRefused, ExpiredDone,
              ResolvesInTime, PoolLast, OnlyDeadlineCuts

\* Once the drain of a signal is over, a probe has found the server unhealthy.
LEMMA AskedByThen ==
  ASSUME ShutdownInv, NEW i \in called, clock >= since[i] + Drain
  PROVE  ~routed
<1> SUFFICES ASSUME routed PROVE FALSE
  OBVIOUS
<1>1. clock \in Nat /\ since[i] \in Nat /\ probed \in 0 .. Probe
  BY ShutdownAssumption DEF ShutdownInv, ShutdownTypeOK
<1>2. clock - since[i] <= probed
  BY DEF ShutdownInv, NotYetAsked
<1> QED
  BY <1>1, <1>2, ShutdownAssumption

LEMMA SignalKept ==
  ASSUME ShutdownInv, NEW i \in Signals, Signal(i)
  PROVE  ShutdownInv'
<1> USE DEF Signal, net, balancer
<1>0. clock \in 0 .. MaxClock /\ probed \in 0 .. Probe /\ since \in [Signals -> 0 .. MaxClock]
  BY DEF ShutdownInv, ShutdownTypeOK
<1>1. ShutdownTypeOK'
  BY <1>0 DEF ShutdownInv, ShutdownTypeOK
<1>2. HealthTold' /\ NobodyRefused' /\ ExpiredDone' /\ PoolLast' /\ OnlyDeadlineCuts'
  BY DEF ShutdownInv, HealthTold, NobodyRefused, ExpiredDone, PoolLast, OnlyDeadlineCuts
<1>3. since'[i] = clock /\ \A j \in called : since'[j] = since[j]
  BY <1>0 DEF ShutdownInv, ShutdownTypeOK
<1>4. NotYetAsked'
  BY <1>0, <1>3, ShutdownAssumption DEF ShutdownInv, NotYetAsked
<1>5. ResolvesInTime'
  <2> SUFFICES ASSUME NEW j \in called', clock > since'[j] + Deadline PROVE step[j] = "done"
    BY DEF ResolvesInTime
  <2>1. j # i
    BY <1>0, <1>3, ShutdownAssumption
  <2>2. j \in called /\ since'[j] = since[j]
    BY <2>1, <1>3
  <2> QED
    BY <2>2 DEF ShutdownInv, ResolvesInTime
<1> QED
  BY <1>1, <1>2, <1>4, <1>5 DEF ShutdownInv

LEMMA DrainKept ==
  ASSUME ShutdownInv, NEW i \in Signals, DrainFires(i)
  PROVE  ShutdownInv'
<1> USE DEF DrainFires, StopListening, DrainDue, balancer
<1>1. ShutdownTypeOK'
  BY DEF ShutdownInv, ShutdownTypeOK
<1>2. HealthTold' /\ NotYetAsked' /\ OnlyDeadlineCuts'
  BY DEF ShutdownInv, HealthTold, NotYetAsked, OnlyDeadlineCuts
<1>3. NobodyRefused'
  BY AskedByThen DEF NobodyRefused
<1>4. ExpiredDone' /\ ResolvesInTime'
  BY DEF ShutdownInv, ShutdownTypeOK, ExpiredDone, ResolvesInTime
<1>5. PoolLast'
  BY DEF ShutdownInv, PoolLast
<1> QED
  BY <1>1, <1>2, <1>3, <1>4, <1>5 DEF ShutdownInv

\* The pool and the calls that wait for it: the server is closed before it ends.
LEMMA PoolKept ==
  ASSUME ShutdownInv, PoolEnds \/ \E i \in Signals : HttpClosed(i) \/ PoolHasEnded(i)
  PROVE  ShutdownInv'
<1>0. /\ UNCHANGED <<clock, called, since, expired, healthy, listening, conn, cut, web, routed, probed, exited>>
      /\ \A j \in Signals : step[j] = "done" => step'[j] = "done"
  BY DEF PoolEnds, HttpClosed, PoolHasEnded, net, balancer, ShutdownInv, ShutdownTypeOK
<1>1. ShutdownTypeOK'
  <2>1. step' \in [Signals -> {"drain", "http", "pool", "done"}]
    BY DEF PoolEnds, HttpClosed, PoolHasEnded, ShutdownInv, ShutdownTypeOK
  <2>2. pool' \in {"none", "open", "ending", "ended"}
    BY DEF PoolEnds, HttpClosed, PoolHasEnded, ShutdownInv, ShutdownTypeOK
  <2> QED
    BY <1>0, <2>1, <2>2 DEF ShutdownInv, ShutdownTypeOK
<1>2. HealthTold' /\ NotYetAsked' /\ NobodyRefused' /\ OnlyDeadlineCuts'
  BY <1>0 DEF ShutdownInv, HealthTold, NotYetAsked, NobodyRefused, OnlyDeadlineCuts
<1>3. ExpiredDone' /\ ResolvesInTime'
  BY <1>0 DEF ShutdownInv, ShutdownTypeOK, ExpiredDone, ResolvesInTime
<1>4. PoolLast'
  BY <1>0 DEF ShutdownInv, PoolLast, PoolEnds, HttpClosed, PoolHasEnded, ServerClosed
<1> QED
  BY <1>1, <1>2, <1>3, <1>4 DEF ShutdownInv

LEMMA DeadlineKept ==
  ASSUME ShutdownInv, NEW i \in Signals, DeadlineFires(i)
  PROVE  ShutdownInv'
<1> USE DEF DeadlineFires, DeadlineDue, DeadlineStep, Pending, balancer
<1>1. ShutdownTypeOK'
  BY DEF ShutdownInv, ShutdownTypeOK
<1>2. HealthTold' /\ NotYetAsked' /\ OnlyDeadlineCuts' /\ PoolLast'
  BY DEF ShutdownInv, HealthTold, NotYetAsked, OnlyDeadlineCuts, PoolLast
<1>3. NobodyRefused'
  <2>1. clock \in Nat /\ since[i] \in Nat
    BY ShutdownAssumption DEF ShutdownInv, ShutdownTypeOK
  <2>2. clock >= since[i] + Drain
    BY <2>1, ShutdownAssumption
  <2> QED
    BY <2>2, AskedByThen DEF NobodyRefused
<1>4. ExpiredDone' /\ ResolvesInTime'
  BY DEF ShutdownInv, ShutdownTypeOK, ExpiredDone, ResolvesInTime
<1> QED
  BY <1>1, <1>2, <1>3, <1>4 DEF ShutdownInv

\* Clients ask, are answered and go; nothing of it starts behind the closed door.
LEMMA ClientsKept ==
  ASSUME ShutdownInv,
         \/ \E c \in Conns : Request(c) \/ AnswerRequest(c) \/ HangUp(c)
         \/ \E w \in Webs : WebEnds(w)
  PROVE  ShutdownInv'
<1>0. UNCHANGED <<clock, called, since, step, expired, healthy, listening, cut, pool, routed, probed, exited>>
  BY DEF Request, AnswerRequest, HangUp, WebEnds, balancer
<1>1. ShutdownTypeOK'
  <2>1. conn' \in [Conns -> {"none", "idle", "busy", "gone"}] /\ web' \in [Webs -> {"open", "closing", "gone"}]
    BY DEF Request, AnswerRequest, HangUp, WebEnds, ShutdownInv, ShutdownTypeOK
  <2> QED
    BY <1>0, <2>1 DEF ShutdownInv, ShutdownTypeOK
<1>2. HealthTold' /\ NotYetAsked' /\ NobodyRefused' /\ ExpiredDone' /\ ResolvesInTime' /\ OnlyDeadlineCuts'
  BY <1>0 DEF ShutdownInv, HealthTold, NotYetAsked, NobodyRefused, ExpiredDone, ResolvesInTime, OnlyDeadlineCuts
<1>3. PoolLast'
  <2>1. CASE \E c \in Conns : Request(c) \/ AnswerRequest(c) \/ HangUp(c)
    BY <1>0, <2>1 DEF ShutdownInv, ShutdownTypeOK, PoolLast, Request, AnswerRequest, HangUp
  <2>2. CASE \E w \in Webs : WebEnds(w)
    BY <1>0, <2>2 DEF ShutdownInv, PoolLast, WebEnds
  <2> QED
    BY <2>1, <2>2
<1> QED
  BY <1>1, <1>2, <1>3 DEF ShutdownInv

LEMMA ProbeKept ==
  ASSUME ShutdownInv, ProbeHealth
  PROVE  ShutdownInv'
<1> USE DEF ProbeHealth, net
<1>1. ShutdownTypeOK'
  BY ShutdownAssumption DEF ShutdownInv, ShutdownTypeOK
<1>2. HealthTold' /\ NobodyRefused' /\ ExpiredDone' /\ ResolvesInTime' /\ PoolLast' /\ OnlyDeadlineCuts'
  BY DEF ShutdownInv, HealthTold, NobodyRefused, ExpiredDone, ResolvesInTime, PoolLast, OnlyDeadlineCuts
<1>3. NotYetAsked'
  BY DEF ShutdownInv, HealthTold, NotYetAsked
<1> QED
  BY <1>1, <1>2, <1>3 DEF ShutdownInv

LEMMA ExitKept ==
  ASSUME ShutdownInv, Exit
  PROVE  ShutdownInv'
<1>1. exited' /\ UNCHANGED <<clock, called, since, step, expired, healthy, listening, conn, cut, web, pool, routed, probed>>
  BY DEF Exit, net, balancer
<1>2. ShutdownTypeOK'
  BY <1>1 DEF Exit, ShutdownInv, ShutdownTypeOK
<1> QED
  BY <1>1, <1>2 DEF ShutdownInv, HealthTold, NotYetAsked, NobodyRefused, ExpiredDone, ResolvesInTime, PoolLast, OnlyDeadlineCuts

\* Time passes no deadline that has not fired, and no probe that is due.
LEMMA ClockKept ==
  ASSUME ShutdownInv, ClockTick
  PROVE  ShutdownInv'
<1> USE DEF ClockTick, net
<1>0. /\ clock \in 0 .. MaxClock /\ probed \in 0 .. Probe
      /\ since \in [Signals -> 0 .. MaxClock] /\ called \subseteq Signals
  BY DEF ShutdownInv, ShutdownTypeOK
<1>1. ShutdownTypeOK'
  BY <1>0, ShutdownAssumption DEF ShutdownInv, ShutdownTypeOK
<1>2. HealthTold' /\ NobodyRefused' /\ ExpiredDone' /\ PoolLast' /\ OnlyDeadlineCuts'
  BY DEF ShutdownInv, HealthTold, NobodyRefused, ExpiredDone, PoolLast, OnlyDeadlineCuts
<1>3. NotYetAsked'
  BY <1>0, ShutdownAssumption DEF ShutdownInv, NotYetAsked
<1>4. ResolvesInTime'
  <2> SUFFICES ASSUME NEW i \in called, clock + 1 > since[i] + Deadline PROVE step[i] = "done"
    BY DEF ResolvesInTime
  <2>1. clock >= since[i] + Deadline /\ ~DeadlineDue(i)
    BY <1>0, ShutdownAssumption
  <2> QED
    BY <2>1 DEF DeadlineDue, Pending, ShutdownInv, ExpiredDone
<1> QED
  BY <1>1, <1>2, <1>3, <1>4 DEF ShutdownInv

LEMMA ShutdownKept == ShutdownInv /\ [ShutdownNext]_shutdownVars => ShutdownInv'
<1> SUFFICES ASSUME ShutdownInv, [ShutdownNext]_shutdownVars PROVE ShutdownInv'
  OBVIOUS
<1>1. CASE \E i \in Signals : Signal(i)
  BY <1>1, SignalKept
<1>2. CASE PoolEnds
  BY <1>2, PoolKept
<1>3. CASE \/ \E c \in Conns : Request(c) \/ AnswerRequest(c) \/ HangUp(c)
           \/ \E w \in Webs : WebEnds(w)
  BY <1>3, ClientsKept
<1>4. CASE ShutdownTimers
  BY <1>4, ClockKept, ProbeKept, ExitKept, DrainKept, PoolKept, DeadlineKept DEF ShutdownTimers
<1>5. CASE UNCHANGED shutdownVars
  <2>1. ShutdownTypeOK'
    BY <1>5 DEF shutdownVars, ShutdownInv, ShutdownTypeOK
  <2> QED
    BY <1>5, <2>1 DEF shutdownVars, ShutdownInv, HealthTold, NotYetAsked, NobodyRefused,
                      ExpiredDone, ResolvesInTime, PoolLast, OnlyDeadlineCuts
<1> QED
  BY <1>1, <1>2, <1>3, <1>4, <1>5 DEF ShutdownNext

\* Whenever the signals come and whoever hangs on: nobody is sent to a server
\* that refuses, no request is cut before a deadline, the pool outlives the
\* handlers, and close() has resolved when its deadline is over.
THEOREM ShutdownAlwaysSound == ShutdownSpec => []ShutdownSound
<1>1. ShutdownInv => ShutdownSound
  <2>1. PoolLast => PoolOutlivesHandlers
    BY DEF PoolLast, PoolOutlivesHandlers
  <2> QED
    BY <2>1 DEF ShutdownInv, ShutdownSound
<1> QED
  BY <1>1, InitShutdown, ShutdownKept, PTL DEF ShutdownSpec

-----------------------------------------------------------------------------
(* Every request, through whichever router, for any number of requests of any *)
(* shape: the checks that were passed are remembered by the place where it     *)
(* stands, and what it paid by the credit that is left.                        *)

Statuses == {200, 204, 400, 401, 403, 404, 405, 409, 413, 415, 429, 500, 503}
Goods == IF front = "files" THEN {0, 200} ELSE {0, 200, 400}    \* the answers after an effect

\* A request is not there before it comes, nor its body before it is listened for,
\* nor its answer before the end.
Unanswered(c) ==
  /\ stage[c] = "idle" <=> req[c] = NoRequest
  /\ stage[c] \in {"idle", "route", "api"} => got[c] = 0
  /\ stage[c] # "answered" => answer[c] = 0

\* The ways a request takes in each deployment.
OnItsWay(c) ==
  /\ front = "files" => stage[c] # "inner" /\ (stage[c] \in {"api", "body", "store"} => req[c].mount # "site")
  /\ front = "node" => stage[c] # "api" /\ (stage[c] \in {"inner", "body", "store"} => req[c].mount = "crew")
  /\ front = "edge" => stage[c] \notin {"route", "api", "body"}

\* What was checked of a request that waits for its body or for the store.
Checked(c) ==
  LET r == req[c] IN
  /\ stage[c] = "body" => got[c] <= NodeLimit
  /\ front = "files" /\ stage[c] \in {"body", "store"} =>
       /\ r.mount # "crew" /\ r.op \in RoomOps \cup {"rooms", "join"} /\ r.method = Verb(r)
       /\ r.op \in RoomOps => "absent" \notin r.token
  /\ front = "files" /\ stage[c] = "store" /\ r.op \in {"rooms", "join", "commands"} =>
       r.form = "ok" /\ r.size \in 1..NodeLimit
  /\ front # "files" /\ stage[c] = "store" => Refusal(r) = 0 /\ r.op # "capabilities"

\* What has an effect is about to be answered well, or was, and was limited.
Effective(c) ==
  effect[c] # "none" =>
    /\ stage[c] \in {"reply", "answered"} /\ answer[c] \in Goods
    /\ front # "edge" /\ req[c].op \in {"rooms", "join"} => Limited(req[c])

RequestInv(c) == Unanswered(c) /\ OnItsWay(c) /\ Checked(c) /\ Effective(c) /\ Proven(c)

\* The requests that took a token from the limiter.
Charged == {c \in Requests : stage[c] \notin {"idle", "route"} /\ Limited(req[c]) /\ answer[c] # 429}
PaidUp == front # "edge" => Cardinality(Charged) <= Burst + refills - credit

HttpInv == HttpTypeOK /\ (\A c \in Requests : RequestInv(c)) /\ PaidUp

\* The first check that is not met decides: none, or one of the statuses.
LEMMA FirstFails ==
  ASSUME NEW checks, DOMAIN checks \subseteq Nat
  PROVE  \/ First(checks) = 0 /\ \A i \in DOMAIN checks : checks[i] = 0
         \/ \E j \in DOMAIN checks : First(checks) = checks[j] /\ checks[j] # 0
<1> DEFINE failed == {i \in DOMAIN checks : checks[i] # 0}
<1>1. CASE failed = {}
  BY <1>1 DEF First
<1>2. CASE failed # {}
  <2>1. failed \subseteq Nat
    OBVIOUS
  <2>2. PICK j \in failed : \A i \in failed : ~(<<i, j>> \in OpToRel(<, Nat))
    <3> HIDE DEF failed
    <3> QED
      BY <1>2, <2>1, NatLessThanWellFounded, WFMin
  <2>3. \A i \in failed : j <= i
    <3> SUFFICES ASSUME NEW i \in failed PROVE j <= i
      OBVIOUS
    <3>1. i \in Nat /\ j \in Nat
      BY <2>1
    <3>2. ~(i < j)
      BY <2>2, <3>1 DEF OpToRel
    <3> QED
      BY <3>1, <3>2
  <2> DEFINE k == CHOOSE x \in failed : \A i \in failed : x <= i
  <2>4. k \in failed
    BY <2>2, <2>3
  <2>5. First(checks) = checks[k]
    BY <1>2 DEF First
  <2> HIDE DEF k
  <2> QED
    BY <2>4, <2>5
<1> QED
  BY <1>1, <1>2

\* So the status is one of those of the checks, and 0 when none fails.
LEMMA FirstStatus ==
  ASSUME NEW checks, DOMAIN checks \subseteq Nat, NEW S, 0 \in S, \A i \in DOMAIN checks : checks[i] \in S
  PROVE  First(checks) \in S /\ (First(checks) = 0 => \A i \in DOMAIN checks : checks[i] = 0)
  BY FirstFails

\* What handleApi has checked when it goes on, and its answers.
LEMMA ApiChecks ==
  ASSUME NEW r
  PROVE  /\ ApiRefusal(r) \in {0, 401, 404}
         /\ ApiRefusal(r) = 0 =>
              /\ r.mount # "crew" /\ r.op \in RoomOps \cup {"capabilities", "rooms", "join"} /\ r.method = Verb(r)
              /\ r.op \in RoomOps => "absent" \notin r.token
<1> DEFINE checks == <<
      When(r.mount = "crew" \/ r.op \notin RoomOps \cup {"capabilities", "rooms", "join"}, 404),
      When(r.op \notin RoomOps /\ r.method # Verb(r), 404), When(r.op \in RoomOps /\ "absent" \in r.token, 401),
      When(r.op \in RoomOps /\ r.method # Verb(r), 404) >>
<1>1. First(checks) = ApiRefusal(r)
  BY DEF ApiRefusal
<1>2. /\ DOMAIN checks = 1 .. 4
      /\ checks[1] = When(r.mount = "crew" \/ r.op \notin RoomOps \cup {"capabilities", "rooms", "join"}, 404)
      /\ checks[2] = When(r.op \notin RoomOps /\ r.method # Verb(r), 404)
      /\ checks[3] = When(r.op \in RoomOps /\ "absent" \in r.token, 401)
      /\ checks[4] = When(r.op \in RoomOps /\ r.method # Verb(r), 404)
  OBVIOUS
<1> HIDE DEF checks
<1>3. \A i \in 1 .. 4 : checks[i] \in {0, 401, 404}
  BY <1>2 DEF When
<1>4. ApiRefusal(r) \in {0, 401, 404} /\ (ApiRefusal(r) = 0 => \A i \in 1 .. 4 : checks[i] = 0)
  <2> DEFINE codes == {0, 401, 404}
  <2>1. 0 \in codes
    BY DEF Statuses
  <2>2. DOMAIN checks = 1 .. 4
    BY <1>2
  <2> HIDE DEF codes
  <2>3. \A i \in DOMAIN checks : checks[i] \in codes
    BY ONLY <2>2, <1>3 DEF codes
  <2>4. DOMAIN checks \subseteq Nat
    BY ONLY <2>2
  <2>5. First(checks) \in codes /\ (First(checks) = 0 => \A i \in 1 .. 4 : checks[i] = 0)
    BY ONLY <2>1, <2>2, <2>3, <2>4, FirstStatus
  <2> QED
    BY <1>1, <2>5 DEF codes
<1>5. ASSUME ApiRefusal(r) = 0
      PROVE  checks[1] = 0 /\ checks[2] = 0 /\ checks[3] = 0 /\ checks[4] = 0
  BY <1>4, <1>5
<1> QED
  BY <1>2, <1>4, <1>5 DEF When

\* What jsonBody has.
LEMMA BodyChecks ==
  ASSUME NEW r
  PROVE  /\ BodyRefusal(r) \in {0, 400, 413, 415}
         /\ BodyRefusal(r) = 0 => ~(r.size > HandlerLimit) /\ r.size # 0 /\ r.form = "ok"
<1> DEFINE checks == << When(r.type # "json", 415), When(r.size > HandlerLimit, 413),
                        When(r.size = 0 \/ r.form # "ok", 400) >>
<1>1. First(checks) = BodyRefusal(r)
  BY DEF BodyRefusal
<1>2. /\ DOMAIN checks = 1 .. 3
      /\ checks[1] = When(r.type # "json", 415) /\ checks[2] = When(r.size > HandlerLimit, 413)
      /\ checks[3] = When(r.size = 0 \/ r.form # "ok", 400)
  OBVIOUS
<1> HIDE DEF checks
<1>3. \A i \in 1 .. 3 : checks[i] \in {0, 400, 413, 415}
  BY <1>2 DEF When
<1>4. BodyRefusal(r) \in {0, 400, 413, 415} /\ (BodyRefusal(r) = 0 => \A i \in 1 .. 3 : checks[i] = 0)
  <2> DEFINE codes == {0, 400, 413, 415}
  <2>1. 0 \in codes
    BY DEF Statuses
  <2>2. DOMAIN checks = 1 .. 3
    BY <1>2
  <2> HIDE DEF codes
  <2>3. \A i \in DOMAIN checks : checks[i] \in codes
    BY ONLY <2>2, <1>3 DEF codes
  <2>4. DOMAIN checks \subseteq Nat
    BY ONLY <2>2
  <2>5. First(checks) \in codes /\ (First(checks) = 0 => \A i \in 1 .. 3 : checks[i] = 0)
    BY ONLY <2>1, <2>2, <2>3, <2>4, FirstStatus
  <2> QED
    BY <1>1, <2>5 DEF codes
<1>5. ASSUME BodyRefusal(r) = 0
      PROVE  checks[2] = 0 /\ checks[3] = 0
  BY <1>4, <1>5
<1> QED
  BY <1>2, <1>4, <1>5 DEF When

\* What createHandler has.
Guarded(r) ==
  /\ r.origin # "denied" /\ "absent" \notin r.token /\ Authenticated(r.token)
  /\ r.op \in RoomOps \cup {"capabilities", "rooms", "join"}
  /\ r.method = Verb(r)
  /\ r.op \in {"rooms", "join", "commands"} => ~(r.size > HandlerLimit) /\ r.size # 0 /\ r.form = "ok"

LEMMA HandlerChecks ==
  ASSUME NEW r
  PROVE  /\ Refusal(r) \in Statuses \cup {0}
         /\ Refusal(r) = 0 => Guarded(r)
<1> DEFINE checks == <<
      When(r.origin = "denied", 403), When(r.method = "OPTIONS", 204),
      When("absent" \in r.token, 401), When(~Authenticated(r.token), 401),
      When(r.op \in {"capabilities", "rooms"} /\ r.method # Verb(r), 404),
      When(r.op = "badroom" \/ (r.op = "join" /\ r.method # Verb(r)), 400),
      When(r.op \notin RoomOps \cup {"capabilities", "rooms", "join"} \/ r.op = "demo-crew", 404),
      When(r.op \in RoomOps /\ r.method # Verb(r), 405),
      When(r.op \notin {"capabilities", "room", "leave"}, BodyRefusal(r)) >>
<1>1. First(checks) = Refusal(r)
  BY DEF Refusal
<1>2. /\ DOMAIN checks = 1 .. 9
      /\ checks[1] = When(r.origin = "denied", 403) /\ checks[2] = When(r.method = "OPTIONS", 204)
      /\ checks[3] = When("absent" \in r.token, 401) /\ checks[4] = When(~Authenticated(r.token), 401)
      /\ checks[5] = When(r.op \in {"capabilities", "rooms"} /\ r.method # Verb(r), 404)
      /\ checks[6] = When(r.op = "badroom" \/ (r.op = "join" /\ r.method # Verb(r)), 400)
      /\ checks[7] = When(r.op \notin RoomOps \cup {"capabilities", "rooms", "join"} \/ r.op = "demo-crew", 404)
      /\ checks[8] = When(r.op \in RoomOps /\ r.method # Verb(r), 405)
      /\ checks[9] = When(r.op \notin {"capabilities", "room", "leave"}, BodyRefusal(r))
  OBVIOUS
<1> HIDE DEF checks
<1>3. \A i \in 1 .. 9 : checks[i] \in Statuses \cup {0}
  <2>1. BodyRefusal(r) \in Statuses \cup {0}
    BY BodyChecks DEF Statuses
  <2> QED
    BY <1>2, <2>1 DEF When, Statuses
<1>4. Refusal(r) \in Statuses \cup {0} /\ (Refusal(r) = 0 => \A i \in 1 .. 9 : checks[i] = 0)
  <2> DEFINE codes == Statuses \cup {0}
  <2>1. 0 \in codes
    BY DEF Statuses
  <2>2. DOMAIN checks = 1 .. 9
    BY <1>2
  <2> HIDE DEF codes
  <2>3. \A i \in DOMAIN checks : checks[i] \in codes
    BY ONLY <2>2, <1>3 DEF codes
  <2>4. DOMAIN checks \subseteq Nat
    BY ONLY <2>2
  <2>5. First(checks) \in codes /\ (First(checks) = 0 => \A i \in 1 .. 9 : checks[i] = 0)
    BY ONLY <2>1, <2>2, <2>3, <2>4, FirstStatus
  <2> QED
    BY <1>1, <2>5 DEF codes
<1>5. ASSUME Refusal(r) = 0
      PROVE  /\ checks[1] = 0 /\ checks[3] = 0 /\ checks[4] = 0 /\ checks[5] = 0
             /\ checks[6] = 0 /\ checks[7] = 0 /\ checks[8] = 0 /\ checks[9] = 0
  BY <1>4, <1>5
<1>6. ASSUME Refusal(r) = 0
      PROVE  Guarded(r)
  <2>1. r.origin # "denied" /\ "absent" \notin r.token /\ Authenticated(r.token)
    BY <1>2, <1>5, <1>6 DEF When
  <2>2. r.op \in RoomOps \cup {"capabilities", "rooms", "join"}
    BY <1>2, <1>5, <1>6 DEF When
  <2>3. r.method = Verb(r)
    BY <1>2, <1>5, <1>6, <2>2 DEF When
  <2>4. r.op \in {"rooms", "join", "commands"} => BodyRefusal(r) = 0
    BY <1>2, <1>5, <1>6 DEF When
  <2> QED
    BY <2>1, <2>2, <2>3, <2>4, BodyChecks DEF Guarded
<1> QED
  BY <1>4, <1>6

\* The answers are those of the front that is deployed, which never changes.
LEMMA RefusalStays ==
  ASSUME NEW o \in Requests, front' = front, req'[o] = req[o]
  PROVE  (Refusal(req[o]))' = Refusal(req[o]) /\ (Verb(req[o]))' = Verb(req[o]) /\ (Limited(req[o]))' = Limited(req[o])
<1>1. (Verb(req[o]))' = Verb(req[o]) /\ (Authenticated(req[o].token))' = Authenticated(req[o].token)
      /\ (Limited(req[o]))' = Limited(req[o])
  BY DEF Verb, Reads, Authenticated, Limited
<1>2. (BodyRefusal(req[o]))' = BodyRefusal(req[o])
  BY DEF BodyRefusal, When, First
<1> QED
  BY <1>1, <1>2 DEF Refusal, When, First

LEMMA RequestStays ==
  ASSUME NEW o \in Requests, RequestInv(o), front' = front, req'[o] = req[o], stage'[o] = stage[o],
         got'[o] = got[o], answer'[o] = answer[o], effect'[o] = effect[o]
  PROVE  RequestInv(o)'
<1>1. Unanswered(o)' /\ OnItsWay(o)'
  BY DEF RequestInv, Unanswered, OnItsWay
<1>2. Checked(o)'
  BY RefusalStays DEF RequestInv, Checked
<1>3. Effective(o)'
  BY RefusalStays DEF RequestInv, Effective, Goods
<1>4. Proven(o)'
  BY DEF RequestInv, Proven
<1> QED
  BY <1>1, <1>2, <1>3, <1>4 DEF RequestInv

\* An answer ends a request; after an effect it is a good one.
LEMMA FinishKept ==
  ASSUME HttpInv, NEW c \in Requests, NEW status \in Statuses, NEW cached, Finish(c, status, cached),
         cached \in {"none", "no-store", "no-cache", "day", "year"},
         stage[c] \notin {"idle", "answered"}, effect[c] = "none" \/ status \in Goods,
         UNCHANGED <<outcome, front, refills, draining>>, credit' \in 0 .. Burst
  PROVE  HttpTypeOK' /\ \A o \in Requests : RequestInv(o)'
<1> USE DEF Finish
<1>1. HttpTypeOK'
  BY DEF HttpInv, HttpTypeOK, Statuses, outcome
<1>2. ASSUME NEW o \in Requests, o # c
      PROVE  RequestInv(o)'
  BY <1>2, RequestStays DEF HttpInv, HttpTypeOK, outcome
<1>3. RequestInv(c)'
  <2>0. /\ stage'[c] = "answered" /\ answer'[c] = status /\ req'[c] = req[c] /\ effect'[c] = effect[c] /\ front' = front
        /\ RequestInv(c)
    BY DEF HttpInv, HttpTypeOK, outcome
  <2>1. Unanswered(c)' /\ OnItsWay(c)' /\ Checked(c)'
    BY <2>0 DEF RequestInv, Unanswered, OnItsWay, Checked
  <2>2. Effective(c)'
    BY <2>0, RefusalStays DEF RequestInv, Effective, Goods
  <2>3. Proven(c)'
    BY <2>0 DEF RequestInv, Proven
  <2> QED
    BY <2>1, <2>2, <2>3 DEF RequestInv
<1> QED
  BY <1>1, <1>2, <1>3

\* A request goes on to a place where what was checked of it allows it to be.
LEMMA GoKept ==
  ASSUME HttpInv, NEW c \in Requests, NEW where \in {"api", "body", "inner", "store"}, Go(c, where),
         where = "api" => got[c] = 0, stage[c] \in {"route", "api", "body", "inner"}, OnItsWay(c)', Checked(c)',
         UNCHANGED <<outcome, front, refills, draining>>, credit' \in 0 .. Burst
  PROVE  HttpTypeOK' /\ \A o \in Requests : RequestInv(o)'
<1> USE DEF Go
<1>1. HttpTypeOK'
  BY DEF HttpInv, HttpTypeOK, outcome
<1>2. ASSUME NEW o \in Requests, o # c
      PROVE  RequestInv(o)'
  BY <1>2, RequestStays DEF HttpInv, HttpTypeOK, outcome
<1>3. RequestInv(c)'
  <2>0. /\ stage'[c] = where /\ answer'[c] = answer[c] /\ req'[c] = req[c] /\ effect'[c] = effect[c]
        /\ got'[c] = got[c] /\ RequestInv(c) /\ effect[c] = "none"
    BY DEF HttpInv, HttpTypeOK, outcome, RequestInv, Effective
  <2>1. Unanswered(c)' /\ Effective(c)' /\ Proven(c)'
    BY <2>0 DEF RequestInv, Unanswered, Effective, Proven
  <2> QED
    BY <2>1 DEF RequestInv
<1> QED
  BY <1>1, <1>2, <1>3

\* Whoever was not charged in the routes is not charged later.
LEMMA NoMoreCharged ==
  ASSUME HttpInv, NEW c \in Requests, stage[c] \notin {"idle", "route", "answered"},
         UNCHANGED <<front, req, credit, refills>>,
         \A o \in Requests : o # c => stage'[o] = stage[o] /\ answer'[o] = answer[o]
  PROVE  PaidUp'
<1>1. Charged' \subseteq Charged
  <2> SUFFICES ASSUME NEW o \in Charged' PROVE o \in Charged
    OBVIOUS
  <2>1. o \in Requests /\ Limited(req[o])
    BY RefusalStays DEF Charged
  <2>2. answer[c] # 429
    BY DEF HttpInv, RequestInv, Unanswered
  <2> QED
    BY <2>1, <2>2 DEF Charged
<1>2. IsFiniteSet(Charged)
  BY HttpAssumption, FS_Subset DEF Charged
<1>3. Cardinality(Charged') <= Cardinality(Charged) /\ Cardinality(Charged') \in Nat /\ Cardinality(Charged) \in Nat
  BY <1>1, <1>2, FS_Subset, FS_CardinalityType
<1> QED
  BY <1>3, HttpAssumption DEF HttpInv, HttpTypeOK, PaidUp

\* Who pays for an answer or for going on is charged for it.
LEMMA RouteCharges ==
  ASSUME HttpInv, NEW c \in Requests, stage[c] = "route", UNCHANGED <<front, req, refills>>,
         \A o \in Requests : o # c => stage'[o] = stage[o] /\ answer'[o] = answer[o],
         credit' = IF Limited(req[c]) /\ credit > 0 THEN credit - 1 ELSE credit,
         Limited(req[c]) /\ credit = 0 => answer'[c] = 429
  PROVE  PaidUp' /\ credit' \in 0 .. Burst
<1>0. credit \in 0 .. Burst /\ Burst \in Nat /\ refills \in Nat
  BY HttpAssumption DEF HttpInv, HttpTypeOK
<1>1. credit' \in 0 .. Burst
  BY <1>0
<1>2. IsFiniteSet(Charged) /\ IsFiniteSet(Charged') /\ c \notin Charged
  BY HttpAssumption, FS_Subset DEF Charged
<1>3. ASSUME NEW o \in Charged', o # c
      PROVE  o \in Charged
  BY <1>3, RefusalStays DEF Charged
<1>4. CASE Limited(req[c]) /\ credit > 0
  <2>1. Charged' \subseteq Charged \cup {c}
    BY <1>3
  <2>2. Cardinality(Charged \cup {c}) = Cardinality(Charged) + 1 /\ IsFiniteSet(Charged \cup {c})
    BY <1>2, FS_AddElement
  <2>3. Cardinality(Charged') <= Cardinality(Charged) + 1 /\ Cardinality(Charged') \in Nat /\ Cardinality(Charged) \in Nat
    BY <2>1, <2>2, <1>2, FS_Subset, FS_CardinalityType
  <2>4. credit' = credit - 1
    BY <1>4
  <2> QED
    BY ONLY <1>0, <1>1, <2>3, <2>4, HttpInv, UNCHANGED <<front, req, refills>> DEF HttpInv, PaidUp
<1>5. CASE ~(Limited(req[c]) /\ credit > 0)
  <2>1. c \notin Charged'
    BY <1>5, <1>0, RefusalStays DEF Charged
  <2>2. Charged' \subseteq Charged
    BY <2>1, <1>3
  <2>3. Cardinality(Charged') <= Cardinality(Charged) /\ Cardinality(Charged') \in Nat /\ Cardinality(Charged) \in Nat
    BY <2>2, <1>2, FS_Subset, FS_CardinalityType
  <2>4. credit' = credit
    BY <1>5
  <2> QED
    BY ONLY <1>0, <1>1, <2>3, <2>4, HttpInv, UNCHANGED <<front, req, refills>> DEF HttpInv, PaidUp
<1> QED
  BY <1>1, <1>4, <1>5

LEMMA ArriveKept ==
  ASSUME HttpInv, NEW c \in Requests, Arrive(c)
  PROVE  HttpInv'
<1> USE DEF Arrive, outcome, world
<1>0. PICK r \in Shapes : req' = [req EXCEPT ![c] = r]
  OBVIOUS
<1>1. HttpTypeOK'
  BY <1>0 DEF HttpInv, HttpTypeOK
<1>2. stage[c] = "idle" /\ effect[c] = "none" /\ got[c] = 0 /\ answer[c] = 0
  BY DEF HttpInv, RequestInv, Unanswered, Effective
<1>3. ASSUME NEW o \in Requests
      PROVE  RequestInv(o)'
  <2>1. CASE o # c
    BY <1>0, <2>1, RequestStays DEF HttpInv, HttpTypeOK
  <2>2. CASE o = c
    <3>0. /\ req'[c] # NoRequest /\ stage'[c] = IF front = "edge" THEN "inner" ELSE "route"
          /\ got'[c] = 0 /\ answer'[c] = 0 /\ effect'[c] = "none" /\ front' = front
      BY <1>0, <1>2, HttpAssumption DEF HttpInv, HttpTypeOK
    <3>1. front \in {"files", "node", "edge"}
      BY DEF HttpInv, HttpTypeOK
    <3>2. Unanswered(c)' /\ OnItsWay(c)' /\ Checked(c)' /\ Effective(c)' /\ Proven(c)'
      BY ONLY <3>0, <3>1 DEF Unanswered, OnItsWay, Checked, Effective, Proven
    <3> QED
      BY <3>2, <2>2 DEF RequestInv
  <2> QED
    BY <2>1, <2>2
<1>4. PaidUp'
  <2>1. CASE front = "edge"
    BY <2>1 DEF PaidUp
  <2>2. CASE front # "edge"
    <3>1. stage'[c] = "route" /\ \A o \in Requests : o # c => stage'[o] = stage[o] /\ req'[o] = req[o] /\ answer'[o] = answer[o]
      BY <1>0, <2>2 DEF HttpInv, HttpTypeOK
    <3>2. Charged' = Charged
      BY <3>1, <1>2, RefusalStays DEF Charged
    <3> QED
      BY <3>2 DEF HttpInv, PaidUp
  <2> QED
    BY <2>1, <2>2
<1> QED
  BY <1>1, <1>3, <1>4 DEF HttpInv

LEMMA RouteKept ==
  ASSUME HttpInv, NEW c \in Requests, Route(c)
  PROVE  HttpInv'
<1> DEFINE r == req[c]
<1> USE DEF Route
<1>0. /\ stage[c] = "route" /\ effect[c] = "none" /\ got[c] = 0 /\ r \in Shapes /\ OnItsWay(c)
      /\ r.mount \in {"site", "api", "crew"} /\ 0 \in 0 .. Burst
  <2>1. stage[c] = "route" /\ RequestInv(c)
    BY DEF HttpInv
  <2>2. effect[c] = "none" /\ got[c] = 0 /\ r # NoRequest /\ OnItsWay(c)
    BY <2>1 DEF RequestInv, Unanswered, Effective
  <2>3. r \in Shapes
    BY <2>2 DEF HttpInv, HttpTypeOK
  <2> QED
    BY ONLY <2>1, <2>2, <2>3, HttpAssumption
<1>1. /\ UNCHANGED <<front, req, refills, outcome, draining>>
      /\ \A o \in Requests : o # c => stage'[o] = stage[o] /\ answer'[o] = answer[o]
  BY DEF SendJson, Finish, Go, HttpInv, HttpTypeOK
<1>2. Limited(r) /\ credit = 0 => answer'[c] = 429
  BY DEF SendJson, Finish, HttpInv, HttpTypeOK, Limited, IsEntry
<1>3. PaidUp' /\ credit' \in 0 .. Burst
  BY <1>0, <1>1, <1>2, RouteCharges
<1>4. ASSUME NEW status \in Statuses, NEW cached \in {"none", "no-store", "no-cache", "day", "year"},
             Finish(c, status, cached)
      PROVE  HttpTypeOK' /\ \A o \in Requests : RequestInv(o)'
  BY ONLY <1>0, <1>1, <1>3, <1>4, HttpInv, FinishKept
<1>5. ASSUME NEW where \in {"api", "body", "inner"}, Go(c, where),
             \/ front = "node" /\ r.mount = "crew" /\ where \in {"body", "inner"}
             \/ front = "files" /\ r.mount # "site" /\ where = "api"
      PROVE  HttpTypeOK' /\ \A o \in Requests : RequestInv(o)'
  <2>1. stage'[c] = where /\ got'[c] = 0 /\ req'[c] = r /\ front' = front
    BY <1>0, <1>1, <1>5 DEF Go, HttpInv, HttpTypeOK
  <2>2. OnItsWay(c)' /\ Checked(c)'
    BY ONLY <2>1, <1>5 DEF OnItsWay, Checked, NodeLimit
  <2> QED
    BY ONLY <1>0, <1>1, <1>3, <1>5, <2>2, HttpInv, GoKept
<1>6. HttpTypeOK' /\ \A o \in Requests : RequestInv(o)'
  <2> USE DEF SendJson
  <2>1. CASE r.op = "healthz" /\ r.method = "GET" /\ SendJson(c, IF draining THEN 503 ELSE 200)
    BY <2>1, <1>4 DEF Statuses
  <2>2. CASE Limited(r) /\ credit = 0 /\ SendJson(c, 429)
    BY <2>2, <1>4 DEF Statuses
  <2>3. CASE r.mount = "crew" /\ front = "node" /\ Go(c, IF r.method \in {"GET", "HEAD"} THEN "inner" ELSE "body")
    BY <2>3, <1>5
  <2>4. CASE r.mount = "api" /\ front = "node" /\ SendJson(c, 404)
    BY <2>4, <1>4 DEF Statuses
  <2>5. CASE r.mount # "site" /\ front = "files" /\ Go(c, "api")
    BY <2>5, <1>5
  <2>6. CASE SendJson(c, 404) \/ Finish(c, 200, CacheControl(r))
    <3>1. CacheControl(r) \in {"none", "no-store", "no-cache", "day", "year"}
      BY DEF CacheControl
    <3> QED
      BY <2>6, <3>1, <1>4 DEF Statuses
  <2> QED
    BY <2>1, <2>2, <2>3, <2>4, <2>5, <2>6
<1> QED
  BY <1>3, <1>6 DEF HttpInv

LEMMA ApiKept ==
  ASSUME HttpInv, NEW c \in Requests, Api(c)
  PROVE  HttpInv'
<1> DEFINE r == req[c]
<1> USE DEF Api, world
<1>0. /\ stage[c] = "api" /\ effect[c] = "none" /\ got[c] = 0 /\ OnItsWay(c) /\ credit \in 0 .. Burst
      /\ front \in {"files", "node", "edge"}
  <2>1. stage[c] = "api" /\ RequestInv(c)
    BY DEF HttpInv
  <2> QED
    BY <2>1 DEF RequestInv, Unanswered, Effective, HttpInv, HttpTypeOK
<1>1. /\ UNCHANGED <<front, req, credit, refills, outcome, draining>>
      /\ \A o \in Requests : o # c => stage'[o] = stage[o] /\ answer'[o] = answer[o]
  BY DEF SendJson, Finish, Go, HttpInv, HttpTypeOK
<1>2. PaidUp'
  BY <1>0, <1>1, NoMoreCharged
<1>3. ASSUME NEW status \in Statuses, SendJson(c, status)
      PROVE  HttpTypeOK' /\ \A o \in Requests : RequestInv(o)'
  BY ONLY <1>0, <1>1, <1>3, HttpInv, FinishKept DEF SendJson
<1>4. ASSUME NEW where \in {"body", "store"}, Go(c, where), ApiRefusal(r) = 0, r.op # "capabilities",
             where = IF r.op \in {"rooms", "join", "commands"} THEN "body" ELSE "store"
      PROVE  HttpTypeOK' /\ \A o \in Requests : RequestInv(o)'
  <2>1. stage'[c] = where /\ got'[c] = 0 /\ req'[c] = r /\ front' = front
    BY <1>0, <1>1, <1>4 DEF Go, HttpInv, HttpTypeOK
  <2>2. front = "files"
    BY <1>0 DEF OnItsWay
  <2>3. OnItsWay(c)'
    BY ONLY <2>1, <2>2, <1>0, <1>4 DEF OnItsWay
  <2>4. r.mount # "crew" /\ r.op \in RoomOps \cup {"rooms", "join"} /\ r.method = Verb(r)
        /\ (r.op \in RoomOps => "absent" \notin r.token)
    BY <1>4, ApiChecks
  <2>5. (Verb(req[c]))' = Verb(r)
    BY <2>1, RefusalStays
  <2>6. Checked(c)'
    BY ONLY <2>1, <2>2, <2>4, <2>5, <1>4 DEF Checked, NodeLimit
  <2> QED
    BY ONLY <1>0, <1>1, <1>4, <2>3, <2>6, HttpInv, GoKept
<1>5. HttpTypeOK' /\ \A o \in Requests : RequestInv(o)'
  <2>1. CASE ApiRefusal(r) # 0
    <3>1. ApiRefusal(r) \in Statuses
      BY <2>1, ApiChecks DEF Statuses
    <3> QED
      BY <2>1, <3>1, <1>3
  <2>2. CASE ApiRefusal(r) = 0 /\ r.op = "capabilities"
    BY <2>2, <1>3 DEF Statuses
  <2>3. CASE ApiRefusal(r) = 0 /\ r.op # "capabilities"
    BY <2>3, <1>4
  <2> QED
    BY <2>1, <2>2, <2>3
<1> QED
  BY <1>2, <1>5 DEF HttpInv

\* A body that is refused, or one that is whole.
LEMMA BodyKept ==
  ASSUME HttpInv, NEW c \in Requests, Declared(c) \/ BodyEnds(c)
  PROVE  HttpInv'
<1> DEFINE r == req[c]
<1> USE DEF Declared, BodyEnds, world
<1>0. /\ stage[c] = "body" /\ effect[c] = "none" /\ OnItsWay(c) /\ Checked(c) /\ credit \in 0 .. Burst
      /\ front \in {"files", "node"} /\ r \in Shapes
  <2>1. stage[c] = "body" /\ RequestInv(c)
    BY DEF HttpInv
  <2>2. effect[c] = "none" /\ OnItsWay(c) /\ Checked(c) /\ r # NoRequest
    BY <2>1 DEF RequestInv, Unanswered, Effective
  <2> QED
    BY <2>1, <2>2 DEF OnItsWay, HttpInv, HttpTypeOK
<1>1. /\ UNCHANGED <<front, req, credit, refills, outcome, draining>>
      /\ \A o \in Requests : o # c => stage'[o] = stage[o] /\ answer'[o] = answer[o]
  BY DEF SendJson, Finish, Go, HttpInv, HttpTypeOK
<1>2. PaidUp'
  BY <1>0, <1>1, NoMoreCharged
<1>3. ASSUME NEW status \in Statuses, SendJson(c, status)
      PROVE  HttpTypeOK' /\ \A o \in Requests : RequestInv(o)'
  BY ONLY <1>0, <1>1, <1>3, HttpInv, FinishKept DEF SendJson
<1>4. ASSUME front = "files" /\ Go(c, "store") /\ got[c] = r.size /\ r.size # 0 /\ r.form = "ok"
      PROVE  HttpTypeOK' /\ \A o \in Requests : RequestInv(o)'
  <2>1. stage'[c] = "store" /\ req'[c] = r /\ front' = front
    BY <1>0, <1>1, <1>4 DEF Go, HttpInv, HttpTypeOK
  <2>2. OnItsWay(c)'
    BY ONLY <2>1, <1>0, <1>4 DEF OnItsWay
  <2>3. (Verb(req[c]))' = Verb(r)
    BY <2>1, RefusalStays
  <2>4. r.size \in 1 .. NodeLimit
    BY <1>0, <1>4, HttpAssumption DEF Checked, NodeLimit
  <2>5. Checked(c)'
    BY ONLY <2>1, <2>3, <2>4, <1>0, <1>4 DEF Checked
  <2> QED
    BY ONLY <1>0, <1>1, <1>4, <2>2, <2>5, HttpInv, GoKept
<1>5. ASSUME front = "node" /\ Go(c, "inner")
      PROVE  HttpTypeOK' /\ \A o \in Requests : RequestInv(o)'
  <2>1. stage'[c] = "inner" /\ req'[c] = r /\ front' = front
    BY <1>0, <1>1, <1>5 DEF Go, HttpInv, HttpTypeOK
  <2>2. OnItsWay(c)' /\ Checked(c)'
    BY ONLY <2>1, <1>0, <1>5 DEF OnItsWay, Checked
  <2> QED
    BY ONLY <1>0, <1>1, <1>5, <2>2, HttpInv, GoKept
<1>6. HttpTypeOK' /\ \A o \in Requests : RequestInv(o)'
  <2>1. CASE SendJson(c, 413) \/ SendJson(c, 400)
    BY <2>1, <1>3 DEF Statuses
  <2> QED
    BY <2>1, <1>4, <1>5, <1>0
<1> QED
  BY <1>2, <1>6 DEF HttpInv

LEMMA InnerKept ==
  ASSUME HttpInv, NEW c \in Requests, Inner(c)
  PROVE  HttpInv'
<1> DEFINE r == req[c]
<1> USE DEF Inner, world
<1>0. /\ stage[c] = "inner" /\ effect[c] = "none" /\ OnItsWay(c) /\ credit \in 0 .. Burst
      /\ front \in {"node", "edge"}
  <2>1. stage[c] = "inner" /\ RequestInv(c)
    BY DEF HttpInv
  <2> QED
    BY <2>1 DEF RequestInv, Effective, OnItsWay, HttpInv, HttpTypeOK
<1>1. /\ UNCHANGED <<front, req, credit, refills, outcome, draining>>
      /\ \A o \in Requests : o # c => stage'[o] = stage[o] /\ answer'[o] = answer[o]
  BY DEF SendJson, Finish, Go, HttpInv, HttpTypeOK
<1>2. PaidUp'
  BY <1>0, <1>1, NoMoreCharged
<1>3. ASSUME NEW status \in Statuses, SendJson(c, status)
      PROVE  HttpTypeOK' /\ \A o \in Requests : RequestInv(o)'
  BY ONLY <1>0, <1>1, <1>3, HttpInv, FinishKept DEF SendJson
<1>4. ASSUME Go(c, "store") /\ Refusal(r) = 0 /\ r.op # "capabilities"
      PROVE  HttpTypeOK' /\ \A o \in Requests : RequestInv(o)'
  <2>1. stage'[c] = "store" /\ req'[c] = r /\ front' = front
    BY <1>0, <1>1, <1>4 DEF Go, HttpInv, HttpTypeOK
  <2>2. OnItsWay(c)'
    BY ONLY <2>1, <1>0 DEF OnItsWay
  <2>3. (Refusal(req[c]))' = 0
    BY <2>1, <1>4, RefusalStays
  <2>4. Checked(c)'
    BY ONLY <2>1, <2>3, <1>0, <1>4 DEF Checked
  <2> QED
    BY ONLY <1>0, <1>1, <1>4, <2>2, <2>4, HttpInv, GoKept
<1>5. HttpTypeOK' /\ \A o \in Requests : RequestInv(o)'
  <2>1. CASE Refusal(r) # 0
    <3>1. Refusal(r) \in Statuses
      BY <2>1, HandlerChecks
    <3> QED
      BY <2>1, <3>1, <1>3
  <2>2. CASE Refusal(r) = 0 /\ r.op = "capabilities"
    BY <2>2, <1>3 DEF Statuses
  <2>3. CASE Refusal(r) = 0 /\ r.op # "capabilities"
    BY <2>3, <1>4
  <2> QED
    BY <2>1, <2>2, <2>3
<1> QED
  BY <1>2, <1>5 DEF HttpInv

\* The store refuses, fails, or has done its work and answers.
LEMMA ReplyKept ==
  ASSUME HttpInv, NEW c \in Requests, Refuse(c) \/ Fail(c) \/ SendReply(c)
  PROVE  HttpInv'
<1> USE DEF Refuse, Fail, SendReply, world
<1>0. credit \in 0 .. Burst /\ (stage[c] = "store" => effect[c] = "none")
  BY DEF HttpInv, HttpTypeOK, RequestInv, Effective
<1>1. PICK status \in {200, 400, 403, 409, 500} :
        /\ SendJson(c, status) /\ UNCHANGED <<outcome, front, credit, refills, draining>>
        /\ stage[c] = "store" \/ (stage[c] = "reply" /\ status = ReplyStatus(c))
  BY DEF ReplyStatus
<1>2. status \in Statuses /\ (effect[c] = "none" \/ status \in Goods)
  BY <1>0, <1>1 DEF ReplyStatus, Goods, Statuses
<1>3. HttpTypeOK' /\ \A o \in Requests : RequestInv(o)'
  BY ONLY <1>0, <1>1, <1>2, HttpInv, FinishKept DEF SendJson
<1>4. /\ UNCHANGED req
      /\ \A o \in Requests : o # c => stage'[o] = stage[o] /\ answer'[o] = answer[o]
  BY <1>1 DEF SendJson, Finish, HttpInv, HttpTypeOK
<1>5. PaidUp'
  BY <1>1, <1>4, NoMoreCharged
<1> QED
  BY <1>3, <1>5 DEF HttpInv

\* The store does its work for a request that passed every check.
LEMMA StoreKept ==
  ASSUME HttpInv, NEW c \in Requests, Store(c)
  PROVE  HttpInv'
<1> DEFINE r == req[c]
           kind == IF r.op \in Reads THEN "none" ELSE IF front = "files" THEN "file" ELSE "db"
<1> USE DEF Store, Go, outcome, world
<1>0. /\ stage[c] = "store" /\ answer[c] = 0 /\ OnItsWay(c) /\ Checked(c) /\ Proven(c) /\ effect[c] = "none"
      /\ front \in {"files", "node", "edge"} /\ r # NoRequest /\ r \in Shapes
      /\ r.mount \in {"site", "api", "crew"} /\ r.size \in 0 .. 3
      /\ r.token \subseteq {"absent", "parts", "json", "alg", "sig", "exp", "role", "sub"}
  <2>1. stage[c] = "store" /\ RequestInv(c) /\ front \in {"files", "node", "edge"}
    BY DEF HttpInv, HttpTypeOK
  <2>2. answer[c] = 0 /\ OnItsWay(c) /\ Checked(c) /\ Proven(c) /\ effect[c] = "none" /\ r # NoRequest
    BY <2>1 DEF RequestInv, Unanswered, Effective
  <2>3. r \in Shapes
    BY <2>2 DEF HttpInv, HttpTypeOK
  <2> QED
    BY <2>1, <2>2, <2>3, HttpAssumption
<1>1. /\ req' = req /\ front' = front /\ stage'[c] = "reply" /\ answer' = answer /\ got' = got /\ effect'[c] = kind
      /\ \A o \in Requests : o # c => stage'[o] = stage[o] /\ effect'[o] = effect[o]
      /\ (r.op \in RoomOps => r.member)
  BY DEF HttpInv, HttpTypeOK
<1>2. HttpTypeOK'
  <2>1. crowd' \in 0 .. RoomBound /\ 0 \in 0 .. RoomBound /\ kind \in {"none", "file", "db", "socket"}
    BY HttpAssumption DEF HttpInv, HttpTypeOK, RoomBound
  <2>2. effect' = [effect EXCEPT ![c] = kind] /\ seen' \in [Requests -> 0 .. RoomBound]
    BY <2>1 DEF HttpInv, HttpTypeOK
  <2>3. effect' \in [Requests -> {"none", "file", "db", "socket"}]
    <3> HIDE DEF kind
    <3> QED
      BY <2>1, <2>2 DEF HttpInv, HttpTypeOK
  <2> QED
    BY <2>1, <2>2, <2>3 DEF HttpInv, HttpTypeOK
<1>3. PaidUp'
  BY <1>0, <1>1, NoMoreCharged
\* What was checked on the way.
<1>4. front = "files" =>
        /\ r.mount = "api" /\ r.method = Verb(r) /\ r.op \in RoomOps \cup {"rooms", "join"}
        /\ r.op \in RoomOps => "absent" \notin r.token
        /\ r.op \in {"rooms", "join", "commands"} => r.form = "ok" /\ r.size \in 1 .. NodeLimit
  BY <1>0 DEF OnItsWay, Checked
<1>5. front # "files" =>
        /\ r.origin # "denied" /\ r.method = Verb(r) /\ r.op \in RoomOps \cup {"rooms", "join"} /\ r.token = {}
        /\ r.op \in {"rooms", "join", "commands"} => r.form = "ok" /\ r.size \in 1 .. HandlerLimit
  <2> SUFFICES ASSUME front # "files"
               PROVE  /\ r.origin # "denied" /\ r.method = Verb(r) /\ r.op \in RoomOps \cup {"rooms", "join"}
                      /\ r.token = {}
                      /\ r.op \in {"rooms", "join", "commands"} => r.form = "ok" /\ r.size \in 1 .. HandlerLimit
    OBVIOUS
  <2>1. Guarded(r) /\ r.op # "capabilities"
    BY <1>0, HandlerChecks DEF Checked
  <2>2. "absent" \notin r.token /\ Authenticated(r.token)
    BY <2>1 DEF Guarded
  <2>3. r.token = {}
    <3>1. \A t \in r.token : t \in {"absent", "parts", "json", "alg", "sig", "exp", "role", "sub"}
      BY <1>0
    <3> HIDE DEF Store
    <3> QED
      BY <2>2, <3>1 DEF Authenticated, Router, DecodeJwtSub, VerifyJwt
  <2> HIDE DEF Store
  <2> QED
    BY <1>0, <2>1, <2>3 DEF Guarded, HandlerLimit
<1>6. front = "node" => r.mount = "crew"
  BY <1>0 DEF OnItsWay
<1>7. kind # "none" => r.method = "POST"
  BY <1>4, <1>5 DEF Verb, RoomOps
<1>8. kind # "none" /\ front # "edge" /\ r.op \in {"rooms", "join"} => Limited(r)
  BY <1>0, <1>4, <1>6, <1>7 DEF Limited, IsEntry
<1>9. RequestInv(c)'
  <2>1. Unanswered(c)' /\ OnItsWay(c)' /\ Checked(c)'
    BY ONLY <1>0, <1>1 DEF Unanswered, OnItsWay, Checked
  <2>2. Effective(c)'
    BY <1>0, <1>1, <1>8, RefusalStays DEF Effective, Goods
  <2>3. Proven(c)'
    BY <1>0, <1>1, <1>4, <1>5, <1>7 DEF Proven
  <2> QED
    BY <2>1, <2>2, <2>3 DEF RequestInv
<1>10. ASSUME NEW o \in Requests
       PROVE  RequestInv(o)'
  BY <1>1, <1>9, RequestStays DEF HttpInv
<1> QED
  BY <1>2, <1>3, <1>10 DEF HttpInv

LEMMA UpgradeKept ==
  ASSUME HttpInv, NEW c \in Requests, Upgrade(c)
  PROVE  HttpInv'
<1> USE DEF Upgrade, world
<1>0. stage[c] = "route" /\ answer[c] = 0 /\ effect[c] = "none" /\ req[c] # NoRequest
  BY DEF HttpInv, RequestInv, Unanswered, Effective
<1>1. /\ req' = req /\ front' = front /\ answer' = answer /\ got' = got /\ stage'[c] = "answered"
      /\ effect'[c] \in {"none", "socket"}
      /\ effect'[c] = "socket" => front = "files" /\ req[c].op = "ws"
      /\ \A o \in Requests : o # c => stage'[o] = stage[o] /\ effect'[o] = effect[o]
  BY <1>0 DEF HttpInv, HttpTypeOK
<1>2. HttpTypeOK'
  <2>1. /\ stage' = [stage EXCEPT ![c] = "answered"]
        /\ wire' = wire \/ wire' = [wire EXCEPT ![c] = FALSE]
        /\ effect' = effect \/ effect' = [effect EXCEPT ![c] = "socket"]
        /\ UNCHANGED <<front, req, got, answer, cache, seen, crowd, credit, refills, draining>>
    OBVIOUS
  <2>2. HttpTypeOK
    BY DEF HttpInv
  <2>3. stage' \in [Requests -> {"idle", "route", "api", "body", "inner", "store", "reply", "answered"}]
    BY ONLY <2>1, <2>2 DEF HttpTypeOK
  <2>4. wire' \in [Requests -> BOOLEAN]
    <3>1. CASE wire' = wire
      BY ONLY <3>1, <2>2 DEF HttpTypeOK
    <3>2. CASE wire' = [wire EXCEPT ![c] = FALSE]
      BY ONLY <3>2, <2>2 DEF HttpTypeOK
    <3> QED
      BY <2>1, <3>1, <3>2
  <2>5. effect' \in [Requests -> {"none", "file", "db", "socket"}]
    BY ONLY <2>1, <2>2 DEF HttpTypeOK
  <2> QED
    BY ONLY <2>1, <2>2, <2>3, <2>4, <2>5 DEF HttpTypeOK
<1>3. RequestInv(c)'
  <2>1. Unanswered(c)' /\ OnItsWay(c)' /\ Checked(c)' /\ Effective(c)' /\ Proven(c)'
    BY ONLY <1>0, <1>1 DEF Unanswered, OnItsWay, Checked, Effective, Proven, Goods
  <2> QED
    BY <2>1 DEF RequestInv
<1>4. ASSUME NEW o \in Requests
      PROVE  RequestInv(o)'
  BY <1>1, <1>3, RequestStays DEF HttpInv
<1>5. PaidUp'
  <2>1. ~Limited(req[c])
    BY DEF Limited, IsEntry
  <2>2. Charged' = Charged
    BY <1>1, <2>1, RefusalStays DEF Charged
  <2> QED
    BY <2>2 DEF HttpInv, PaidUp
<1> QED
  BY <1>2, <1>4, <1>5 DEF HttpInv

\* A piece of the body comes, or the connection goes.
LEMMA PieceKept ==
  ASSUME HttpInv, NEW c \in Requests, Piece(c)
  PROVE  HttpInv'
<1> USE DEF Piece, world, outcome
<1>0. stage[c] = "body" /\ RequestInv(c) /\ got[c] <= NodeLimit /\ got[c] \in Nat
  BY DEF HttpInv, HttpTypeOK, RequestInv, Checked
<1>1. /\ req' = req /\ front' = front /\ effect' = effect /\ credit' = credit /\ refills' = refills
      /\ got'[c] = got[c] + 1
      /\ \/ stage'[c] = "answered" /\ answer'[c] = 413
         \/ stage'[c] = "body" /\ answer'[c] = answer[c] /\ got'[c] <= NodeLimit
      /\ \A o \in Requests : o # c => stage'[o] = stage[o] /\ answer'[o] = answer[o] /\ got'[o] = got[o]
  BY <1>0 DEF HttpInv, HttpTypeOK, NodeLimit
<1>2. HttpTypeOK'
  <2>1. /\ got' = [got EXCEPT ![c] = got[c] + 1] /\ got[c] + 1 \in 0 .. NodeLimit + 1
        /\ \/ UNCHANGED <<stage, answer, wire, cache>>
           \/ /\ stage' = [stage EXCEPT ![c] = "answered"] /\ answer' = [answer EXCEPT ![c] = 413]
              /\ wire' = [wire EXCEPT ![c] = FALSE] /\ cache' = [cache EXCEPT ![c] = "no-store"]
        /\ UNCHANGED <<front, req, effect, seen, crowd, credit, refills, draining>>
    BY <1>0 DEF NodeLimit
  <2>2. HttpTypeOK
    BY DEF HttpInv
  <2>3. got' \in [Requests -> 0 .. NodeLimit + 1]
    BY ONLY <2>1, <2>2 DEF HttpTypeOK
  <2>4. /\ stage' \in [Requests -> {"idle", "route", "api", "body", "inner", "store", "reply", "answered"}]
        /\ cache' \in [Requests -> {"none", "no-store", "no-cache", "day", "year"}]
    BY ONLY <2>1, <2>2 DEF HttpTypeOK
  <2>5. answer' \in [Requests -> {0, 200, 204, 400, 401, 403, 404, 405, 409, 413, 415, 429, 500, 503}]
    BY ONLY <2>1, <2>2 DEF HttpTypeOK
  <2>6. wire' \in [Requests -> BOOLEAN]
    <3>1. CASE wire' = wire
      BY ONLY <3>1, <2>2 DEF HttpTypeOK
    <3>2. CASE wire' = [wire EXCEPT ![c] = FALSE]
      BY ONLY <3>2, <2>2 DEF HttpTypeOK
    <3> QED
      BY <2>1, <3>1, <3>2
  <2> QED
    BY ONLY <2>1, <2>2, <2>3, <2>4, <2>5, <2>6 DEF HttpTypeOK
<1>3. RequestInv(c)'
  <2>1. effect[c] = "none"
    BY <1>0 DEF RequestInv, Effective
  <2>2. Unanswered(c)' /\ OnItsWay(c)' /\ Effective(c)' /\ Proven(c)'
    BY ONLY <1>0, <1>1, <2>1 DEF RequestInv, Unanswered, OnItsWay, Effective, Proven
  <2>3. Checked(c)'
    BY <1>0, <1>1, RefusalStays DEF RequestInv, Checked
  <2> QED
    BY <2>2, <2>3 DEF RequestInv
<1>4. ASSUME NEW o \in Requests
      PROVE  RequestInv(o)'
  BY <1>1, <1>3, RequestStays DEF HttpInv
<1>5. PaidUp'
  BY <1>0, <1>1, NoMoreCharged
<1> QED
  BY <1>2, <1>4, <1>5 DEF HttpInv

LEMMA AbortKept ==
  ASSUME HttpInv, NEW c \in Requests, Abort(c)
  PROVE  HttpInv'
<1> USE DEF Abort, world, outcome
<1>0. stage[c] \in {"body", "inner", "store", "reply"} /\ RequestInv(c)
  BY DEF HttpInv
<1>1. /\ req' = req /\ front' = front /\ effect' = effect /\ got' = got
      /\ credit' = credit /\ refills' = refills
      /\ \/ stage[c] = "body" /\ stage'[c] = "answered" /\ answer'[c] = 500
         \/ stage'[c] = stage[c] /\ answer'[c] = answer[c]
      /\ \A o \in Requests : o # c => stage'[o] = stage[o] /\ answer'[o] = answer[o]
  BY DEF HttpInv, HttpTypeOK
<1>2. HttpTypeOK'
  BY DEF HttpInv, HttpTypeOK
<1>3. RequestInv(c)'
  <2>1. CASE stage'[c] = stage[c] /\ answer'[c] = answer[c]
    BY <2>1, <1>0, <1>1, RequestStays
  <2>2. CASE stage[c] = "body" /\ stage'[c] = "answered" /\ answer'[c] = 500
    <3>1. effect[c] = "none"
      BY <2>2, <1>0 DEF RequestInv, Effective
    <3>2. Unanswered(c)' /\ OnItsWay(c)' /\ Checked(c)' /\ Effective(c)' /\ Proven(c)'
      BY ONLY <1>0, <1>1, <2>2, <3>1 DEF RequestInv, Unanswered, OnItsWay, Checked, Effective, Proven
    <3> QED
      BY <3>2 DEF RequestInv
  <2> QED
    BY <1>1, <2>1, <2>2
<1>4. ASSUME NEW o \in Requests
      PROVE  RequestInv(o)'
  BY <1>1, <1>3, RequestStays DEF HttpInv
<1>5. PaidUp'
  BY <1>0, <1>1, NoMoreCharged
<1> QED
  BY <1>2, <1>4, <1>5 DEF HttpInv

\* The limiter refills, the server begins to close, or nothing happens.
LEMMA HttpIdles ==
  ASSUME HttpInv, Recredit \/ BeginClose \/ UNCHANGED httpVars
  PROVE  HttpInv'
<1> USE DEF Recredit, BeginClose, httpVars, outcome
<1>1. HttpTypeOK'
  <2>1. credit \in 0 .. Burst /\ refills \in 0 .. MaxRefills /\ Burst \in Nat /\ MaxRefills \in Nat
    BY HttpAssumption DEF HttpInv, HttpTypeOK
  <2>2. credit' \in 0 .. Burst /\ refills' \in 0 .. MaxRefills
    BY <2>1
  <2>3. draining' \in BOOLEAN
    <3>1. draining' = draining \/ draining' = TRUE
      OBVIOUS
    <3>2. draining \in BOOLEAN
      BY DEF HttpInv, HttpTypeOK
    <3> QED
      BY ONLY <3>1, <3>2, Zenon
  <2>4. UNCHANGED <<front, req, stage, got, answer, cache, wire, effect, seen, crowd>>
    OBVIOUS
  <2>5. HttpTypeOK
    BY DEF HttpInv
  <2> QED
    BY ONLY <2>2, <2>3, <2>4, <2>5 DEF HttpTypeOK
<1>2. UNCHANGED <<front, req, stage, got, answer, effect>>
  OBVIOUS
<1>3. \A o \in Requests : RequestInv(o)'
  BY <1>2, RequestStays DEF HttpInv
<1>4. Charged' = Charged
  BY <1>2, RefusalStays DEF Charged
<1>5. refills' - credit' = refills - credit /\ refills \in Nat /\ credit \in Nat /\ Burst \in Nat
      /\ refills' \in Nat /\ credit' \in Nat
  BY HttpAssumption DEF HttpInv, HttpTypeOK
<1>6. Burst + refills' - credit' = Burst + refills - credit
  BY ONLY <1>5
<1>7. PaidUp'
  BY <1>2, <1>4, <1>6 DEF HttpInv, PaidUp
<1> QED
  BY <1>1, <1>3, <1>7 DEF HttpInv

LEMMA InitHttp == HttpInit => HttpInv
<1> SUFFICES ASSUME HttpInit PROVE HttpInv
  OBVIOUS
<1> USE DEF HttpInit
<1>1. HttpTypeOK
  <2>1. /\ 0 \in 0 .. NodeLimit + 1 /\ 0 \in 0 .. RoomBound /\ Burst \in 0 .. Burst /\ 0 \in 0 .. MaxRefills
        /\ credit = Burst /\ refills = 0 /\ crowd = 0 /\ front \in {"files", "node", "edge"}
    BY HttpAssumption DEF RoomBound, NodeLimit
  <2>2. /\ req \in [Requests -> {NoRequest} \cup Shapes] /\ got \in [Requests -> 0 .. NodeLimit + 1]
        /\ seen \in [Requests -> 0 .. RoomBound]
    BY <2>1
  <2>3. wire \in [Requests -> BOOLEAN] /\ draining \in BOOLEAN
    OBVIOUS
  <2>4. /\ stage \in [Requests -> {"idle", "route", "api", "body", "inner", "store", "reply", "answered"}]
        /\ cache \in [Requests -> {"none", "no-store", "no-cache", "day", "year"}]
        /\ effect \in [Requests -> {"none", "file", "db", "socket"}]
        /\ answer \in [Requests -> {0, 200, 204, 400, 401, 403, 404, 405, 409, 413, 415, 429, 500, 503}]
    OBVIOUS
  <2> HIDE DEF HttpInit
  <2> QED
    BY <2>1, <2>2, <2>3, <2>4 DEF HttpTypeOK
<1>2. ASSUME NEW c \in Requests
      PROVE  RequestInv(c)
  BY DEF RequestInv, Unanswered, OnItsWay, Checked, Effective, Proven, NodeLimit
<1>3. Charged = {}
  BY DEF Charged
<1>4. PaidUp
  BY <1>3, FS_EmptySet, HttpAssumption DEF PaidUp
<1> QED
  BY <1>1, <1>2, <1>4 DEF HttpInv

LEMMA HttpKept == HttpInv /\ [HttpNext]_httpVars => HttpInv'
<1> SUFFICES ASSUME HttpInv, [HttpNext]_httpVars PROVE HttpInv'
  OBVIOUS
<1>1. CASE Recredit \/ BeginClose \/ UNCHANGED httpVars
  BY <1>1, HttpIdles
<1>2. ASSUME NEW c \in Requests, Arrive(c) \/ HandleRequest(c) \/ Piece(c) \/ Abort(c)
      PROVE  HttpInv'
  <2>1. CASE HandleRequest(c)
    BY <2>1, RouteKept, ApiKept, BodyKept, InnerKept, ReplyKept, StoreKept, UpgradeKept DEF HandleRequest
  <2> QED
    BY <1>2, <2>1, ArriveKept, PieceKept, AbortKept
<1> QED
  BY <1>1, <1>2 DEF HttpNext

\* Whatever is deployed, whatever is requested and however the requests interleave
\* and are cut off: what has an effect came with a session that holds and a body
\* within limit and contract, no address creates and joins more often than its
\* bucket gives, and on the files an answer that refuses means no effect.
THEOREM HttpAlwaysSound == HttpSpec => []HttpSound
<1>1. HttpInv => HttpSound
  <2> SUFFICES ASSUME HttpInv PROVE HttpSound
    OBVIOUS
  <2>1. HttpTypeOK /\ OnlyProven
    BY DEF HttpInv, RequestInv, OnlyProven
  <2>2. EveryEntryPaid
    <3> SUFFICES ASSUME front # "edge" PROVE Cardinality(Entries) <= Burst + refills - credit
      BY DEF EveryEntryPaid
    <3>1. ASSUME NEW c \in Entries
          PROVE  c \in Charged
      <4>1. c \in Requests /\ effect[c] # "none" /\ req[c].op \in {"rooms", "join"} /\ Effective(c)
        BY DEF Entries, HttpInv, RequestInv
      <4> QED
        BY <4>1 DEF Effective, Charged, Goods
    <3>2. IsFiniteSet(Charged) /\ Entries \subseteq Charged
      BY <3>1, HttpAssumption, FS_Subset DEF Charged
    <3>3. Cardinality(Entries) <= Cardinality(Charged) /\ Cardinality(Entries) \in Nat /\ Cardinality(Charged) \in Nat
      BY <3>2, FS_Subset, FS_CardinalityType
    <3> QED
      BY <3>3, HttpAssumption DEF HttpInv, PaidUp, HttpTypeOK
  <2>3. ErrorMeansNoEffect
    <3> SUFFICES ASSUME front = "files", NEW c \in Requests, Told(c) \in 400 .. 499, effect[c] # "none"
                 PROVE  FALSE
      BY DEF ErrorMeansNoEffect
    <3>1. answer[c] \in {0, 200}
      BY DEF HttpInv, RequestInv, Effective, Goods
    <3> QED
      BY <3>1 DEF Told
  <2> QED
    BY <2>1, <2>2, <2>3 DEF HttpSound
<1> QED
  BY <1>1, InitHttp, HttpKept, PTL DEF HttpSpec
=============================================================================
