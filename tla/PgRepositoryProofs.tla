-------------------------- MODULE PgRepositoryProofs --------------------------
(* Proofs about one room in the database, for any requests, members and lost  *)
(* connections: what the run of module MCEdge shows on small instances, and   *)
(* that the repository implements AtomicRoom.                                  *)
(*                                                                            *)
(* The argument.  Whoever holds the lock of a key is the only one to add a    *)
(* receipt for it (KeysLocked), so what a join or a create found there stays  *)
(* true until it commits (LookedUp).  Receipts and log then say the same      *)
(* (ReceiptsKept); a request that was refused stays behind the revision or    *)
(* behind a receipt (RefusedForGood); and the attempts are numbered without a *)
(* gap (AttemptsNumbered), so that a new one is new.                          *)
EXTENDS PgRepository, FiniteSetTheorems, TLAPS

Places   == {"new"} \cup Underway \cup Answers
Phases   == {"lobby", "underway", "success", "failure"}
Statuses == {"active", "abandoned", "success", "failure"}
States   == [rev : Nat, attempt : Nat, phase : Phases, host : People,
             crew : SUBSET People, bench : SUBSET People]
ReceiptOf(c) == [key |-> Key(c), kind |-> KindOf[c]]

PgTypes ==
  /\ room \in RoomRow \cup {None}
  /\ members \in SUBSET People
  /\ state \in States
  /\ receipts \in SUBSET [key : Keys, kind : Kinds]
  /\ log \in Seq(Calls)
  /\ made \in [Keys -> Nat]
  /\ at \in [Calls -> Places]
  /\ exp \in [Keys -> Envelope \cup {None}]
  /\ known \in [Calls -> Nat]
  /\ faults \in 0..MaxFaults

\* The attempts are numbered 1, 2, ..., n, and only one is active.
AttemptsNumbered ==
  /\ \E n \in Nat : \E f \in [1..n -> Statuses] : attempts = {Row(i, f[i]) : i \in 1..n}
  /\ IndexHolds(attempts)

\* The phase and the attempt of the state fit each other.
PhaseAgrees ==
  /\ state.phase = "lobby" <=> state.attempt = 0
  /\ state.crew \cap state.bench = {}

\* The engine gives the office to nobody outside the room.
HostStays == Open => state.host \in Everyone(state)

\* A room that is gone has left nothing.
GoneIsEmpty == ~Open => log = <<>>

\* One transaction at a time holds the lock of a key.
KeysLocked == \A c, d \in Calls : Key(c) = Key(d) /\ Holds(c) /\ Holds(d) => c = d

\* What a join and a create found is still so when they do their work.
LookedUp ==
  \A c \in Calls : at[c] \in {"checked", "row"} =>
    /\ KindOf[c] \in {"join", "create"} => Receipt(c) = {}
    /\ KindOf[c] = "join" => exp[Key(c)].invite >= known[c]

\* What the senders saw is not newer than what is there.
SeenBefore ==
  /\ \A c \in Calls : at[c] # "new" => exp[Key(c)] # None
  /\ Open => \A k \in Keys : exp[k] # None => exp[k].rev <= state.rev /\ exp[k].invite <= room.invite
  /\ Open => \A c \in Calls : known[c] <= room.invite

\* Receipts and log say the same of the calls that leave both.
ReceiptsKept ==
  /\ \A r, q \in receipts : r.key = q.key => r = q
  /\ \A d \in Range(log) : at[d] \in {"committed", "ok", "lost"}
  /\ \A d \in Range(log) \cap Receipted : ReceiptOf(d) \in receipts
  /\ \A r \in receipts : r.kind \in Commands => \E d \in Range(log) : ReceiptOf(d) = r

\* What has committed has its receipt, or is in the log.
CommittedKept ==
  Open => \A c \in Calls : at[c] = "committed" =>
    /\ c \in Enveloped => ReceiptOf(c) \in receipts
    /\ KindOf[c] = "leave" => c \in Range(log)

\* The members are those whom the log makes members.
MembersKept == Open => \A a \in People : a \in members <=> MemberAfter(log, a, Len(log))

\* On the present state the command would fail again.
WouldFail(c) ==
  \/ exp[Key(c)].attempt # state.attempt
  \/ \A t \in Applied(c) : ~IndexHolds(Synced(state, t))
RefusedForGood(c) ==
  /\ ReceiptOf(c) \notin receipts
  /\ \/ Receipt(c) # {}
     \/ KindOf[c] # "ready" /\ (exp[Key(c)].rev = state.rev => WouldFail(c))
RefusedKept ==
  Open => \A c \in Enveloped :
    /\ at[c] \in {"stale", "attempt", "refused", "internal", "conflict"} /\ (KindOf[c] = "ready" => at[c] = "conflict")
         => RefusedForGood(c)
    /\ at[c] # "gone"

\* A create counts by its receipt.
MadeKept ==
  /\ \A k \in Keys : made[k] = IF [key |-> k, kind |-> "create"] \in receipts THEN 1 ELSE 0
  /\ \A c \in Calls : KindOf[c] = "create" => at[c] \notin {"row", "internal"}

PgInv ==
  /\ PgTypes /\ AttemptsNumbered /\ PhaseAgrees /\ HostStays /\ GoneIsEmpty /\ KeysLocked /\ LookedUp
  /\ SeenBefore /\ ReceiptsKept /\ CommittedKept /\ MembersKept /\ RefusedKept /\ MadeKept
  /\ TablesAgree /\ AttemptAgrees /\ AppliedWhereSeen /\ OnlyMembersAct /\ VoidInviteStaysOut
-----------------------------------------------------------------------------
(* Logs and their members.                                                   *)

LEMMA AppendToLog ==
  ASSUME NEW S, NEW s \in Seq(S), NEW c \in S
  PROVE  /\ Append(s, c) \in Seq(S)
         /\ Len(Append(s, c)) = Len(s) + 1
         /\ DOMAIN Append(s, c) = 1 .. Len(s) + 1
         /\ \A i \in 1 .. Len(s) : Append(s, c)[i] = s[i]
         /\ Append(s, c)[Len(s) + 1] = c
         /\ Range(Append(s, c)) = Range(s) \cup {c}
<1>1. /\ Append(s, c) \in Seq(S)
      /\ Len(Append(s, c)) = Len(s) + 1
      /\ DOMAIN Append(s, c) = 1 .. Len(s) + 1
      /\ \A i \in 1 .. Len(s) : Append(s, c)[i] = s[i]
      /\ Append(s, c)[Len(s) + 1] = c
  OBVIOUS
<1>2. DOMAIN s = 1 .. Len(s) /\ Len(s) \in Nat
  OBVIOUS
<1>3. Range(Append(s, c)) \subseteq Range(s) \cup {c}
  BY <1>1, <1>2 DEF Range
<1>4. Range(s) \cup {c} \subseteq Range(Append(s, c))
  <2>1. \A i \in 1 .. Len(s) : i \in 1 .. Len(s) + 1
    BY <1>2
  <2>2. Len(s) + 1 \in 1 .. Len(s) + 1
    BY <1>2
  <2>3. QED
    BY <1>1, <1>2, <2>1, <2>2 DEF Range
<1>5. QED
  BY <1>1, <1>3, <1>4

\* The members after the first n calls do not depend on what comes later.
LEMMA MembersBefore ==
  ASSUME NEW s \in Seq(Calls), NEW c \in Calls, NEW a, NEW n \in Nat, n <= Len(s)
  PROVE  MemberAfter(Append(s, c), a, n) <=> MemberAfter(s, a, n)
<1>1. \A i \in 1 .. n : Append(s, c)[i] = s[i]
  BY AppendToLog
<1>2. \A i \in 0 .. n : LeavesBetween(Append(s, c), a, i, n) <=> LeavesBetween(s, a, i, n)
  BY <1>1 DEF LeavesBetween
<1>3. QED
  BY <1>1, <1>2 DEF MemberAfter

\* One more call makes its actor a member, or unmakes him, or neither.
LEMMA MembersNext ==
  ASSUME NEW s \in Seq(Calls), NEW c \in Calls, NEW a
  PROVE  MemberAfter(Append(s, c), a, Len(s) + 1) <=>
           \/ KindOf[c] = "join" /\ ActorOf[c] = a
           \/ ~(KindOf[c] = "leave" /\ ActorOf[c] = a) /\ MemberAfter(s, a, Len(s))
<1> DEFINE n == Len(s)
           t == Append(s, c)
           leaves == KindOf[c] = "leave" /\ ActorOf[c] = a
           joins == KindOf[c] = "join" /\ ActorOf[c] = a
<1>0. n \in Nat
  OBVIOUS
<1>1. /\ \A i \in 1 .. n : t[i] = s[i]
      /\ t[n + 1] = c
  BY AppendToLog
<1> HIDE DEF n, t
<1>2. \A i \in 0 .. n : LeavesBetween(t, a, i, n + 1) <=> leaves \/ LeavesBetween(s, a, i, n)
  <2>1. TAKE i \in 0 .. n
  <2>2. \A j \in i + 1 .. n + 1 : j = n + 1 \/ (j \in i + 1 .. n /\ t[j] = s[j])
    BY <1>0, <1>1
  <2>3. n + 1 \in i + 1 .. n + 1 /\ \A j \in i + 1 .. n : j \in i + 1 .. n + 1 /\ t[j] = s[j]
    BY <1>0, <1>1
  <2>4. QED
    BY <1>1, <2>2, <2>3 DEF LeavesBetween
<1>3. ~LeavesBetween(t, a, n + 1, n + 1)
  BY <1>0 DEF LeavesBetween
<1>4. \A i \in 1 .. n + 1 : i = n + 1 \/ (i \in 1 .. n /\ i \in 0 .. n)
  BY <1>0
<1>5. \A i \in 1 .. n : i \in 1 .. n + 1 /\ i \in 0 .. n
  BY <1>0
<1>6. n + 1 \in 1 .. n + 1 /\ 0 \in 0 .. n
  BY <1>0
<1>7. MemberAfter(t, a, n + 1) => joins \/ (~leaves /\ MemberAfter(s, a, n))
  BY <1>1, <1>2, <1>4, <1>6 DEF MemberAfter
<1>8. joins => MemberAfter(t, a, n + 1)
  BY <1>1, <1>3, <1>6 DEF MemberAfter
<1>9. ~leaves /\ MemberAfter(s, a, n) => MemberAfter(t, a, n + 1)
  BY <1>1, <1>2, <1>5, <1>6 DEF MemberAfter
<1>10. QED
  BY <1>7, <1>8, <1>9 DEF n, t
-----------------------------------------------------------------------------
(* The rows of the attempts.                                                 *)

Rows(n, f) == {Row(i, f[i]) : i \in 1 .. n}

LEMMA RowParts ==
  ASSUME NEW i, NEW x
  PROVE  Row(i, x).id = i /\ Row(i, x).status = x
  BY DEF Row

LEMMA RowsMember ==
  ASSUME NEW n \in Nat, NEW f \in [1 .. n -> Statuses], NEW i, NEW x
  PROVE  Row(i, x) \in Rows(n, f) <=> i \in 1 .. n /\ f[i] = x
  BY DEF Rows, Row

LEMMA RowsCounted ==
  ASSUME NEW n \in Nat, NEW f \in [1 .. n -> Statuses]
  PROVE  IsFiniteSet(Rows(n, f)) /\ Cardinality(Rows(n, f)) = n
<1> DEFINE g == [i \in 1 .. n |-> Row(i, f[i])]
<1>1. g \in Bijection(1 .. n, Rows(n, f))
  <2>1. g \in [1 .. n -> Rows(n, f)]
    BY DEF Rows
  <2>2. \A i, j \in 1 .. n : g[i] = g[j] => i = j
    BY RowParts
  <2>3. \A r \in Rows(n, f) : \E i \in 1 .. n : g[i] = r
    BY DEF Rows
  <2> HIDE DEF g
  <2>4. QED
    BY <2>1, <2>2, <2>3 DEF Bijection, Injection, Surjection, IsInjective
<1>2. ExistsBijection(1 .. n, Rows(n, f))
  BY <1>1 DEF ExistsBijection
<1>3. IsFiniteSet(1 .. n)
  BY FS_Interval
<1>4. IsFiniteSet(Rows(n, f))
  BY <1>2, <1>3, FS_Bijection
<1>5. QED
  BY <1>2, <1>4, FS_CountingElements

\* A row is given another status.
LEMMA RowsReplaced ==
  ASSUME NEW n \in Nat, NEW f \in [1 .. n -> Statuses], NEW k \in 1 .. n, NEW x \in Statuses
  PROVE  /\ (Rows(n, f) \ {Row(k, f[k])}) \cup {Row(k, x)} = Rows(n, [f EXCEPT ![k] = x])
         /\ {IF r.id = k THEN Row(r.id, x) ELSE r : r \in Rows(n, f)} = Rows(n, [f EXCEPT ![k] = x])
<1> DEFINE g == [f EXCEPT ![k] = x]
<1>1. g[k] = x /\ \A i \in 1 .. n : i # k => g[i] = f[i]
  OBVIOUS
<1> HIDE DEF g
<1>2. (Rows(n, f) \ {Row(k, f[k])}) \cup {Row(k, x)} = Rows(n, g)
  BY <1>1, RowParts DEF Rows
<1>3. ASSUME NEW i \in 1 .. n
      PROVE  Row(i, g[i]) = IF Row(i, f[i]).id = k THEN Row(Row(i, f[i]).id, x) ELSE Row(i, f[i])
  BY <1>1, RowParts
<1>4. {IF r.id = k THEN Row(r.id, x) ELSE r : r \in Rows(n, f)} = Rows(n, g)
  BY <1>3 DEF Rows
<1>5. QED
  BY <1>2, <1>4 DEF g

\* A row is added.
LEMMA RowsAdded ==
  ASSUME NEW n \in Nat, NEW f \in [1 .. n -> Statuses], NEW x \in Statuses
  PROVE  \E g \in [1 .. n + 1 -> Statuses] : Rows(n, f) \cup {Row(n + 1, x)} = Rows(n + 1, g)
<1> DEFINE g == [i \in 1 .. n + 1 |-> IF i = n + 1 THEN x ELSE f[i]]
<1>1. \A i \in 1 .. n + 1 : i = n + 1 \/ i \in 1 .. n
  OBVIOUS
<1>2. g \in [1 .. n + 1 -> Statuses]
  BY <1>1
<1>3. /\ g[n + 1] = x /\ n + 1 \in 1 .. n + 1
      /\ \A i \in 1 .. n : g[i] = f[i] /\ i \in 1 .. n + 1
  OBVIOUS
<1> HIDE DEF g
<1>4. Rows(n, f) \cup {Row(n + 1, x)} = Rows(n + 1, g)
  BY <1>1, <1>3 DEF Rows
<1>5. QED
  BY <1>2, <1>4
-----------------------------------------------------------------------------
(* The engine.                                                                *)

\* The state t follows the present one.
Follows(t) ==
  /\ t \in States /\ t.rev = state.rev + 1
  /\ t.phase = "lobby" <=> t.attempt = 0
  /\ t.crew \cap t.bench = {}
  /\ \/ t.attempt = Fresh /\ t.phase = "underway"
     \/ t.attempt = 0
     \/ t.attempt = state.attempt /\ state.phase = "underway"
     \/ t.attempt = state.attempt /\ t.phase = state.phase

LEMMA FreshIsNext ==
  ASSUME NEW n \in Nat, NEW f \in [1 .. n -> Statuses], attempts = Rows(n, f)
  PROVE  Fresh = n + 1 /\ Fresh \in Nat \ {0}
  BY RowsCounted DEF Fresh

LEMMA FreshType == ASSUME AttemptsNumbered PROVE Fresh \in Nat \ {0}
  BY FreshIsNext DEF AttemptsNumbered, Rows

LEMMA CallParts ==
  ASSUME RepositoryAssumption, NEW c \in Calls
  PROVE  /\ Key(c) \in Keys /\ ActorOf[c] \in People /\ KindOf[c] \in Kinds
         /\ ReceiptOf(c) \in [key : Keys, kind : Kinds]
         /\ ReceiptOf(c).key = Key(c) /\ ReceiptOf(c).kind = KindOf[c]
<1>1. ActorOf[c] \in Range(ActorOf)
  BY DEF RepositoryAssumption, Range
<1>2. QED
  BY <1>1 DEF RepositoryAssumption, Keys, People, ReceiptOf

LEMMA StateParts ==
  ASSUME state \in States
  PROVE  /\ state.rev \in Nat /\ state.attempt \in Nat /\ state.phase \in Phases
         /\ state.host \in People /\ state.crew \in SUBSET People /\ state.bench \in SUBSET People
         /\ state.rev + 1 \in Nat
  BY DEF States

LEMMA HostsType ==
  ASSUME state \in States, NEW a \in People, NEW crew \in SUBSET People, NEW bench \in SUBSET People
  PROVE  HostsAfter(a, crew, bench) \subseteq People
  BY StateParts DEF HostsAfter

LEMMA AppliedFollows ==
  ASSUME RepositoryAssumption, state \in States, AttemptsNumbered, PhaseAgrees,
         state.host \in Everyone(state), NEW c \in Enveloped, NEW t \in Applied(c)
  PROVE  /\ Follows(t)
         /\ Everyone(t) = Everyone(state) /\ t.host \in Everyone(t)
         /\ ActorOf[c] \in Everyone(state)
<1> DEFINE s == [state EXCEPT !.rev = @ + 1]
<1>0. /\ c \in Calls /\ ActorOf[c] \in People /\ Permits(c)
      /\ KindOf[c] \in Commands
  BY CallParts DEF Enveloped, Applied
<1>1. /\ s \in States /\ s.rev = state.rev + 1 /\ s.attempt = state.attempt /\ s.phase = state.phase
      /\ s.host = state.host /\ s.crew = state.crew /\ s.bench = state.bench
  BY StateParts DEF States
<1> HIDE DEF s
<1>2. ActorOf[c] \in state.crew
  BY <1>0 DEF Permits
<1>3. CASE KindOf[c] \in {"start", "again"}
  <2>1. t = Begun(s)
    BY <1>0, <1>3 DEF Applied, s
  <2>2. /\ t \in States /\ t.rev = s.rev /\ t.attempt = Fresh /\ t.phase = "underway"
        /\ t.crew = s.crew /\ t.bench = s.bench /\ t.host = s.host
    BY <1>1, <2>1, FreshType DEF Begun, States, Phases
  <2>3. QED
    BY <1>1, <1>2, <2>2, FreshType DEF Follows, Everyone, PhaseAgrees
<1>4. CASE KindOf[c] = "play"
  <2>1. PICK p \in {"underway", "success", "failure"} : t = [s EXCEPT !.phase = p]
    BY <1>0, <1>4 DEF Applied, s
  <2>2. /\ t \in States /\ t.rev = s.rev /\ t.attempt = s.attempt /\ t.phase = p
        /\ t.crew = s.crew /\ t.bench = s.bench /\ t.host = s.host
    BY <1>1, <2>1 DEF States, Phases
  <2>3. state.phase = "underway"
    BY <1>0, <1>4 DEF Permits
  <2>4. QED
    BY <1>1, <1>2, <2>2, <2>3 DEF Follows, Everyone, PhaseAgrees
<1>5. CASE KindOf[c] = "ready"
  <2>1. t = s
    BY <1>0, <1>5 DEF Applied, s
  <2>2. QED
    BY <1>1, <1>2, <2>1 DEF Follows, Everyone, PhaseAgrees
<1>6. CASE KindOf[c] = "bench"
  <2> DEFINE crew == s.crew \ {ActorOf[c]}
             bench == s.bench \cup {ActorOf[c]}
  <2>1. PICK h \in HostsAfter(ActorOf[c], crew, bench \ {ActorOf[c]}) :
           t = [s EXCEPT !.crew = crew, !.bench = bench, !.host = h]
    BY <1>0, <1>6 DEF Applied, s
  <2>2. crew \in SUBSET People /\ bench \in SUBSET People
    BY <1>0, <1>1 DEF States
  <2>3. h \in People /\ h \in crew \cup bench
    <3>1. h \in People
      BY <1>0, <2>1, <2>2, HostsType
    <3>2. state.host \in crew \cup bench
      BY <1>1 DEF Everyone
    <3>3. ActorOf[c] \in bench
      OBVIOUS
    <3> HIDE DEF crew, bench
    <3>4. QED
      BY <2>1, <3>1, <3>2, <3>3 DEF HostsAfter
  <2>4. crew \cap bench = {} /\ crew \cup bench = state.crew \cup state.bench
    BY <1>1, <1>2 DEF PhaseAgrees
  <2> HIDE DEF crew, bench
  <2>5. /\ t \in States /\ t.rev = s.rev /\ t.attempt = s.attempt /\ t.phase = s.phase
        /\ t.crew = crew /\ t.bench = bench /\ t.host = h
    BY <1>1, <2>1, <2>2, <2>3 DEF States
  <2>6. QED
    BY <1>1, <1>2, <2>3, <2>4, <2>5 DEF Follows, Everyone, PhaseAgrees
<1>7. QED
  BY <1>0, <1>3, <1>4, <1>5, <1>6 DEF Commands

LEMMA LeftFollows ==
  ASSUME state \in States, AttemptsNumbered, PhaseAgrees, state.host \in Everyone(state),
         NEW a \in People, NEW t \in Left(a)
  PROVE  /\ Follows(t)
         /\ Everyone(t) = Everyone(state) \ {a}
         /\ Everyone(t) # {} => t.host \in Everyone(t)
<1> DEFINE s == [state EXCEPT !.rev = @ + 1]
           crew == s.crew \ {a}
           bench == s.bench \ {a}
           u(h) == [s EXCEPT !.crew = crew, !.bench = bench, !.host = h]
<1>1. /\ s \in States /\ s.rev = state.rev + 1 /\ s.attempt = state.attempt /\ s.phase = state.phase
      /\ s.host = state.host /\ s.crew = state.crew /\ s.bench = state.bench
  BY StateParts DEF States
<1>2. PICK h \in HostsAfter(a, crew, bench) :
         t = IF a \in s.bench \/ s.phase = "lobby" THEN u(h)
             ELSE IF Cardinality(crew) >= MinCrew THEN Begun(u(h)) ELSE Lobby(u(h))
  BY DEF Left
<1> HIDE DEF s
<1>3. crew \in SUBSET People /\ bench \in SUBSET People
  BY <1>1 DEF States
<1>4. h \in People
  BY <1>2, <1>3, HostsType
<1>5. crew \cap bench = {} /\ crew \cup bench = Everyone(state) \ {a}
  BY <1>1 DEF PhaseAgrees, Everyone
<1> HIDE DEF crew, bench
<1>e. crew \cup bench # {} => h \in crew \cup bench
  BY <1>2, <1>5 DEF HostsAfter
<1>6. /\ u(h) \in States /\ u(h).rev = s.rev /\ u(h).attempt = s.attempt /\ u(h).phase = s.phase
      /\ u(h).crew = crew /\ u(h).bench = bench /\ u(h).host = h
  BY <1>1, <1>3, <1>4 DEF States
<1> DEFINE v == u(h)
<1>7. /\ v \in States /\ v.rev = s.rev /\ v.attempt = s.attempt /\ v.phase = s.phase
      /\ v.crew = crew /\ v.bench = bench /\ v.host = h /\ (t = v \/ t = Begun(v) \/ t = Lobby(v))
  BY <1>2, <1>6
<1> HIDE DEF v
<1>8. CASE t = v
  BY <1>1, <1>5, <1>e, <1>7, <1>8 DEF Follows, PhaseAgrees, Everyone
<1>9. CASE t = Begun(v)
  <2>1. /\ t \in States /\ t.rev = s.rev /\ t.attempt = Fresh /\ t.phase = "underway"
        /\ t.crew = crew /\ t.bench = bench /\ t.host = h
    BY <1>7, <1>9, FreshType DEF Begun, States, Phases
  <2>2. QED
    BY <1>1, <1>5, <1>e, <2>1, FreshType DEF Follows, Everyone
<1>10. CASE t = Lobby(v)
  <2>1. /\ t \in States /\ t.rev = s.rev /\ t.attempt = 0 /\ t.phase = "lobby"
        /\ t.crew = crew /\ t.bench = bench /\ t.host = h
    BY <1>7, <1>10 DEF Lobby, States, Phases
  <2>2. QED
    BY <1>1, <1>5, <1>e, <2>1 DEF Follows, Everyone
<1>11. QED
  BY <1>7, <1>8, <1>9, <1>10

LEMMA SeatedFollows ==
  ASSUME state \in States, PhaseAgrees, NEW a \in People, a \notin Everyone(state)
  PROVE  /\ Follows(Seated(a))
         /\ Everyone(Seated(a)) = Everyone(state) \cup {a} /\ Seated(a).host = state.host
<1> DEFINE more == state.crew \cup {a}
           rest == state.bench \cup {a}
<1>1. /\ more \in SUBSET People /\ rest \in SUBSET People
      /\ more \cap state.bench = {} /\ state.crew \cap rest = {}
      /\ more \cup state.bench = Everyone(state) \cup {a}
      /\ state.crew \cup rest = Everyone(state) \cup {a}
  BY StateParts DEF PhaseAgrees, Everyone
<1>2. Seated(a) = [state EXCEPT !.rev = state.rev + 1, !.crew = more]
      \/ Seated(a) = [state EXCEPT !.rev = state.rev + 1, !.bench = rest]
  BY DEF Seated
<1> HIDE DEF more, rest
<1>3. \/ /\ Seated(a) \in States /\ Seated(a).crew = more /\ Seated(a).bench = state.bench
         /\ Seated(a).rev = state.rev + 1 /\ Seated(a).attempt = state.attempt /\ Seated(a).phase = state.phase
         /\ Seated(a).host = state.host
      \/ /\ Seated(a) \in States /\ Seated(a).crew = state.crew /\ Seated(a).bench = rest
         /\ Seated(a).rev = state.rev + 1 /\ Seated(a).attempt = state.attempt /\ Seated(a).phase = state.phase
         /\ Seated(a).host = state.host
  BY <1>1, <1>2, StateParts DEF States
<1>4. QED
  BY <1>1, <1>3 DEF Follows, PhaseAgrees, Everyone
-----------------------------------------------------------------------------
(* syncMissionAttempt.                                                        *)

\* The rows stay numbered, and that of the attempt underway says how it stands.
LEMMA SyncedKeeps ==
  ASSUME state \in States, AttemptsNumbered, PhaseAgrees, AttemptAgrees, Open,
         NEW t, Follows(t)
  PROVE  /\ \E n \in Nat : \E f \in [1 .. n -> Statuses] : Synced(state, t) = Rows(n, f)
         /\ t.attempt # 0 =>
              Row(t.attempt, IF t.phase = "underway" THEN "active" ELSE t.phase) \in Synced(state, t)
<1>a. PICK n \in Nat : \E f \in [1 .. n -> Statuses] : attempts = Rows(n, f)
  BY DEF AttemptsNumbered, Rows
<1>0. PICK f \in [1 .. n -> Statuses] : attempts = Rows(n, f)
  BY <1>a
<1>b. "active" \in Statuses /\ "abandoned" \in Statuses /\ "success" \in Statuses /\ "failure" \in Statuses
  BY DEF Statuses
<1>c. \A k \in 1 .. n, x \in Statuses :
        /\ (Rows(n, f) \ {Row(k, f[k])}) \cup {Row(k, x)} = Rows(n, [f EXCEPT ![k] = x])
        /\ {IF r.id = k THEN Row(r.id, x) ELSE r : r \in Rows(n, f)} = Rows(n, [f EXCEPT ![k] = x])
  BY RowsReplaced
<1>1. Fresh = n + 1 /\ Fresh # 0
  BY <1>0, FreshIsNext
<1>2. /\ t \in States /\ t.attempt \in Nat /\ t.phase \in Phases
      /\ state.attempt \in Nat /\ state.phase \in Phases
      /\ t.phase = "lobby" <=> t.attempt = 0
      /\ state.phase = "lobby" <=> state.attempt = 0
  BY DEF Follows, States, PhaseAgrees
<1>3. state.attempt # 0 =>
        /\ state.attempt \in 1 .. n
        /\ f[state.attempt] = IF state.phase = "underway" THEN "active" ELSE state.phase
  BY <1>0, RowsMember DEF AttemptAgrees
<1>4. CASE t.attempt = 0
  <2>1. Synced(state, t) = attempts
    BY <1>4 DEF Synced
  <2>2. QED
    BY <1>0, <1>4, <2>1
<1>5. CASE t.attempt = state.attempt /\ t.attempt # 0 /\ t.phase # state.phase
  <2>1. t.phase \in {"underway", "success", "failure"} /\ state.phase = "underway"
    BY <1>1, <1>2, <1>3, <1>5 DEF Follows, Phases
  <2>2. t.phase \in {"success", "failure"}
    BY <1>5, <2>1
  <2>3. Synced(state, t) = {IF r.id = t.attempt THEN Row(r.id, t.phase) ELSE r : r \in attempts}
    BY <1>5, <2>2 DEF Synced
  <2> DEFINE g == [f EXCEPT ![t.attempt] = t.phase]
  <2>4. Synced(state, t) = Rows(n, g)
    <3>1. t.attempt \in 1 .. n /\ t.phase \in Statuses
      BY <1>b, <1>3, <1>5, <2>2
    <3>2. {IF r.id = t.attempt THEN Row(r.id, t.phase) ELSE r : r \in Rows(n, f)} = Rows(n, g)
      BY <1>c, <3>1
    <3>3. QED
      BY <1>0, <2>3, <3>2
  <2>5. g \in [1 .. n -> Statuses] /\ g[t.attempt] = t.phase
    BY <1>3, <1>5, <2>2 DEF Statuses
  <2>6. Row(t.attempt, t.phase) \in Rows(n, g)
    BY <1>3, <1>5, <2>5, RowsMember
  <2>7. QED
    BY <2>2, <2>4, <2>5, <2>6
<1>6. CASE t.attempt = state.attempt /\ t.attempt # 0 /\ t.phase = state.phase
  <2>1. Synced(state, t) = attempts
    BY <1>6 DEF Synced
  <2>2. QED
    BY <1>0, <1>6, <2>1 DEF AttemptAgrees
<1>7. CASE t.attempt # state.attempt /\ t.attempt # 0
  <2>1. t.attempt = n + 1 /\ t.phase = "underway"
    BY <1>1, <1>7 DEF Follows
  <2> DEFINE closed == IF state.attempt # 0 /\ Row(state.attempt, "active") \in attempts
                       THEN (attempts \ {Row(state.attempt, "active")}) \cup {Row(state.attempt, "abandoned")}
                       ELSE attempts
  <2>2. Synced(state, t) = closed \cup {Row(n + 1, "active")}
    BY <1>7, <2>1 DEF Synced
  <2>3. \E g \in [1 .. n -> Statuses] : closed = Rows(n, g)
    <3>1. CASE state.attempt # 0 /\ Row(state.attempt, "active") \in attempts
      <4>1. state.attempt \in 1 .. n /\ f[state.attempt] = "active"
        BY <1>0, <3>1, RowsMember
      <4>2. closed = Rows(n, [f EXCEPT ![state.attempt] = "abandoned"])
        BY <1>b, <1>c, <1>0, <3>1, <4>1
      <4>3. [f EXCEPT ![state.attempt] = "abandoned"] \in [1 .. n -> Statuses]
        BY <4>1 DEF Statuses
      <4>4. QED
        BY <4>2, <4>3
    <3>2. CASE ~(state.attempt # 0 /\ Row(state.attempt, "active") \in attempts)
      BY <1>0, <3>2
    <3>3. QED
      BY <3>1, <3>2
  <2> HIDE DEF closed
  <2>4. PICK g \in [1 .. n -> Statuses] : closed = Rows(n, g)
    BY <2>3
  <2>5. \E h \in [1 .. n + 1 -> Statuses] : closed \cup {Row(n + 1, "active")} = Rows(n + 1, h)
    <3>1. \A x \in Statuses : \E h \in [1 .. n + 1 -> Statuses] : Rows(n, g) \cup {Row(n + 1, x)} = Rows(n + 1, h)
      BY RowsAdded
    <3>2. QED
      BY <1>b, <2>4, <3>1
  <2>6. n + 1 \in Nat
    OBVIOUS
  <2>7. QED
    BY <2>1, <2>2, <2>5, <2>6
<1>8. QED
  BY <1>4, <1>5, <1>6, <1>7

\* Whether the index holds does not depend on how the engine decides: only a new
\* attempt could break it, and then every outcome does.
LEMMA IndexDecides ==
  ASSUME RepositoryAssumption, state \in States, AttemptsNumbered, PhaseAgrees,
         NEW c \in Enveloped, NEW t \in Applied(c), NEW u \in Applied(c),
         IndexHolds(Synced(state, t))
  PROVE  IndexHolds(Synced(state, u))
<1>0. KindOf[c] \in Commands /\ Permits(c)
  BY CallParts DEF Enveloped, Applied
<1>1. CASE KindOf[c] \in {"start", "again", "ready"}
  BY <1>0, <1>1 DEF Applied
<1>2. CASE KindOf[c] = "bench"
  <2>1. state.phase = "lobby"
    BY <1>0, <1>2 DEF Permits
  <2>2. state.attempt = 0
    BY <2>1 DEF PhaseAgrees
  <2>3. u.attempt = 0
    BY <1>0, <1>2, <2>2 DEF Applied, States
  <2>4. Synced(state, u) = attempts
    BY <2>3 DEF Synced
  <2>5. QED
    BY <2>4 DEF AttemptsNumbered
<1>3. CASE KindOf[c] = "play"
  <2>1. u.attempt = state.attempt
    BY <1>0, <1>3 DEF Applied, States
  <2> DEFINE new == {IF r.id = u.attempt THEN Row(r.id, u.phase) ELSE r : r \in attempts}
  <2>2. Synced(state, u) = attempts \/ (Synced(state, u) = new /\ u.phase \in {"success", "failure"})
    BY <2>1 DEF Synced
  <2>3. CASE Synced(state, u) = attempts
    BY <2>3 DEF AttemptsNumbered
  <2>4. CASE Synced(state, u) = new /\ u.phase \in {"success", "failure"}
    <3>1. {r \in new : r.status = "active"} \subseteq {r \in attempts : r.status = "active"}
      BY <2>4, RowParts
    <3> HIDE DEF new
    <3>2. IsFiniteSet(attempts)
      BY RowsCounted DEF AttemptsNumbered, Rows
    <3>3. IsFiniteSet({r \in attempts : r.status = "active"})
      BY <3>2, FS_Subset
    <3>4. /\ Cardinality({r \in new : r.status = "active"}) <= Cardinality({r \in attempts : r.status = "active"})
          /\ Cardinality({r \in attempts : r.status = "active"}) \in Nat
          /\ Cardinality({r \in new : r.status = "active"}) \in Nat
      BY <3>1, <3>3, FS_Subset, FS_CardinalityType
    <3>5. QED
      BY <2>4, <3>4 DEF AttemptsNumbered, IndexHolds
  <2>5. QED
    BY <2>2, <2>3, <2>4
<1>4. QED
  BY <1>0, <1>1, <1>2, <1>3 DEF Commands
-----------------------------------------------------------------------------
(* The steps, told apart by what they change.                                *)

\* A call moves on, is refused or answered; the tables stay as they are.
Moves(c, p) ==
  /\ at[c] \in Underway /\ p \in Places \ {"new"} /\ at' = [at EXCEPT ![c] = p]
  /\ UNCHANGED <<room, members, state, attempts, receipts, log, made, exp, known>>
  /\ faults' \in 0 .. MaxFaults
  /\ p \in {"held", "checked", "row"} /\ KindOf[c] # "leave" =>
       Holds(c) \/ \A d \in Calls : Key(d) = Key(c) => ~Holds(d)
  /\ p \in {"checked", "row"} /\ KindOf[c] \in {"join", "create"} => Receipt(c) = {}
  /\ p \in {"checked", "row"} /\ KindOf[c] = "join" => exp[Key(c)].invite >= known[c]
  /\ at[c] = "committed" => p \in {"ok", "lost"}
  /\ p = "ok" => at[c] = "committed" \/ KindOf[c] = "snapshot"
  /\ p = "committed" /\ Open => KindOf[c] # "leave" /\ (c \in Enveloped => ReceiptOf(c) \in receipts)
  /\ Open /\ c \in Enveloped =>
       /\ p # "gone"
       /\ p \in {"stale", "attempt", "refused", "internal", "conflict"} /\ (KindOf[c] = "ready" => p = "conflict")
            => RefusedForGood(c)
  /\ KindOf[c] = "create" => p \notin {"row", "internal"}

\* A call takes effect, and t is the state after it.
MembersNow(c) ==
  IF KindOf[c] = "join" THEN members \cup {ActorOf[c]}
  ELSE IF KindOf[c] = "leave" THEN members \ {ActorOf[c]} ELSE members
Commits(c, t) ==
  /\ at[c] = "row" /\ Open /\ at' = [at EXCEPT ![c] = "committed"]
  /\ KindOf[c] \in Commands \cup {"join", "leave"}
  /\ Follows(t) /\ state' = t
  /\ IndexHolds(Synced(state, t)) /\ attempts' = Synced(state, t)
  /\ room' \in RoomRow /\ room'.rev = t.rev /\ room'.attempt = t.attempt /\ room'.invite = room.invite
  /\ log' = Append(log, c)
  /\ IF KindOf[c] = "leave" THEN UNCHANGED receipts
     ELSE Receipt(c) = {} /\ receipts' = receipts \cup {ReceiptOf(c)}
  /\ members' = MembersNow(c) /\ Everyone(t) = MembersNow(c)
  /\ t.host \in MembersNow(c) /\ room'.host \in MembersNow(c)
  /\ KindOf[c] # "join" => ActorOf[c] \in members
  /\ KindOf[c] \in Commands \ {"ready"} => exp[Key(c)].rev = state.rev
  /\ c \in Enveloped => ~WouldFail(c)
  /\ UNCHANGED <<made, exp, known, faults>>

\* A call leaves nothing but its receipt, a new invite, or another room.
Remembers(c) ==
  /\ at[c] \in {"checked", "row"} /\ at' = [at EXCEPT ![c] = "committed"]
  /\ KindOf[c] \in {"join", "invite", "create"}
  /\ Receipt(c) = {} /\ receipts' = receipts \cup {ReceiptOf(c)}
  /\ \/ UNCHANGED room
     \/ Open /\ room' = [room EXCEPT !.invite = @ + 1]
  /\ made' = IF KindOf[c] = "create" THEN [made EXCEPT ![Key(c)] = @ + 1] ELSE made
  /\ UNCHANGED <<members, state, attempts, log, exp, known, faults>>

\* The last member leaves.
Closes(c) ==
  /\ at[c] = "row" /\ KindOf[c] = "leave" /\ Open /\ DeleteRoom
  /\ at' = [at EXCEPT ![c] = "committed"]
  /\ UNCHANGED <<made, exp, known, faults>>

\* No one else can have the key whose lock a call holds.
LEMMA FromReceiptFits ==
  ASSUME RepositoryAssumption, PgInv, NEW c \in Calls, Receipt(c) # {}
  PROVE  \/ FromReceipt(c) = "committed" /\ ReceiptOf(c) \in receipts
         \/ FromReceipt(c) = "conflict" /\ ReceiptOf(c) \notin receipts
<1>1. \A r \in receipts : r \in [key : Keys, kind : Kinds]
  BY DEF PgInv, PgTypes
<1>2. \A r \in Receipt(c) : r.kind = KindOf[c] => r = ReceiptOf(c)
  BY <1>1 DEF Receipt, ReceiptOf
<1>3. ReceiptOf(c) \in receipts => ReceiptOf(c) \in Receipt(c)
  BY CallParts DEF Receipt
<1>4. ReceiptOf(c).kind = KindOf[c]
  BY CallParts
<1>5. Receipt(c) \subseteq receipts
  BY DEF Receipt
<1>6. QED
  BY <1>2, <1>3, <1>4, <1>5 DEF FromReceipt

\* The plain moves, by action.
LEMMA LookUpsMove ==
  ASSUME RepositoryAssumption, PgInv, NEW c \in Calls,
         \/ LockCommand(c) \/ LookUpInvite(c) \/ LookUpCreate(c) \/ CheckMember(c) \/ LockRow(c)
  PROVE  \E p : Moves(c, p)
<1>0. /\ KindOf[c] \in Kinds /\ faults \in 0 .. MaxFaults
      /\ c \in Enveloped <=> KindOf[c] \in Commands
  BY CallParts DEF PgInv, PgTypes, Enveloped
<1>1. CASE LockCommand(c)
  <2>1. Moves(c, "held")
    BY <1>0, <1>1 DEF LockCommand, Moves, Answer, tables, Places, Underway, Answers, Refusals, Holds
  <2>2. QED
    BY <2>1
<1>2. CASE LookUpInvite(c)
  <2>0. at[c] = "held" /\ KindOf[c] = "join" /\ Holds(c) /\ c \notin Enveloped
    BY <1>0, <1>2 DEF LookUpInvite, Holds, Commands
  <2>1. CASE ~InviteGood(c)
    <3>1. Moves(c, "gone")
      BY <1>0, <1>2, <2>0, <2>1 DEF LookUpInvite, Moves, Answer, tables, Places, Underway, Answers, Refusals
    <3>2. QED
      BY <3>1
  <2>2. CASE InviteGood(c) /\ Receipt(c) # {}
    <3>1. Moves(c, FromReceipt(c))
      BY <1>0, <1>2, <2>0, <2>2, FromReceiptFits
         DEF LookUpInvite, Moves, Answer, tables, Places, Underway, Answers, Refusals
    <3>2. QED
      BY <3>1
  <2>3. CASE InviteGood(c) /\ Receipt(c) = {}
    <3>1. exp[Key(c)].invite >= known[c]
      <4>1. Open /\ exp[Key(c)].invite = room.invite
        BY <2>3 DEF InviteGood
      <4>2. room.invite \in Nat /\ known[c] \in Nat /\ known[c] <= room.invite
        BY <4>1 DEF PgInv, PgTypes, SeenBefore, Open, RoomRow
      <4>3. QED
        BY <4>1, <4>2
    <3>2. Moves(c, "checked")
      BY <1>0, <1>2, <2>0, <2>3, <3>1
         DEF LookUpInvite, Moves, Answer, tables, Places, Underway, Answers, Refusals
    <3>3. QED
      BY <3>2
  <2>4. QED
    BY <2>1, <2>2, <2>3
<1>3. CASE LookUpCreate(c)
  <2>0. at[c] = "held" /\ KindOf[c] = "create" /\ Holds(c) /\ c \notin Enveloped
    BY <1>0, <1>3 DEF LookUpCreate, Holds, Commands
  <2>1. CASE Receipt(c) # {}
    <3>1. Moves(c, FromReceipt(c))
      BY <1>0, <1>3, <2>0, <2>1, FromReceiptFits
         DEF LookUpCreate, Moves, Answer, tables, Places, Underway, Answers, Refusals
    <3>2. QED
      BY <3>1
  <2>2. CASE Receipt(c) = {}
    <3>1. Moves(c, "checked")
      BY <1>0, <1>3, <2>0, <2>2 DEF LookUpCreate, Moves, Answer, tables, Places, Underway, Answers, Refusals
    <3>2. QED
      BY <3>1
  <2>3. QED
    BY <2>1, <2>2
<1>4. CASE CheckMember(c)
  <2>0. at[c] = "held" /\ KindOf[c] \in Commands /\ Holds(c)
    BY <1>0, <1>4 DEF CheckMember, Holds, Commands
  <2>1. PICK p \in {"gone", "denied", "checked"} :
           at' = [at EXCEPT ![c] = p] /\ (p = "gone" => ~Open)
    BY <1>4 DEF CheckMember, Answer
  <2>2. Moves(c, p)
    BY <1>0, <1>4, <2>0, <2>1
       DEF CheckMember, Moves, tables, Places, Underway, Answers, Refusals, Commands
  <2>3. QED
    BY <2>2
<1>5. CASE LockRow(c)
  <2>1. PICK p \in {"gone", "row"} :
           at' = [at EXCEPT ![c] = p] /\ (p = "gone" => ~Open)
    BY <1>5 DEF LockRow, Answer
  <2>2. at[c] \in Underway /\ at[c] # "committed" /\ (KindOf[c] # "leave" => Holds(c)) /\ KindOf[c] # "create"
    BY <1>0, <1>5 DEF LockRow, Holds, Underway
  <2>3. KindOf[c] = "join" => Receipt(c) = {} /\ exp[Key(c)].invite >= known[c]
    BY <1>5 DEF LockRow, PgInv, LookedUp
  <2>4. Moves(c, p)
    BY <1>0, <1>5, <2>1, <2>2, <2>3
       DEF LockRow, Moves, tables, Places, Underway, Answers, Refusals, Commands
  <2>5. QED
    BY <2>4
<1>6. QED
  BY <1>1, <1>2, <1>3, <1>4, <1>5

LEMMA RepliesMove ==
  ASSUME RepositoryAssumption, PgInv, NEW c \in Calls,
         NoState(c) \/ Snapshot(c) \/ Reply(c) \/ Lose(c)
  PROVE  \E p : Moves(c, p)
<1>0. /\ KindOf[c] \in Kinds /\ faults \in 0 .. MaxFaults
      /\ c \in Enveloped <=> KindOf[c] \in Commands
  BY CallParts DEF PgInv, PgTypes, Enveloped
<1>1. CASE NoState(c)
  <2>1. KindOf[c] # "create"
    BY <1>1 DEF NoState, PgInv, MadeKept
  <2>2. Moves(c, "internal")
    BY <1>0, <1>1, <2>1 DEF NoState, Moves, Answer, Unchanged, Places, Underway, Answers, Refusals
  <2>3. QED
    BY <2>2
<1>2. CASE Snapshot(c)
  <2>1. PICK p \in {"gone", "denied", "ok"} : at' = [at EXCEPT ![c] = p]
    BY <1>2 DEF Snapshot, Answer
  <2>2. Moves(c, p)
    BY <1>0, <1>2, <2>1 DEF Snapshot, Moves, tables, Places, Underway, Answers, Refusals, Commands
  <2>3. QED
    BY <2>2
<1>3. CASE Reply(c)
  <2>1. Moves(c, "ok")
    BY <1>0, <1>3 DEF Reply, Answer, Moves, tables, Places, Underway, Answers, Refusals
  <2>2. QED
    BY <2>1
<1>4. CASE Lose(c)
  <2>1. faults' \in 0 .. MaxFaults
    BY <1>0, <1>4 DEF Lose, RepositoryAssumption
  <2>2. Moves(c, "lost")
    BY <1>0, <1>4, <2>1 DEF Lose, Answer, Moves, tables, Places, Underway, Answers, Refusals
  <2>3. QED
    BY <2>2
<1>5. QED
  BY <1>1, <1>2, <1>3, <1>4

\* A command that fails now would fail again.
LEMMA CommandRefused ==
  ASSUME RepositoryAssumption, PgInv, NEW c \in Calls, c \in Enveloped, Open,
         \/ CommandAnswer(c) \in {"stale", "attempt", "conflict"}
         \/ CommandAnswer(c) = "go" /\ \A t \in Applied(c) : ~IndexHolds(Synced(state, t)),
         KindOf[c] = "ready" => CommandAnswer(c) = "conflict"
  PROVE  RefusedForGood(c)
<1>1. CASE Receipt(c) # {}
  <2>1. CommandAnswer(c) = FromReceipt(c)
    BY <1>1 DEF CommandAnswer
  <2>2. ReceiptOf(c) \notin receipts
    BY <1>1, <2>1, FromReceiptFits
  <2>3. QED
    BY <1>1, <2>2 DEF RefusedForGood
<1>2. CASE Receipt(c) = {}
  <2>1. ReceiptOf(c) \notin receipts
    BY <1>2, CallParts DEF Receipt
  <2>2. CommandAnswer(c) \in {"stale", "attempt", "go"}
    BY <1>2 DEF CommandAnswer
  <2>3. KindOf[c] # "ready"
    BY <2>2
  <2>4. exp[Key(c)].rev = state.rev => WouldFail(c)
    BY <1>2, <2>3 DEF CommandAnswer, WouldFail
  <2>5. QED
    BY <2>1, <2>3, <2>4 DEF RefusedForGood
<1>3. QED
  BY <1>1, <1>2

\* The header that is written has the type of a row.
LEMMA HeaderType ==
  ASSUME PgInv, Open, NEW t \in States, NEW host \in People
  PROVE  /\ Header(t, host) \in RoomRow
         /\ Header(t, host).rev = t.rev /\ Header(t, host).attempt = t.attempt /\ Header(t, host).host = host
         /\ Header(t, host).invite = room.invite
  BY DEF PgInv, PgTypes, Open, RoomRow, States, Header

LEMMA RowParts2 ==
  ASSUME PgInv, Open
  PROVE  room.host \in People /\ room.rev \in Nat /\ room.attempt \in Nat /\ room.invite \in Nat
  BY DEF PgInv, PgTypes, Open, RoomRow

LEMMA CommandSteps ==
  ASSUME RepositoryAssumption, PgInv, NEW c \in Calls, Command(c)
  PROVE  (\E p : Moves(c, p)) \/ (\E t : Commits(c, t))
<1>0. /\ at[c] = "row" /\ Open /\ KindOf[c] \in Commands /\ faults \in 0 .. MaxFaults
      /\ c \in Enveloped /\ Holds(c)
  BY DEF Command, PgInv, PgTypes, Enveloped, Holds, Commands
<1>1. ASSUME NEW p \in {"committed", "stale", "attempt", "conflict", "refused", "internal"},
             at' = [at EXCEPT ![c] = p], Unchanged,
             p = "committed" => ReceiptOf(c) \in receipts,
             p # "committed" /\ (KindOf[c] = "ready" => p = "conflict") => RefusedForGood(c)
      PROVE  Moves(c, p)
  BY <1>0, <1>1 DEF Moves, Command, Unchanged, Places, Underway, Answers, Refusals, Commands
<1>2. CASE CommandAnswer(c) # "go"
  <2> DEFINE p == CommandAnswer(c)
  <2>1. at' = [at EXCEPT ![c] = p] /\ Unchanged
    BY <1>2 DEF Command, Answer
  <2>2. p \in {"committed", "stale", "attempt", "conflict"}
    BY <1>2 DEF CommandAnswer, FromReceipt
  <2>3. p = "committed" => ReceiptOf(c) \in receipts
    BY FromReceiptFits DEF CommandAnswer, FromReceipt
  <2>4. p # "committed" /\ (KindOf[c] = "ready" => p = "conflict") => RefusedForGood(c)
    BY <1>0, <2>2, CommandRefused
  <2> HIDE DEF p
  <2>5. Moves(c, p)
    BY <1>1, <2>1, <2>2, <2>3, <2>4
  <2>6. QED
    BY <2>5
<1>3. CASE CommandAnswer(c) = "go" /\ Applied(c) = {}
  <2>1. at' = [at EXCEPT ![c] = "refused"] /\ Unchanged
    BY <1>3 DEF Command, Answer
  <2>2. KindOf[c] # "ready" => RefusedForGood(c)
    BY <1>0, <1>3, CommandRefused
  <2>3. Moves(c, "refused")
    BY <1>1, <2>1, <2>2
  <2>4. QED
    BY <2>3
<1>4. CASE CommandAnswer(c) = "go" /\ Applied(c) # {}
  <2>1. PICK t \in Applied(c) : Write(c, t, room.host)
    BY <1>4 DEF Command
  <2>2. UNCHANGED <<members, made, exp, known, faults>>
    BY <1>4 DEF Command
  <2>3. Follows(t) /\ Everyone(t) = Everyone(state) /\ t.host \in Everyone(t) /\ ActorOf[c] \in Everyone(state)
    BY <1>0, AppliedFollows DEF PgInv, PgTypes, HostStays
  <2>4. members = Everyone(state) /\ room.host \in members
    BY <1>0 DEF PgInv, TablesAgree
  <2>5. /\ Receipt(c) = {} /\ exp[Key(c)].attempt = state.attempt
        /\ KindOf[c] # "ready" => exp[Key(c)].rev = state.rev
    BY <1>4 DEF CommandAnswer, FromReceipt
  <2>6. CASE ~IndexHolds(Synced(state, t))
    <3>1. at' = [at EXCEPT ![c] = "internal"] /\ Unchanged
      BY <2>1, <2>2, <2>6 DEF Write, Answer, Unchanged
    <3>2. \A u \in Applied(c) : ~IndexHolds(Synced(state, u))
      BY <1>0, <2>6, IndexDecides DEF PgInv, PgTypes
    <3>3. KindOf[c] # "ready" => RefusedForGood(c)
      BY <1>0, <1>4, <3>2, CommandRefused
    <3>4. Moves(c, "internal")
      BY <1>1, <3>1, <3>3
    <3>5. QED
      BY <3>4
  <2>7. CASE IndexHolds(Synced(state, t))
    <3>1. /\ state' = t /\ room' = Header(t, room.host) /\ attempts' = Synced(state, t)
          /\ log' = Append(log, c) /\ receipts' = receipts \cup {ReceiptOf(c)}
          /\ at' = [at EXCEPT ![c] = "committed"]
      BY <1>0, <2>1, <2>7 DEF Write, Remember, Answer, ReceiptOf, Commands
    <3>2. t \in States
      BY <2>3 DEF Follows
    <3>3. /\ room' \in RoomRow /\ room'.rev = t.rev /\ room'.attempt = t.attempt
          /\ room'.invite = room.invite /\ room'.host = room.host
      BY <1>0, <3>1, <3>2, HeaderType, RowParts2
    <3>4. MembersNow(c) = members
      BY <1>0 DEF MembersNow, Commands
    <3>5. ~WouldFail(c)
      BY <2>5, <2>7 DEF WouldFail
    <3>6. Commits(c, t)
      BY <1>0, <2>2, <2>3, <2>4, <2>5, <2>7, <3>1, <3>3, <3>4, <3>5 DEF Commits, Commands
    <3>7. QED
      BY <3>6
  <2>8. QED
    BY <2>6, <2>7
<1>5. QED
  BY <1>2, <1>3, <1>4

LEMMA JoinSteps ==
  ASSUME RepositoryAssumption, PgInv, NEW c \in Calls, Join(c)
  PROVE  Remembers(c) \/ \E t : Commits(c, t)
<1>0. /\ at[c] = "row" /\ Open /\ KindOf[c] = "join" /\ Receipt(c) = {} /\ ActorOf[c] \in People
      /\ c \notin Enveloped
  BY CallParts DEF Join, PgInv, LookedUp, Enveloped, Commands
<1>1. members = Everyone(state) /\ room.host \in members /\ state.host \in members
  BY <1>0 DEF PgInv, TablesAgree, HostStays
<1>2. CASE ActorOf[c] \in Everyone(state)
  <2>1. Remembers(c)
    BY <1>0, <1>2 DEF Join, Remember, Answer, Remembers, ReceiptOf
  <2>2. QED
    BY <2>1
<1>3. CASE ActorOf[c] \notin Everyone(state)
  <2> DEFINE t == Seated(ActorOf[c])
  <2>1. Write(c, t, room.host) /\ members' = members \cup {ActorOf[c]}
        /\ UNCHANGED <<made, exp, known, faults>>
    BY <1>3 DEF Join
  <2>2. Follows(t) /\ Everyone(t) = Everyone(state) \cup {ActorOf[c]} /\ t.host = state.host
    BY <1>0, <1>3, SeatedFollows DEF PgInv, PgTypes
  <2>3. t.attempt = state.attempt /\ t.phase = state.phase
    BY StateParts DEF Seated, PgInv, PgTypes, States
  <2> HIDE DEF t
  <2>4. Synced(state, t) = attempts /\ IndexHolds(Synced(state, t))
    BY <2>3 DEF Synced, PgInv, AttemptsNumbered
  <2>5. /\ state' = t /\ room' = Header(t, room.host) /\ attempts' = Synced(state, t)
        /\ log' = Append(log, c) /\ receipts' = receipts \cup {ReceiptOf(c)}
        /\ at' = [at EXCEPT ![c] = "committed"]
    BY <1>0, <2>1, <2>4 DEF Write, Remember, Answer, ReceiptOf
  <2>6. t \in States
    BY <2>2 DEF Follows
  <2>7. /\ room' \in RoomRow /\ room'.rev = t.rev /\ room'.attempt = t.attempt
        /\ room'.invite = room.invite /\ room'.host = room.host
    BY <1>0, <2>5, <2>6, HeaderType, RowParts2
  <2>8. Commits(c, t)
    BY <1>0, <1>1, <2>1, <2>2, <2>4, <2>5, <2>7 DEF Commits, MembersNow, Commands
  <2>9. QED
    BY <2>8
<1>4. QED
  BY <1>2, <1>3

LEMMA InviteSteps ==
  ASSUME RepositoryAssumption, PgInv, NEW c \in Calls, Invite(c)
  PROVE  Remembers(c) \/ \E p : Moves(c, p)
<1>0. /\ at[c] = "row" /\ Open /\ KindOf[c] = "invite" /\ Holds(c) /\ faults \in 0 .. MaxFaults
      /\ c \notin Enveloped
  BY DEF Invite, PgInv, PgTypes, Holds, Enveloped, Commands
<1>1. ASSUME NEW p \in {"denied", "committed", "conflict"}, at' = [at EXCEPT ![c] = p], Unchanged
      PROVE  Moves(c, p)
  BY <1>0, <1>1 DEF Moves, Invite, Unchanged, Places, Underway, Answers, Refusals
<1>2. CASE room.host # ActorOf[c]
  BY <1>1, <1>2 DEF Invite, Answer
<1>3. CASE room.host = ActorOf[c] /\ Receipt(c) # {}
  BY <1>1, <1>3 DEF Invite, Answer, FromReceipt
<1>4. CASE room.host = ActorOf[c] /\ Receipt(c) = {}
  BY <1>0, <1>4 DEF Invite, Remember, Answer, Remembers, ReceiptOf
<1>5. QED
  BY <1>2, <1>3, <1>4

LEMMA LeaveSteps ==
  ASSUME RepositoryAssumption, PgInv, NEW c \in Calls, Leave(c)
  PROVE  Closes(c) \/ (\E p : Moves(c, p)) \/ (\E t : Commits(c, t))
<1>0. /\ at[c] = "row" /\ Open /\ KindOf[c] = "leave" /\ faults \in 0 .. MaxFaults
      /\ c \notin Enveloped /\ ActorOf[c] \in People
  BY CallParts DEF Leave, PgInv, PgTypes, Enveloped, Commands
<1>1. ASSUME NEW p \in {"denied", "internal"}, at' = [at EXCEPT ![c] = p], Unchanged
      PROVE  Moves(c, p)
  BY <1>0, <1>1 DEF Moves, Leave, Unchanged, Places, Underway, Answers, Refusals
<1>2. CASE ActorOf[c] \notin members
  BY <1>1, <1>2 DEF Leave, Answer
<1>3. CASE ActorOf[c] \in members /\ Cardinality(members) <= 1
  BY <1>0, <1>3 DEF Leave, Answer, Closes
<1>4. CASE ActorOf[c] \in members /\ ~(Cardinality(members) <= 1)
  <2>1. PICK t \in Left(ActorOf[c]) :
           /\ Write(c, t, t.host)
           /\ members' = IF IndexHolds(Synced(state, t)) THEN members \ {ActorOf[c]} ELSE members
    BY <1>4 DEF Leave
  <2>2. UNCHANGED <<made, exp, known, faults>>
    BY <1>4 DEF Leave
  <2>4. members = Everyone(state)
    BY <1>0 DEF PgInv, TablesAgree
  <2>a. members \ {ActorOf[c]} # {}
    <3>1. Cardinality({ActorOf[c]}) = 1
      BY FS_Singleton
    <3>2. Cardinality(members) # 1
      BY <1>4, 1 <= 1
    <3>3. members # {ActorOf[c]}
      BY <3>1, <3>2
    <3>4. QED
      BY <1>4, <3>3
  <2>3. Follows(t) /\ Everyone(t) = Everyone(state) \ {ActorOf[c]} /\ t.host \in Everyone(t)
    BY <1>0, <2>4, <2>a, LeftFollows DEF PgInv, PgTypes, HostStays
  <2>5. CASE ~IndexHolds(Synced(state, t))
    <3>1. at' = [at EXCEPT ![c] = "internal"] /\ Unchanged
      BY <2>1, <2>5 DEF Write, Answer, Unchanged
    <3>2. QED
      BY <1>1, <3>1
  <2>6. CASE IndexHolds(Synced(state, t))
    <3>1. /\ state' = t /\ room' = Header(t, t.host) /\ attempts' = Synced(state, t)
          /\ log' = Append(log, c) /\ receipts' = receipts
          /\ at' = [at EXCEPT ![c] = "committed"]
      BY <1>0, <2>1, <2>6 DEF Write, Answer
    <3>2. t \in States /\ t.host \in People
      BY <2>3 DEF Follows, States
    <3>3. /\ room' \in RoomRow /\ room'.rev = t.rev /\ room'.attempt = t.attempt
          /\ room'.invite = room.invite /\ room'.host = t.host
      BY <1>0, <3>1, <3>2, HeaderType
    <3>4. Commits(c, t)
      BY <1>0, <1>4, <2>1, <2>2, <2>3, <2>4, <2>6, <3>1, <3>3 DEF Commits, MembersNow, Commands
    <3>5. QED
      BY <3>4
  <2>7. QED
    BY <2>5, <2>6
<1>5. QED
  BY <1>2, <1>3, <1>4

LEMMA CreateSteps ==
  ASSUME RepositoryAssumption, PgInv, NEW c \in Calls, Create(c)
  PROVE  Remembers(c)
<1>1. Receipt(c) = {}
  BY DEF Create, PgInv, LookedUp
<1>2. QED
  BY <1>1 DEF Create, Remember, Answer, Remembers, ReceiptOf

LEMMA NextSteps ==
  ASSUME RepositoryAssumption, PgInv, Next
  PROVE  \E c \in Calls : \/ Send(c) \/ Remembers(c) \/ Closes(c)
                          \/ \E p : Moves(c, p)
                          \/ \E t : Commits(c, t)
<1>1. PICK c \in Calls : Send(c) \/ Serve(c) \/ Lose(c)
  BY DEF Next
<1>2. QED
  BY <1>1, LookUpsMove, RepliesMove, CommandSteps, JoinSteps, InviteSteps, LeaveSteps, CreateSteps
     DEF Serve
-----------------------------------------------------------------------------
(* The invariant holds at first, and every step keeps it.                     *)

LEMMA InitInv == ASSUME RepositoryAssumption, Init PROVE PgInv
<1>1. PgTypes
  <2>1. Host \in People /\ Crew \in SUBSET People /\ 0 \in Nat
    BY DEF RepositoryAssumption, People
  <2>2. state \in States
    BY <2>1 DEF Init, States, Phases
  <2>3. room \in RoomRow /\ room # None
    BY <2>1 DEF Init, RoomRow, RepositoryAssumption
  <2>4. log \in Seq(Calls) /\ at \in [Calls -> Places] /\ faults \in 0 .. MaxFaults
    BY DEF Init, Places, RepositoryAssumption
  <2>5. QED
    BY <2>1, <2>2, <2>3, <2>4 DEF PgTypes, Init
<1>2. AttemptsNumbered
  <2>1. [i \in 1 .. 0 |-> "active"] \in [1 .. 0 -> Statuses] /\ 0 \in Nat
    BY DEF Statuses
  <2>2. attempts = Rows(0, [i \in 1 .. 0 |-> "active"])
    BY DEF Init, Rows
  <2>3. {r \in attempts : r.status = "active"} = {}
    BY DEF Init
  <2>4. IndexHolds(attempts)
    BY <2>3, FS_EmptySet DEF IndexHolds
  <2>5. QED
    BY <2>1, <2>2, <2>4 DEF AttemptsNumbered, Rows
<1>3. Open /\ log = <<>> /\ Len(log) = 0 /\ Range(log) = {} /\ DOMAIN log = {}
  BY <1>1 DEF Init, Open, RoomRow, RepositoryAssumption, PgTypes, People, Range
<1>4. MembersKept
  BY <1>3 DEF Init, MembersKept, MemberAfter, LeavesBetween
<1>a. \A c \in Calls : at[c] = "new"
  BY DEF Init
<1>b. PhaseAgrees /\ HostStays /\ GoneIsEmpty
  BY <1>3 DEF Init, PhaseAgrees, HostStays, GoneIsEmpty, Everyone, RepositoryAssumption
<1>c. KeysLocked /\ LookedUp /\ CommittedKept
  BY <1>a DEF KeysLocked, Holds, LookedUp, CommittedKept
<1>d. MadeKept
  BY <1>a DEF Init, MadeKept
<1>5. RefusedKept
  BY <1>a DEF RefusedKept, Enveloped
<1>6. SeenBefore
  BY DEF Init, SeenBefore
<1>7. ReceiptsKept
  BY <1>3 DEF Init, ReceiptsKept
<1>8. TablesAgree /\ AttemptAgrees /\ AppliedWhereSeen /\ OnlyMembersAct /\ VoidInviteStaysOut
  BY <1>3 DEF Init, TablesAgree, AttemptAgrees, AppliedWhereSeen, OnlyMembersAct, VoidInviteStaysOut, Everyone,
              RepositoryAssumption
<1>9. QED
  BY <1>1, <1>2, <1>4, <1>b, <1>c, <1>d, <1>5, <1>6, <1>7, <1>8 DEF PgInv

LEMMA SendKeeps ==
  ASSUME RepositoryAssumption, PgInv, NEW c \in Calls, Send(c)
  PROVE  PgInv'
<1>0. /\ at[c] = "new" /\ at' = [at EXCEPT ![c] = "sent"] /\ at'[c] = "sent"
      /\ \A d \in Calls : d # c => at'[d] = at[d]
      /\ room' = room /\ members' = members /\ state' = state /\ attempts' = attempts
      /\ receipts' = receipts /\ log' = log /\ made' = made /\ faults' = faults
      /\ Open' = Open /\ Key(c) \in Keys /\ \A d \in Calls : Key(d) \in Keys
  BY CallParts DEF Send, Answer, tables, PgInv, PgTypes, Open
<1>1. PICK e \in Envelope :
         /\ exp' = [exp EXCEPT ![Key(c)] = IF exp[Key(c)] = None THEN e ELSE exp[Key(c)]]
         /\ Open => e.rev <= state.rev /\ e.invite <= room.invite
  <2>1. CASE Open /\ exp[Key(c)] = None
    <3>1. PICK i \in 0 .. room.invite :
             exp' = [exp EXCEPT ![Key(c)] = [rev |-> state.rev, attempt |-> state.attempt, invite |-> i]]
      BY <2>1 DEF Send
    <3>2. state.rev \in Nat /\ state.attempt \in Nat /\ room.invite \in Nat
      BY <2>1, StateParts, RowParts2 DEF PgInv, PgTypes
    <3> DEFINE e == [rev |-> state.rev, attempt |-> state.attempt, invite |-> i]
    <3>3. e \in Envelope /\ e.rev <= state.rev /\ e.invite <= room.invite
      BY <3>2 DEF Envelope
    <3>4. exp' = [exp EXCEPT ![Key(c)] = e]
      BY <3>1
    <3> HIDE DEF e
    <3>5. QED
      BY <2>1, <3>3, <3>4
  <2>2. CASE ~(Open /\ exp[Key(c)] = None)
    <3>1. [rev |-> 0, attempt |-> 0, invite |-> 0] \in Envelope
      BY DEF Envelope
    <3>2. Open => 0 <= state.rev /\ 0 <= room.invite
      BY StateParts, RowParts2 DEF PgInv, PgTypes
    <3>3. QED
      BY <2>2, <3>1, <3>2 DEF Send
  <2>3. QED
    BY <2>1, <2>2
<1>2. /\ exp' \in [Keys -> Envelope \cup {None}] /\ exp'[Key(c)] # None
      /\ \A k \in Keys : exp[k] # None => exp'[k] = exp[k]
      /\ \A k \in Keys : exp'[k] # exp[k] => k = Key(c) /\ exp'[k] = e
  BY <1>0, <1>1 DEF PgInv, PgTypes, RepositoryAssumption
<1>3. /\ known' \in [Calls -> Nat] /\ \A d \in Calls : d # c => known'[d] = known[d]
      /\ Open => known'[c] = room.invite
  <2>1. (IF Open THEN room.invite ELSE 0) \in Nat
    BY RowParts2
  <2>2. known' = [known EXCEPT ![c] = IF Open THEN room.invite ELSE 0]
    BY DEF Send
  <2>3. QED
    BY <2>1, <2>2 DEF PgInv, PgTypes
<1>4. PgTypes'
  BY <1>0, <1>2, <1>3 DEF PgInv, PgTypes, Places, Underway
<1>5. AttemptsNumbered' /\ PhaseAgrees' /\ HostStays' /\ GoneIsEmpty' /\ TablesAgree' /\ AttemptAgrees' /\ MembersKept'
      /\ OnlyMembersAct'
  BY <1>0 DEF PgInv, AttemptsNumbered, PhaseAgrees, HostStays, GoneIsEmpty, TablesAgree, AttemptAgrees, MembersKept,
              OnlyMembersAct, Everyone
<1>6. KeysLocked' /\ CommittedKept' /\ MadeKept' /\ ReceiptsKept'
  BY <1>0 DEF PgInv, KeysLocked, Holds, CommittedKept, MadeKept, ReceiptsKept
<1>7. \A d \in Calls : d # c /\ at[d] # "new" => exp'[Key(d)] = exp[Key(d)]
  BY <1>0, <1>2 DEF PgInv, SeenBefore
<1>8. LookedUp'
  BY <1>0, <1>3, <1>7 DEF PgInv, LookedUp, Receipt
<1>9. SeenBefore'
  <2>1. \A d \in Calls : at'[d] # "new" => exp'[Key(d)] # None
    BY <1>0, <1>2, <1>7 DEF PgInv, SeenBefore
  <2>2. Open => \A k \in Keys : exp'[k] # None => exp'[k].rev <= state.rev /\ exp'[k].invite <= room.invite
    BY <1>1, <1>2 DEF PgInv, SeenBefore
  <2>3. Open => \A d \in Calls : known'[d] <= room.invite
    BY <1>3, RowParts2 DEF PgInv, SeenBefore
  <2>4. QED
    BY <1>0, <2>1, <2>2, <2>3 DEF SeenBefore
<1>10. \A d \in Range(log) : d \in Calls /\ d # c /\ at[d] # "new"
  <2>1. \A d \in Range(log) : d \in Calls
    BY DEF PgInv, PgTypes, Range
  <2>2. \A d \in Range(log) : at[d] # "new"
    BY DEF PgInv, ReceiptsKept
  <2>3. QED
    BY <1>0, <2>1, <2>2
<1>11. \A i \in DOMAIN log : log[i] \in Range(log)
  BY DEF Range
<1>12. AppliedWhereSeen' /\ VoidInviteStaysOut'
  BY <1>0, <1>3, <1>7, <1>10, <1>11 DEF PgInv, AppliedWhereSeen, VoidInviteStaysOut
<1>13. RefusedKept'
  <2>1. \A d \in Calls : Applied(d)' = Applied(d)
    BY <1>0 DEF Applied, Permits, Begun, Fresh, HostsAfter
  <2>2. \A t : Synced(state, t)' = Synced(state, t)
    BY <1>0 DEF Synced
  <2>3. \A d \in Calls : d # c /\ at[d] # "new" => (RefusedForGood(d)' <=> RefusedForGood(d))
    BY <1>0, <1>7, <2>1, <2>2 DEF RefusedForGood, WouldFail, Receipt
  <2>4. QED
    BY <1>0, <2>3 DEF PgInv, RefusedKept, Enveloped
<1>14. QED
  BY <1>4, <1>5, <1>6, <1>8, <1>9, <1>12, <1>13 DEF PgInv

LEMMA MovesKeeps ==
  ASSUME RepositoryAssumption, PgInv, NEW c \in Calls, NEW p, Moves(c, p)
  PROVE  PgInv'
<1>0. /\ at[c] # "new" /\ at[c] \in Underway /\ p # "new" /\ p \in Places
      /\ at' = [at EXCEPT ![c] = p] /\ at'[c] = p
      /\ \A d \in Calls : d # c => at'[d] = at[d]
      /\ room' = room /\ members' = members /\ state' = state /\ attempts' = attempts
      /\ receipts' = receipts /\ log' = log /\ made' = made /\ exp' = exp /\ known' = known
      /\ Open' = Open
  BY DEF Moves, PgInv, PgTypes, Underway, Open
<1>1. PgTypes'
  BY <1>0 DEF Moves, PgInv, PgTypes
<1>2. AttemptsNumbered' /\ PhaseAgrees' /\ HostStays' /\ GoneIsEmpty' /\ TablesAgree' /\ AttemptAgrees' /\ MembersKept'
      /\ OnlyMembersAct' /\ AppliedWhereSeen' /\ VoidInviteStaysOut'
  BY <1>0 DEF PgInv, AttemptsNumbered, PhaseAgrees, HostStays, GoneIsEmpty, TablesAgree, AttemptAgrees, MembersKept,
              OnlyMembersAct, Everyone, AppliedWhereSeen, VoidInviteStaysOut
<1>3. KeysLocked'
  BY <1>0 DEF Moves, PgInv, KeysLocked, Holds
<1>4. LookedUp'
  BY <1>0 DEF Moves, PgInv, LookedUp, Receipt
<1>5. SeenBefore'
  BY <1>0 DEF PgInv, SeenBefore
<1>6. ReceiptsKept'
  <2>1. \A d \in Range(log) : d \in Calls
    BY DEF PgInv, PgTypes, Range
  <2>2. \A d \in Range(log) : at'[d] \in {"committed", "ok", "lost"}
    BY <1>0, <2>1 DEF Moves, PgInv, ReceiptsKept, Underway
  <2>3. QED
    BY <1>0, <2>2 DEF PgInv, ReceiptsKept
<1>7. CommittedKept'
  BY <1>0 DEF Moves, PgInv, CommittedKept
<1>8. MadeKept'
  BY <1>0 DEF Moves, PgInv, MadeKept
<1>9. RefusedKept'
  <2>1. \A d \in Calls : Applied(d)' = Applied(d)
    BY <1>0 DEF Applied, Permits, Begun, Fresh, HostsAfter
  <2>2. \A t : Synced(state, t)' = Synced(state, t)
    BY <1>0 DEF Synced
  <2>3. \A d \in Calls : RefusedForGood(d)' <=> RefusedForGood(d)
    BY <1>0, <2>1, <2>2 DEF RefusedForGood, WouldFail, Receipt
  <2>4. QED
    BY <1>0, <2>3 DEF Moves, PgInv, RefusedKept, Enveloped
<1>10. QED
  BY <1>1, <1>2, <1>3, <1>4, <1>5, <1>6, <1>7, <1>8, <1>9 DEF PgInv

LEMMA ClosesKeeps ==
  ASSUME RepositoryAssumption, PgInv, NEW c \in Calls, Closes(c)
  PROVE  PgInv'
<1>0. /\ at[c] = "row" /\ at' = [at EXCEPT ![c] = "committed"] /\ at'[c] = "committed"
      /\ \A d \in Calls : d # c => at'[d] = at[d]
      /\ KindOf[c] = "leave" /\ room' = None /\ ~Open' /\ members' = {} /\ attempts' = {} /\ log' = <<>>
      /\ receipts' = {r \in receipts : r.kind = "create"}
      /\ made' = made /\ exp' = exp /\ known' = known /\ faults' = faults
  BY DEF Closes, DeleteRoom, PgInv, PgTypes, Open
<1>1. /\ state' \in States /\ state'.phase = state.phase /\ state'.attempt = state.attempt
      /\ state'.crew = {} /\ state'.bench = {}
  BY DEF Closes, DeleteRoom, PgInv, PgTypes, States
<1>2. Range(<<>>) = {} /\ DOMAIN <<>> = {} /\ <<>> \in Seq(Calls)
  BY DEF Range
<1>3. PgTypes'
  BY <1>0, <1>1, <1>2 DEF PgInv, PgTypes, Places, Underway
<1>4. AttemptsNumbered'
  <2>1. [i \in 1 .. 0 |-> "active"] \in [1 .. 0 -> Statuses] /\ 0 \in Nat
    BY DEF Statuses
  <2>2. attempts' = Rows(0, [i \in 1 .. 0 |-> "active"])
    BY <1>0 DEF Rows
  <2>3. {r \in {} : r.status = "active"} = {}
    OBVIOUS
  <2>4. IndexHolds({})
    BY <2>3, FS_EmptySet DEF IndexHolds
  <2>5. QED
    BY <1>0, <2>1, <2>2, <2>4 DEF AttemptsNumbered, Rows
<1>5. PhaseAgrees' /\ HostStays' /\ GoneIsEmpty' /\ TablesAgree' /\ AttemptAgrees' /\ MembersKept' /\ CommittedKept' /\ RefusedKept'
  BY <1>0, <1>1 DEF PgInv, PhaseAgrees, HostStays, GoneIsEmpty, TablesAgree, AttemptAgrees, MembersKept, CommittedKept, RefusedKept
<1>6. OnlyMembersAct' /\ AppliedWhereSeen' /\ VoidInviteStaysOut'
  BY <1>0, <1>2 DEF OnlyMembersAct, AppliedWhereSeen, VoidInviteStaysOut
<1>7. KeysLocked'
  BY <1>0 DEF PgInv, KeysLocked, Holds
<1>8. LookedUp'
  BY <1>0 DEF PgInv, LookedUp, Receipt
<1>9. SeenBefore'
  BY <1>0 DEF PgInv, SeenBefore
<1>10. ReceiptsKept'
  BY <1>0, <1>2 DEF PgInv, ReceiptsKept, Commands
<1>11. MadeKept'
  BY <1>0 DEF PgInv, MadeKept
<1>12. QED
  BY <1>3, <1>4, <1>5, <1>6, <1>7, <1>8, <1>9, <1>10, <1>11 DEF PgInv

\* What a call wrote down is a receipt of its own.
LEMMA ReceiptTells ==
  ASSUME RepositoryAssumption, NEW c \in Calls, NEW d \in Calls
  PROVE  ReceiptOf(c) = ReceiptOf(d) <=> Key(c) = Key(d) /\ KindOf[c] = KindOf[d]
<1>1. ReceiptOf(c) = ReceiptOf(d) => Key(c) = Key(d) /\ KindOf[c] = KindOf[d]
  BY CallParts
<1>2. QED
  BY <1>1 DEF ReceiptOf

\* The same key is that of the same actor.
LEMMA KeyTells ==
  ASSUME NEW c \in Calls, NEW d \in Calls, Key(c) = Key(d)
  PROVE  ActorOf[c] = ActorOf[d]
  BY DEF Key

LEMMA CommitsKeeps ==
  ASSUME RepositoryAssumption, PgInv, NEW c \in Calls, NEW t, Commits(c, t)
  PROVE  PgInv'
<1>0. /\ at[c] = "row" /\ at' = [at EXCEPT ![c] = "committed"] /\ at'[c] = "committed"
      /\ \A d \in Calls : d # c => at'[d] = at[d]
      /\ Open /\ room' \in RoomRow /\ Open'
      /\ KindOf[c] \in Commands \cup {"join", "leave"}
      /\ made' = made /\ exp' = exp /\ known' = known /\ faults' = faults
  BY DEF Commits, PgInv, PgTypes, Open, RepositoryAssumption
<1>1. /\ state' = t /\ t \in States /\ t.rev = state.rev + 1 /\ state.rev \in Nat /\ t.rev \in Nat
      /\ room'.rev = t.rev /\ room'.attempt = t.attempt /\ room'.invite = room.invite
      /\ room.invite \in Nat
  BY <1>0, StateParts, RowParts2 DEF Commits, Follows, PgInv, PgTypes
<1>2. log \in Seq(Calls) /\ Len(log) = state.rev /\ DOMAIN log = 1 .. Len(log)
  BY <1>0 DEF PgInv, PgTypes, TablesAgree
<1>3. /\ log' = Append(log, c) /\ log' \in Seq(Calls) /\ Len(log') = Len(log) + 1
      /\ DOMAIN log' = 1 .. Len(log) + 1
      /\ \A i \in 1 .. Len(log) : log'[i] = log[i]
      /\ log'[Len(log) + 1] = c
      /\ Range(log') = Range(log) \cup {c}
  <2>1. log' = Append(log, c)
    BY DEF Commits
  <2>2. QED
    BY <1>2, <2>1, AppendToLog
<1>4. /\ KindOf[c] = "leave" => receipts' = receipts
      /\ KindOf[c] # "leave" => Receipt(c) = {} /\ receipts' = receipts \cup {ReceiptOf(c)} /\ Holds(c)
  BY <1>0 DEF Commits, Holds
<1>5. Key(c) \in Keys /\ ActorOf[c] \in People /\ KindOf[c] \in Kinds /\ ReceiptOf(c) \in [key : Keys, kind : Kinds]
      /\ ReceiptOf(c).key = Key(c) /\ ReceiptOf(c).kind = KindOf[c] /\ \A d \in Calls : Key(d) \in Keys
  BY CallParts
<1>6. members = Everyone(state) /\ members' = MembersNow(c) /\ Everyone(t) = MembersNow(c)
      /\ members \in SUBSET People /\ members' \in SUBSET People
  BY <1>0, <1>5 DEF Commits, PgInv, TablesAgree, PgTypes, MembersNow
<1>7. \A d \in Range(log) : d \in Calls /\ d # c
  <2>1. \A d \in Range(log) : d \in Calls
    BY <1>2 DEF Range
  <2>2. QED
    BY <1>0, <2>1 DEF PgInv, ReceiptsKept
<1>8. PgTypes'
  <2>1. receipts' \in SUBSET [key : Keys, kind : Kinds]
    BY <1>4, <1>5 DEF PgInv, PgTypes
  <2>2. at' \in [Calls -> Places]
    BY <1>0 DEF PgInv, PgTypes, Places, Underway
  <2>3. QED
    BY <1>0, <1>1, <1>3, <1>6, <2>1, <2>2 DEF PgInv, PgTypes
<1>9. AttemptsNumbered' /\ AttemptAgrees'
  <2>1. attempts' = Synced(state, t) /\ IndexHolds(Synced(state, t)) /\ Follows(t)
    BY DEF Commits
  <2>2. /\ \E n \in Nat : \E f \in [1 .. n -> Statuses] : Synced(state, t) = Rows(n, f)
        /\ t.attempt # 0 =>
              Row(t.attempt, IF t.phase = "underway" THEN "active" ELSE t.phase) \in Synced(state, t)
    BY <1>0, <2>1, SyncedKeeps DEF PgInv, PgTypes
  <2>3. QED
    BY <1>1, <2>1, <2>2 DEF AttemptsNumbered, AttemptAgrees, Rows, IndexHolds
<1>10. PhaseAgrees' /\ HostStays' /\ GoneIsEmpty' /\ TablesAgree'
  BY <1>0, <1>1, <1>2, <1>3, <1>6 DEF Commits, Follows, PhaseAgrees, HostStays, GoneIsEmpty, TablesAgree, Everyone
<1>11. KeysLocked'
  BY <1>0 DEF PgInv, KeysLocked, Holds
<1>12. LookedUp'
  <2>1. ASSUME NEW d \in Calls, at'[d] \in {"checked", "row"}, KindOf[d] \in {"join", "create"}
        PROVE  Receipt(d)' = {}
    <3>1. d # c /\ at[d] = at'[d] /\ Receipt(d) = {} /\ Holds(d)
      BY <1>0, <2>1 DEF PgInv, LookedUp, Holds
    <3>2. KindOf[c] # "leave" => Key(d) # Key(c)
      BY <1>4, <3>1 DEF PgInv, KeysLocked
    <3>3. QED
      BY <1>4, <1>5, <3>1, <3>2 DEF Receipt
  <2>2. QED
    BY <1>0, <2>1 DEF PgInv, LookedUp
<1>13. SeenBefore'
  <2>1. \A k \in Keys : exp[k] # None => exp[k].rev \in Nat /\ exp[k].invite \in Nat
    BY DEF PgInv, PgTypes, Envelope
  <2>2. \A k \in Keys : exp[k] # None => exp[k].rev <= t.rev
    BY <1>0, <1>1, <2>1 DEF PgInv, SeenBefore
  <2>3. QED
    BY <1>0, <1>1, <2>2 DEF PgInv, SeenBefore
<1>14. ReceiptsKept'
  <2>1. \A r, q \in receipts' : r.key = q.key => r = q
    BY <1>4, <1>5 DEF PgInv, ReceiptsKept, Receipt
  <2>2. \A d \in Range(log') : at'[d] \in {"committed", "ok", "lost"}
    BY <1>0, <1>3, <1>7 DEF PgInv, ReceiptsKept
  <2>3. \A d \in Range(log') \cap Receipted : ReceiptOf(d) \in receipts'
    BY <1>3, <1>4 DEF PgInv, ReceiptsKept, Receipted, Commands
  <2>4. \A r \in receipts' : r.kind \in Commands => \E d \in Range(log') : ReceiptOf(d) = r
    BY <1>3, <1>4 DEF PgInv, ReceiptsKept
  <2>5. QED
    BY <2>1, <2>2, <2>3, <2>4 DEF ReceiptsKept
<1>15. CommittedKept'
  BY <1>0, <1>3, <1>4 DEF PgInv, CommittedKept, Enveloped, Commands
<1>16. MembersKept'
  <2>1. \A a \in People : a \in members <=> MemberAfter(log, a, Len(log))
    BY <1>0 DEF PgInv, MembersKept
  <2>2. \A a \in People : MemberAfter(log', a, Len(log')) <=>
           \/ KindOf[c] = "join" /\ ActorOf[c] = a
           \/ ~(KindOf[c] = "leave" /\ ActorOf[c] = a) /\ MemberAfter(log, a, Len(log))
    BY <1>2, <1>3, MembersNext
  <2>3. \A a \in People : a \in members' <=>
           \/ KindOf[c] = "join" /\ ActorOf[c] = a
           \/ ~(KindOf[c] = "leave" /\ ActorOf[c] = a) /\ a \in members
    BY <1>6 DEF MembersNow
  <2>4. QED
    BY <2>1, <2>2, <2>3 DEF MembersKept
<1>17. MadeKept'
  <2>1. KindOf[c] # "create"
    BY <1>0 DEF Commands
  <2>2. \A k \in Keys : [key |-> k, kind |-> "create"] # ReceiptOf(c)
    BY <1>5, <2>1
  <2>3. \A k \in Keys : [key |-> k, kind |-> "create"] \in receipts' <=> [key |-> k, kind |-> "create"] \in receipts
    BY <1>4, <2>2
  <2>4. QED
    BY <1>0, <2>1, <2>3 DEF PgInv, MadeKept
<1>18. AppliedWhereSeen'
  <2>1. ASSUME NEW i \in 1 .. Len(log) + 1, KindOf[log'[i]] \in Commands \ {"ready"}
        PROVE  exp[Key(log'[i])].rev = i - 1
    <3>1. CASE i \in 1 .. Len(log)
      BY <1>2, <1>3, <2>1, <3>1 DEF PgInv, AppliedWhereSeen
    <3>2. CASE i = Len(log) + 1
      BY <1>1, <1>2, <1>3, <2>1, <3>2 DEF Commits
    <3>3. QED
      BY <1>1, <1>2, <3>1, <3>2
  <2>2. QED
    BY <1>0, <1>3, <2>1 DEF AppliedWhereSeen
<1>19. OnlyMembersAct'
  <2>1. ASSUME NEW i \in 1 .. Len(log) + 1, KindOf[log'[i]] # "join"
        PROVE  MemberAfter(log', ActorOf[log'[i]], i - 1)
    <3>0. i - 1 \in Nat /\ i - 1 <= Len(log)
      BY <1>1, <1>2
    <3>1. \A a : MemberAfter(log', a, i - 1) <=> MemberAfter(log, a, i - 1)
      BY <1>2, <1>3, <3>0, MembersBefore
    <3>2. CASE i \in 1 .. Len(log)
      BY <1>2, <1>3, <2>1, <3>1, <3>2 DEF PgInv, OnlyMembersAct
    <3>3. CASE i = Len(log) + 1
      <4>1. log'[i] = c /\ i - 1 = Len(log) /\ ActorOf[c] \in members
        BY <1>1, <1>2, <1>3, <2>1, <3>3 DEF Commits
      <4>2. MemberAfter(log, ActorOf[c], Len(log))
        BY <1>0, <1>5, <4>1 DEF PgInv, MembersKept
      <4>3. QED
        BY <3>1, <4>1, <4>2
    <3>4. QED
      BY <1>1, <1>2, <3>2, <3>3
  <2>2. QED
    BY <1>3, <2>1 DEF OnlyMembersAct
<1>20. VoidInviteStaysOut'
  <2>1. KindOf[c] = "join" => exp[Key(c)].invite >= known[c]
    BY <1>0 DEF PgInv, LookedUp
  <2>2. QED
    BY <1>0, <1>3, <2>1 DEF PgInv, VoidInviteStaysOut
<1>21. RefusedKept'
  <2>1. ASSUME NEW d \in Enveloped, RefusedForGood(d), at[d] # "new"
        PROVE  RefusedForGood(d)'
    <3>0. d \in Calls /\ KindOf[d] \in Commands /\ exp[Key(d)] # None /\ Key(d) \in Keys
      BY <1>5, <2>1 DEF Enveloped, PgInv, SeenBefore
    <3>1. exp[Key(d)].rev \in Nat /\ exp[Key(d)].rev <= state.rev
      BY <1>0, <3>0 DEF PgInv, PgTypes, SeenBefore, Envelope
    <3>2. exp[Key(d)].rev # t.rev
      BY <1>1, <3>1
    <3>3. KindOf[c] # "leave" => ReceiptOf(d) # ReceiptOf(c)
      <4>1. SUFFICES ASSUME KindOf[c] # "leave", ReceiptOf(d) = ReceiptOf(c)
                     PROVE  FALSE
        OBVIOUS
      <4>2. Key(d) = Key(c) /\ KindOf[d] = KindOf[c] /\ ActorOf[d] = ActorOf[c]
        BY <3>0, <4>1, ReceiptTells, KeyTells
      <4>3. Receipt(d) = {}
        BY <1>4, <4>1, <4>2 DEF Receipt
      <4>4. KindOf[d] # "ready" /\ (exp[Key(d)].rev = state.rev => WouldFail(d))
        BY <2>1, <4>3 DEF RefusedForGood
      <4>5. exp[Key(c)].rev = state.rev /\ ~WouldFail(c)
        BY <3>0, <4>2, <4>4 DEF Commits, Enveloped
      <4>6. Applied(d) = Applied(c)
        BY <4>2 DEF Applied, Permits
      <4>7. QED
        BY <4>2, <4>4, <4>5, <4>6 DEF WouldFail
    <3>4. ReceiptOf(d) \notin receipts'
      BY <1>4, <2>1, <3>3 DEF RefusedForGood
    <3>5. Receipt(d) # {} => Receipt(d)' # {}
      BY <1>4 DEF Receipt
    <3>6. ReceiptOf(d)' = ReceiptOf(d)
      BY DEF ReceiptOf
    <3>7. QED
      BY <1>0, <1>1, <2>1, <3>2, <3>4, <3>5, <3>6 DEF RefusedForGood
  <2>2. \A d \in Enveloped : at'[d] # "committed" => at'[d] = at[d]
    BY <1>0 DEF Enveloped
  <2>3. QED
    BY <1>0, <2>1, <2>2 DEF PgInv, RefusedKept
<1>22. QED
  BY <1>8, <1>9, <1>10, <1>11, <1>12, <1>13, <1>14, <1>15, <1>16, <1>17, <1>18, <1>19, <1>20, <1>21 DEF PgInv

LEMMA RemembersKeeps ==
  ASSUME RepositoryAssumption, PgInv, NEW c \in Calls, Remembers(c)
  PROVE  PgInv'
<1>0. /\ at[c] \in {"checked", "row"} /\ at' = [at EXCEPT ![c] = "committed"] /\ at'[c] = "committed"
      /\ \A d \in Calls : d # c => at'[d] = at[d]
      /\ KindOf[c] \in {"join", "invite", "create"} /\ Holds(c)
      /\ Receipt(c) = {} /\ receipts' = receipts \cup {ReceiptOf(c)}
      /\ members' = members /\ state' = state /\ attempts' = attempts
      /\ log' = log /\ exp' = exp /\ known' = known /\ faults' = faults
  BY DEF Remembers, PgInv, PgTypes, Holds
<1>1. /\ room' \in RoomRow \cup {None} /\ Open' = Open
      /\ Open => /\ room'.rev = room.rev /\ room'.attempt = room.attempt /\ room'.host = room.host
                 /\ room.invite \in Nat /\ room'.invite \in Nat /\ room'.invite >= room.invite
  <2>1. CASE room' = room
    BY <2>1, RowParts2 DEF PgInv, PgTypes, Open
  <2>2. CASE Open /\ room' = [room EXCEPT !.invite = @ + 1]
    <3>1. room \in RoomRow /\ room.invite \in Nat
      BY <2>2, RowParts2 DEF PgInv, PgTypes, Open
    <3>2. room' \in RoomRow /\ room'.rev = room.rev /\ room'.attempt = room.attempt /\ room'.host = room.host
          /\ room'.invite = room.invite + 1
      BY <2>2, <3>1 DEF RoomRow
    <3>3. QED
      BY <2>2, <3>1, <3>2 DEF Open, RepositoryAssumption
  <2>3. QED
    BY <2>1, <2>2 DEF Remembers
<1>2. Key(c) \in Keys /\ ReceiptOf(c) \in [key : Keys, kind : Kinds]
      /\ ReceiptOf(c).key = Key(c) /\ ReceiptOf(c).kind = KindOf[c] /\ KindOf[c] \notin Commands
      /\ c \notin Enveloped
  BY <1>0, CallParts DEF Commands, Enveloped
<1>3. PgTypes'
  <2>1. made' \in [Keys -> Nat]
    BY <1>2 DEF Remembers, PgInv, PgTypes
  <2>2. at' \in [Calls -> Places]
    BY <1>0 DEF PgInv, PgTypes, Places, Underway
  <2>3. QED
    BY <1>0, <1>1, <1>2, <2>1, <2>2 DEF PgInv, PgTypes
<1>4. AttemptsNumbered' /\ PhaseAgrees' /\ HostStays' /\ GoneIsEmpty' /\ TablesAgree' /\ AttemptAgrees' /\ MembersKept'
      /\ OnlyMembersAct' /\ AppliedWhereSeen' /\ VoidInviteStaysOut'
  BY <1>0, <1>1 DEF PgInv, AttemptsNumbered, PhaseAgrees, HostStays, GoneIsEmpty, TablesAgree, AttemptAgrees, MembersKept,
              OnlyMembersAct, Everyone, AppliedWhereSeen, VoidInviteStaysOut
<1>5. KeysLocked'
  BY <1>0 DEF PgInv, KeysLocked, Holds
<1>6. LookedUp'
  <2>1. ASSUME NEW d \in Calls, at'[d] \in {"checked", "row"}, KindOf[d] \in {"join", "create"}
        PROVE  Receipt(d)' = {}
    <3>1. d # c /\ at[d] = at'[d] /\ Receipt(d) = {} /\ Holds(d)
      BY <1>0, <2>1 DEF PgInv, LookedUp, Holds
    <3>2. Key(d) # Key(c)
      BY <1>0, <3>1 DEF PgInv, KeysLocked
    <3>3. QED
      BY <1>0, <1>2, <3>1, <3>2 DEF Receipt
  <2>2. QED
    BY <1>0, <2>1 DEF PgInv, LookedUp
<1>7. SeenBefore'
  <2>1. \A k \in Keys : exp[k] # None => exp[k].rev \in Nat /\ exp[k].invite \in Nat
    BY DEF PgInv, PgTypes, Envelope
  <2>2. Open => \A k \in Keys : exp[k] # None => exp[k].invite <= room'.invite
    BY <1>1, <2>1 DEF PgInv, SeenBefore
  <2>3. Open => \A d \in Calls : known[d] <= room'.invite
    BY <1>1 DEF PgInv, SeenBefore, PgTypes
  <2>4. QED
    BY <1>0, <1>1, <2>2, <2>3 DEF PgInv, SeenBefore
<1>8. ReceiptsKept'
  <2>1. \A r, q \in receipts' : r.key = q.key => r = q
    BY <1>0, <1>2 DEF PgInv, ReceiptsKept, Receipt
  <2>2. \A d \in Range(log) : d \in Calls
    BY DEF PgInv, PgTypes, Range
  <2>3. \A d \in Range(log) : at'[d] \in {"committed", "ok", "lost"}
    BY <1>0, <2>2 DEF PgInv, ReceiptsKept
  <2>4. \A d \in Range(log) \cap Receipted : ReceiptOf(d) \in receipts'
    BY <1>0 DEF PgInv, ReceiptsKept
  <2>5. \A r \in receipts' : r.kind \in Commands => \E d \in Range(log) : ReceiptOf(d) = r
    BY <1>0, <1>2 DEF PgInv, ReceiptsKept
  <2>6. QED
    BY <1>0, <2>1, <2>3, <2>4, <2>5 DEF ReceiptsKept
<1>9. CommittedKept'
  BY <1>0, <1>1, <1>2 DEF PgInv, CommittedKept
<1>10. MadeKept'
  <2>1. CASE KindOf[c] = "create"
    <3>1. ReceiptOf(c) = [key |-> Key(c), kind |-> "create"] /\ made' = [made EXCEPT ![Key(c)] = @ + 1]
      BY <2>1 DEF ReceiptOf, Remembers
    <3>2. ReceiptOf(c) \notin receipts /\ made[Key(c)] = 0
      BY <1>0, <1>2, <3>1 DEF PgInv, MadeKept, Receipt
    <3>3. made'[Key(c)] = 1 /\ \A k \in Keys : k # Key(c) => made'[k] = made[k]
      BY <1>2, <3>1, <3>2 DEF PgInv, PgTypes
    <3>4. \A k \in Keys : [key |-> k, kind |-> "create"] \in receipts' <=>
                            [key |-> k, kind |-> "create"] \in receipts \/ k = Key(c)
      BY <1>0, <3>1
    <3>5. \A k \in Keys : made'[k] = IF [key |-> k, kind |-> "create"] \in receipts' THEN 1 ELSE 0
      BY <3>3, <3>4 DEF PgInv, MadeKept
    <3>6. QED
      BY <1>0, <3>5 DEF PgInv, MadeKept
  <2>2. CASE KindOf[c] # "create"
    <3>1. \A k \in Keys : [key |-> k, kind |-> "create"] # ReceiptOf(c)
      BY <1>2, <2>2
    <3>2. \A k \in Keys : [key |-> k, kind |-> "create"] \in receipts' <=> [key |-> k, kind |-> "create"] \in receipts
      BY <1>0, <3>1
    <3>3. made' = made
      BY <2>2 DEF Remembers
    <3>4. QED
      BY <1>0, <2>2, <3>2, <3>3 DEF PgInv, MadeKept
  <2>3. QED
    BY <2>1, <2>2
<1>11. RefusedKept'
  <2>1. \A d \in Calls : Applied(d)' = Applied(d)
    BY <1>0 DEF Applied, Permits, Begun, Fresh, HostsAfter
  <2>2. \A u : Synced(state, u)' = Synced(state, u)
    BY <1>0 DEF Synced
  <2>3. ASSUME NEW d \in Enveloped, RefusedForGood(d)
        PROVE  RefusedForGood(d)'
    <3>0. d \in Calls /\ KindOf[d] \in Commands
      BY DEF Enveloped
    <3>1. ReceiptOf(d) # ReceiptOf(c)
      BY <1>2, <3>0, ReceiptTells
    <3>2. ReceiptOf(d) \notin receipts' /\ ReceiptOf(d)' = ReceiptOf(d)
      BY <1>0, <2>3, <3>1 DEF RefusedForGood, ReceiptOf
    <3>3. Receipt(d) # {} => Receipt(d)' # {}
      BY <1>0 DEF Receipt
    <3>4. WouldFail(d)' <=> WouldFail(d)
      BY <1>0, <2>1, <2>2, <3>0 DEF WouldFail
    <3>5. QED
      BY <1>0, <2>3, <3>2, <3>3, <3>4 DEF RefusedForGood
  <2>4. \A d \in Enveloped : at'[d] = at[d]
    BY <1>0, <1>2 DEF Enveloped
  <2>5. QED
    BY <1>1, <2>3, <2>4 DEF PgInv, RefusedKept
<1>12. QED
  BY <1>3, <1>4, <1>5, <1>6, <1>7, <1>8, <1>9, <1>10, <1>11 DEF PgInv
-----------------------------------------------------------------------------
(* The theorems.                                                              *)

LEMMA PgInvariant == ASSUME RepositoryAssumption PROVE Spec => []PgInv
<1>1. Init => PgInv
  BY InitInv
<1>2. PgInv /\ [Next]_vars => PgInv'
  <2>1. SUFFICES ASSUME PgInv, [Next]_vars PROVE PgInv'
    OBVIOUS
  <2>2. CASE Next
    <3>1. PICK c \in Calls : \/ Send(c) \/ Remembers(c) \/ Closes(c)
                             \/ \E p : Moves(c, p)
                             \/ \E t : Commits(c, t)
      BY <2>1, <2>2, NextSteps
    <3>2. QED
      BY <2>1, <3>1, SendKeeps, RemembersKeeps, ClosesKeeps, MovesKeeps, CommitsKeeps
  <2>3. CASE UNCHANGED vars
    <3>1. Open' = Open
      BY <2>3 DEF vars, Open
    <3>2. RefusedKept'
      <4>1. \A d \in Calls : Applied(d)' = Applied(d)
        BY <2>3 DEF vars, Applied, Permits, Begun, Fresh, HostsAfter
      <4>2. \A t : Synced(state, t)' = Synced(state, t)
        BY <2>3 DEF vars, Synced
      <4>3. \A d \in Calls : RefusedForGood(d)' <=> RefusedForGood(d)
        BY <2>3, <4>1, <4>2 DEF vars, RefusedForGood, WouldFail, Receipt
      <4>4. QED
        BY <2>1, <2>3, <3>1, <4>3 DEF vars, PgInv, RefusedKept, Enveloped
    <3>3. PgTypes' /\ AttemptsNumbered' /\ PhaseAgrees' /\ HostStays' /\ GoneIsEmpty' /\ KeysLocked' /\ LookedUp' /\ SeenBefore'
      BY <2>1, <2>3, <3>1
         DEF vars, PgInv, PgTypes, AttemptsNumbered, PhaseAgrees, HostStays, GoneIsEmpty, KeysLocked, Holds, LookedUp,
             Receipt, SeenBefore
    <3>4. ReceiptsKept' /\ CommittedKept' /\ MembersKept' /\ MadeKept'
      BY <2>1, <2>3, <3>1 DEF vars, PgInv, ReceiptsKept, CommittedKept, MembersKept, MadeKept
    <3>5. TablesAgree' /\ AttemptAgrees' /\ AppliedWhereSeen' /\ OnlyMembersAct' /\ VoidInviteStaysOut'
      BY <2>1, <2>3, <3>1
         DEF vars, PgInv, TablesAgree, Everyone, AttemptAgrees, AppliedWhereSeen, OnlyMembersAct, VoidInviteStaysOut
    <3>6. QED
      BY <3>2, <3>3, <3>4, <3>5 DEF PgInv
  <2>4. QED
    BY <2>1, <2>2, <2>3
<1>3. QED
  BY <1>1, <1>2, PTL DEF Spec

LEMMA InvSound == ASSUME RepositoryAssumption, PgInv PROVE PgSound
<1>0. \A d \in Range(log) : d \in Calls
  BY DEF PgInv, PgTypes, Range
<1>1. TypeOK
  <2>1. \A r \in attempts : r.status \in {"active", "abandoned", "success", "failure"}
    <3>1. PICK n \in Nat : \E f \in [1 .. n -> Statuses] : attempts = {Row(i, f[i]) : i \in 1 .. n}
      BY DEF PgInv, AttemptsNumbered
    <3>2. PICK f \in [1 .. n -> Statuses] : attempts = {Row(i, f[i]) : i \in 1 .. n}
      BY <3>1
    <3>3. QED
      BY <3>2, RowParts DEF Statuses
  <2>2. room = None \/ (room.rev \in Nat /\ room.invite \in Nat /\ room.attempt \in Nat)
    BY RowParts2 DEF Open
  <2>3. Range(log) \subseteq Calls
    BY <1>0
  <2>4. at \in [Calls -> {"new"} \cup Underway \cup Answers] /\ faults \in 0 .. MaxFaults
    BY DEF PgInv, PgTypes, Places
  <2>5. state.crew \cap state.bench = {}
    BY DEF PgInv, PhaseAgrees
  <2>6. QED
    BY <2>1, <2>2, <2>3, <2>4, <2>5 DEF TypeOK
<1>2. FailureHasNoEffect
  <2>1. SUFFICES ASSUME Open, NEW c \in Enveloped, at[c] \in Refusals
                 PROVE  /\ c \notin Range(log)
                        /\ at[c] # "denied" /\ (KindOf[c] = "ready" => at[c] = "conflict") =>
                             ~\E d \in Range(log) : Key(d) = Key(c) /\ KindOf[d] = KindOf[c]
    BY DEF FailureHasNoEffect
  <2>2. c \notin Range(log)
    BY <2>1 DEF PgInv, ReceiptsKept, Refusals
  <2>3. ASSUME at[c] # "denied", KindOf[c] = "ready" => at[c] = "conflict",
               NEW d \in Range(log), Key(d) = Key(c), KindOf[d] = KindOf[c]
        PROVE  FALSE
    <3>1. at[c] \in {"stale", "attempt", "refused", "internal", "conflict"}
      BY <2>1, <2>3 DEF PgInv, RefusedKept, Refusals
    <3>2. ReceiptOf(c) \notin receipts
      BY <2>1, <2>3, <3>1 DEF PgInv, RefusedKept, RefusedForGood
    <3>3. d \in Receipted /\ c \in Calls
      BY <1>0, <2>1, <2>3 DEF Enveloped, Receipted
    <3>4. ReceiptOf(d) \in receipts /\ ReceiptOf(d) = ReceiptOf(c)
      BY <2>3, <3>3 DEF PgInv, ReceiptsKept, ReceiptOf
    <3>5. QED
      BY <3>2, <3>4
  <2>4. QED
    BY <2>2, <2>3
<1>3. CreatesOneRoom
  <2>1. \A k \in Keys : made[k] = 0 \/ made[k] = 1
    BY DEF PgInv, MadeKept
  <2>2. \A k \in Keys : made[k] <= 1
    BY <2>1
  <2>3. \A c \in Calls : KindOf[c] = "create" => at[c] # "internal"
    BY DEF PgInv, MadeKept
  <2>4. QED
    BY <2>2, <2>3 DEF CreatesOneRoom
<1>4. QED
  BY <1>1, <1>2, <1>3 DEF PgSound, PgInv

\* Whatever is sent, resent, lost or done by other people between the reads of a
\* transaction and its row lock (postgres-repository.ts), the tables stay sound:
\* header, members, events and attempts agree with the state, only members act and on
\* the state they saw, a void invite admits nobody, a failure has had no effect, a
\* create makes one room.
THEOREM RepositoryIsSound == ASSUME RepositoryAssumption PROVE Spec => []PgSound
<1>1. PgInv => PgSound
  BY InvSound
<1>2. Spec => []PgInv
  BY PgInvariant
<1>3. QED
  BY <1>1, <1>2, PTL
-----------------------------------------------------------------------------
(* The repository implements AtomicRoom.                                     *)

AckedNow == {c \in Calls : at[c] = "ok" /\ KindOf[c] \in Commands \cup {"leave"}}

LEMMA PromiseInit == ASSUME RepositoryAssumption, Init PROVE AtomicR!Init
<1>1. PgInv
  BY InitInv
<1>2. Open /\ log = <<>>
  BY <1>1 DEF Init, Open, PgInv, PgTypes, RoomRow, People, RepositoryAssumption
<1>3. {c \in Calls : at[c] = "ok" /\ KindOf[c] \in Commands \cup {"leave"}} = {}
  BY DEF Init
<1>4. QED
  BY <1>2, <1>3 DEF AtomicR!Init, Open

\* A request that is sent or that moves on changes nothing, unless it is answered.
LEMMA PromiseMoves ==
  ASSUME RepositoryAssumption, PgInv, NEW c \in Calls, NEW p, Moves(c, p)
  PROVE  AtomicR!Ack(c) \/ UNCHANGED AtomicR!vars
<1>1. /\ log' = log /\ Open' = Open /\ at[c] # "ok" /\ at'[c] = p
      /\ \A d \in Calls : d # c => at'[d] = at[d]
  BY DEF Moves, PgInv, PgTypes, Open, Underway
<1>2. CASE p = "ok" /\ KindOf[c] \in Commands \cup {"leave"}
  <2>1. AckedNow' = AckedNow \cup {c}
    BY <1>1, <1>2 DEF AckedNow
  <2>2. at[c] = "committed"
    BY <1>2 DEF Moves, Commands
  <2>3. ASSUME Open PROVE c \in Range(log) \/ AtomicR!SameAsTaken(c)
    <3>1. CASE KindOf[c] = "leave"
      BY <2>2, <2>3, <3>1 DEF PgInv, CommittedKept
    <3>2. CASE KindOf[c] \in Commands
      <4>1. ReceiptOf(c) \in receipts /\ ReceiptOf(c).kind \in Commands
        BY <2>2, <2>3, <3>2, CallParts DEF PgInv, CommittedKept, Enveloped
      <4>2. PICK d \in Range(log) : ReceiptOf(d) = ReceiptOf(c)
        BY <4>1 DEF PgInv, ReceiptsKept
      <4>3. d \in Calls
        BY DEF PgInv, PgTypes, Range
      <4>4. Key(d) = Key(c) /\ KindOf[d] = KindOf[c]
        BY <4>2, <4>3, ReceiptTells
      <4>5. /\ c \in {e \in Receipted : KindOf[e] # "create"}
            /\ d \in {e \in Receipted : KindOf[e] # "create"}
        BY <3>2, <4>3, <4>4 DEF Receipted, Commands
      <4>6. [e \in Calls |-> Key(e)][c] = [e \in Calls |-> Key(e)][d]
        BY <4>3, <4>4
      <4>7. QED
        BY <4>2, <4>5, <4>6 DEF AtomicR!SameAsTaken, AtomicR!InForce, AtomicR!Range, Range
    <3>3. QED
      BY <1>2, <3>1, <3>2
  <2>4. QED
    BY <1>1, <2>1, <2>3 DEF AtomicR!Ack, AtomicR!InForce, AtomicR!Range, Range, AckedNow
<1>3. CASE ~(p = "ok" /\ KindOf[c] \in Commands \cup {"leave"})
  <2>1. AckedNow' = AckedNow
    BY <1>1, <1>3 DEF AckedNow
  <2>2. QED
    BY <1>1, <2>1 DEF AtomicR!vars, AckedNow
<1>4. QED
  BY <1>2, <1>3

\* A request takes effect, once.
LEMMA PromiseTakes ==
  ASSUME RepositoryAssumption, PgInv, NEW c \in Calls, NEW t, Commits(c, t)
  PROVE  AtomicR!Take(c)
<1>1. /\ log' = Append(log, c) /\ Open /\ Open' /\ at[c] = "row" /\ at'[c] = "committed"
      /\ \A d \in Calls : d # c => at'[d] = at[d]
  BY DEF Commits, PgInv, PgTypes, Open, RepositoryAssumption
<1>2. AckedNow' = AckedNow
  BY <1>1 DEF AckedNow
<1>3. c \notin Range(log)
  BY <1>1 DEF PgInv, ReceiptsKept
<1>4. ~AtomicR!SameAsTaken(c)
  <2>1. SUFFICES ASSUME AtomicR!SameAsTaken(c) PROVE FALSE
    OBVIOUS
  <2>2. PICK d \in Range(log) : /\ d \in Receipted /\ c \in Receipted
                                /\ [e \in Calls |-> Key(e)][c] = [e \in Calls |-> Key(e)][d]
    BY <2>1 DEF AtomicR!SameAsTaken, AtomicR!InForce, AtomicR!Range, Range
  <2>3. d \in Calls /\ Key(d) = Key(c)
    BY <2>2 DEF Receipted
  <2>4. ReceiptOf(d) \in receipts /\ ReceiptOf(d).key = Key(d)
    BY <2>2, <2>3, CallParts DEF PgInv, ReceiptsKept
  <2>5. Receipt(c) = {}
    BY <2>2 DEF Commits, Receipted, Commands
  <2>6. QED
    BY <2>3, <2>4, <2>5 DEF Receipt
<1>5. QED
  BY <1>1, <1>2, <1>3, <1>4 DEF AtomicR!Take, AtomicR!InForce, AtomicR!Range, Range, AckedNow, Open

LEMMA PromiseRest ==
  ASSUME RepositoryAssumption, PgInv, NEW c \in Calls, Send(c) \/ Remembers(c) \/ Closes(c)
  PROVE  AtomicR!Close \/ UNCHANGED AtomicR!vars
<1>1. /\ at[c] # "ok" /\ at'[c] # "ok" /\ \A d \in Calls : d # c => at'[d] = at[d]
  BY DEF Send, Answer, Remembers, Closes, PgInv, PgTypes
<1>2. AckedNow' = AckedNow
  BY <1>1 DEF AckedNow
<1>3. CASE Closes(c)
  <2>1. Open /\ ~Open' /\ log' = <<>>
    BY <1>3 DEF Closes, DeleteRoom, Open
  <2>2. QED
    BY <1>2, <2>1 DEF AtomicR!Close, AckedNow
<1>4. CASE Send(c)
  <2>1. log' = log /\ Open' = Open
    BY <1>4 DEF Send, tables, Open
  <2>2. QED
    BY <1>2, <2>1 DEF AtomicR!vars, AckedNow
<1>5. CASE Remembers(c)
  <2>1. log' = log /\ Open' = Open
    <3>1. CASE room' = room
      BY <1>5, <3>1 DEF Remembers, Open
    <3>2. CASE Open /\ room' = [room EXCEPT !.invite = @ + 1]
      <4>1. room \in RoomRow /\ room.invite \in Nat
        BY <3>2, RowParts2 DEF PgInv, PgTypes, Open
      <4>2. room' \in RoomRow
        BY <3>2, <4>1 DEF RoomRow
      <4>3. QED
        BY <1>5, <3>2, <4>2 DEF Remembers, Open, RepositoryAssumption
    <3>3. QED
      BY <1>5, <3>1, <3>2 DEF Remembers
  <2>2. QED
    BY <1>2, <2>1 DEF AtomicR!vars, AckedNow
<1>6. QED
  BY <1>3, <1>4, <1>5

LEMMA PromiseStep ==
  ASSUME RepositoryAssumption, PgInv, [Next]_vars
  PROVE  [AtomicR!Next]_(AtomicR!vars)
<1>1. CASE Next
  <2>1. PICK c \in Calls : \/ Send(c) \/ Remembers(c) \/ Closes(c)
                           \/ \E p : Moves(c, p)
                           \/ \E t : Commits(c, t)
    BY <1>1, NextSteps
  <2>2. AtomicR!Close \/ AtomicR!Take(c) \/ AtomicR!Ack(c) \/ UNCHANGED AtomicR!vars
    BY <2>1, PromiseMoves, PromiseTakes, PromiseRest
  <2>3. QED
    BY <2>2 DEF AtomicR!Next
<1>2. CASE UNCHANGED vars
  BY <1>2 DEF vars, AtomicR!vars, Open
<1>3. QED
  BY <1>1, <1>2

\* The repository (postgres-repository.ts) implements AtomicRoom: the requests of a room
\* take effect one after the other, each at one moment and at most once however
\* often it is resent, and a success is only answered for an effect that stays.
THEOREM RepositoryImplementsRoom == ASSUME RepositoryAssumption PROVE Spec => PgKeepsPromise
<1>1. Init => AtomicR!Init
  BY PromiseInit
<1>2. PgInv /\ [Next]_vars => [AtomicR!Next]_(AtomicR!vars)
  BY PromiseStep
<1>3. Spec => []PgInv
  BY PgInvariant
<1>4. QED
  BY <1>1, <1>2, <1>3, PTL DEF Spec, PgKeepsPromise, AtomicR!Spec
=============================================================================
