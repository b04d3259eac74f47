-------------------------------- MODULE PgPool --------------------------------
(* The pools of database connections a process makes one after another: one   *)
(* is made when a call finds none, dropped when a call reports that its       *)
(* connection was lost, and ended in the background by the Node process (an   *)
(* Edge Function only forgets it).                                            *)
EXTENDS Naturals, FiniteSets

CONSTANTS Calls,
          MaxPools,   \* bound: pools made in a behaviour
          Node        \* the Node process, or an Edge Function

PoolAssumption == MaxPools \in Nat \ {0} /\ Node \in BOOLEAN /\ IsFiniteSet(Calls)

VARIABLES sql,     \* the pool that is used, 0 when there is none
          pool,    \* each pool: unborn, open, ending, ended
          lost,    \* calls whose connection was lost, or could not be made
          told,    \* pools of which a call has reported that
          in,      \* the pool each call runs in
          st,      \* each call: new, running, done, failed, cut
          closed   \* the process has closed its pool

vars == <<sql, pool, lost, told, in, st, closed>>
Pools == 1..MaxPools
Running(p) == {c \in Calls : st[c] = "running" /\ in[c] = p}
Kinds == {"CONNECT_TIMEOUT", "ECONNRESET", "other"}
-----------------------------------------------------------------------------
\* The Node process opens its pool at once, an Edge Function with the first call.
Init ==
  /\ sql = IF Node THEN 1 ELSE 0
  /\ pool = [p \in Pools |-> IF Node /\ p = 1 THEN "open" ELSE "unborn"]
  /\ lost = {} /\ told = {} /\ in = [c \in Calls |-> 0] /\ st = [c \in Calls |-> "new"] /\ closed = FALSE

IsConnectionError(kind) == kind \in {"CONNECT_TIMEOUT", "ECONNRESET"}

\* begin and query: getSql, then the call runs in that pool whatever sql becomes.
Start(c) ==
  /\ st[c] = "new" /\ ~closed
  /\ \E p \in Pools :
       /\ IF sql # 0 THEN p = sql ELSE pool[p] = "unborn" /\ \A q \in Pools : q < p => pool[q] # "unborn"
       /\ sql' = p /\ in' = [in EXCEPT ![c] = p]
       /\ pool' = [pool EXCEPT ![p] = IF @ = "unborn" THEN "open" ELSE @]
  /\ st' = [st EXCEPT ![c] = "running"] /\ UNCHANGED <<lost, told, closed>>

Done(c) ==
  /\ st[c] = "running" /\ c \notin lost
  /\ st' = [st EXCEPT ![c] = "done"] /\ UNCHANGED <<sql, pool, lost, told, in, closed>>

\* Mutant: the pool that is dropped is forgotten.
ResetSql_Forgets == sql' = 0 /\ UNCHANGED pool

\* Whatever pool is used by now is dropped.
ResetSql ==
  /\ sql' = 0
  /\ pool' = [p \in Pools |-> IF Node /\ p = sql /\ pool[p] = "open" THEN "ending" ELSE pool[p]]

\* A call fails: by its connection, which postgres.js reports as a time-out or a
\* reset, or by an error of its own.
Fail(c) ==
  /\ st[c] = "running"
  /\ st' = [st EXCEPT ![c] = "failed"] /\ UNCHANGED <<lost, in, closed>>
  /\ \E kind \in Kinds :
       /\ (kind # "other") <=> c \in lost
       /\ told' = IF kind = "other" THEN told ELSE told \cup {in[c]}
       /\ IF IsConnectionError(kind) THEN ResetSql ELSE UNCHANGED <<sql, pool>>

\* The database or the network goes away for some; connections made later are good.
Break == \E some \in SUBSET {c \in Calls : st[c] = "running"} :
           lost' = lost \cup some /\ UNCHANGED <<sql, pool, told, in, st, closed>>

\* end({ timeout: 1 }): the pool ends with its last call, or cuts what still runs.
EndPool(p) ==
  /\ pool[p] = "ending" /\ pool' = [pool EXCEPT ![p] = "ended"]
  /\ st' = [c \in Calls |-> IF c \in Running(p) THEN "cut" ELSE st[c]]
  /\ UNCHANGED <<sql, lost, told, in, closed>>

\* close: after the last request, or by the deadline of the shutdown.
ClosePool ==
  /\ Node /\ ~closed /\ closed' = TRUE
  /\ pool' = [p \in Pools |-> IF p = sql THEN "ending" ELSE pool[p]]
  /\ UNCHANGED <<sql, lost, told, in, st>>

Next ==
  \/ \E c \in Calls : Start(c) \/ Done(c) \/ Fail(c)
  \/ \E p \in Pools : EndPool(p)
  \/ Break \/ ClosePool
Spec == Init /\ [][Next]_vars
-----------------------------------------------------------------------------
TypeOK ==
  /\ sql \in 0..MaxPools /\ pool \in [Pools -> {"unborn", "open", "ending", "ended"}]
  /\ lost \subseteq Calls /\ told \subseteq {in[c] : c \in lost} /\ in \in [Calls -> 0..MaxPools]
  /\ st \in [Calls -> {"new", "running", "done", "failed", "cut"}] /\ closed \in BOOLEAN
  /\ sql # 0 => pool[sql] # "unborn"
  /\ \A c \in Calls : st[c] = "running" => pool[in[c]] \in {"open", "ending"}

\* No pool is left open that nobody uses: flapping connections must not leak a
\* pool of sockets each (server/crew-api.ts:57).
NothingLeaks == \A p \in Pools : pool[p] = "open" => p = sql

\* A call is never given a pool that is known to have lost its connections.
NeverPoisoned == \A c \in Calls : st[c] = "new" /\ st'[c] = "running" => in'[c] \notin told

\* Flapping connections replace no more pools than there were calls to report
\* them: a pool goes for a lost connection, and at most one for each.  It need not
\* be the pool that lost it (server/crew-api.ts:58-60).
Dropped == {p \in Pools : pool[p] # "unborn" /\ p # sql}
DropsAreCharged == ~closed => Cardinality(Dropped) <= Cardinality({c \in lost : st[c] = "failed"})
=============================================================================
