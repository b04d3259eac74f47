--------------------------- MODULE RoomStoreProofs ----------------------------
(* Proofs about one room of the store, for any number of requests, members,  *)
(* failed writes and crashes: what the run of module MCServer shows on small  *)
(* instances, and that the store implements AtomicRoom.                       *)
(*                                                                            *)
(* The argument.  Only the first call of the chain is ever between reading    *)
(* the record and settling (OneRuns), so the record it read is still the one  *)
(* on disk when it writes (InHand), and memory is never ahead of the disk.    *)
(* What was told, the receipts and the envelopes then relate to the one log   *)
(* on disk (LogKept, RepliesKept), which only grows by whole requests.        *)
EXTENDS RoomStore, FiniteSetTheorems, TLAPS

Running == {"load", "write", "wrote", "remove", "removed"}
Places  == {"new"} \cup Underway \cup Answers

StoreTypes ==
  /\ file \in Record \cup {None}
  /\ cache \in Record \cup {None}
  /\ queue \in Seq(Calls)
  /\ at \in [Calls -> Places]
  /\ draft \in [Calls -> Record \cup {None}]
  /\ exp \in [Range(IdOf) -> Envelope \cup {None}]
  /\ told \in Nat
  /\ floor \in [Calls -> Nat]
  /\ reply \in [Calls -> Nat \cup {None}]
  /\ faults \in 0..MaxFaults

\* Who is past the head of the chain is at its head.
OneRuns == \A c \in Calls : at[c] \in Running => AtHead(c)

\* What the call that runs has in hand fits the disk.
InHand ==
  \A c \in Calls :
    /\ at[c] = "write" => file # None /\ Answer(c, file) = "go" /\ draft[c] = After(c, file)
    /\ at[c] = "wrote" => file # None /\ draft[c] = file /\ c \in Range(file.log)
    /\ at[c] = "remove" => file # None
    /\ at[c] = "removed" => file = None

\* The receipts of a record are those of the commands in its log.
ReceiptOf(c) == [id |-> IdOf[c], actor |-> ActorOf[c]]
ReceiptsKept(r) == r.receipts = {ReceiptOf(c) : c \in Range(r.log) \cap Enveloped}

\* A call that was refused as stale stays too late, and no send of it is in force.
StaleForGood(c) ==
  /\ c \in Enveloped /\ KindOf[c] # "ready"
  /\ exp[IdOf[c]].rev < Revision(file)
  /\ \A d \in Range(file.log) \cap Enveloped : ~(IdOf[d] = IdOf[c] /\ ActorOf[d] = ActorOf[c])

EnvelopesKept ==
  /\ \A i \in Range(IdOf) : Sent(i) => exp[i].rev <= told
  /\ \A c \in Enveloped : at[c] # "new" => Sent(IdOf[c])

LogKept ==
  file # None =>
    /\ ReceiptsKept(file)
    /\ \A c \in Range(file.log) : at[c] \in {"wrote", "ok", "lost"}
    /\ \A c \in Calls : at[c] = "stale" => StaleForGood(c)

RepliesKept ==
  \A c \in Calls :
    /\ floor[c] <= told
    /\ at[c] \notin Answers => reply[c] = None

StoreInv ==
  /\ StoreTypes /\ OneRuns /\ InHand /\ MemoryNeverAhead
  /\ EnvelopesKept /\ ToldIsDurable /\ LogKept /\ AppliedWhereSeen
  /\ RepliesKept /\ NoStaleReads
-----------------------------------------------------------------------------
(* Sequences, records and answers.                                           *)

LEMMA AppendToLog ==
  ASSUME NEW S, NEW s \in Seq(S), NEW c \in S
  PROVE  /\ Append(s, c) \in Seq(S)
         /\ Len(Append(s, c)) = Len(s) + 1
         /\ DOMAIN Append(s, c) = 1 .. Len(s) + 1
         /\ \A i \in 1 .. Len(s) : Append(s, c)[i] = s[i]
         /\ Append(s, c)[Len(s) + 1] = c
         /\ Range(Append(s, c)) = Range(s) \cup {c}
<1>1. /\ Append(s, c) \in Seq(S)
      /\ Len(Append(s, c)) = Len(s) + 1
      /\ DOMAIN Append(s, c) = 1 .. Len(s) + 1
      /\ \A i \in 1 .. Len(s) : Append(s, c)[i] = s[i]
      /\ Append(s, c)[Len(s) + 1] = c
  OBVIOUS
<1>2. DOMAIN s = 1 .. Len(s) /\ Len(s) \in Nat
  OBVIOUS
<1>3. Range(Append(s, c)) \subseteq Range(s) \cup {c}
  BY <1>1, <1>2 DEF Range
<1>4. Range(s) \cup {c} \subseteq Range(Append(s, c))
  <2>1. \A i \in 1 .. Len(s) : i \in 1 .. Len(s) + 1
    BY <1>2
  <2>2. Len(s) + 1 \in 1 .. Len(s) + 1
    BY <1>2
  <2>3. QED
    BY <1>1, <1>2, <2>1, <2>2 DEF Range
<1>5. QED
  BY <1>1, <1>3, <1>4

LEMMA RestOfChain ==
  ASSUME NEW S, NEW s \in Seq(S), s # <<>>
  PROVE  Tail(s) \in Seq(S)
  OBVIOUS

\* A call that joins the chain is not in front of the one that runs.
LEMMA HeadStays ==
  ASSUME NEW S, NEW s \in Seq(S), NEW c \in S, s # <<>>
  PROVE  Head(Append(s, c)) = Head(s) /\ Append(s, c) # <<>>
  OBVIOUS

LEMMA RecordParts ==
  ASSUME StoreAssumption, NEW r \in Record
  PROVE  /\ r.log \in Seq(Calls) /\ r.members \in SUBSET Actors
         /\ r.receipts \in SUBSET [id : Range(IdOf), actor : Range(ActorOf)]
         /\ Revision(r) = Len(r.log) /\ Revision(r) \in Nat
         /\ DOMAIN r.log = 1 .. Len(r.log) /\ Range(r.log) \subseteq Calls
         /\ r # None
  BY DEF StoreAssumption, Record, Revision, Range

LEMMA CallParts ==
  ASSUME StoreAssumption, NEW c \in Calls
  PROVE  /\ IdOf[c] \in Range(IdOf) /\ ActorOf[c] \in Range(ActorOf) /\ ActorOf[c] \in Actors
         /\ KindOf[c] \in Kinds
         /\ ReceiptOf(c) \in [id : Range(IdOf), actor : Range(ActorOf)]
  BY DEF StoreAssumption, Actors, Range, ReceiptOf

\* Restarts are counted in natural numbers.
LEMMA AttemptType ==
  ASSUME NEW s \in Seq(Calls), NEW n \in Nat
  PROVE  AttemptAt(s, n) \in Nat
<1>1. IsFiniteSet(1 .. Len(s))
  BY FS_Interval
<1>2. IsFiniteSet({i \in DOMAIN s : i <= n /\ KindOf[s[i]] = "restart"})
  BY <1>1, FS_Subset
<1>3. QED
  BY <1>2, FS_CardinalityType DEF AttemptAt

\* Up to its length a log counts as many restarts after it has grown.
LEMMA AttemptKept ==
  ASSUME NEW s \in Seq(Calls), NEW c \in Calls, NEW n \in Nat, n <= Len(s)
  PROVE  AttemptAt(Append(s, c), n) = AttemptAt(s, n)
<1> DEFINE Restarts(t) == {i \in DOMAIN t : i <= n /\ KindOf[t[i]] = "restart"}
<1>1. DOMAIN s = 1 .. Len(s) /\ Len(s) \in Nat
  OBVIOUS
<1>2. Restarts(Append(s, c)) = Restarts(s)
  BY <1>1, AppendToLog
<1>3. QED
  BY <1>2 DEF AttemptAt

LEMMA AnswerType ==
  ASSUME StoreAssumption, NEW c \in Calls, NEW r
  PROVE  /\ Answer(c, r) \in {"go", "ok", "denied", "conflict", "stale", "attempt"}
         /\ KindOf[c] = "snapshot" => Answer(c, r) # "go"
  BY CallParts DEF Kinds, Answer, Enveloped, CommandAnswer, SnapshotAnswer, LeaveAnswer

\* The record after a call has its type, and one more entry in its log.
LEMMA AfterType ==
  ASSUME StoreAssumption, NEW r \in Record, NEW c \in Calls, KindOf[c] # "snapshot"
  PROVE  /\ After(c, r) \in Record
         /\ After(c, r).log = Append(r.log, c)
         /\ After(c, r).receipts = IF c \in Enveloped THEN r.receipts \cup {ReceiptOf(c)} ELSE r.receipts
<1>1. /\ r.log \in Seq(Calls) /\ r.members \in SUBSET Actors
      /\ r.receipts \in SUBSET [id : Range(IdOf), actor : Range(ActorOf)]
      /\ Append(r.log, c) \in Seq(Calls)
  BY RecordParts, AppendToLog
<1>2. ActorOf[c] \in Actors /\ ReceiptOf(c) \in [id : Range(IdOf), actor : Range(ActorOf)]
      /\ KindOf[c] \in Kinds
  BY CallParts
<1>3. CASE c \in Enveloped
  <2> DEFINE more == r.receipts \cup {ReceiptOf(c)}
  <2>1. After(c, r) = [r EXCEPT !.log = Append(r.log, c), !.receipts = more]
    BY <1>3 DEF After, AfterCommand, ReceiptOf, Enveloped
  <2>2. more \in SUBSET [id : Range(IdOf), actor : Range(ActorOf)]
    BY <1>1, <1>2
  <2> HIDE DEF more
  <2>3. After(c, r).log = Append(r.log, c) /\ After(c, r).receipts = more
    BY <2>1 DEF Record
  <2>4. After(c, r) \in Record
    BY <1>1, <2>1, <2>2 DEF Record
  <2>5. QED
    BY <1>3, <2>3, <2>4 DEF more
<1>4. CASE KindOf[c] = "join"
  BY <1>1, <1>2, <1>4 DEF After, AfterJoin, Record, Enveloped
<1>5. CASE KindOf[c] = "leave"
  BY <1>1, <1>2, <1>5 DEF After, AfterLeave, Record, Enveloped
<1>6. QED
  BY <1>2, <1>3, <1>4, <1>5 DEF Kinds, Enveloped
-----------------------------------------------------------------------------
(* The steps, told apart by what the call that takes them meets.  Whoever     *)
(* runs finds the record that is on disk, in memory or there.                 *)

Begins(c) ==
  /\ at[c] = "queued" /\ AtHead(c)
  /\ at' = [at EXCEPT ![c] = "load"]
  /\ UNCHANGED <<file, cache, queue, draft, exp, told, floor, reply, faults>>

FindsNone(c) ==
  /\ at[c] = "load" /\ AtHead(c) /\ file = None
  /\ queue' = Tail(queue) /\ at' = [at EXCEPT ![c] = "gone"]
  /\ UNCHANGED <<file, cache, draft, exp, told, floor, reply, faults>>

Meets(c) ==
  /\ at[c] \in {"queued", "load"} /\ AtHead(c)
  /\ file # None /\ cache' = file
  /\ UNCHANGED <<file, exp, floor, faults>>

Answered(c) ==
  /\ Meets(c)
  /\ Answer(c, file) # "go"
  /\ queue' = Tail(queue) /\ at' = [at EXCEPT ![c] = Answer(c, file)]
  /\ IF Answer(c, file) = "ok" THEN Tell(c, file) ELSE UNCHANGED <<told, reply>>
  /\ UNCHANGED draft

Refused(c) ==
  /\ Meets(c)
  /\ Answer(c, file) = "go"
  /\ queue' = Tail(queue) /\ at' = [at EXCEPT ![c] = "refused"]
  /\ UNCHANGED <<draft, told, reply>>

Prepares(c) ==
  /\ Meets(c)
  /\ Answer(c, file) = "go"
  /\ at' \in {[at EXCEPT ![c] = "write"], [at EXCEPT ![c] = "remove"]}
  /\ draft' = [draft EXCEPT ![c] = After(c, file)]
  /\ UNCHANGED <<queue, told, reply>>

\* With one call running, the next one that runs finds memory and disk agreeing.
LEMMA FoundOnDisk ==
  ASSUME OneRuns, MemoryNeverAhead, NEW c \in Calls, AtHead(c),
         at[c] \in {"queued", "load", "write", "remove"}
  PROVE  cache \in {file, None}
  BY DEF OneRuns, MemoryNeverAhead, AtHead, Running

\* Those steps are all a call that runs can take before it writes.
LEMMA RunOrLoad ==
  ASSUME StoreInv, NEW c \in Calls, Run(c) \/ Load(c)
  PROVE  Begins(c) \/ FindsNone(c) \/ Answered(c) \/ Refused(c) \/ Prepares(c)
<1>1. AtHead(c) /\ at[c] \in {"queued", "load"}
  BY DEF StoreInv, OneRuns, Running, Run, Load
<1>2. cache \in {file, None}
  BY <1>1, FoundOnDisk DEF StoreInv
<1>3. ASSUME file # None, cache' = file, Handle(c, file), UNCHANGED <<file, exp, floor, faults>>
      PROVE  Answered(c) \/ Refused(c) \/ Prepares(c)
  <2>1. Meets(c)
    BY <1>1, <1>3 DEF Meets
  <2>2. at[c] # "stat"
    BY <1>1
  <2>3. QED
    BY <1>3, <2>1, <2>2 DEF Handle, Settle, Answered, Refused, Prepares
<1>4. CASE Run(c)
  BY <1>1, <1>2, <1>3, <1>4 DEF Run, Begins
<1>5. CASE Load(c)
  <2>1. CASE file = None
    BY <1>1, <1>5, <2>1 DEF Load, Settle, FindsNone
  <2>2. CASE file # None
    BY <1>2, <1>3, <1>5, <2>2 DEF Load
  <2>3. QED
    BY <2>1, <2>2
<1>6. QED
  BY <1>4, <1>5

\* Every step of the room, with the reading steps told apart.
Steps ==
  \/ Evict \/ Crash
  \/ \E c \in Calls :
       \/ Send(c) \/ Found(c) \/ Begins(c) \/ FindsNone(c)
       \/ Answered(c) \/ Refused(c) \/ Prepares(c)
       \/ Write(c) \/ Persisted(c) \/ RemoveFile(c) \/ Removed(c) \/ DiskFails(c)

LEMMA NextSteps == ASSUME StoreInv, Next PROVE Steps
  BY RunOrLoad DEF Next, Serve, Steps
-----------------------------------------------------------------------------
(* Each part of the invariant holds at first and is kept by every step.      *)

LEMMA SeenType ==
  ASSUME StoreAssumption, StoreTypes
  PROVE  Seen \subseteq Envelope /\ \A seen \in Seen : seen.rev <= told
<1>1. CASE file = None
  BY <1>1 DEF Seen, Envelope, StoreTypes
<1>2. CASE file # None
  <2>1. file.log \in Seq(Calls)
    BY <1>2, RecordParts DEF StoreTypes
  <2>2. \A r \in 0..told : r \in Nat /\ r <= told
    BY DEF StoreTypes
  <2>3. \A r \in 0..told : AttemptAt(file.log, r) \in Nat
    BY <2>1, <2>2, AttemptType
  <2>4. QED
    BY <1>2, <2>2, <2>3 DEF Seen, Envelope
<1>3. QED
  BY <1>1, <1>2

LEMMA InitInv == ASSUME StoreAssumption, Init PROVE StoreInv
<1> DEFINE first == [log |-> <<>>, members |-> Crew, receipts |-> {}]
<1>1. first \in Record /\ first.log = <<>> /\ first.receipts = {}
  BY DEF Record, Actors
<1>2. file = first /\ file # None
  BY <1>1, RecordParts DEF Init
<1> HIDE DEF first
<1>3. \A c \in Calls : at[c] = "new"
  BY DEF Init
<1>4. Range(file.log) = {} /\ DOMAIN file.log = {}
  BY <1>1, <1>2 DEF Range
<1>5. StoreTypes
  <2>1. file \in Record \cup {None} /\ cache \in Record \cup {None}
    BY <1>1, <1>2 DEF Init
  <2>1a. queue \in Seq(Calls)
    BY DEF Init
  <2>2. at \in [Calls -> Places] /\ draft \in [Calls -> Record \cup {None}]
    BY DEF Init, Places
  <2>3. exp \in [Range(IdOf) -> Envelope \cup {None}]
    BY DEF Init, Range, StoreAssumption
  <2>4. told \in Nat /\ floor \in [Calls -> Nat] /\ reply \in [Calls -> Nat \cup {None}]
        /\ faults \in 0..MaxFaults
    BY DEF Init, StoreAssumption
  <2>5. QED
    BY <2>1, <2>1a, <2>2, <2>3, <2>4 DEF StoreTypes
<1>6. OneRuns /\ InHand /\ MemoryNeverAhead
  BY <1>3 DEF Init, OneRuns, InHand, MemoryNeverAhead, Running
<1>7. EnvelopesKept
  BY <1>3 DEF Init, EnvelopesKept, Sent, Range, Enveloped, StoreAssumption
<1>8. ToldIsDurable
  BY <1>1, <1>2 DEF Init, ToldIsDurable, Revision
<1>9. LogKept
  BY <1>1, <1>2, <1>3, <1>4 DEF LogKept, ReceiptsKept
<1>10. AppliedWhereSeen
  BY <1>4 DEF AppliedWhereSeen
<1>11. RepliesKept /\ NoStaleReads
  BY <1>3 DEF Init, RepliesKept, NoStaleReads
<1>12. QED
  BY <1>5, <1>6, <1>7, <1>8, <1>9, <1>10, <1>11 DEF StoreInv

LEMMA TypesKept == ASSUME StoreAssumption, StoreInv, Steps PROVE StoreTypes'
<1> USE DEF StoreInv, StoreTypes
<1>0. /\ {"new", "stat", "queued", "load", "write", "wrote", "remove", "removed"} \subseteq Places
      /\ {"ok", "lost", "conflict", "stale", "attempt", "denied", "refused", "gone", "error"}
           \subseteq Places
  BY DEF Places, Underway, Answers, Refusals
<1>1. CASE Evict
  BY <1>1 DEF Evict
<1>1a. CASE Crash
  <2>1. at' \in [Calls -> Places] /\ queue' \in Seq(Calls)
    BY <1>0, <1>1a DEF Crash
  <2>2. faults' \in 0..MaxFaults
    BY <1>1a DEF Crash, StoreAssumption
  <2>3. QED
    BY <1>1a, <2>1, <2>2 DEF Crash
<1>2. SUFFICES ASSUME NEW c \in Calls,
                 \/ Send(c) \/ Found(c) \/ Begins(c) \/ FindsNone(c)
                 \/ Answered(c) \/ Refused(c) \/ Prepares(c)
                 \/ Write(c) \/ Persisted(c) \/ RemoveFile(c) \/ Removed(c) \/ DiskFails(c)
      PROVE  StoreTypes'
  BY <1>1, <1>1a DEF Steps
<1>2a. Append(queue, c) \in Seq(Calls) /\ queue \in Seq(Calls)
  <2>1. queue \in Seq(Calls)
    OBVIOUS
  <2>2. QED
    BY <2>1, AppendToLog
<1>3. CASE Send(c)
  <2>1. exp' \in [Range(IdOf) -> Envelope \cup {None}]
    BY <1>3, SeenType, CallParts DEF Send
  <2>2. \/ queue' = Append(queue, c) /\ at' = [at EXCEPT ![c] = "queued"]
        \/ queue' = queue /\ at' = [at EXCEPT ![c] = "stat"]
    BY <1>3 DEF Send
  <2>3. queue' \in Seq(Calls)
    BY <1>2a, <2>2
  <2>4. at' \in [Calls -> Places]
    BY <1>0, <2>2
  <2>5. QED
    BY <1>3, <2>1, <2>3, <2>4 DEF Send
<1>4. CASE Found(c)
  <2>1. \/ queue' = Append(queue, c) /\ at' = [at EXCEPT ![c] = "queued"]
        \/ queue' = queue /\ at' = [at EXCEPT ![c] = "gone"]
    BY <1>4 DEF Found
  <2>2. queue' \in Seq(Calls)
    BY <1>2a, <2>1
  <2>3. at' \in [Calls -> Places]
    BY <1>0, <2>1
  <2>4. QED
    BY <1>4, <2>2, <2>3 DEF Found
<1>5. CASE Begins(c)
  BY <1>0, <1>5 DEF Begins
<1>6. CASE FindsNone(c)
  BY <1>0, <1>6, RestOfChain DEF FindsNone, AtHead
<1>7. CASE Answered(c)
  <2>1. Answer(c, file) \in {"go", "ok", "denied", "conflict", "stale", "attempt"}
    BY AnswerType
  <2>2. queue' \in Seq(Calls) /\ at' \in [Calls -> Places]
    BY <1>0, <1>7, <2>1, RestOfChain DEF Answered, Meets, AtHead
  <2>3. file \in Record /\ Revision(file) \in Nat
    BY <1>7, RecordParts DEF Answered, Meets
  <2>4. told' \in Nat /\ reply' \in [Calls -> Nat \cup {None}]
    BY <1>7, <2>3 DEF Answered, Tell
  <2>5. QED
    BY <1>7, <2>2, <2>3, <2>4 DEF Answered, Meets
<1>8. CASE Refused(c)
  BY <1>0, <1>8, RestOfChain DEF Refused, Meets, AtHead
<1>9. CASE Prepares(c)
  <2>1. file \in Record /\ KindOf[c] # "snapshot"
    BY <1>9, AnswerType DEF Prepares, Meets
  <2>2. After(c, file) \in Record
    BY <2>1, AfterType
  <2>3. at' \in [Calls -> Places]
    BY <1>0, <1>9 DEF Prepares
  <2>4. QED
    BY <1>9, <2>1, <2>2, <2>3 DEF Prepares, Meets
<1>10. CASE Write(c)
  BY <1>0, <1>10 DEF Write
<1>11. CASE Persisted(c)
  <2>1. file \in Record /\ draft[c] = file /\ queue # <<>>
    BY <1>11 DEF Persisted, InHand, OneRuns, AtHead, Running
  <2>2. Revision(file) \in Nat
    BY <2>1, RecordParts
  <2>3. told' \in Nat /\ reply' \in [Calls -> Nat \cup {None}]
    BY <1>11, <2>1, <2>2 DEF Persisted, Tell
  <2>4. queue' \in Seq(Calls) /\ at' \in [Calls -> Places]
    BY <1>0, <1>11, <2>1, RestOfChain DEF Persisted, Settle
  <2>5. QED
    BY <1>11, <2>1, <2>3, <2>4 DEF Persisted
<1>12. CASE RemoveFile(c)
  BY <1>0, <1>12 DEF RemoveFile
<1>13. CASE Removed(c)
  <2>1. queue # <<>>
    BY <1>13 DEF Removed, OneRuns, AtHead, Running
  <2>2. QED
    BY <1>0, <1>13, <2>1, RestOfChain DEF Removed, Settle
<1>14. CASE DiskFails(c)
  <2>1. at[c] # "stat" => queue # <<>>
    BY <1>14 DEF DiskFails, OneRuns, AtHead, Running
  <2>2. queue' \in Seq(Calls) /\ at' \in [Calls -> Places]
    BY <1>0, <1>14, <2>1, RestOfChain DEF DiskFails, Settle
  <2>3. faults' \in 0..MaxFaults
    BY <1>14 DEF DiskFails, StoreAssumption
  <2>4. QED
    BY <1>14, <2>2, <2>3 DEF DiskFails
<1>15. QED
  BY <1>2, <1>3, <1>4, <1>5, <1>6, <1>7, <1>8, <1>9, <1>10, <1>11, <1>12, <1>13, <1>14

\* Two calls never run at once.
LEMMA Alone ==
  ASSUME OneRuns, NEW c \in Calls, NEW d \in Calls, at[d] \in Running,
         at[c] \in Running \/ AtHead(c)
  PROVE  c = d
  BY DEF OneRuns, AtHead

LEMMA OneRunsKept == ASSUME StoreAssumption, StoreInv, Steps PROVE OneRuns'
<1> USE DEF Running
<1>0. OneRuns /\ at \in [Calls -> Places] /\ queue \in Seq(Calls)
  BY DEF StoreInv, StoreTypes
<1>1. SUFFICES ASSUME NEW d \in Calls, at'[d] \in Running PROVE AtHead(d)'
  BY DEF OneRuns
<1>2. CASE Crash
  BY <1>0, <1>1, <1>2 DEF Crash, Underway, Places
<1>3. CASE Evict
  BY <1>0, <1>1, <1>3 DEF Evict, OneRuns, AtHead
<1>4. ASSUME NEW c \in Calls, Send(c) \/ Found(c) PROVE AtHead(d)'
  <2>1. d # c /\ at'[d] = at[d]
    BY <1>0, <1>1, <1>4 DEF Send, Found
  <2>2. AtHead(d)
    BY <1>0, <1>1, <2>1 DEF OneRuns
  <2>3. queue' = queue \/ queue' = Append(queue, c)
    BY <1>4 DEF Send, Found
  <2>4. QED
    BY <1>0, <2>2, <2>3, HeadStays DEF AtHead
<1>5. ASSUME NEW c \in Calls, Begins(c) \/ Prepares(c) PROVE AtHead(d)'
  <2>1. AtHead(c) /\ queue' = queue
    BY <1>5 DEF Begins, Prepares, Meets
  <2>2. d = c \/ at'[d] = at[d]
    BY <1>0, <1>5 DEF Begins, Prepares
  <2>3. QED
    BY <1>0, <1>1, <2>1, <2>2 DEF OneRuns, AtHead
<1>6. ASSUME NEW c \in Calls, Write(c) \/ RemoveFile(c) PROVE AtHead(d)'
  <2>1. AtHead(c) /\ queue' = queue
    BY <1>0, <1>6 DEF Write, RemoveFile, OneRuns
  <2>2. d = c \/ at'[d] = at[d]
    BY <1>0, <1>6 DEF Write, RemoveFile
  <2>3. QED
    BY <1>0, <1>1, <2>1, <2>2 DEF OneRuns, AtHead
<1>7. ASSUME NEW c \in Calls, NEW answer,
             at' = [at EXCEPT ![c] = answer], answer \notin Running,
             at[c] \in Running \/ AtHead(c)
      PROVE  AtHead(d)'
  <2>1. d # c /\ at[d] \in Running
    BY <1>0, <1>1, <1>7
  <2>2. QED
    BY <1>0, <1>7, <2>1, Alone
<1>8. ASSUME NEW c \in Calls, FindsNone(c) \/ Answered(c) \/ Refused(c) PROVE AtHead(d)'
  <2>1. AtHead(c)
    BY <1>8 DEF FindsNone, Answered, Refused, Meets
  <2>2. Answer(c, file) \in {"go", "ok", "denied", "conflict", "stale", "attempt"}
    BY AnswerType
  <2>3. QED
    BY <1>7, <1>8, <2>1, <2>2 DEF FindsNone, Answered, Refused
<1>9. ASSUME NEW c \in Calls, Persisted(c) \/ Removed(c) PROVE AtHead(d)'
  BY <1>7, <1>9 DEF Persisted, Removed, Settle
<1>10. ASSUME NEW c \in Calls, DiskFails(c) PROVE AtHead(d)'
  <2>1. CASE at[c] = "stat"
    <3>1. d # c /\ at[d] \in Running /\ queue' = queue
      BY <1>0, <1>1, <1>10, <2>1 DEF DiskFails, Settle
    <3>2. QED
      BY <1>0, <3>1 DEF OneRuns, AtHead
  <2>2. CASE at[c] # "stat"
    BY <1>7, <1>10, <2>2 DEF DiskFails, Settle
  <2>3. QED
    BY <2>1, <2>2
<1>11. QED
  BY <1>2, <1>3, <1>4, <1>5, <1>6, <1>8, <1>9, <1>10 DEF Steps

\* An envelope that was sent stays what it is.
LEMMA SentStays ==
  ASSUME StoreTypes, Steps, NEW i \in Range(IdOf), Sent(i)
  PROVE  exp'[i] = exp[i]
<1>1. ASSUME NEW c \in Calls, Send(c) PROVE exp'[i] = exp[i]
  BY <1>1 DEF Send, Sent, StoreTypes
<1>2. QED
  BY <1>1 DEF Steps, Evict, Crash, Found, Begins, FindsNone, Answered, Refused, Prepares, Meets,
              Write, Persisted, RemoveFile, Removed, DiskFails

\* So a call that was sent gets the answer it would have got before.
LEMMA AnswerStays ==
  ASSUME StoreAssumption, NEW c \in Calls, file' = file,
         c \in Enveloped => exp'[IdOf[c]] = exp[IdOf[c]]
  PROVE  Answer(c, file)' = Answer(c, file)
<1>1. Denied(c, file)' = Denied(c, file) /\ Revision(file)' = Revision(file)
      /\ Attempt(file)' = Attempt(file)
  BY DEF Denied, Attempt, Revision
<1>2. CASE c \in Enveloped
  <2>1. CommandAnswer(c, file)' = CommandAnswer(c, file)
    BY <1>1, <1>2 DEF CommandAnswer
  <2>2. QED
    BY <1>2, <2>1 DEF Answer
<1>3. CASE c \notin Enveloped
  BY <1>1, <1>3, CallParts DEF Answer, SnapshotAnswer, LeaveAnswer, Kinds, Enveloped
<1>4. QED
  BY <1>2, <1>3

LEMMA AfterStays ==
  ASSUME NEW c \in Calls, file' = file
  PROVE  After(c, file)' = After(c, file)
  BY DEF After, AfterCommand, AfterJoin, AfterLeave

\* A write adds the call to the log on disk, with its receipt.
LEMMA WriteAdds ==
  ASSUME StoreAssumption, StoreInv, NEW c \in Calls, Write(c)
  PROVE  /\ file # None /\ file' = After(c, file) /\ file' \in Record /\ file' # None
         /\ Answer(c, file) = "go" /\ KindOf[c] # "snapshot"
         /\ file'.log = Append(file.log, c)
         /\ Revision(file') = Revision(file) + 1
         /\ Range(file'.log) = Range(file.log) \cup {c}
         /\ file'.receipts = IF c \in Enveloped THEN file.receipts \cup {ReceiptOf(c)}
                             ELSE file.receipts
<1>1. file # None /\ Answer(c, file) = "go" /\ draft[c] = After(c, file)
  BY DEF StoreInv, InHand, Write
<1>2. file \in Record /\ KindOf[c] # "snapshot" /\ file' = After(c, file)
  BY <1>1, AnswerType DEF StoreInv, StoreTypes, Write
<1>3. file' \in Record /\ file' # None /\ file'.log = Append(file.log, c)
      /\ file'.receipts = IF c \in Enveloped THEN file.receipts \cup {ReceiptOf(c)}
                          ELSE file.receipts
  BY <1>2, AfterType, RecordParts
<1>4. file.log \in Seq(Calls)
  BY <1>2, RecordParts
<1>5. QED
  BY <1>1, <1>2, <1>3, <1>4, AppendToLog DEF Revision

LEMMA InHandKept == ASSUME StoreAssumption, StoreInv, Steps PROVE InHand'
<1> DEFINE Kept(d) ==
      /\ at[d] = "write" => file # None /\ Answer(d, file) = "go" /\ draft[d] = After(d, file)
      /\ at[d] = "wrote" => file # None /\ draft[d] = file /\ d \in Range(file.log)
      /\ at[d] = "remove" => file # None
      /\ at[d] = "removed" => file = None
<1>0. /\ OneRuns /\ at \in [Calls -> Places] /\ draft \in [Calls -> Record \cup {None}]
      /\ \A d \in Calls : Kept(d)
  BY DEF StoreInv, StoreTypes, InHand
<1>1. SUFFICES ASSUME NEW d \in Calls PROVE Kept(d)'
  BY DEF InHand
<1>2. ASSUME at'[d] = at[d], draft'[d] = draft[d], file' = file PROVE Kept(d)'
  <2>1. at[d] = "write" => (d \in Enveloped => exp'[IdOf[d]] = exp[IdOf[d]])
    BY SentStays, CallParts DEF StoreInv, EnvelopesKept
  <2>2. at[d] = "write" => Answer(d, file)' = Answer(d, file)
    BY <1>2, <2>1, AnswerStays
  <2>3. After(d, file)' = After(d, file)
    BY <1>2, AfterStays
  <2>4. QED
    BY <1>0, <1>2, <2>2, <2>3
<1>3. ASSUME at'[d] \notin Running PROVE Kept(d)'
  BY <1>3 DEF Running
<1>4. CASE Evict
  BY <1>2, <1>4 DEF Evict
<1>5. CASE Crash
  BY <1>0, <1>3, <1>5 DEF Crash, Underway, Running, Places
<1>6. ASSUME NEW c \in Calls, Send(c) \/ Found(c) \/ Begins(c) PROVE Kept(d)'
  <2>1. CASE d = c
    BY <1>0, <1>6, <2>1 DEF Send, Found, Begins
  <2>2. CASE d # c
    BY <1>0, <1>2, <1>6, <2>2 DEF Send, Found, Begins
  <2>3. QED
    BY <2>1, <2>2
<1>7. ASSUME NEW c \in Calls, FindsNone(c) \/ Answered(c) \/ Refused(c) PROVE Kept(d)'
  <2>1. CASE d = c
    <3>1. Answer(c, file) \in {"go", "ok", "denied", "conflict", "stale", "attempt"}
      BY AnswerType
    <3>2. QED
      BY <1>0, <1>3, <1>7, <2>1, <3>1 DEF FindsNone, Answered, Refused, Running
  <2>2. CASE d # c
    BY <1>0, <1>2, <1>7, <2>2 DEF FindsNone, Answered, Refused, Meets
  <2>3. QED
    BY <2>1, <2>2
<1>8. ASSUME NEW c \in Calls, Prepares(c) PROVE Kept(d)'
  <2>1. CASE d = c
    <3>1. at'[c] \in {"write", "remove"} /\ draft'[c] = After(c, file) /\ file' = file /\ file # None
      BY <1>0, <1>8 DEF Prepares, Meets
    <3>2. Answer(c, file)' = "go"
      BY <1>8, <3>1, AnswerStays DEF Prepares, Meets
    <3>3. After(c, file)' = After(c, file)
      BY <3>1, AfterStays
    <3>4. QED
      BY <2>1, <3>1, <3>2, <3>3
  <2>2. CASE d # c
    BY <1>0, <1>2, <1>8, <2>2 DEF Prepares, Meets
  <2>3. QED
    BY <2>1, <2>2
<1>9. ASSUME NEW c \in Calls, Write(c) PROVE Kept(d)'
  <2>1. CASE d = c
    <3>1. at'[c] = "wrote" /\ draft'[c] = draft[c] /\ file' = draft[c]
      BY <1>0, <1>9 DEF Write
    <3>2. file' # None /\ c \in Range(file'.log)
      BY <1>9, WriteAdds
    <3>3. QED
      BY <2>1, <3>1, <3>2
  <2>2. CASE d # c
    <3>1. at'[d] = at[d] /\ at[c] \in Running
      BY <1>0, <1>9, <2>2 DEF Write, Running
    <3>2. QED
      BY <1>0, <1>3, <2>2, <3>1, Alone
  <2>3. QED
    BY <2>1, <2>2
<1>10. ASSUME NEW c \in Calls, RemoveFile(c) PROVE Kept(d)'
  <2>1. CASE d = c
    BY <1>0, <1>10, <2>1 DEF RemoveFile
  <2>2. CASE d # c
    <3>1. at'[d] = at[d] /\ at[c] \in Running
      BY <1>0, <1>10, <2>2 DEF RemoveFile, Running
    <3>2. QED
      BY <1>0, <1>3, <2>2, <3>1, Alone
  <2>3. QED
    BY <2>1, <2>2
<1>11. ASSUME NEW c \in Calls, Persisted(c) \/ Removed(c) \/ DiskFails(c) PROVE Kept(d)'
  <2>1. CASE d = c
    BY <1>0, <1>3, <1>11, <2>1 DEF Persisted, Removed, DiskFails, Settle, Running
  <2>2. CASE d # c
    BY <1>0, <1>2, <1>11, <2>2 DEF Persisted, Removed, DiskFails, Settle
  <2>3. QED
    BY <2>1, <2>2
<1>12. QED
  BY <1>4, <1>5, <1>6, <1>7, <1>8, <1>9, <1>10, <1>11 DEF Steps

LEMMA MemoryKept == ASSUME StoreAssumption, StoreInv, Steps PROVE MemoryNeverAhead'
<1> DEFINE Excuse(d) == \/ at[d] = "wrote" /\ file = draft[d]
                        \/ at[d] = "removed" /\ file = None
<1>0. /\ OneRuns /\ at \in [Calls -> Places] /\ draft \in [Calls -> Record \cup {None}]
      /\ cache # None /\ cache # file => \E d \in Calls : Excuse(d)
  BY DEF StoreInv, StoreTypes, MemoryNeverAhead
<1>1. CASE Evict \/ Crash
  BY <1>1 DEF Evict, Crash, MemoryNeverAhead
<1>2. ASSUME NEW c \in Calls, Answered(c) \/ Refused(c) \/ Prepares(c) PROVE MemoryNeverAhead'
  BY <1>2 DEF Answered, Refused, Prepares, Meets, MemoryNeverAhead
<1>3. ASSUME NEW c \in Calls, at[c] \notin {"wrote", "removed"}, cache' = cache, file' = file,
             \A d \in Calls \ {c} : at'[d] = at[d] /\ draft'[d] = draft[d]
      PROVE  MemoryNeverAhead'
  <2>1. \A d \in Calls : Excuse(d) => Excuse(d)'
    BY <1>3
  <2>2. QED
    BY <1>0, <1>3, <2>1 DEF MemoryNeverAhead
<1>4. ASSUME NEW c \in Calls, Send(c) \/ Found(c) \/ Begins(c) \/ FindsNone(c) \/ DiskFails(c)
      PROVE  MemoryNeverAhead'
  BY <1>0, <1>3, <1>4 DEF Send, Found, Begins, FindsNone, DiskFails, Settle
<1>5. ASSUME NEW c \in Calls, Write(c) \/ RemoveFile(c) PROVE MemoryNeverAhead'
  <2>1. Excuse(c)'
    BY <1>0, <1>5 DEF Write, RemoveFile
  <2>2. QED
    BY <2>1 DEF MemoryNeverAhead
<1>6. ASSUME NEW c \in Calls, Persisted(c) PROVE MemoryNeverAhead'
  BY <1>6 DEF Persisted, MemoryNeverAhead, StoreInv, InHand
<1>7. ASSUME NEW c \in Calls, Removed(c) PROVE MemoryNeverAhead'
  BY <1>7 DEF Removed, MemoryNeverAhead
<1>8. QED
  BY <1>1, <1>2, <1>4, <1>5, <1>6, <1>7 DEF Steps

\* The tests of command(), without the set of receipts.
LEMMA CommandTests ==
  ASSUME NEW c \in Calls, c \in Enveloped, NEW r
  PROVE  Answer(c, r) =
           IF Denied(c, r) THEN "denied"
           ELSE IF \E t \in r.receipts : t.id = IdOf[c]
                THEN IF \E t \in r.receipts : t.id = IdOf[c] /\ t.actor = ActorOf[c]
                     THEN "ok" ELSE "conflict"
           ELSE IF KindOf[c] # "ready" /\ exp[IdOf[c]].rev # Revision(r) THEN "stale"
           ELSE IF exp[IdOf[c]].attempt # Attempt(r) THEN "attempt"
           ELSE "go"
<1> DEFINE mine == {t \in r.receipts : t.id = IdOf[c]}
<1>1. Answer(c, r) = CommandAnswer(c, r)
  BY DEF Answer, Enveloped
<1>2. /\ mine # {} <=> \E t \in r.receipts : t.id = IdOf[c]
      /\ (\E t \in mine : t.actor = ActorOf[c])
           <=> \E t \in r.receipts : t.id = IdOf[c] /\ t.actor = ActorOf[c]
  OBVIOUS
<1> HIDE DEF mine
<1>3. CommandAnswer(c, r) =
        IF Denied(c, r) THEN "denied"
        ELSE IF mine # {} THEN IF \E t \in mine : t.actor = ActorOf[c] THEN "ok" ELSE "conflict"
        ELSE IF KindOf[c] # "ready" /\ exp[IdOf[c]].rev # Revision(r) THEN "stale"
        ELSE IF exp[IdOf[c]].attempt # Attempt(r) THEN "attempt"
        ELSE "go"
  BY DEF CommandAnswer, mine
<1>4. QED
  BY <1>1, <1>2, <1>3

\* What they leave: an envelope that names the room as it is.
LEMMA CommandGoes ==
  ASSUME NEW c \in Calls, c \in Enveloped, NEW r, Answer(c, r) = "go"
  PROVE  /\ \A t \in r.receipts : t.id # IdOf[c]
         /\ KindOf[c] # "ready" => exp[IdOf[c]].rev = Revision(r)
         /\ exp[IdOf[c]].attempt = Attempt(r)
  BY CommandTests

LEMMA CommandIsStale ==
  ASSUME StoreAssumption, NEW c \in Calls, NEW r, Answer(c, r) = "stale"
  PROVE  /\ c \in Enveloped /\ KindOf[c] # "ready"
         /\ \A t \in r.receipts : t.id # IdOf[c]
         /\ exp[IdOf[c]].rev # Revision(r)
<1>1. c \in Enveloped
  BY CallParts DEF Answer, SnapshotAnswer, LeaveAnswer, Kinds, Enveloped
<1>2. QED
  BY <1>1, CommandTests

\* An answer of success without a write: a receipt, or a snapshot.
LEMMA CommandIsKnown ==
  ASSUME StoreAssumption, NEW c \in Calls, NEW r, Answer(c, r) = "ok"
  PROVE  \/ KindOf[c] = "snapshot"
         \/ c \in Enveloped /\ \E t \in r.receipts : t.id = IdOf[c] /\ t.actor = ActorOf[c]
<1>1. CASE c \in Enveloped
  BY <1>1, CommandTests
<1>2. CASE c \notin Enveloped
  BY <1>2, CallParts DEF Answer, LeaveAnswer, Kinds, Enveloped
<1>3. QED
  BY <1>1, <1>2

LEMMA ToldKept ==
  ASSUME StoreAssumption, StoreInv, Steps
  PROVE  ToldIsDurable' /\ told <= told'
<1>0. told \in Nat /\ (file # None => file \in Record /\ Revision(file) \in Nat /\ told <= Revision(file))
  BY RecordParts DEF StoreInv, StoreTypes, ToldIsDurable
<1>1. ASSUME told' = told, file' = file PROVE ToldIsDurable' /\ told <= told'
  BY <1>0, <1>1 DEF ToldIsDurable, Revision
<1>2. ASSUME file' = file, file # None,
             told' = IF Revision(file) > told THEN Revision(file) ELSE told
      PROVE  ToldIsDurable' /\ told <= told'
  <2>1. Revision(file') = Revision(file)
    BY <1>2
  <2>2. told' <= Revision(file) /\ told <= told'
    BY <1>0, <1>2
  <2>3. QED
    BY <2>1, <2>2 DEF ToldIsDurable, Revision
<1>3. CASE Evict \/ Crash
  BY <1>1, <1>3 DEF Evict, Crash
<1>4. ASSUME NEW c \in Calls,
             \/ Send(c) \/ Found(c) \/ Begins(c) \/ FindsNone(c) \/ Refused(c) \/ Prepares(c)
             \/ DiskFails(c) \/ Removed(c)
      PROVE  ToldIsDurable' /\ told <= told'
  BY <1>1, <1>4 DEF Send, Found, Begins, FindsNone, Refused, Prepares, Meets, DiskFails, Removed
<1>5. ASSUME NEW c \in Calls, Answered(c) PROVE ToldIsDurable' /\ told <= told'
  BY <1>1, <1>2, <1>5 DEF Answered, Meets, Tell
<1>6. ASSUME NEW c \in Calls, Persisted(c) PROVE ToldIsDurable' /\ told <= told'
  <2>1. draft[c] = file /\ file # None
    BY <1>6 DEF Persisted, StoreInv, InHand
  <2>2. QED
    BY <1>2, <1>6, <2>1 DEF Persisted, Tell
<1>7. ASSUME NEW c \in Calls, Write(c) PROVE ToldIsDurable' /\ told <= told'
  <2>1. Revision(file') = Revision(file) + 1 /\ file # None /\ told' = told
    BY <1>7, WriteAdds DEF Write
  <2>2. QED
    BY <1>0, <2>1 DEF ToldIsDurable, Revision
<1>8. ASSUME NEW c \in Calls, RemoveFile(c) PROVE ToldIsDurable' /\ told <= told'
  BY <1>0, <1>8 DEF RemoveFile, ToldIsDurable
<1>9. QED
  BY <1>3, <1>4, <1>5, <1>6, <1>7, <1>8 DEF Steps

LEMMA EnvelopesStay ==
  ASSUME StoreAssumption, StoreInv, Steps
  PROVE  EnvelopesKept'
<1>0. /\ StoreTypes /\ EnvelopesKept /\ told <= told' /\ told \in Nat /\ told' \in Nat
      /\ at \in [Calls -> Places]
  BY ToldKept, TypesKept DEF StoreInv, StoreTypes
<1>1. ASSUME NEW c \in Calls, Send(c), c \in Enveloped, ~Sent(IdOf[c])
      PROVE  /\ exp'[IdOf[c]] \in Envelope /\ exp'[IdOf[c]].rev <= told
             /\ \A i \in Range(IdOf) \ {IdOf[c]} : exp'[i] = exp[i]
  <2>1. PICK seen \in Seen : exp' = [exp EXCEPT ![IdOf[c]] = seen]
    BY <1>1 DEF Send
  <2>2. exp'[IdOf[c]] = seen
    BY <1>0, <2>1, CallParts DEF StoreTypes
  <2>3. QED
    BY <1>0, <2>1, <2>2, SeenType DEF StoreTypes
<1>2. ASSUME NEW c \in Calls, Send(c), ~(c \in Enveloped /\ ~Sent(IdOf[c])) PROVE exp' = exp
  BY <1>2 DEF Send
<1>3. (\A c \in Calls : ~Send(c)) => exp' = exp
  BY DEF Steps, Evict, Crash, Found, Begins, FindsNone, Answered, Refused, Prepares, Meets,
         Write, Persisted, RemoveFile, Removed, DiskFails
<1>4. ASSUME NEW i \in Range(IdOf), Sent(i)' PROVE exp'[i].rev <= told'
  <2>1. CASE exp'[i] = exp[i]
    <3>1. Sent(i) /\ exp[i].rev <= told /\ exp[i] \in Envelope
      BY <1>0, <1>4, <2>1 DEF Sent, EnvelopesKept, StoreTypes
    <3>2. QED
      BY <1>0, <2>1, <3>1 DEF Envelope
  <2>2. CASE exp'[i] # exp[i]
    <3>1. PICK c \in Calls : Send(c) /\ exp' # exp
      BY <1>3, <2>2
    <3>2. c \in Enveloped /\ ~Sent(IdOf[c])
      BY <1>2, <3>1
    <3>3. i = IdOf[c]
      BY <1>1, <2>2, <3>1, <3>2
    <3>4. exp'[i] \in Envelope /\ exp'[i].rev <= told
      BY <1>1, <3>1, <3>2, <3>3
    <3>5. QED
      BY <1>0, <3>4 DEF Envelope
  <2>3. QED
    BY <2>1, <2>2
<1>5. ASSUME NEW d \in Enveloped, at'[d] # "new" PROVE Sent(IdOf[d])'
  <2>0. d \in Calls /\ IdOf[d] \in Range(IdOf)
    BY CallParts DEF Enveloped
  <2>1. CASE at[d] # "new"
    <3>1. Sent(IdOf[d])
      BY <1>0, <2>1 DEF EnvelopesKept
    <3>2. QED
      BY <1>0, <2>0, <3>1, SentStays DEF Sent
  <2>2. CASE at[d] = "new"
    <3>1. Send(d)
      BY <1>0, <1>5, <2>0, <2>2
      DEF Steps, Evict, Crash, Send, Found, Begins, FindsNone, Answered, Refused, Prepares, Meets,
          Write, Persisted, RemoveFile, Removed, DiskFails, Settle, Underway
    <3>2. CASE Sent(IdOf[d])
      BY <1>0, <2>0, <3>2, SentStays DEF Sent
    <3>3. CASE ~Sent(IdOf[d])
      BY <1>1, <2>0, <3>1, <3>3 DEF Sent, StoreAssumption
    <3>4. QED
      BY <3>2, <3>3
  <2>3. QED
    BY <2>1, <2>2
<1>6. QED
  BY <1>4, <1>5 DEF EnvelopesKept

\* The file changes by a write or a removal only.
LEMMA FileStays ==
  ASSUME Steps, \A c \in Calls : ~Write(c) /\ ~RemoveFile(c)
  PROVE  file' = file
  BY DEF Steps, Evict, Crash, Send, Found, Begins, FindsNone, Answered, Refused, Prepares, Meets,
         Persisted, Removed, DiskFails

\* Who is in the log on disk has written, and is refused nothing any more.
LEMMA LogStatusKept ==
  ASSUME StoreAssumption, StoreInv, Steps, file # None, file' = file,
         NEW d \in Range(file.log)
  PROVE  at'[d] \in {"wrote", "ok", "lost"}
<1>0. d \in Calls /\ at[d] \in {"wrote", "ok", "lost"} /\ at \in [Calls -> Places]
  BY RecordParts DEF StoreInv, StoreTypes, LogKept
<1>1. CASE Evict \/ Crash
  BY <1>0, <1>1 DEF Evict, Crash
<1>2. ASSUME NEW c \in Calls,
             \/ Send(c) \/ Found(c) \/ Begins(c) \/ FindsNone(c)
             \/ Answered(c) \/ Refused(c) \/ Prepares(c)
             \/ Write(c) \/ RemoveFile(c) \/ Removed(c) \/ DiskFails(c)
      PROVE  at'[d] \in {"wrote", "ok", "lost"}
  <2>1. at[c] = "removed" => file = None
    BY DEF StoreInv, InHand
  <2>2. c # d
    BY <1>0, <1>2, <2>1 DEF Send, Found, Begins, FindsNone, Answered, Refused, Prepares, Meets,
                            Write, RemoveFile, Removed, DiskFails
  <2>3. at'[d] = at[d]
    BY <1>0, <1>2, <2>2 DEF Send, Found, Begins, FindsNone, Answered, Refused, Prepares,
                            Write, RemoveFile, Removed, DiskFails, Settle
  <2>4. QED
    BY <1>0, <2>3
<1>3. ASSUME NEW c \in Calls, Persisted(c) PROVE at'[d] \in {"wrote", "ok", "lost"}
  BY <1>0, <1>3 DEF Persisted, Settle
<1>4. QED
  BY <1>1, <1>2, <1>3 DEF Steps

\* A call becomes stale only by the answer of command().
LEMMA NewlyStale ==
  ASSUME StoreAssumption, StoreInv, Steps, NEW d \in Calls, at'[d] = "stale", at[d] # "stale"
  PROVE  Answered(d) /\ Answer(d, file) = "stale"
<1>0. at \in [Calls -> Places]
  BY DEF StoreInv, StoreTypes
<1>1. CASE Evict \/ Crash
  BY <1>0, <1>1 DEF Evict, Crash
<1>2. ASSUME NEW c \in Calls,
             \/ Send(c) \/ Found(c) \/ Begins(c) \/ FindsNone(c) \/ Refused(c) \/ Prepares(c)
             \/ Write(c) \/ Persisted(c) \/ RemoveFile(c) \/ Removed(c) \/ DiskFails(c)
      PROVE  FALSE
  BY <1>0, <1>2 DEF Send, Found, Begins, FindsNone, Refused, Prepares, Write, Persisted,
                    RemoveFile, Removed, DiskFails, Settle
<1>3. ASSUME NEW c \in Calls, Answered(c) PROVE d = c
  BY <1>0, <1>3 DEF Answered
<1>4. PICK c \in Calls : Answered(c)
  BY <1>1, <1>2 DEF Steps, Evict, Crash
<1>5. QED
  BY <1>0, <1>3, <1>4 DEF Answered

\* The log, the receipts and who is stale while nothing is written.
LEMMA LogStays ==
  ASSUME StoreAssumption, StoreInv, Steps, file # None, file' = file
  PROVE  LogKept'
<1>0. /\ file \in Record /\ ReceiptsKept(file) /\ Revision(file) \in Nat
      /\ told <= Revision(file) /\ told \in Nat /\ exp \in [Range(IdOf) -> Envelope \cup {None}]
      /\ \A c \in Calls : at[c] = "stale" => StaleForGood(c)
  BY RecordParts DEF StoreInv, StoreTypes, LogKept, ToldIsDurable
<1>1. ReceiptsKept(file)'
  BY <1>0 DEF ReceiptsKept
<1>2. ASSUME NEW d \in Calls, at'[d] = "stale" PROVE StaleForGood(d)
  <2>1. CASE at[d] = "stale"
    BY <1>0, <2>1
  <2>2. CASE at[d] # "stale"
    <3>1. Answered(d) /\ Answer(d, file) = "stale"
      BY <1>2, <2>2, NewlyStale
    <3>2. /\ d \in Enveloped /\ KindOf[d] # "ready"
          /\ \A t \in file.receipts : t.id # IdOf[d]
          /\ exp[IdOf[d]].rev # Revision(file)
      BY <3>1, CommandIsStale
    <3>3. Sent(IdOf[d]) /\ exp[IdOf[d]].rev <= told
      BY <3>1, <3>2, CallParts DEF StoreInv, EnvelopesKept, Answered, Meets
    <3>4. exp[IdOf[d]].rev \in Nat
      BY <1>0, <3>3, CallParts DEF Sent, Envelope
    <3>5. exp[IdOf[d]].rev < Revision(file)
      BY <1>0, <3>2, <3>3, <3>4
    <3>6. ASSUME NEW e \in Range(file.log) \cap Enveloped PROVE IdOf[e] # IdOf[d]
      <4>1. ReceiptOf(e) \in file.receipts
        BY <1>0 DEF ReceiptsKept
      <4>2. ReceiptOf(e).id = IdOf[e]
        BY DEF ReceiptOf
      <4>3. QED
        BY <3>2, <4>1, <4>2
    <3>7. QED
      BY <3>2, <3>5, <3>6 DEF StaleForGood
  <2>3. QED
    BY <2>1, <2>2
<1>3. ASSUME NEW d \in Calls, at'[d] = "stale" PROVE StaleForGood(d)'
  <2>1. StaleForGood(d)
    BY <1>2, <1>3
  <2>2. at[d] # "new"
    BY <1>3, NewlyStale DEF Answered, Meets
  <2>3. exp'[IdOf[d]] = exp[IdOf[d]]
    BY <2>1, <2>2, CallParts, SentStays DEF StoreInv, EnvelopesKept, StaleForGood
  <2>4. QED
    BY <2>1, <2>3 DEF StaleForGood, Revision
<1>4. \A d \in Range(file.log) : at'[d] \in {"wrote", "ok", "lost"}
  BY LogStatusKept
<1>5. QED
  BY <1>1, <1>3, <1>4 DEF LogKept

\* And when the call that runs is added to it.
LEMMA LogGrows ==
  ASSUME StoreAssumption, StoreInv, NEW c \in Calls, Write(c)
  PROVE  LogKept'
<1>0. /\ file \in Record /\ file # None /\ ReceiptsKept(file) /\ Revision(file) \in Nat
      /\ exp \in [Range(IdOf) -> Envelope \cup {None}] /\ at \in [Calls -> Places]
      /\ \A d \in Calls : at[d] = "stale" => StaleForGood(d)
      /\ \A d \in Range(file.log) : d \in Calls /\ at[d] \in {"wrote", "ok", "lost"}
  BY WriteAdds, RecordParts DEF StoreInv, StoreTypes, LogKept
<1>1. /\ file' # None /\ Revision(file') = Revision(file) + 1
      /\ Range(file'.log) = Range(file.log) \cup {c}
      /\ file'.receipts = IF c \in Enveloped THEN file.receipts \cup {ReceiptOf(c)}
                          ELSE file.receipts
      /\ Answer(c, file) = "go"
  BY WriteAdds
<1>2. at' = [at EXCEPT ![c] = "wrote"] /\ exp' = exp /\ at[c] = "write"
  BY DEF Write
<1>3. ReceiptsKept(file')
  <2>1. CASE c \in Enveloped
    BY <1>0, <1>1, <2>1 DEF ReceiptsKept
  <2>2. CASE c \notin Enveloped
    BY <1>0, <1>1, <2>2 DEF ReceiptsKept
  <2>3. QED
    BY <2>1, <2>2
<1>4. \A d \in Range(file'.log) : at'[d] \in {"wrote", "ok", "lost"}
  BY <1>0, <1>1, <1>2
<1>5. ASSUME NEW d \in Calls, at'[d] = "stale" PROVE StaleForGood(d)'
  <2>1. StaleForGood(d)
    BY <1>0, <1>2, <1>5
  <2>2. exp[IdOf[d]].rev < Revision(file) /\ exp[IdOf[d]].rev \in Nat
    <3>1. at[d] # "new" /\ d \in Enveloped /\ IdOf[d] \in Range(IdOf)
      BY <1>0, <1>2, <1>5, <2>1, CallParts DEF StaleForGood
    <3>2. Sent(IdOf[d])
      BY <3>1 DEF StoreInv, EnvelopesKept
    <3>3. exp[IdOf[d]] \in Envelope
      BY <1>0, <3>1, <3>2 DEF Sent
    <3>4. QED
      BY <2>1, <3>3 DEF StaleForGood, Envelope
  <2>3. exp'[IdOf[d]].rev < Revision(file)'
    BY <1>0, <1>1, <1>2, <2>2 DEF Revision
  <2>4. ASSUME c \in Enveloped, IdOf[c] = IdOf[d], ActorOf[c] = ActorOf[d] PROVE FALSE
    <3>1. KindOf[c] = KindOf[d] /\ KindOf[d] # "ready"
      BY <2>1, <2>4 DEF StoreAssumption, StaleForGood
    <3>2. exp[IdOf[c]].rev = Revision(file)
      BY <1>1, <2>4, <3>1, CommandGoes
    <3>3. QED
      BY <1>0, <2>2, <2>4, <3>2
  <2>5. QED
    BY <1>1, <2>1, <2>3, <2>4 DEF StaleForGood
<1>6. QED
  BY <1>1, <1>3, <1>4, <1>5 DEF LogKept, ReceiptsKept

LEMMA LogKeptOn == ASSUME StoreAssumption, StoreInv, Steps PROVE LogKept'
<1>1. CASE \E c \in Calls : Write(c)
  BY <1>1, LogGrows
<1>2. CASE \E c \in Calls : RemoveFile(c)
  BY <1>2 DEF RemoveFile, LogKept
<1>3. CASE \A c \in Calls : ~Write(c) /\ ~RemoveFile(c)
  <2>1. file' = file
    BY <1>3, FileStays
  <2>2. CASE file = None
    BY <2>1, <2>2 DEF LogKept
  <2>3. QED
    BY <2>1, <2>2, LogStays
<1>4. QED
  BY <1>1, <1>2, <1>3

LEMMA AppliedKept == ASSUME StoreAssumption, StoreInv, Steps PROVE AppliedWhereSeen'
<1> DEFINE Fits(log, i, e) ==
      /\ KindOf[log[i]] \in {"command", "restart"} => e[IdOf[log[i]]].rev = i - 1
      /\ KindOf[log[i]] = "ready" => e[IdOf[log[i]]].attempt = AttemptAt(log, i - 1)
<1>0. /\ file \in Record \cup {None}
      /\ file # None => \A i \in DOMAIN file.log : Fits(file.log, i, exp)
  BY DEF StoreInv, StoreTypes, AppliedWhereSeen
<1>1. SUFFICES ASSUME file' # None, NEW i \in DOMAIN file'.log PROVE Fits(file'.log, i, exp')
  BY DEF AppliedWhereSeen
<1>2. CASE \E c \in Calls : Write(c)
  <2>1. PICK c \in Calls : Write(c)
    BY <1>2
  <2>2. /\ file \in Record /\ file # None /\ file'.log = Append(file.log, c)
        /\ Answer(c, file) = "go" /\ exp' = exp
    BY <2>1, <1>0, WriteAdds DEF Write
  <2>3. /\ file.log \in Seq(Calls) /\ Len(file.log) \in Nat /\ Revision(file) = Len(file.log)
        /\ DOMAIN file.log = 1 .. Len(file.log)
    BY <2>2, RecordParts
  <2>4. i \in 1 .. Len(file.log) + 1
    BY <2>2, <2>3, AppendToLog
  <2>5. AttemptAt(file'.log, i - 1) = AttemptAt(file.log, i - 1)
    BY <2>2, <2>3, <2>4, AttemptKept
  <2>6. CASE i \in 1 .. Len(file.log)
    <3>1. file'.log[i] = file.log[i]
      BY <2>2, <2>3, <2>6, AppendToLog
    <3>2. Fits(file.log, i, exp)
      BY <1>0, <2>2, <2>3, <2>6
    <3>3. QED
      BY <2>2, <2>5, <3>1, <3>2
  <2>7. CASE i = Len(file.log) + 1
    <3>1. file'.log[i] = c
      BY <2>2, <2>3, <2>7, AppendToLog
    <3>2. c \in Enveloped =>
            /\ KindOf[c] # "ready" => exp[IdOf[c]].rev = Revision(file)
            /\ exp[IdOf[c]].attempt = Attempt(file)
      BY <2>2, CommandGoes
    <3>3. i - 1 = Revision(file)
      BY <2>3, <2>7
    <3>4. QED
      BY <2>2, <2>5, <3>1, <3>2, <3>3 DEF Enveloped, Attempt
  <2>8. QED
    BY <2>3, <2>4, <2>6, <2>7
<1>3. CASE \A c \in Calls : ~Write(c)
  <2>1. file' = file
    <3>1. \A c \in Calls : ~RemoveFile(c)
      BY <1>1 DEF RemoveFile
    <3>2. QED
      BY <1>3, <3>1, FileStays
  <2>2. file.log[i] \in Range(file.log) /\ file.log[i] \in Calls /\ file # None
    BY <1>0, <1>1, <2>1, RecordParts DEF Range
  <2>3. file.log[i] \in Enveloped => Sent(IdOf[file.log[i]])
    BY <2>2 DEF StoreInv, LogKept, EnvelopesKept
  <2>4. file.log[i] \in Enveloped => exp'[IdOf[file.log[i]]] = exp[IdOf[file.log[i]]]
    BY <2>2, <2>3, CallParts, SentStays DEF StoreInv
  <2>5. QED
    BY <1>0, <1>1, <2>1, <2>2, <2>4 DEF Enveloped
<1>4. QED
  BY <1>2, <1>3

LEMMA RepliesKeptOn ==
  ASSUME StoreAssumption, StoreInv, Steps
  PROVE  RepliesKept' /\ NoStaleReads'
<1> DEFINE Kept(d) == /\ floor[d] <= told
                      /\ at[d] \notin Answers => reply[d] = None
                      /\ at[d] = "ok" /\ reply[d] # None => reply[d] >= floor[d]
<1>0. /\ \A d \in Calls : Kept(d)
      /\ at \in [Calls -> Places] /\ told \in Nat /\ told' \in Nat /\ told <= told'
      /\ floor \in [Calls -> Nat] /\ reply \in [Calls -> Nat \cup {None}]
  BY TypesKept, ToldKept DEF StoreInv, StoreTypes, RepliesKept, NoStaleReads
<1>1. SUFFICES ASSUME NEW d \in Calls PROVE Kept(d)'
  BY DEF RepliesKept, NoStaleReads
<1>2. ASSUME at'[d] = at[d], reply'[d] = reply[d], floor'[d] = floor[d] PROVE Kept(d)'
  BY <1>0, <1>2
<1>3. ASSUME at[d] \notin Answers, floor'[d] = floor[d], reply'[d] = reply[d] PROVE Kept(d)'
  BY <1>0, <1>3
<1>4. ASSUME floor'[d] = floor[d], file # None, at'[d] = "ok", reply'[d] = Revision(file)
      PROVE  Kept(d)'
  <2>1. Revision(file) \in Nat /\ told <= Revision(file)
    BY <1>4, RecordParts DEF StoreInv, StoreTypes, ToldIsDurable
  <2>2. QED
    BY <1>0, <1>4, <2>1 DEF Answers
<1>5. CASE Evict
  BY <1>2, <1>5 DEF Evict
<1>6. CASE Crash
  <2>1. CASE at[d] \in Underway
    BY <1>3, <1>6, <2>1 DEF Crash, Underway, Answers, Refusals
  <2>2. CASE at[d] \notin Underway
    BY <1>0, <1>2, <1>6, <2>2 DEF Crash
  <2>3. QED
    BY <2>1, <2>2
<1>7. ASSUME NEW c \in Calls, Send(c) PROVE Kept(d)'
  <2>1. CASE d = c
    <3>1. at[c] = "new" /\ at'[c] \in {"queued", "stat"} /\ floor'[c] = told /\ reply' = reply
          /\ told' = told
      BY <1>0, <1>7 DEF Send
    <3>2. QED
      BY <1>0, <2>1, <3>1 DEF Answers, Refusals
  <2>2. CASE d # c
    BY <1>0, <1>2, <1>7, <2>2 DEF Send
  <2>3. QED
    BY <2>1, <2>2
<1>8. ASSUME NEW c \in Calls,
             \/ Found(c) \/ Begins(c) \/ FindsNone(c) \/ Refused(c) \/ Prepares(c)
             \/ Write(c) \/ RemoveFile(c) \/ Removed(c) \/ DiskFails(c)
      PROVE  Kept(d)'
  <2>1. floor' = floor /\ reply' = reply
    BY <1>8 DEF Found, Begins, FindsNone, Refused, Prepares, Meets, Write, RemoveFile, Removed,
                DiskFails
  <2>2. CASE d = c
    <3>1. at[c] \notin Answers
      BY <1>8 DEF Found, Begins, FindsNone, Refused, Prepares, Meets, Write, RemoveFile, Removed,
                  DiskFails, Answers, Refusals
    <3>2. QED
      BY <1>3, <2>1, <2>2, <3>1
  <2>3. CASE d # c
    <3>1. at'[d] = at[d]
      BY <1>0, <1>8, <2>3 DEF Found, Begins, FindsNone, Refused, Prepares, Write, RemoveFile,
                              Removed, DiskFails, Settle
    <3>2. QED
      BY <1>2, <2>1, <3>1
  <2>4. QED
    BY <2>2, <2>3
<1>9. ASSUME NEW c \in Calls, Answered(c) PROVE Kept(d)'
  <2>1. CASE d # c
    BY <1>0, <1>2, <1>9, <2>1 DEF Answered, Meets, Tell
  <2>2. CASE d = c /\ Answer(c, file) = "ok"
    BY <1>0, <1>4, <1>9, <2>2 DEF Answered, Meets, Tell
  <2>3. CASE d = c /\ Answer(c, file) # "ok"
    <3>1. at[c] \notin Answers
      BY <1>9 DEF Answered, Meets, Answers, Refusals
    <3>2. QED
      BY <1>3, <1>9, <2>3, <3>1 DEF Answered, Meets
  <2>4. QED
    BY <2>1, <2>2, <2>3
<1>10. ASSUME NEW c \in Calls, Persisted(c) PROVE Kept(d)'
  <2>1. CASE d # c
    BY <1>0, <1>2, <1>10, <2>1 DEF Persisted, Settle, Tell
  <2>2. CASE d = c
    <3>1. draft[c] = file /\ file # None
      BY <1>10 DEF Persisted, StoreInv, InHand
    <3>2. QED
      BY <1>0, <1>4, <1>10, <2>2, <3>1 DEF Persisted, Settle, Tell
  <2>3. QED
    BY <2>1, <2>2
<1>11. QED
  BY <1>5, <1>6, <1>7, <1>8, <1>9, <1>10 DEF Steps
-----------------------------------------------------------------------------
LEMMA StoreInvStep == ASSUME StoreAssumption, StoreInv, [Next]_vars PROVE StoreInv'
<1>1. CASE Next
  <2>1. Steps
    BY <1>1, NextSteps
  <2>2. QED
    BY <2>1, TypesKept, OneRunsKept, InHandKept, MemoryKept, EnvelopesStay, ToldKept, LogKeptOn,
       AppliedKept, RepliesKeptOn DEF StoreInv
<1>2. CASE UNCHANGED vars
  <2> USE <1>2 DEF vars
  <2>1. StoreTypes' /\ OneRuns' /\ MemoryNeverAhead' /\ ToldIsDurable' /\ NoStaleReads'
    BY DEF StoreInv, StoreTypes, OneRuns, AtHead, MemoryNeverAhead, ToldIsDurable, NoStaleReads,
           Revision
  <2>2. InHand'
    BY AnswerStays, AfterStays DEF StoreInv, InHand
  <2>3. EnvelopesKept' /\ RepliesKept' /\ AppliedWhereSeen'
    BY DEF StoreInv, EnvelopesKept, RepliesKept, AppliedWhereSeen, Sent
  <2>4. LogKept'
    BY DEF StoreInv, LogKept, ReceiptsKept, StaleForGood, Revision
  <2>5. QED
    BY <2>1, <2>2, <2>3, <2>4 DEF StoreInv
<1>3. QED
  BY <1>1, <1>2

LEMMA StoreInvariant == ASSUME StoreAssumption PROVE Spec => []StoreInv
<1>1. Init => StoreInv
  BY InitInv
<1>2. StoreInv /\ [Next]_vars => StoreInv'
  BY StoreInvStep
<1>3. QED
  BY <1>1, <1>2, PTL DEF Spec

LEMMA InvSound == ASSUME StoreAssumption, StoreInv PROVE StoreSound
<1>1. TypeOK
  <2>1. file = None \/ (Range(file.log) \subseteq Calls /\ file.members \subseteq Actors)
    BY RecordParts DEF StoreInv, StoreTypes
  <2>2. Range(queue) \subseteq Calls
    BY DEF StoreInv, StoreTypes, Range
  <2>3. QED
    BY <2>1, <2>2 DEF TypeOK, StoreInv, StoreTypes, Places
<1>2. FailureHasNoEffect
  <2>1. SUFFICES ASSUME file # None, NEW c \in Calls, at[c] \in Refusals
                 PROVE  /\ c \notin Range(file.log)
                        /\ at[c] = "stale" => StaleForGood(c)
    BY DEF FailureHasNoEffect, StaleForGood
  <2>2. QED
    BY <2>1 DEF StoreInv, LogKept, Refusals
<1>3. QED
  BY <1>1, <1>2 DEF StoreInv, StoreSound

\* Memory never runs ahead of the disk, nothing told is undone by a crash, no
\* read is stale, commands take effect on the state their sender saw, and what
\* was answered with a failure has had no effect (rooms.ts, withRoom to persist),
\* whatever is sent, resent, evicted, refused by the disk or cut off by a crash.
THEOREM StoreIsSound == ASSUME StoreAssumption PROVE Spec => []StoreSound
<1>1. StoreInv => StoreSound
  BY InvSound
<1>2. QED
  BY <1>1, StoreInvariant, PTL
-----------------------------------------------------------------------------
(* The promise of AtomicRoom.                                                 *)

\* What the requests have been promised changes only when one is answered "ok".
LEMMA AnsweredOk ==
  ASSUME at \in [Calls -> Places], NEW c \in Calls, at' = [at EXCEPT ![c] = "ok"],
         KindOf[c] # "snapshot"
  PROVE  {d \in Calls : at'[d] = "ok" /\ KindOf[d] # "snapshot"}
           = {d \in Calls : at[d] = "ok" /\ KindOf[d] # "snapshot"} \cup {c}
  OBVIOUS

LEMMA NotAnsweredOk ==
  ASSUME at \in [Calls -> Places], NEW c \in Calls, NEW answer, at' = [at EXCEPT ![c] = answer],
         answer # "ok" \/ KindOf[c] = "snapshot", at[c] # "ok"
  PROVE  {d \in Calls : at'[d] = "ok" /\ KindOf[d] # "snapshot"}
           = {d \in Calls : at[d] = "ok" /\ KindOf[d] # "snapshot"}
  OBVIOUS

LEMMA PromiseInit == ASSUME StoreAssumption, Init PROVE Room!Init
<1>1. StoreInv
  BY InitInv
<1>2. file.log = <<>>
  BY DEF Init
<1>3. [log |-> <<>>, members |-> Crew, receipts |-> {}] \in Record
  BY DEF Record, Actors
<1>4. file # None
  BY <1>3, RecordParts DEF Init
<1>5. QED
  BY <1>2, <1>4 DEF Init, Room!Init

LEMMA PromiseStep ==
  ASSUME StoreAssumption, StoreInv, Steps
  PROVE  Room!Next \/ UNCHANGED Room!vars
<1> DEFINE acked == {d \in Calls : at[d] = "ok" /\ KindOf[d] # "snapshot"}
<1>0. at \in [Calls -> Places]
  BY DEF StoreInv, StoreTypes
<1>1. ASSUME file' = file, acked' = acked PROVE UNCHANGED Room!vars
  BY <1>1 DEF Room!vars
<1>2. ASSUME NEW c \in Calls, file' = file, at' = [at EXCEPT ![c] = "ok"], KindOf[c] # "snapshot",
             file # None => \/ c \in Range(file.log)
                            \/ /\ c \in Enveloped
                               /\ \E d \in Range(file.log) \cap Enveloped : IdOf[c] = IdOf[d]
      PROVE  Room!Next
  <2>1. acked' = acked \cup {c}
    BY <1>0, <1>2, AnsweredOk
  <2>2. Room!Ack(c)
    BY <1>2, <2>1 DEF Room!Ack, Room!InForce, Room!SameAsTaken, Room!Range, Range
  <2>3. QED
    BY <2>2 DEF Room!Next
<1>3. CASE Evict
  BY <1>1, <1>3 DEF Evict
<1>4. CASE Crash
  <2>1. acked' = acked
    BY <1>0, <1>4 DEF Crash, Underway
  <2>2. QED
    BY <1>1, <1>4, <2>1 DEF Crash
<1>5. ASSUME NEW c \in Calls,
             \/ Send(c) \/ Found(c) \/ Begins(c) \/ FindsNone(c) \/ Refused(c) \/ Prepares(c)
             \/ DiskFails(c)
      PROVE  UNCHANGED Room!vars
  <2>1. file' = file /\ at[c] # "ok"
    BY <1>5 DEF Send, Found, Begins, FindsNone, Refused, Prepares, Meets, DiskFails
  <2>2. \E answer : answer # "ok" /\ at' = [at EXCEPT ![c] = answer]
    BY <1>5 DEF Send, Found, Begins, FindsNone, Refused, Prepares, DiskFails, Settle
  <2>3. acked' = acked
    BY <1>0, <2>1, <2>2, NotAnsweredOk
  <2>4. QED
    BY <1>1, <2>1, <2>3
<1>6. ASSUME NEW c \in Calls, Answered(c) PROVE Room!Next \/ UNCHANGED Room!vars
  <2>1. file' = file /\ file # None /\ at[c] # "ok" /\ at' = [at EXCEPT ![c] = Answer(c, file)]
    BY <1>6 DEF Answered, Meets
  <2>2. CASE Answer(c, file) # "ok" \/ KindOf[c] = "snapshot"
    BY <1>0, <1>1, <2>1, <2>2, NotAnsweredOk
  <2>3. CASE Answer(c, file) = "ok" /\ KindOf[c] # "snapshot"
    <3>1. PICK t \in file.receipts : c \in Enveloped /\ t.id = IdOf[c]
      BY <2>3, CommandIsKnown
    <3>2. PICK d \in Range(file.log) \cap Enveloped : t = ReceiptOf(d)
      BY <2>1, <3>1 DEF StoreInv, LogKept, ReceiptsKept
    <3>3. IdOf[d] = IdOf[c]
      BY <3>1, <3>2 DEF ReceiptOf
    <3>4. QED
      BY <1>2, <2>1, <2>3, <3>1, <3>3
  <2>4. QED
    BY <2>2, <2>3
<1>7. ASSUME NEW c \in Calls, Write(c) PROVE Room!Next
  <2>1. /\ file # None /\ file' # None /\ file'.log = Append(file.log, c)
        /\ Answer(c, file) = "go"
    BY <1>7, WriteAdds
  <2>2. c \notin Range(file.log)
    BY <1>7, <2>1 DEF Write, StoreInv, LogKept
  <2>3. ASSUME c \in Enveloped, NEW d \in Range(file.log) \cap Enveloped, IdOf[c] = IdOf[d]
        PROVE  FALSE
    <3>1. ReceiptOf(d) \in file.receipts /\ ReceiptOf(d).id = IdOf[d]
      BY <2>1 DEF StoreInv, LogKept, ReceiptsKept, ReceiptOf
    <3>2. QED
      BY <2>1, <2>3, <3>1, CommandGoes
  <2>4. acked' = acked
    BY <1>0, <1>7, NotAnsweredOk DEF Write
  <2>5. Room!Take(c)
    BY <2>1, <2>2, <2>3, <2>4 DEF Room!Take, Room!InForce, Room!SameAsTaken, Room!Range, Range
  <2>6. QED
    BY <2>5 DEF Room!Next
<1>8. ASSUME NEW c \in Calls, Persisted(c) PROVE Room!Next \/ UNCHANGED Room!vars
  <2>1. file' = file /\ at' = [at EXCEPT ![c] = "ok"] /\ file # None /\ c \in Range(file.log)
    BY <1>8 DEF Persisted, Settle, StoreInv, InHand
  <2>2. CASE KindOf[c] = "snapshot"
    BY <1>0, <1>1, <1>8, <2>1, <2>2, NotAnsweredOk DEF Persisted
  <2>3. CASE KindOf[c] # "snapshot"
    BY <1>2, <2>1, <2>3
  <2>4. QED
    BY <2>2, <2>3
<1>9. ASSUME NEW c \in Calls, RemoveFile(c) PROVE Room!Next
  <2>1. file # None /\ file' = None
    BY <1>9 DEF RemoveFile, StoreInv, InHand
  <2>2. acked' = acked
    BY <1>0, <1>9, NotAnsweredOk DEF RemoveFile
  <2>3. Room!Close
    BY <2>1, <2>2 DEF Room!Close
  <2>4. QED
    BY <2>3 DEF Room!Next
<1>10. ASSUME NEW c \in Calls, Removed(c) PROVE Room!Next \/ UNCHANGED Room!vars
  <2>1. file' = file /\ at' = [at EXCEPT ![c] = "ok"] /\ file = None
    BY <1>10 DEF Removed, Settle, StoreInv, InHand
  <2>2. CASE KindOf[c] = "snapshot"
    BY <1>0, <1>1, <1>10, <2>1, <2>2, NotAnsweredOk DEF Removed
  <2>3. CASE KindOf[c] # "snapshot"
    BY <1>2, <2>1, <2>3
  <2>4. QED
    BY <2>2, <2>3
<1>11. QED
  BY <1>3, <1>4, <1>5, <1>6, <1>7, <1>8, <1>9, <1>10 DEF Steps

\* Whatever fails, the store does what AtomicRoom says: requests take effect one
\* after the other, a remembered id at most once, and success is answered only for
\* what is on disk or for the removal of the room (rooms.ts, withRoom to persist).
THEOREM StoreImplementsRoom == ASSUME StoreAssumption PROVE Spec => StoreKeepsPromise
<1>1. Init => Room!Init
  BY PromiseInit
<1>2. StoreInv /\ [Next]_vars => [Room!Next]_(Room!vars)
  <2>1. ASSUME StoreInv, Next PROVE [Room!Next]_(Room!vars)
    BY <2>1, NextSteps, PromiseStep
  <2>2. ASSUME UNCHANGED vars PROVE UNCHANGED Room!vars
    BY <2>2 DEF vars, Room!vars
  <2>3. QED
    BY <2>1, <2>2
<1>3. QED
  BY <1>1, <1>2, StoreInvariant, PTL DEF Spec, StoreKeepsPromise, Room!Spec
=============================================================================
