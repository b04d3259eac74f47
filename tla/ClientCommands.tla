--------------------------- MODULE ClientCommands ---------------------------
(* The commands one screen sends (App.send and App.run) over the service it   *)
(* uses, while others change the room and requests or replies get lost.  The  *)
(* room is abstracted to its revision and to whether a selection is still to  *)
(* be had; the engine's rules are those of the modules about the engine.      *)
EXTENDS Naturals, FiniteSets

CONSTANTS MaxClicks,    \* bound on the commands the user gives
          Kinds,        \* what is clicked, among the four below
          MaxRevision,  \* bound on the revision of the room
          MaxTries,     \* MAX_COMMAND_ATTEMPTS; 1 for the Node server
          Cached        \* whether snapshot() may answer from a cache (supabase)

CommandAssumption ==
  /\ MaxClicks \in Nat
  \* a selection, a move that is legal again after it, a ready mark, a view
  /\ Kinds \subseteq {"choose", "move", "ready", "view"}
  /\ MaxRevision \in Nat /\ MaxTries \in Nat \ {0} /\ Cached \in BOOLEAN

VARIABLES revision, chance,   \* the room: its revision, and whether the engine accepts the selection
          applied,            \* ids of the commands that took effect, with their receipts
          late,               \* requests given up by the client and still on their way
          shown, cache,       \* the snapshot on the screen, the one of the service
          pending, hasPending, busy,  \* App's ref and its two states
          offers,             \* error toasts that offer to send again
          runs,               \* the calls of run() under way
          kind, told          \* what each click was, and what the user was told of it

vars == <<revision, chance, applied, late, shown, cache, pending, hasPending, busy, offers, runs, kind, told>>
room == <<revision, chance, applied>>
ui == <<pending, hasPending, busy, offers, kind, told>>

Clicks == 1..MaxClicks
NoRequest == [click |-> 0, n |-> 0, revision |-> 0]
\* n tells a selection sent again under a new command id from the first one.
Request == [click : Clicks, n : 0..1, revision : 0..MaxRevision]
Id(request) == <<request.click, request.n>>
Now == [revision |-> revision, chance |-> chance]
Runs == 1..2   \* a button's run, and one more that a toast starts over it
Idle == [pc |-> "idle", request |-> NoRequest, given |-> FALSE, retried |-> FALSE, tries |-> 0,
         reply |-> "none", snapshot |-> [revision |-> 0, chance |-> FALSE]]
Active(r) == runs[r].pc # "idle"
-----------------------------------------------------------------------------
Init ==
  /\ revision = 0 /\ chance \in BOOLEAN /\ applied = {} /\ late = {}
  /\ shown = Now /\ cache = Now
  /\ pending = NoRequest /\ hasPending = FALSE /\ busy = FALSE /\ offers = 0
  /\ runs = [r \in Runs |-> Idle]
  /\ kind = [c \in Clicks |-> "none"] /\ told = [c \in Clicks |-> "none"]

----------------------------------------------------------------------------
\* What the room answers: a receipt, a conflict unless the command does not
\* mind the revision, the engine's refusal, or the effect.
Verdict(request) ==
  IF Id(request) \in applied THEN "ok"
  ELSE IF kind[request.click] # "ready" /\ request.revision # revision THEN "conflict"
  ELSE IF kind[request.click] = "choose" /\ ~chance THEN "refused" ELSE "ok"

Effect(request) ==
  IF Verdict(request) = "ok" /\ Id(request) \notin applied
  THEN /\ revision < MaxRevision
       /\ revision' = revision + 1
       /\ applied' = applied \cup {Id(request)}
       /\ chance' \in (IF kind[request.click] = "choose" THEN {FALSE} ELSE BOOLEAN)
  ELSE UNCHANGED room

Others ==
  /\ revision < MaxRevision
  /\ revision' = revision + 1 /\ chance' \in BOOLEAN
  /\ UNCHANGED <<applied, late, shown, cache, ui, runs>>

\* A request given up by the client arrives after all.
Late == \E request \in late :
  /\ Effect(request) /\ late' = late \ {request}
  /\ UNCHANGED <<shown, cache, ui, runs>>

Serve(r) ==
  /\ runs[r].pc = "sent"
  /\ Effect(runs[r].request)
  /\ runs' = [runs EXCEPT ![r].pc = "answered", ![r].reply = Verdict(runs[r].request),
                          ![r].snapshot = [revision |-> revision', chance |-> chance']]
  /\ UNCHANGED <<late, shown, cache, ui>>
-----------------------------------------------------------------------------
\* A snapshot older than the one on the screen is dropped.
Accept(s) == shown' = IF s.revision >= shown.revision THEN s ELSE shown
CacheIfNewer(s) == cache' = IF s.revision >= cache.revision THEN s ELSE cache
Fetchable == {Now} \cup (IF Cached THEN {cache} ELSE {})

\* A revision notice brings the screen and the cache up to date.
Push ==
  /\ shown # Now
  /\ Accept(Now) /\ CacheIfNewer(Now)
  /\ UNCHANGED <<room, late, ui, runs>>

\* run() ends: an error is shown in a toast, with the offer to send again if a
\* request is pending then.  At most three toasts are kept.
EndRun(r, isError) ==
  /\ runs' = [runs EXCEPT ![r] = Idle]
  /\ busy' = FALSE
  /\ offers' = IF isError /\ pending' # NoRequest /\ offers < 3 THEN offers + 1 ELSE offers

Keep == UNCHANGED <<pending, hasPending>>
Clear == pending' = NoRequest /\ hasPending' = FALSE
Tell(r, what) == told' = [told EXCEPT ![runs[r].request.click] = what]

Start(r, request, given) ==
  /\ ~Active(r) /\ \A q \in Runs : q < r => Active(q)
  /\ runs' = [runs EXCEPT ![r] = [Idle EXCEPT !.pc = "sent", !.request = request, !.given = given, !.tries = 1]]
  /\ pending' = request /\ hasPending' = TRUE /\ busy' = TRUE

\* The user gives a command.  What changes the game is disabled while the
\* screen is locked; choosing whom to watch is not, and only run() stops it.
Click(r, c, k) ==
  /\ kind[c] = "none" /\ \A b \in Clicks : b < c => kind[b] # "none"
  /\ k = "view" \/ ~(busy \/ hasPending)
  /\ ~busy
  /\ kind' = [kind EXCEPT ![c] = k]
  /\ Start(r, [click |-> c, n |-> 0, revision |-> shown.revision], TRUE)
  /\ UNCHANGED <<room, late, shown, cache, offers, told>>

\* The button of a toast: the send() of the render that made it, in which busy
\* was false.  Without a pending request run() starts and ends at once.
Resend(r) ==
  /\ offers > 0 /\ offers' = offers - 1
  /\ IF pending # NoRequest THEN Start(r, pending, FALSE)
     ELSE busy' = FALSE /\ UNCHANGED <<runs, pending, hasPending>>
  /\ UNCHANGED <<room, late, shown, cache, kind, told>>

\* A toast goes after a second.
Expire ==
  /\ offers > 0 /\ offers' = offers - 1
  /\ UNCHANGED <<room, late, shown, cache, runs, pending, hasPending, busy, kind, told>>

\* Mutant: a request without an answer is given up.
Lost_Forgets(r) ==
  /\ runs[r].pc \in {"sent", "answered"}
  /\ late' = IF runs[r].pc = "sent" THEN late \cup {runs[r].request} ELSE late
  /\ Clear /\ EndRun(r, TRUE) /\ Tell(r, "unsure")
  /\ UNCHANGED <<room, shown, cache, kind>>

\* No answer: the same command is tried again, and in the end the request stays
\* pending.  Nobody can tell whether it took effect or still will.
Lost(r) ==
  /\ runs[r].pc \in {"sent", "answered"}
  /\ late' = IF runs[r].pc = "sent" THEN late \cup {runs[r].request} ELSE late
  /\ IF runs[r].tries < MaxTries
     THEN /\ runs' = [runs EXCEPT ![r].pc = "sent", ![r].tries = @ + 1, ![r].reply = "none"]
          /\ UNCHANGED <<pending, hasPending, busy, offers, told>>
     ELSE Keep /\ EndRun(r, TRUE) /\ Tell(r, "unsure")
  /\ UNCHANGED <<room, shown, cache, kind>>

\* The gateway of the platform answers 429 without asking the function.
Throttled(r) ==
  /\ Cached /\ runs[r].pc = "sent"
  /\ IF runs[r].tries < MaxTries
     THEN runs' = [runs EXCEPT ![r].tries = @ + 1] /\ UNCHANGED <<pending, hasPending>>
     ELSE runs' = [runs EXCEPT ![r].pc = "afterError", ![r].reply = "refused"] /\ Clear
  /\ UNCHANGED <<room, late, shown, cache, busy, offers, kind, told>>

\* The reply arrives: it is taken, or the first conflict of a click leads to a
\* look at the newest snapshot, or what is pending is forgotten.
Handle(r) ==
  /\ runs[r].pc = "answered"
  /\ CASE runs[r].reply = "ok" ->
            /\ Accept(runs[r].snapshot) /\ CacheIfNewer(runs[r].snapshot) /\ Clear /\ EndRun(r, FALSE) /\ Tell(r, "ok")
       [] runs[r].reply = "conflict" /\ runs[r].given /\ ~runs[r].retried ->
            /\ runs' = [runs EXCEPT ![r].pc = "afterConflict"]
            /\ UNCHANGED <<shown, cache, pending, hasPending, busy, offers, told>>
       [] runs[r].reply = "conflict" /\ ~(runs[r].given /\ ~runs[r].retried) ->
            /\ Clear /\ EndRun(r, TRUE) /\ Tell(r, "conflict") /\ UNCHANGED <<shown, cache>>
       [] runs[r].reply = "refused" ->
            /\ Clear /\ runs' = [runs EXCEPT ![r].pc = "afterError"]
            /\ UNCHANGED <<shown, cache, busy, offers, told>>
  /\ UNCHANGED <<room, late, kind>>

\* canRetrySelection: only a selection that is still to be had is sent again.
CanRetrySelection(c, s) == kind[c] = "choose" /\ s.chance

\* The snapshot after a conflict, and with it the second try or the verdict.
AfterConflict(r, s) ==
  /\ runs[r].pc = "afterConflict"
  /\ Accept(s) /\ CacheIfNewer(s)
  /\ IF CanRetrySelection(runs[r].request.click, s)
     THEN LET again == [runs[r].request EXCEPT !.n = 1, !.revision = s.revision] IN
          /\ runs' = [runs EXCEPT ![r].pc = "sent", ![r].request = again, ![r].retried = TRUE,
                                  ![r].tries = 1, ![r].reply = "none"]
          /\ pending' = again
          /\ UNCHANGED <<hasPending, busy, offers, told>>
     ELSE Clear /\ EndRun(r, TRUE) /\ Tell(r, "conflict")
  /\ UNCHANGED <<room, late, kind>>

AfterError(r, s) ==
  /\ runs[r].pc = "afterError"
  /\ Accept(s) /\ CacheIfNewer(s)
  /\ Keep /\ EndRun(r, TRUE) /\ Tell(r, "refused")
  /\ UNCHANGED <<room, late, kind>>

\* The snapshot itself fails: its error is shown in place of the command's.
SnapshotFails(r) ==
  /\ runs[r].pc \in {"afterConflict", "afterError"}
  /\ Keep /\ EndRun(r, TRUE) /\ Tell(r, "unsure")
  /\ UNCHANGED <<room, late, shown, cache, kind>>

Answered(r) == Serve(r) \/ Lost(r)
Continue(r) == Handle(r) \/ SnapshotFails(r) \/ \E s \in Fetchable : AfterConflict(r, s) \/ AfterError(r, s)

Next ==
  \/ Others \/ Late \/ Push \/ Expire
  \/ \E r \in Runs :
       \/ Resend(r) \/ Serve(r) \/ Lost(r) \/ Throttled(r) \/ Handle(r) \/ SnapshotFails(r)
       \/ \E c \in Clicks, k \in Kinds : Click(r, c, k)
       \/ \E s \in Fetchable : AfterConflict(r, s) \/ AfterError(r, s)

\* A request ends by its answer or by the signal that aborts it after 15
\* seconds, and what follows is run by the event loop of the browser.
Fairness == \A r \in Runs : WF_vars(Answered(r)) /\ WF_vars(Continue(r))
Spec == Init /\ [][Next]_vars /\ Fairness
-----------------------------------------------------------------------------
TypeOK ==
  /\ revision \in 0..MaxRevision /\ chance \in BOOLEAN
  /\ applied \subseteq Clicks \X (0..1) /\ late \subseteq Request
  /\ {shown, cache} \subseteq [revision : 0..MaxRevision, chance : BOOLEAN]
  /\ pending \in Request \cup {NoRequest} /\ {hasPending, busy} \subseteq BOOLEAN /\ offers \in 0..3
  /\ \A r \in Runs : runs[r].pc \in {"idle", "sent", "answered", "afterConflict", "afterError"}
  /\ \A c \in Clicks : kind[c] \in Kinds \cup {"none"} /\ told[c] \in {"none", "ok", "conflict", "refused", "unsure"}

\* As long as one toast at most is about, the buttons are locked exactly while a
\* request is remembered that may still have to be sent again.
LockIsPending == hasPending <=> pending # NoRequest

Effects(c) == Cardinality({id \in applied : id[1] = c})

\* However often a command is tried again, by the service, by the user or under
\* a new id after a conflict, it takes effect once at most (docs/PLAN.ko.md:219).
OncePerClick == \A c \in Clicks : Effects(c) <= 1

\* Who is told that a command was refused or came too late can rely on it: it
\* has not taken effect and no copy of it on its way will any more.
ToldTruly == \A c \in Clicks :
  /\ told[c] = "ok" => Effects(c) = 1
  /\ told[c] \in {"conflict", "refused"} => Effects(c) = 0

\* A command that took effect without the user having been told is still at
\* hand, to be sent again with its id (docs/API.ko.md:55).
UnsureIsKept == \A c \in Clicks :
  Effects(c) > 0 /\ told[c] # "ok" =>
    pending.click = c \/ \E r \in Runs : Active(r) /\ runs[r].request.click = c

=============================================================================
