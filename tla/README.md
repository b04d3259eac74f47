# Space Crew: verification project

Space Crew is a cooperative card game for three to five people, played in
rooms behind invite links. A pure engine (`src/game/engine.ts`) maps a room
state and a command to the next state; two storages run it (`RoomStore` on a
Node server with files, `PostgresRepository` behind an HTTP function), and a
React client shows each member a personal snapshot. This directory holds TLA+
models of that program, TLC configurations for small instances, and proofs
checked by TLAPS. Paths are relative to the root of the repository (modules and
`PROJECT.json` put `src/` before them); short names stand for the files of the
inventory.

Contents: [inventory](#inventory), [the engine](#the-engine),
[the server](#the-server), [the client](#the-client), [runs](#runs),
[fairness](#fairness), [proofs](#proofs),
[deviations](#deviations-met-while-modelling), [not modelled](#not-modelled).

## Inventory

| Part | Code | State it keeps | Operations |
|---|---|---|---|
| Room lifecycle | `src/game/engine.ts`, join and demo crew in `server/rooms.ts` | phase, players, waiting players, spectators, host, ready / briefing / watch-next flags, restart vote, waiting policy, settings, mission, drawn missions, attempt | join, leave, become spectator, join as player, settings, character, ready, start, restart vote, retry, next, resolve waiting, fill demo crew |
| Setup and preparation | `engine.ts:281-337, 646-757`, `shared/missionRules.ts` | preparation stage and responses, setup flags, task owners and tokens, distress direction and cards | select crew, assign, edit/reset/confirm tokens, transfer, choose task, distress |
| Trick play and verdicts | `engine.ts:237-258, 400-509, 758-800`, `shared/cards.ts` | hands, trick, trick number, turn, communications, mission progress | communicate, play card, resolve, advance trick |
| Projection | `engine.ts:259-280` | none (view of the state for one member) | project, view player |
| Demo crew | `src/game/demoPolicy.ts` | none | choose the next bot and its command |
| RoomStore | `server/rooms.ts`, `server/persist.ts` | cached rooms, one promise queue per room, receipts, demo and trick timers, invite index, files | create, join, command, leave, snapshot, evict, prune, restart |
| HTTP / WebSocket server | `server/app.ts`, `server/index.ts` | sockets with auth timers, in-flight requests | authenticate, notify, heartbeat, graceful shutdown |
| Rate limiter | `server/rate-limit.ts` | a token bucket per address | allow, sweep |
| PostgresRepository | `supabase/functions/_shared/postgres-repository.ts` | rooms, members, game states, receipts, attempts, events | create, join, command, invite, leave, prune |
| Supabase HTTP boundary | `supabase/functions/_shared/handler.ts`, `_shared/jwt.ts`, `_shared/db.ts`, `server/crew-api.ts`, `server/jwt.ts` | the pool of database connections | route, authorise, read a body, reply, replace the pool |
| Removal of old rooms | `server/persist.ts`, `server/index.ts` | the rooms not looked at yet | stat and remove, or one DELETE |
| Client services | `src/services/*.ts` | cached snapshot, sockets and channels, tokens, the local store of the demo | subscribe, refetch, send, retry, enter, leave |
| Client flow | `src/App.tsx` | snapshot shown, pending command, fallback timer, page | accept a snapshot, send, enter, leave, move a trick on |
| Screens | `src/components/table/*`, `src/components/table/taskPriority.ts` | dialogs open or closed, choices made | open, dismiss, choose, press |

Interaction: every HTTP route ends in one call of the engine inside a critical
section (the promise queue of a room, or a transaction that holds the row lock
of the room), then the result is persisted, then members are told the new
revision and fetch their own snapshot. Timers of the store issue commands as a
bot or as the turn player. A command carries the revision and the attempt it
was chosen for; `set_ready` and `briefing_ready` skip the revision check.

What is hard:

* Room lifecycle: one step does several things (a leave restarts the mission,
  benches people, hands the office over, drops the vote). Correct if roles stay
  disjoint, seats stay within capacity, a mission never runs with fewer than
  three, the host is always somebody who may act, votes and briefings always
  wait for somebody, and nobody is moved without having asked.
* Setup: a stage may be entered with nobody eligible, a distress exchange is
  simultaneous, token edits must be permutations. Correct if every task is
  owned when play starts and every stage has a move.
* Tricks: the verdict of a mission depends on the order of captured goals and
  on when hands run out (five players do not share forty cards evenly).
  Correct if cards are conserved, the turn player can always play, the mission
  ends exactly when it must.
* RoomStore: persisted before acknowledged, timers against commands against
  crashes, receipts that do not survive a restart. Correct if it implements one
  atomic room in which each command takes effect at most once.
* HTTP and Postgres: state JSON and side tables must agree, whoever is refused
  must have had no effect, receipts make retries safe, and an error of one
  call must not take the connections of another.
* Sockets and shutdown: an authentication deadline races a slow snapshot; two
  signals start two shutdown sequences.
* Client: replies are lost, late and out of order; messages of a socket or a
  channel are not replayed. Correct if a click counts once, the screen never
  goes back and does not stay behind.
* Screens: a dialog may hide another, a choice may outlive what it was for.
  Correct if whatever the engine waits for can be answered and no enabled
  button is refused.

`PROJECT.json` lists each hazard at its line with the properties that cover it.

## How the modules fit together

A component is one module, parameterised by CONSTANTS. A component about the
same state as another extends it:

```
TaskTokens -- TaskOrder -- TaskOrderProofs, MCClient
     |            ^ (refined)
     +-- CrewTable -- CrewTricks -- CrewTricksAudit -- CrewTricksWhatIf
              |            |                                |
              |            +-- CrewTricksProofs -- CrewTricksAuditProofs
              +----- CrewSetup -- CrewDemo, SetupScreen -- MCCrewSetup
                         +------- CrewSetupProofs
CrewRoom -- RoomScreen, RoomViews -- MCScreens
                         +----- CrewRoomProofs
AtomicRoom  <-- refined by RoomStore, PgRepository, MockStore
RoomStore -- RoomStoreProofs      PgRepository -- PgRepositoryProofs
SocketAuth, Shutdown, RateLimiter, HttpApi -- ServerProofs
MCServer: RoomStore, StoreEntry, StoreTimers, SocketAuth, Shutdown, RateLimiter
MCEdge:   HttpApi, PgRepository, PgPool, RoomPrune
MCClient: TaskOrder, ClientCommands, ClientSync, ClientBroadcast, TrickFallback, MockStore, ClientEntry
```

`MCServer`, `MCEdge`, `MCClient`, `MCScreens` and `MCCrewSetup` hold several
small instances each. A behaviour chooses one of them by the variable `part`,
which no action changes; the instances take `x1`, `x2`, ... (or variables with
names of their own) in turn, and what an instance does not use stays 0. The
components in such a module share no state, so nothing is lost by running them
one per behaviour. Every property says for which `part` it speaks, and fairness
is stated for the action *together with* its `part`: in the other parts the
action is disabled and the condition holds vacuously. Four of these modules
extend the component that is proved about instead of instantiating it, with its
constants given in the `.cfg` and variables of its own: `MCServer` extends
`RoomStore`, `RateLimiter`, `SocketAuth` and `Shutdown`, `MCEdge` extends
`PgRepository` (whose parts are stories, each with its own requests) and
`HttpApi` (whose five parts differ in what is deployed and in what may be sent),
`MCClient` extends `TaskOrder`, `MCCrewSetup` extends `CrewSetup` (the table of
three). So the property a run checks and the one a theorem states are the same
definition; further instances of the component run beside it (`StoreSound` of
the members who leave is in `EntryAndTimersSound`, the table of five is in
`OthersSound`). Where two components meet,
the meeting is in the model of one of them (a leave between the two reads of a
request in `PgRepository`, the snapshot that is awaited in `SocketAuth`).

## The engine

### CrewRoom: one room

Each list of members is a set and each per-player flag is the set of players
that have it:

| Variable | `State` |
|---|---|
| `phase`, `players`, `waiting`, `spectators`, `host` | `phase`, `players`, `waitingPlayers`, `spectators`, `hostId` |
| `ready`, `briefed`, `leaving` | players with `ready`, `briefingReady`, `spectateNextMission` |
| `approvals` | `restartVote.approvals`; the empty set when `restartVote` is null (an open vote always has its requester) |
| `policy`, `settings`, `mission`, `drawn`, `attempt` | `waitingPolicy` ("none" for null), `settings`, `missionId` (0 for null), `drawnMissionIds`, `attemptId` |

Each route or command is one action that makes every change the handler makes:
`LeaveCrew`, for instance, is the whole of `removePlayer` for a seated player
with `begin`, `applyScheduledSpectators`, `promoteWaiting` and `resetToLobby`
behind it.

Abstractions:

* Seats. The order in a list is data, so the new host, in the code the first of
  a list, is any member of that list.
* Cards, goals and preparation. `briefing_ready` of the last player moves to
  whichever stage `advanceSetup` finds first; preparation commands move between
  `preparation`, `task_selection` and `playing`; `play_card` leaves the trick
  open, shows its result, or ends the mission. All outcomes are allowed.
* Left out as no rule of the room reads them: nicknames, characters, `revision`,
  `updatedAt`, `attemptNumber`, `resultReason`. `spectatorViews` is in `RoomViews`.
* Missions are 1..LastMission, all playable, as in `shared/missions.json`. The
  first mission of a random room is kept at 1: such a room never reads it.
* Attempt identities are recycled: only whether a new one differs from the
  current one is observable.
* The leave of the last member deletes the room; that is in the stores.

`RoomViews` extends it with `view_player` and with what `project` then sends:
whose hand each member sees, and who has seen a hand of the attempt that runs.
`RoomScreen` adds the page of one member: the dialogs of `showModal` as a stack
(the vote, the question of those waiting, the result), what closes each, and
which buttons can be reached under them. A page asks for the latest state when
it is told of a change, when it is looked at again and from time to time, so an
operation of the room is either shown at once or skipped (`Skip`), and whatever
is shown later is the state of that moment (`Render`, `CatchUp`). The dialogs
react to what differs between two snapshots that were *shown* (`shown`).

### CrewTable, CrewTricks: one attempt

From the moment `startPlaying` opens the first trick to the verdict. Players are
their seats; the deck and the number of players are parameters.

| Variable | `State` |
|---|---|
| `phase`, `hands`, `trick`, `trickNumber`, `turn` | `phase`, `hands`, `trick`, `trickNumber`, `turnPlayerId` |
| `status` | `tasks[t].status`; the goals are numbered 1..n |
| `communication`, `tricksWon` | the same fields of each player |
| `progress` | `oneWins`, `rocketsWon`, `blackCardsWon`, `transferApplied` of `missionProgress` |
| `setup` | what the preparation fixed: mission, commander, cards, owners and tokens of the goals, the members with a role. No action changes it |
| `history` | nothing: the tricks won, which no action reads; properties compare the verdict with it |

`PlayCard` is the whole of `play_card`: when the last card of a trick is played
it contains `Resolve`, with the goals captured, the counters, every special
condition, the verdict and the exchange of mission 12. What a random generator
decides is left open: the deal, the goals, the cards passed on. `Init` accepts
whatever the preparation can produce (`OwnersOf`, `TokensOf`, `Selected`, ...),
and `CrewSetup` is checked to produce nothing else.

`TaskTokens` has the tables of `missionRules.ts` and `BadTaskOrder`. `TaskOrder`
is the abstract specification of goal bookkeeping: goals are captured in
batches, and the batches are good as long as every goal goes to its owner and
*some ordering of all goals* satisfies the tokens (the comment on
`badTaskOrder`). `CrewTricksAudit` maps `CrewTricks` onto it, taking the batches
from the history, and states for every mission what the log book asks over the
whole history (`MissionMet`). `CrewTricksWhatIf` lets the crew play on after a
failure, to ask whether the mission was really lost. `TaskOrder` also has the
marks the table puts on goals, which the client computes with counts of its
own and which only screens use, so their run is `client`; mission 48, whose omega
is bound to the last trick, is left out there.

Abstractions: the restart vote suspends the commands and does not change a
hand (it is in `CrewRoom`); `lastTrick`, `cardCount`, `resultReason` and
`ninesPlayed` are read by no rule of the current ruleset (`crew-p9-50-4`). The
two older rulesets, which only rooms saved under them have, are left out. A
command that is refused changes nothing, so it is no action.

### CrewSetup, CrewDemo, SetupScreen: from the deal to the first card

`stage` joins `phase` and `preparation.stage`: `briefing`, then of `role`,
`token_edit`, `captain_decision`, `captain_distribution`, `task_transfer`,
`distress_vote` and `distress_cards` those the mission asks for, or
`task_selection`; `playing` is the start of the first trick and `opened` any
later moment. The variables are the fields of `preparation` and the setup flags
of the state, named in the module; `dealt` and `attempts` are auxiliary. Each
command is an action that contains `advanceSetup`, as in the code.
Which card a goal shows plays no part; of an answer only who gave it is kept,
except in the vote on the signal, where the engine counts refusals.

`CrewDemo` is `suggestDemoCommand` over what `project` shows a bot (goals not yet
distributed are missing from it) with `pendingDemoActor` choosing who acts.
`SetupScreen` gives one member nothing but the dialog, the board, the editor of
tokens and the pick of a card: what is chosen is kept in `choice` and `selected`
until the key of the controls changes, and the readiness that the dialog sends
by itself is on its way for a while, as it names no revision.

## The server

### AtomicRoom and the stores

`AtomicRoom` is what the server promises the people of one room: requests take
effect one at a time and at most once, however often they are resent, and a
request that was answered with success has taken effect for good (or the room
was closed). `RoomStore`, `PgRepository` and `MockStore` each have an instance
of it with a refinement mapping, and every step of theirs is shown to be a step
of `AtomicRoom` or a stutter. A crash is no event of the promise, so the mapping
of `RoomStore` reads the disk, not the memory.

| Module | Code | State | Actions |
|---|---|---|---|
| `RoomStore` | `rooms.ts`: `withRoom`, `loadRoom`, `persist`, `command`, `leaveRoom`, `snapshot`, `sweepIdleRooms`, with `persist.ts` | file, cached record, the chain of promises, how far each request has come, the record it is about to write | `Send`, `Serve` (one step to the next await), `DiskFails`, `Evict`, `Crash` |
| `StoreEntry` | `rooms.ts`: `createRoom`, `joinRoom`, `TtlCache`, `ensureInviteIndex`, `registerInvite`; the close by the last member | disk, cache, index, invites to be added, the scan, receipts in memory, calls in flight | `Create`, `Join`, `Close`, `Resend`, `Serve`, `Scan`, `ScanFails`, `DiskFails`, `Lapse`, `Evict`, `Crash` |
| `StoreTimers` | `rooms.ts`: `maybeScheduleDemo`, `maybeScheduleTrickAdvance` and what arms, fires and clears them | whom the table waits for, the two timers, steps that wait for the queue | `Command`, `Join`, `Leave`, `LeaveEnds`, `Touch`, `DemoFires`, `DemoStep`, `TrickFires`, `Advance`, their failures, `Evict`, `Crash` |
| `SocketAuth` | `app.ts`: upgrade, first message, notify, heartbeat | per socket its state, timer, flags, snapshots awaited; room sockets; counted connections | `Connect`, `AuthFrame`, `Answered`, `AuthTimeout`, `Notify`, `Closed`, `PeerDies`, `Ping`, `Pong`, `Terminate` |
| `Shutdown` | `index.ts`, `close()` of `app.ts` | clock, each call of `close()` with its timers, connections, pool, what the load balancer thinks | `Signal`, timers, `Request`, `AnswerRequest`, `HangUp`, `WebEnds`, `PoolEnds` |
| `RateLimiter` | `rate-limit.ts` | clock that may be set back, buckets; an account in true time beside it | `Allow` (with its sweep), `Tick`, `SetBack` |
| `RoomPrune` | `persist.ts`, `index.ts`, the prune of the repository | version and age of each room, the room condemned | `Look`, `Remove` (or one DELETE), against `Command`, `Written`, `Evict` |
| `HttpApi` | routers and static files of `app.ts`, `crew-api.ts`, `handler.ts`, both token checks | each request, the pieces of its body, effect, answer; the deployment (`front`), the credit at the limiter | `Arrive`, `HandleRequest` (route, check, take effect, reply), `Piece`, `Abort`, `Recredit`, `BeginClose` |
| `PgRepository` | `postgres-repository.ts` | the rows of one room in its tables | `Send`, `Serve` (the lock of the command, the reads before the row lock, the row lock, the work with the commit, the reply), `Lose` |
| `PgPool` | `createPgPool`, `resetSql`, `isConnectionError` of `crew-api.ts`, `sbp-entry.ts` | pool in use, pools ending, the pool of each call | `Start`, `Done`, `Fail`, `Break`, `EndPool`, `ClosePool` |

What the engine does to a room is kept in the stores as the order in which
requests take effect (and, in Postgres, what the columns repeat of it): the
engine is a pure function called in one step, so its order is all they add.

## The client

| Module | Code | State | Actions |
|---|---|---|---|
| `ClientCommands` | `App.send`, `App.run`, the requests of `server.ts` and `supabase.ts` with `withCommandRetry`, the toast | the pending request, busy and pending flags, runs under way, late requests, what each click was told | `Click`, `Resend`, `Serve`, `Lost`, `Throttled`, `Late`, `Handle`, `AfterConflict`, `AfterError`, `SnapshotFails`, `Push`, `Expire`, `Others` |
| `ClientSync` | `ServerService.subscribe`, `pullLatest`; `App.accept`, `refresh` | sockets, reconnect timer, the connection shown, snapshots under way | `Opened`, `Register`, `Refuse`, `Message`, `Closed`, `Dies`, `Reconnect`, `Hide`, `Show`, `Navigate`, `Interval`, `Serve`, `Arrive`, `Command`, `Reply`, `Fails` |
| `ClientBroadcast` | `supabase.ts`: `subscribe`, `resync`, the cache and the poll; `App`'s refresh and fallback timer; `broadcast` of the repository | channel, broadcasts on the wire, cache and age, requests, the armed advance | `Play`, `Deliver`, `Subscribed`, `Disconnected`, `Poll`, `Interval`, `Serve`, `Arrive`, `Fails`, `Fire`, `Advance`, `Hide`, `Show` |
| `TrickFallback` | the effect of `App.tsx` that arms `advance_trick`, against poll and interval | clocks in half seconds | `Hear`, `Tick`, `PollFires`, `IntervalFires`, `Arrive`, `Fire` |
| `MockStore` | `mock.ts` | one stored record, identities of tabs, locks, each call | `Look`, `Store`, `Ask`, `Read`, one per kind of call, `Answer`, `CloseTab` |
| `ClientEntry` | `App.enter`, `leaveRoom`, tokens, sessions, recent link | seats on the server, tokens and user in the browser, form, request | `Type`, `Press`, `Arrive`, `Lose`, `Entered`, `GiveUp`, `Leave`, `Left`, `Go`, `Read`, `Loaded`, `Reload`, the sign-in |

`ClientBroadcast` takes from the server only that a commit raises the revision
and sends each member a snapshot (`Commit`); `ClientSync` only that a snapshot is
that of its moment.

## Runs

| Run | Module | Result | What it shows |
|---|---|---|---|
| `room` | `MCCrewRoom` | pass, 0.7 million states up to symmetry | `CrewSound` (roles, seats, size of the crew and host agree), `NobodyHeldUp` (votes and briefings lack an answer), `AgreementsHold`, `SeatsKept`, `WishesKept`, `MissionsInOrder` |
| `goals` | `MCCrewTricks` | pass, 1.1 million states | `VerdictIsRight`, `CommunicationHolds`, `CardsConserved`, and `GoalsAreBooked`, the refinement of `TaskOrder` |
| `special_endings` | `MCCrewTricks` | pass, 0.4 million states | `PlayGoesOn` (the turn can play, the cards end when the rule says), `NoRevoke`, `VerdictIsRight`, `AttemptEnds` |
| `play_on` | `MCCrewTricksWhatIf` | pass, 5.2 million states | `FailureIsFinal`: after a failure no continuation would have met the mission |
| `preparation` | `MCCrewSetup` | pass, 0.3 million states | `SetupSound`, `SetupKept` (settled stays settled), `OthersSound` (the same among five; bots and screen offer only what is accepted), `OthersKept` (tokens confirmed as shown, readiness for the briefing shown), `PreparationGoesOn` |
| `server` | `MCServer` | pass, 0.3 million states | `StoreSound`, `StoreKeepsPromise` (refinement of `AtomicRoom`), `EntryAndTimersSound`, `SocketsSound` (the room counts who is there and tells everybody), `ShutdownSound` (with files or a database), `LimiterJust`, `ServerGoesOn` |
| `edge` | `MCEdge` | pass, 0.2 million states | `HttpSound` (what has an effect was proven and paid for), `PgSound` (the tables agree, invites, members), `PgKeepsPromise` (refinement of `AtomicRoom`), `DatabaseSound` (the pool, the removal of old rooms), `EdgeGoesOn` |
| `client` | `MCClient` | pass, 0.7 million states | `CommandsSound`, `LiveSound` (no way back, whatever broadcast overtakes which), `EntryAndDemoSound` (with the refinement of `AtomicRoom` by the demo), `ClientGoesOn`, `OrderTestIsExact`: the one-pass test agrees with a search over all orderings; `MarksAgreeWithTheEngine`: a goal is marked exactly when capturing it alone is good |
| `screens` | `MCScreens` | pass, 0.6 million states up to symmetry | `ScreensSound` (the vote is asked on top, reachable buttons are accepted, nobody plays with a hand seen), `NothingIsMissed` (a queue that grows is announced and every result opens, though states are skipped) |
| `random_draw_repeats` | `MCCrewRoom` | violated | `RandomDrawIsFresh`, the claim of `docs/API.ko.md:42` |
| `leave_refused` | `MCCrewRoom` | violated | `CanAlwaysLeave`, the claim of the comment at `engine.ts:111-113` |
| `newcomers` | `RoomScreen` | violated | `NewcomersAreAnnounced`, the claim of `docs/DEPLOYMENT.ko.md:185` |

Each passing property has a mutant in `PROJECT.json`: an operator of the model
changed the way a bug in the code would change it, under which TLC finds the
property violated. A property of an umbrella module is a conjunction of the
named properties of its parts, which stand in the modules with their comments.

### Bounds, and why they are enough

**room**: four people and one bot, capacities 3 and 4, two missions, two attempt
identities. With four people and a bot in a room of three or four there are a
full crew, somebody waiting, somebody on the bench and a crew that falls below
three, at the same time where capacity allows; capacity can be changed in the
lobby; two missions reach retry, next mission, the end of a campaign and an
exhausted random draw. Two identities tell a fresh attempt from a kept one.
People and identities are symmetric: no action or property names one. `screens`
has three people and two bots in a room of four with one mission, for the member
watched is any of them, which multiplies the states; the screen may skip one
snapshot (`MaxSkipped`), enough for one member to go unseen while another comes.

**Tricks**: three players, the only crew among whom forty cards do not share
evenly, two colours, one to three rockets. `special_endings` and `play_on` deal
in every way; with eight cards one hand is a card short, as in the program one
hand is a card long, and play ends after two tricks with a card left. `goals`
uses nine cards for a first, a middle and a last trick, and asks three
questions of three groups of missions: several goals with tokens (28, 30, 31)
on two chosen deals, one with the suits spread and one with voids; roles (33,
41, 50) on every deal up to the seat of the commander and the exchange of the
colours, of which no role depends; talk (11, 12, 18, 29) on the two deals, two
seats speaking. `GoalPool`, `Speakers` and `Deals` are these bounds. `FocusedNext`
lets members speak in the missions about talk only. The part `order` of `client`
has the token layouts of the missions with up to five goals, with every exchange
of two tokens of mission 23, and every sequence of batches; the six goals of
mission 28 are left to the theorems.

**preparation**: the smallest decks on which the exchange, the transfer and an
uneven share of the goals differ; the highest card of the commander beside a
rocket or not; two attempts, so that a signal paid for in the first meets the
second. On the screen, a restart vote in two attempts (`again`), the editor and
the distribution (`edit`), the transfer among five for a member who does not
command (`pass`), and one attempt that has to end (`once`), in which the member
leaves the dialog open and does not change a choice back and forth; without that
a choice could be changed for ever.

**server**: four requests in a room with one failed write or crash, for every
race at the queue has two requests and what comes between; an id resent by its
sender and used by another. Entry has each request twice, one lapse of a
receipt or restart, one failure, and a room on disk that the scan has not
reached. Timers: two leaves, two faults, two queued steps, so that one timer is
armed while the step of another waits. Two sockets with two frames each. Both
signals, with drain before deadline before grace (2, 4, 5 ticks), a probe each
tick. Two addresses, buckets of five units of which a request takes two, a
clock up to two ticks behind.

**edge**: every request alone through three deployments (each route with each
method, each wrong body, token and origin; sizes below, between and above the
two limits), and all pairs of those that meet at the room or the limiter. Seven
stories of three to five transactions with at most one lost connection: a start
and a readiness each sent twice; a mission decided, begun again and left; a
newcomer at the door while the invite is replaced and a member goes; a create
and a join sent twice; a newcomer while everybody leaves; a host who steps back
and goes. `EdgeGoesOn` is asked in the two with the most that meets (`door`,
`last`). Three calls and four pools, as a lost connection replaces a pool once.
Two rooms and two writes for the prune.

**client**: two clicks with one request resent, or one of every kind with two
tries; two sockets at a time, one fault and three revisions in a room, two
visits to two rooms; one broadcast that may be lost with a failed request
(`Silence`); three broadcasts, about tricks that are finished and moved on, of
which each may overtake the one before it, in a tab that stays in view with two
messages at most on their way (`Tricks`, `InView`); the real ratio of the clocks
of the fallback; two tabs with five calls; two ids in an entry, as an id counts
only as the same or another.

Counters that would grow for ever (attempts, revisions, faults, ids, ticks) stop
at a bound in the guard of the action that raises them. Behaviours really stop
where an attempt has its verdict, requests are answered, or a bound is reached;
these runs do not check deadlock and state liveness instead. `room` and
`screens` check deadlock.

## Fairness

| Assumed | Where | Justified by |
|---|---|---|
| the turn eventually plays, a finished trick is taken up | `FairSpec` of `CrewTricks` | bots and automatic advance by the timers of `RoomStore`; for people it is the assumption that they go on playing. Nothing is assumed about communication |
| a stage of the preparation is eventually answered; the first card falls | `PrepFairness` | the same; what the commander tries out with the tokens, and the call of a signal, are not assumed |
| the timer of the bots | `PrepFairness`, bots | `maybeScheduleDemo` |
| the others go on, a request arrives, the member presses what can be pressed | `PrepFairness`, screen | HTTP delivers or fails; a person answers in the end |
| each step of a request after it was sent; the scan | `ServerFairness` | every await of the code settles: disk operations end or fail |
| timers fire, their steps run; a demo step ends or fails | `ServerFairness` | the event loop |
| authentication times out, snapshots are answered, heartbeats run | `ServerFairness` | timers; the store answers or throws |
| a room that fell out of memory is asked for again (`Touch`) | `ServerFairness` | members who are there refetch on reconnection, on a heartbeat's end and by their interval |
| the clock, the timers of `close()`, the exit | `ServerFairness` | `setTimeout`, `process.exit`. Not assumed: that a request or the pool ends |
| requests go on, bodies arrive or are given up, transactions get the lock, the loop of the removal goes on | `EdgeFairness` | locks end with their transaction, connections with the socket, awaits settle |
| an answer or its loss comes back, the interval runs, polls are answered | `ClientFairness` | `fetch` settles, `setInterval` runs. Not assumed: that a socket works, a message arrives or somebody clicks |

All of it is weak fairness. `CrewRoom` has none: a room moves when people send
commands, and what is claimed there is safety.

## Proofs

TLC checks small instances; the theorems hold for every value of the constants.

**`CrewRoomProofs`**: for every set of people and bots, all capacities of at
least three, every campaign length and every set of attempt identities
(`RoomAssumption`).

1. `TypeInv`, which is `TypeOK` with the phase shape, is inductive by itself.
2. `OneRolePerMember` is inductive given the types: every action moves a person
   from one list to another, and flags are dropped with the seat.
3. `WaitingIsHonoured` is inductive given `TypeInv`; it supplies "nobody waits
   in a lobby", without which a capacity change in the lobby could overbook.
4. `SizeInv`, capacity and minimum crew together, is inductive in that context.
   The arithmetic of cardinalities is kept in lemmas (`SeatingAddsUp`,
   `SmallerCrew`, `OneMore`, `SeatTaken`, `QueueSeated`).
5. `HostInCharge` needs the minimum crew: an attempt always starts with a crew
   that is not empty, so there is somebody to hand the office to.
6. `AnswersInv`, votes and briefings, needs that one player is not everybody,
   which is again the minimum crew.
7. `CampaignIsExhausted` and the action properties follow from the invariants
   above, one step per action. For `WishesKept` that is who is moved by each
   action and what he had asked for; for `MissionsInOrder` it is the order of
   the missions and the identity of the attempt.
8. `NobodyPlaysAfterLooking`, about `RoomViews`: once somebody has been sent
   another player's hand the crew is fixed until the attempt is over, and an
   attempt that is over comes back only as another one (`AttemptStep`). The
   invariant is `NoSeatAfterLooking` with the types; this half of `ScreensSound`
   has no need of anything else about the room.

`CrewAlwaysSound`, `NobodyIsHeldUp`, `AgreementsAreHeld`, `SeatsAreKept`,
`WishesAreKept` and `MissionsFollow` put these together into the six properties
of the run `room`.

**`CrewTricksProofs`**: for every number of players from three, every set of
colours, number of ranks and rockets, every mission, every deal that
`DealtEvenly` admits and whoever may speak (`TricksAssumption`).

1. `TypeOK` is inductive by itself.
2. `TableInv` and `HandsInv` together are inductive: the plays of a trick come
   from consecutive seats after the leader, and the size of each hand is a
   function of the trick number and of who has played. Neither `TurnCanPlay` nor
   `ExhaustedIsFinal` is inductive without the sizes. That the last seat is dealt
   exactly `LastTrick` cards makes the empty hand and the trick number agree.
   The exchange of mission 12 needs that hands are disjoint, else a hand could
   shrink (`PassedOnKeepsHands`). `PlayAlwaysGoesOn` is their consequence.
3. `CardsInv`, conservation with counts, is inductive given these: the count of
   cards that left the hands rises with each play, so no card is played twice.
4. `SaidInv` adds that a communicated card marked as played is out of all hands
   for good, without which the exchange could bring it back.
5. `NoRevoke` looks back over all tricks: who did not follow a suit never plays
   a card of it later. It speaks of finished tricks, so `RevokeInv` adds the one
   on the table: who has shown in it that he holds none of a suit holds none.
   Hands only shrink, except by the exchange of mission 12, which `NoRevoke`
   leaves out.

**`TaskOrderProofs`**: for every number of goals, all owners and every layout of
tokens that has an ordering at all (`OrderAssumption`; TLC evaluates it for the
layouts of the missions in the run `client`). `OrderTestAlwaysExact` and
`MarksAlwaysAgree` state the two properties of that run about the order of
goals.

1. `TestIsNecessary`: an ordering that extends the batches places the goals
   captured so far, with the new ones, on the first positions
   (`BatchesComeFirst`, `FirstPlaces`), so each clause of `badTaskOrder` that
   rejects contradicts some token.
2. `TestIsSufficient` builds the new ordering. The one at hand (`OrderInv`: the
   batches so far have one) keeps the captured goals where they are; of the rest
   the batch goes before the others, the goals with absolute tokens to their
   numbers, omega to the end, the relative ones in their order, the others to the
   places left (`Fill`: two sets of numbers of one size have a bijection that
   preserves the order, `KthNumber`).
3. `OrderInv` is then inductive: a good batch has an ordering by definition, and
   after a batch that is not good nothing is captured.

For the marks, a batch of one goal makes the test a matter of the least token
and of how many goals are left, which is what the client counts.

**`CrewTricksAuditProofs`**: for every table `CrewTricksProofs` speaks of, with
two more assumptions on the constants, both from the data of the program. Only
missions that end with their goals have any (`shared/missions.json` has
`taskCount` 0 for the others; a goal of such a mission could make the engine fail
what the log book does not ask), and the first role of mission 50 is over before
the last trick (four tricks of eight at least; the roles of the middle and of the
last trick would overlap otherwise). Of a deal only `DealtEvenly` is assumed.

`GoalsAlwaysBooked`: the refinement of `TaskOrder`. The batches are those tricks
of the history that captured something (`Batches`, in order). A trick won appends
one batch or none (`Books` holds the two in step), captures only what is pending,
and its goals succeed exactly when the winner owns them and the order test
accepts, which is `TestIsNecessary` and `TestIsSufficient` again. Everything else
is a stutter.

`VerdictAlwaysRight`: `TricksInv` ties what the engine keeps to the history: the
tricks won by each, the cards out of play, that a play in the history was made
by its seat in its trick. `BookInv` and `CountInv` tie the goals and the running
counters to it, while the attempt goes on. `AuditInv` says for each kind of
mission what the history must not contain while nobody has failed (`Alive`):
for the roles who won which part of the tricks, for mission 44 that the rockets
so far came in their order, for mission 29 that nobody is two tricks ahead, and
so on. It is needed as the engine tests a condition only in the trick that could
break it, and the log book all tricks at the end. With it each kind of mission is
one lemma: `ConditionBroken` in the trick won breaks `MissionMet` for good, and
an end that is a success meets it.

`FailureAlwaysFinal` is of `WhatIfSpec`, in which play goes on. `FinalInv` is
`AuditInv` until the failure and `Doomed` after: the mission is hopeless, or all
cards are played and it is not met. `Hopeless` lists what cannot be mended: one
trick that alone spoils the mission (`Spoils`: a goal gone to the wrong member, a
role broken, a nine, one or rocket won that must not be), captures that no
ordering allows, tricks too unevenly won, two by one member where one is allowed,
too few ones left to win, a rocket that came before a lower one. Each entry
survives any further trick, contradicts `MissionMet`, and every reason for which
`resolve` fails a mission is on the list. TLC checked `FinalInv` on the instance of
`play_on` before it was proved.

**`CrewSetupProofs`**: for every number of players from three, every deck with a
rocket, every set of missions with any number of goals each, and any deal in
which nobody holds rockets only (`SetupAssumption`; of forty cards with four
rockets everybody has at least eight). `PreparationIsSound` and `SettledIsKept`
state `SetupSound` and `SetupKept` of the run `preparation`. The first says that
a mission starts in a state from which `CrewTricks` begins, whichever stages it
took and in whichever way the goals were given out, so the two models fit
together. `SetupInv` has six parts:

1. `TypeOK`, not inductive by itself: that the commander has a seat rests on
   `HandsInv`.
2. `SignalInv`: where the signal is asked for it is open, and a signal used is
   settled.
3. `HandsInv`: hands are dealt evenly and the highest rocket stays where it was,
   whatever was exchanged. `WhatMoves` says which cards a seat gives and gets,
   `ExchangeKeepsDeal` that the exchange of one card each in either direction is
   a deal again with the same sizes: the cards passed on are distinct as each
   giver has one receiver.
4. `TokensInv`: a token edit is legal (`EditIsLegal`) and may be undone, so the
   tokens are those dealt or one edit away at every moment of the stage.
5. `RolesInv` (`RolesFit`): which role is given once the stage has run; mission
   46, whose role is a matter of the hands, stands apart and is read when play
   starts, which is why the signal must be settled by then.
6. `OwnersInv` (`OwnersFit`): in the middle of a draft the shares are `q` whole
   rounds from the commander and one more for each seat before the turn
   (`RoundAt`, kept by `RoundGoesOn`); when the goals run out this is the share
   the draft asks for (`RoundsShare`). In the distribution a seat is offered a
   goal only while those left can still level the shares, so that after the last
   one they differ by at most one (`LastIsLevel`).
   A goal is passed on among five only after all were shared out, and once.

`SettledIsKept` needs the invariant: that a role is not given twice is a matter
of the steps recorded as done, not of the guard of the answer.

**`RoomStoreProofs`**: for every set of requests, whatever they are, whoever sends
them, and every number of faults (`StoreAssumption`: an id repeated by the same
member is a resend of the same request). `StoreIsSound` states `StoreSound`,
`StoreImplementsRoom` the refinement of `AtomicRoom`, both properties of the run
`server`. The inductive `StoreInv` says:

1. `OneRuns`: who is between two awaits is at the head of the chain of promises.
   All else rests on it.
2. `InHand`: what that request has in hand still fits the file (the record it is
   about to write follows from the file as it is), and `MemoryNeverAhead`: so
   does the cache. A crash loses both and changes neither statement.
3. `LogKept`: the receipts of a record are those of the commands in its log, and
   a request refused as stale stays too late for good (`StaleForGood`), which
   `FailureHasNoEffect` needs of resends still under way.
4. `EnvelopesKept`, `RepliesKept`, `ToldIsDurable`: what reached anybody is on
   disk, and nothing names a revision that has reached nobody.

For the refinement, `PromiseStep` shows that a write or a removal that succeeds
is one step of `AtomicRoom`, as is the reply; every other step, a crash among
them, changes nothing of it.

**`PgRepositoryProofs`**: for every set of requests and people, any capacity and
minimum crew (`RepositoryAssumption`). `RepositoryIsSound` states `PgSound`,
`RepositoryImplementsRoom` the refinement `PgKeepsPromise`, both of the run
`edge`. What makes it hard is that a transaction looks things up before it
locks the row of the room. The inductive `PgInv` says:

1. `KeysLocked`: one transaction at a time holds the lock of a command, so what
   it found of receipts is still so under the row lock (`LookedUp`). Of its
   membership that is not so, and `MembersKept` is about the members at the
   moment of the work.
2. `ReceiptsKept`, `CommittedKept`: receipts, events and what was committed name
   the same requests. `MadeKept` says it of a create.
3. `AttemptsNumbered`: attempts are numbered without a gap and one is active,
   which decides whether the unique index refuses (`IndexDecides`).
4. `RefusedForGood`: a refused command would be refused again on the state as it
   is, for its key belongs to another request, or the state has moved on and it
   is late, or what was wrong still is. A ready, which no revision binds, and
   somebody who is no member are left out, as in `FailureHasNoEffect`.

The steps are told apart by what they do to the tables: `Moves` changes none of
them, `Commits` adds an event, `Remembers` only a receipt, `Closes` ends the
room. Each keeps `PgInv`, and each is a step of `AtomicRoom` or a stutter.
`HostStays`, that the host of the state is a member, is what the host column
needs: only a leave writes it, with that host.

**`ServerProofs`**: what of the servers lies outside the rooms.

`SocketsAlwaysSound`, for any number of sockets and frames, with or without a
heartbeat. The store counts registrations, the room keeps a set, and a socket
whose token is checked twice is registered twice; so `SocketInv` says what the
count is: the number of `Tickets`, one for each handler that some socket still
has. Registering adds one ticket (`OneTicketMore`), a socket that ends takes back
exactly its own (`TicketsTakenBack`, by a bijection with the numbers of its
handlers), and as only sockets that are there have any (`Held`) the count is
positive exactly while the set is not empty. `Framed` bounds what may still be
registered by the frames that were sent; `Unheard` says that a socket
authenticates after its upgrade only.

`ShutdownAlwaysSound`, for any connections, web sockets, signals and delays with
the probe interval below the drain, the drain below the deadline and that below
the grace period (`ShutdownAssumption`; `index.ts:12` has 2, 4, 8 and 9 seconds).
`NobodyRefused` rests on `NotYetAsked`: while the load balancer still sends
clients it has not probed since the signal, so the signal is not older than its
last probe (`AskedByThen`). `ResolvesInTime` rests on `ExpiredDone` and on time
passing no deadline that is due; `PoolOutlivesHandlers` on `PoolLast`, which adds
that the door is closed and no connection is left to ask on.

`SpecLimiterJust`, for every capacity, cost, rate, idle period that refills a
bucket, and clock that may be set back (`LimiterAssumption`): a bucket,
brought up to date, never holds more than the account kept in true time
(`Covered`), and an address without a bucket has a full account again
(`Restored`), which is what the idle period is for.

`HttpAlwaysSound`, for any number of requests of any shape, in each of the three
deployments (`HttpAssumption`: a bucket of at least one token, and the fields a
request has). What was checked is remembered by the place where a request
stands, so `Checked` says of a request at the body or at the store what its
router has seen to, and `OnItsWay` by which routers it can have come there; the
routers themselves are lists of checks of which the first that fails decides
(`FirstFails`, `ApiChecks`, `BodyChecks`, `HandlerChecks`). `Effective` keeps of a
request with an effect that it was limited and that its answer is a good one,
whatever is cut off later. `PaidUp` counts those who were `Charged`, a set that
only `Route` extends and only for a token; who created or joined is among them.

Three definitions owe their form to these proofs. In `RoomStore` the end of a
request takes the head off the chain (`Tail`), as the chain of promises does;
that this is the request itself is `OneRuns`. `FailureHasNoEffect` says of a
stale answer (in Postgres of every refusal but two) that no send of the command
had or will have an effect. `OnlyMembersAct` reads who is a member from the events
before (`MemberAfter`), not from the table that `TablesAgree` compares with them.

Only model-checked: bots and screens in the preparation (`OthersSound`,
`OthersKept`); the entry and the timers of the rooms of the Node server; the pool
and the removal of old rooms; the client's commands, its sockets and its entry,
with the refinement of `AtomicRoom` by `MockStore`; the dialogs and buttons, whose
invariant needs ENABLED and filtered sequences. Liveness is out of reach of the
prover, and so are the properties that need ENABLED (`NobodyHeldUp` is stated
without it). The counts of tokens and of captured goals in the tricks are sizes
of sets, for which the library has theorems; nothing recursive is proved about.

## Deviations met while modelling

The models do what the code does, so the following behaviours are in them. Three
are runs of their own and listed as findings in `PROJECT.json`:

* `random_draw_repeats`: `start_mission` draws from all missions
  (`engine.ts:620-626`), though `drawnMissionIds` survives the return to the lobby.
* `leave_refused`: a leave is rejected when the stayers minus the scheduled
  spectators are fewer than three (`engine.ts:142`, `339`).
* `newcomers`: the question of those waiting opens when their number or the policy
  changes (`WaitingJoinModal.tsx:17`). Closed for one who has left since, it does
  not open for one who comes before the next snapshot: the number is the same.
  (`GrowthIsAnnounced` asks only that a queue which has grown is announced.)

The others were seen as counterexamples while the properties were written. The
passing properties exclude them, by a condition in the property or a constant of
the instance, named at the end of each item; no run shows them.

Server and database:

* `handler.ts:231` parses the reply inside the `try` whose `catch` answers 400,
  after the transaction has committed; a snapshot lists fifty spectators at most
  (`contracts.ts:204`) and no join checks it. The 51st is seated and told 400,
  as is every later command. (`ErrorMeansNoEffect` is asked of the file store
  only.)
* `app.ts:85` answers a body that grows too long with 413 after `req.destroy()`:
  the client sees a broken connection, which it retries. (`Told` gives 0.)
* `app.ts:319`: a path under `/assets` that falls back to `index.html` is sent as
  immutable. (No property speaks of `cache`.)
* `crew-api.ts:61`: `resetSql` drops the pool in use, not the one the failed call
  ran in; what runs in the newer one is cut a second later. (No property excludes
  it; `DropsAreCharged` asks that no more pools are dropped than connections were
  lost.)
* `postgres-repository.ts:274`, `221`: neither a command nor a join writes
  `host_user_id`, so after `become_spectator` of the host the column names the
  old one until a leave writes it (`328`). `invite` (`295`) reads the column: the
  new host is refused and the old one may replace the invite, against
  `docs/API.ko.md:101` (headers follow the state) and `:23`. The story `office`
  gets there. (`TablesAgree` asks of the column that it names a member.)
* `persist.ts:107`: a room written between `stat` and `rm` of the removal is
  removed with the change. (`OnlyStaleGoes` is asked of the database only.)
* `rooms.ts:651`: a trick timer that was armed for an earlier trick keeps the next
  one from getting its own, and fires into nothing; nobody moves that trick on.
  (`TrickAwaited` is asked in `slow` only, where a timer has run out before the
  next trick ends.) A leave that fails has stopped both timers (`stopped`).
* `rooms.ts:446`: a join retried after a restart seats the person twice
  (`RetryCountsOnce` allows one more for each lapse).
* `app.ts:259`: a second frame sent while the first token is checked is read too;
  the books stay right (`CountsWhoIsThere`).
* `postgres-repository.ts:118`: when a departure takes a room back to the lobby
  the attempt stays `active` in its table, and the unique index refuses the next
  start for good. (`AttemptAgrees` speaks of the attempt
  underway or decided; a lobby has none.)

Client:

* `App.tsx:336`: `send` overwrites a pending request; the buttons that choose whom
  to watch are not disabled meanwhile. (`UnsureIsKept` is asked in `clicks`,
  without them.)
* The offer to send again exists in a toast for one second only
  (`ToastViewport.tsx:13`); afterwards the buttons stay locked until a reload
  (`LockIsPending` and `Awaited` speak of the call, not of the lock).
* `App.tsx:360`: 429 clears the pending request though an earlier try may have taken
  effect. (`ToldTruly` is asked over the Node server, which does not retry by
  itself.)
* `App.tsx:366` claims a refresh after a second conflict, when none was made.
* `App.tsx:228`: the reply to a command replaces the snapshot of another room opened
  since. (`NeverBack` is asked in one room; with two the screen must catch up.)
* `App.tsx:304`: each snapshot of the same revision starts the fallback timer anew;
  for all but the winner it takes as long as the poll, which may put it off each
  time. (`TrickFallback` is run with the delay of the winner.)
* Without `navigator.locks` two tabs of the demo overwrite each other's actions, and
  two tabs loaded at once make up an identity each (`mock.ts:37`). (`Locks` is
  TRUE; nothing is asked of identities.)
* `rooms.ts:423`, `server.ts:128`: who joins again over the Node server gets a new
  seat and loses the token of the old one. (`SeatIsReachable` is asked of Supabase
  only.)
* The last member's leave closes the room in both stores (`rooms.ts:467`,
  `postgres-repository.ts:319`); `docs/DEPLOYMENT.ko.md:185` still says that it is
  refused. (The models close the room.)
* `App.tsx:802`: the arrow to the hub gives up the seat, and the link to the recent
  room then leads nowhere.

Screens:

* `MissionSetupModal.tsx:34`: readiness of a drafted mission is sent once and lost
  when a restart vote is open; after a rejected vote nothing sends it again.
  (`PreparationGoesOn` is asked in `once`, without a vote.)
* A member of a crew of three who asked to watch next, or whose crew did, is
  offered a retry or a start that the engine refuses, and the host is offered to
  wait for a mission when the campaign is over (`TooFewStay`, `MissionsOver`).

## Not modelled

* Missions, cards and texts are data: the number of goals is a constant of the
  runs, what a mission number stands for is `TaskTokens`, and the copies under
  `supabase/functions` are generated from `src/`.
* Build scripts, load probes and asset tools are no part of the running system.
* Of the user interface, layout, animation, sound, texts, the guide and the
  forms of settings and characters, which keep no state of the game; the
  component is listed as `partly`.
* The two older rulesets; request parsing beyond well-formed, invalid and too
  long; cryptography of tokens beyond which check refuses.

What could still be done: a proof of the refinement of `AtomicRoom` by `MockStore`;
inductive invariants for the client's requests, for the sockets and for the HTTP
boundary; runs of the tricks with five players, which need decks too large for
all deals (the theorems about the tricks are for any number of players).
