# Verification of fciv-net

TLA+ modules for the parts of fciv-net whose correctness depends on the order
in which things happen, the TLC runs that check them on small instances, and
TLAPS proofs of what they promise for every instance. All paths below are
relative to `src/`; `server/`, `common/`, `client/`, `ai/` and `utility/` are
below `freeciv/freeciv/`, and `freeciv-web/.../javascript` stands for
`freeciv-web/src/main/webapp/javascript`.

Contents: [the system](#the-system) · [components](#components) ·
[modules](#modules) · [runs](#runs) · [proofs](#proofs) ·
[findings](#findings) · [not modelled](#what-is-not-modelled) · [plan](#plan)

## The system

fciv-net is a browser game: JavaScript clients speak JSON over a WebSocket to
a Python proxy, which speaks to a C game server; a Java web application and a
Python process manager keep a pool of such servers ready, and find each other
through one database table.

    web client --WebSocket--> proxy --TCP--> game server --HTTP--> metaserver
        |                                        ^                    |  ^
        +--HTTP--> launcher (reads the table) ---|--------------------+  |
                                process manager -+--- reads the counts --+

The game server has one thread (but for the save thread, the thread that posts
to the metaserver, and the threaded AI) and handles one packet at a time: a
handler is atomic unless it runs callbacks, or loops over things that it
changes. Interleaving comes from

- several clients that talk to one server: what a player checked when he
  agreed may be gone when it is executed;
- clients whose picture of the server is late, and whose requests cross its
  packets;
- loops that change what they have yet to visit: `update_diplomatics` over
  the pairs of players, `cancel_connection_votes` over the votes;
- the separate threads of the proxy, of the AI and of the process manager.

## Components

For each component: the state it keeps, what changes it, what it shares with
others, what is hard about it, and what makes it correct. The hazards behind
the third column are listed, each at its line, in `PROJECT.json`.

### Diplomatic states — partly modelled, and proved about

*Where.* `server/plrhand.c`, `common/player.c`, `update_diplomatics` in
`server/srv_main.c`, `server/barbarian.c`.
*State.* For each ordered pair of players a `struct player_diplstate`: the
state, the best state the two ever had, the turns left of a cease-fire or an
armistice, a reason to cancel, and two turn marks. It is kept twice for each
pair, once per side.
*Operations.* First contact, pacts signed (by treaties) and cancelled, wars
among allies, casus belli, changes of government, deaths, barbarians and civil
wars, and the countdown at the end of a turn.
*Hard.* A handler for one pair changes others: a war makes the common allies
leave one side. The countdown visits each ordered pair by itself, so the two
copies are out of step in the middle, and an expired cease-fire changes pairs
the loop has passed or has yet to visit. A government with a senate may refuse
what an alliance demands.
*Correct if* both sides agree (`SidesAgree`, `ClocksAgree`), teams hold, no
player is allied with two others at war (`NoLoveLoveHate`), a pair climbs and
descends the ladder of pacts as if it were alone (`PairsFollowLadder`), a war
never comes out of a lasting pact of two senates (`SenatesKeepPeace`), and a
cease-fire or an armistice ends (`CeasefireEnds`, `ArmisticeEnds`).

### Treaty negotiation — partly modelled

*Where.* `server/diplhand.c`, `common/diptreaty.c`.
*State.* The list of treaties: two players, clauses in order, two flags.
*Operations.* Open and cancel a meeting, add and remove a clause, accept and
take back, execute. Reads and writes gold, cities, advances, embassies and the
diplomatic states.
*Hard.* The promises are checked when each side accepts, and once more when
both have; the clauses are executed one after the other and change what the
later ones rest on; one player negotiates with several at once.
*Correct if* an acceptance stands only for the clauses it was given to, no gold
is paid twice, a treaty is executed whole or not at all, and the pacts it makes
are those `Diplomacy` allows.

### Treaty dialogs of the clients — modelled

*Where.* `client/clitreaty.c`, `freeciv-web/.../javascript/diplomacy.js`,
`packhand.js`.
*State.* For each counterpart, the clauses and acceptances the client shows.
*Operations.* Apply what the server says; ask for changes; come back after a
lost connection.
*Hard.* Requests cross changes; the web client has list rules of its own.
*Correct if* a client that has received everything shows what the server has.

### Voting — partly modelled

*Where.* `server/voting.c`, with `stdinhand.c`, `connecthand.c`, `srv_main.c`.
*State.* The list of votes with their casts, by connection id.
*Operations.* Call, cast, change and cancel; a check whenever a cast changes
and at the end of a turn; a passed vote runs its command; connections are lost,
one or several in a round of the main loop.
*Hard.* The command runs inside the loop that found the vote decided, and may
detach connections, which change the list under the loop; voters come, go, are
attached again under an old id and lose their rights between two checks.
*Correct if* only a majority of those present and entitled decides, a vote does
not fail while it can be won, every vote of a running game ends, and no loop
is left pointing to a vote that is gone.

### Connections — partly modelled

*Where.* `server/sernet.c`, `server/connecthand.c`,
`common/networking/connection.c`.
*State.* A table of connections, send buffers with freeze counters, ping
timers, the lists of all and of established connections.
*Operations.* Accept, join, authenticate, establish, attach, detach, ping,
cut, close.
*Hard.* A connection is marked as closing and closed later; all closing ones
leave the lists before the first is detached; in one round of the main loop a
new connection is accepted before the old ones are read.
*Correct if* a user is refused as a duplicate only while his old connection is
really there (`RefusedOnlyBehindRequests`), and what a connection leaves behind
is the concern of the part that kept it: votes (`Voting`), players
(`TurnCycle`), sockets (`Proxy`).

### Turn cycle — partly modelled

*Where.* `server/srv_main.c` (`srv_running`, `begin_phase`, `end_phase`,
`end_turn`, `check_for_full_turn_done`), `server_sniff_all_input` in
`server/sernet.c`, `player_set_to_ai_mode` in `server/plrhand.c`.
*State.* Turn, phase, `phase_done` and `ai_phase_done` of each player, the
timer of the phase, `force_end_of_sniff`.
*Operations.* Start, begin and end phases and turns, a phase done, a timeout, a
lost or new connection, a player handed to an AI and back, a death.
*Hard.* Whether a turn is over is asked after some events, not continuously; a
"Turn Done" may cross the end of its phase.
*Correct if* a turn ends once everybody who is waited for is done
(`WhoeverIsLastEndsTheTurn`, `TurnsEnd`) and not before (`NobodyCutShort`).

### Threaded AI — partly modelled

*Where.* `ai/tex/*.c`, `ai/difficulty.c`.
*State.* Two queues, a condition variable, the number of players of this AI,
the copy of the world the thread keeps.
*Operations.* Control gained and lost, messages to the thread, its recursive
reading of them between two cities, its answers.
*Hard.* A signal sent before the thread waits is lost; the thread keeps the
lock of its queue while it works, so the server waits; one thread serves all
players and starts anew with an empty copy.
*Correct if* the thread is there while it is needed (`ThreadWhileNeeded`),
hears every message (`MessagesHeard`) and knows the cities (`CopyFollows`).

### Proxy — partly modelled

*Where.* `freeciv-proxy/freeciv-proxy.py`, `civcom.py`.
*State.* A table of connections by user, port and socket; per connection a
thread, a socket, a queue in each direction.
*Operations.* The first message (login), requests, packets, a closed WebSocket,
a server that hangs up or is not there.
*Hard.* The queues are plain lists used by two threads: a request that is
appended between the sending loop and its clearing is lost; both sides may
close, each in its own thread, and the code tests `self.socket` and uses it
later; a reloaded page logs in while its predecessor is still being closed.
*Correct if* requests and packets keep their order (`RequestsInOrder`,
`PacketsInOrder`, `QueuedIsSent`), and a closed page leaves the table, the
thread and the server (`EntriesOfOpenSockets`, `LeavesNothing`) and does not
stand in the way of the next (`RefusedOnlyBehindRequests`).

### Process manager, metaserver and launcher, reports — partly modelled, and proved about

*Where.* `publite2/*.py`, `server/meta.c`,
`freeciv-web/src/main/java/org/freeciv/servlet/Metaserver.java`,
`RecentServerStatistics.java`, `CivclientLauncher.java`,
`freeciv-web/src/main/resources/db/migration/`.
*State.* The table `servers`; the process manager's counts; each server's
state, timers and thread of reports.
*Operations.* Start servers by the counts; report, retry, say goodbye; insert,
update, delete and clean up rows; offer a free server.
*Hard.* Counts are as late as the reports; a server is picked without being
reserved; a failed report swallows the next ones; servers crash.
*Correct if* what is offered is free or about to be known as taken
(`OffersAreTrue`), the limit holds (`LimitKept`, `NoForkBomb`), games become
known (`GamesBecomeKnown`) and free servers keep coming (`ServersComeFree`).

### Research and space race — not modelled

*Where.* `server/techtools.c`, `common/research.c`, `server/spacerace.c`.
*State.* Bulbs, the saved research, free bulbs, inventions; spaceships.
*Hard.* Two bulb counters with penalties; ties of arrivals.
*Correct if* no sequence of changes gains or loses bulbs beyond the penalties.

### Authentication, saving — not modelled

`server/auth.c` (states of a login), `server/savegame/savemain.c` (a thread
that writes while the game goes on).

### Not planned

Units, cities, map, rulesets, AI heuristics, scripting, drawing, generated
packets: see [what is not modelled](#what-is-not-modelled).

## Modules

| Module | What it is |
|---|---|
| `PactRules` | players, teams, matrices of pairs, and the rules of `common/player.c` and `common/diptreaty.c`: which pact is allowed, which may be cancelled, what it becomes |
| `Diplomacy` | the diplomatic states and every handler that changes them |
| `PactLadder` | abstract specification of the relation of two players |
| `DiplomacyProofs` | theorems about `Diplomacy`, among them that it implements `PactLadder` |
| `ClauseList` | `add_clause` and `remove_clause`, shared by server and C client |
| `Treaty` | negotiation on the server; implements `Diplomacy` |
| `TreatySync` | one meeting as the server and two clients see it |
| `Voting` | votes |
| `TexAI` | the thread of the tex AI, its queues and its copy of the cities |
| `TurnCycle` | phases and turns, with the players who come, go and change hands; extends `TexAI` |
| `Proxy` | the web client's connection through the proxy to the server |
| `Publite` | process manager, game servers, their reports, metaserver, launcher |
| `TreatyProofs`, `TreatySyncProofs`, `VotingProofs`, `TurnCycleProofs`, `ProxyProofs`, `PubliteProofs` | theorems about the module each is named after |
| `DataLemmas` | lemmas about folds, sums, recursion and queues, and about `ClauseList`, that several of these need |
| `MCDiplomacy`, `MCTreaty`, `MCTreatySync`, `MCTurnCycle`, `MCProxy`, `MCPublite` | instances for TLC |

An operator whose comment begins with *Slip:* is a plausible mistake in the
code (a dropped guard, a missing reset). It is used nowhere in the
specification; putting it in the place of the definition it stands before
makes a property fail, which shows that the property says something about
that code. `PROJECT.json` pairs every property with one.

### Diplomacy

Each function matrix is a field of `struct player_diplstate`; `met` and
`autoCancelled` are the pairs whose `first_contact_turn` and
`auto_cancel_turn` are the present turn, which is all the code compares them
with. `alive`, `unborn` and `senate` are what the handlers read of players.
`MakeContact`, `CancelPact`, `GiveCasusBelli`, `InternationalOutrage`,
`NewPlayer` and `KillPlayer` are handlers, one action each. `MakePact` is the
execution of a treaty with one clause, so that `Diplomacy` is complete by
itself; `Treaty` replaces it by the negotiation.

`CancelPact` calls itself in the code, for the common allies who must choose a
side. The nested calls cancel alliances, which have no fall-out, and touch
disjoint entries; so the loop is one assignment to all the pairs in `FallOut`.
In `update_diplomatics` the order matters, so the loop is one step per ordered
pair (`UpdatePair`), with the position in `cursor`; first contacts may come in
between because the loop throws units out of tiles.

Team-mates have `max_state` `no_contact`: `srv_main.c:3370` writes their state
without `set_diplstate_type`. `MaxStateSane` is therefore checked on an
instance without teams.

### Treaty

`open`, `clauses` and `accepted` are the list of `struct Treaty`; `signed` is a
history variable, what each player last accepted. `Accept` is
`handle_diplomacy_accept_treaty_req` up to the second acceptance,
`Conclude` the execution in the order of the list, `FallThrough` the second
check that fails and cancels, `LeaveBehind` the one that returns without
cancelling (see findings). Gold, cities, palaces, advances and embassies are
as far modelled as clauses and their checks need them; what happens to them
between two acceptances (`Spend`, `LoseCity`, `BuildPalace`, `Learn`,
`Forget`, `KillPlayer`, `ChangeControl`) are actions limited by the constant
`Events`. With its wealth hidden, `Treaty` implements `Diplomacy`
(`RefinesDiplomacy`): in the module `D!Spec` is the abstract specification, and
`Conclude` must map to `MakePact`, that is, the pact must be allowed in the
state in which it is made, not only when it was promised.

Two things the code allows and the model keeps: an advance clause is not
checked against the advances the receiver has meanwhile (`diplhand.c:335`
checks the requirements only), and an acceptance carries no version of the
clauses, so a player may accept a treaty that changed while the request was on
its way.

### TreatySync

One treaty, two clients, FIFO channels both ways. `ReceiveInC` is
`clitreaty.c`, `ReceiveInWeb` is `packhand.js` with `diplomacy.js`. The server
tells the clients a new clause and they work out by themselves that it
replaces another and voids the acceptances: the C client with the very code of
the server, the web client with its own. `Reconnect` drops both channels and
sends what `send_diplomatic_meetings` sends.

`AcceptTreaty` tells both clients of the second acceptance and of the end of the
meeting before it checks the promises of the other player. One of these checks
returns without removing the treaty (`LeftBehind`, finding 3): from there on the
server has a meeting that both clients were told is over. The history variable
`misled` holds these clients. They show nothing until the treaty is removed or
they come back with a new connection, which sends a C client the treaty with both
acceptances; a web client takes those for the end of the meeting once more. The
three properties say exactly this: who is misled shows no meeting, and everybody
else shows the meeting, the clauses and the acceptances of the server. An
acceptance that the first check refuses changes nothing (`Ignored`). Which
refusals occur with which wealth is the matter of `Treaty`; here both outcomes
are open whenever the list holds a clause that the check looks at.

The web client keeps showing acceptances that a change of clauses has voided:
`ThumbsAgree` asks of its dialogs that they show the acceptances of the server
whenever it has any. `packhand.js:1207` closes them at the end of a turn while
the treaty stays, so `MeetingsAgree` asks of a web client only that what it shows
exists.

### Voting

A vote is a record with its casts; `loops` is the stack of
`vote_list_iterate` loops under way, each with the number of the vote its
iterator points to, as `TYPED_LIST_ITERATE` reads the next link before it runs
the body. `CheckVote` is `check_vote`; when a vote passes whose command
removes a player, it contains `connection_detach` of that player's connection,
which pushes a loop of its own. `closing` are the connections that
`really_close_connections` has taken off the lists and has still to detach, in
any order (`LoseConnections`, `DetachNext`): until then their casts are in the
votes and count for nothing. `said` is a history variable: the latest word of
each connection since it was attached. An iterator at a freed vote, and a
player that is freed while `connection_detach` works on it (`freed`), are
undefined behaviour; `Crash`, the end of the process and a new start, is its
outcome in the model.

### TexAI and TurnCycle

`TexAI` has the two queues (`msglist`, `reqlist`), where the thread is
(`thread`) and `stack`, the calls of `texai_check_messages` under way: between
two cities of a player the thread reads its messages again, recursively, and an
abort that it finds there is handed down to the caller. The mutex is implied by
`thread`: it is held exactly while the thread is `"working"`, so `Send` waits,
and a signal wakes the thread only if it is `"waiting"`. `TurnCycle` extends it
with the server. A handler that sends messages puts them into `outbox` and goes
on when they are sent; `state = "wait"` is `fc_thread_wait` in
`texai_control_lost`. `latecomers` and `pressed` are history variables.
`num_players` may count a player too many from the beginning, because
`set_as_human` in the pregame does not call `lost_control`; the model starts
with both values.

Each `Sniff` is a round of the main loop in which something happens:
`call_ai_refresh`, the test of the timer, and that of `force_end_of_sniff`.
AI types other than tex are done as soon as a phase begins. Rule changes of
`phase_mode` are a constant sequence of sets of players, `phases`.

### Proxy

A socket is one WebSocket with its handler, its `CivCom` thread and its
connection to the server. The handlers run one at a time on Tornado's loop
(`closing` is the `on_close` under way, whose sending loop may alternate with
that of the thread); the queue of requests is a Python list, so a loop over it
sees what is appended, and the assignment of a new list in `finally` drops what
came in between (`Clear`). `Select`, `ReadConnection` and `EndRound` are a
round of `server_sniff_all_input`: accept one, read what select found, really
close. A request may therefore be lost (`Clear`), but never overtakes another.

`close_connection` runs in both threads. On Tornado's side it is `Close`, the
loop `SendOnClose`, the test of `self.socket` (`Test`), and the rest with the
removal from the table (`Closed`), or the AttributeError of `None.close()`
(`Dies`); on the thread's side `HangUp` or `ConnectFails` and `Shut`, between
which `on_close` may do any of that. The threads are taken to change places
between any two statements, and between a test of `self.socket` and its use.
CPython up to 3.9 may do so (the repository asks for Python 3.5 or later); from
3.10 on it does so at calls and loops only, so that lines 136 to 139 of
`civcom.py` change hands at most inside `close`, and the exceptions that three
of the properties make do not arise. What they except is in `stale`: a socket
that its thread has opened or closed after `on_close` had looked at it.

### Publite

Ports are numbers; a port's server, its row and its report under way are
functions of the port. Time is three intervals since the last report (`age`)
and whether a row's stamp is of the last minute (`fresh`). `Send` is
`send_server_info_to_metaserver` for all its flags: what comes too early is
remembered or dropped, and what comes after a failure is dropped. All this is
looked at, and the report built, before `send_to_metaserver` joins the thread of
the report before (meta.c:442-444): a report that waits (`next`) is sent even if
the one it waited for fails, and does not undo the failure, after which the next
calls are dropped. `old` and `lost` keep account of that: `lost` ends only with a
report that was built after the last failure. `metaserver_failed` runs in the
thread and sets `meta_retry_wait` without a lock while the server may be counting
it on; the outcomes of that race are the two values `PostFails` may leave. The
first report of a process, before its script has made players (`Start`, then
`Script`), says nothing of humans: in a new row there are none by default, in one
that a crashed server has left they become -1, which is not free. `Check`, `Launch` and
`NextType` are the loop of `publite2.py`, which works with the counts that it
read at its beginning. `lost`, `old` and `unreported` are history variables that
excuse what nobody can know. `LimitKept` excuses a check that has seen too few
rows, whatever it then starts; what bounds that is `NoForkBomb`, as long as
nothing has been heard, and nothing afterwards.

## Runs

Every run is complete: TLC explores the whole state space of its instance.

| Run | Instance | Checks |
|---|---|---|
| `Diplomacy_triads` | 3 players, no teams, 2 senates, turns 2 | `NoLoveLoveHate`, `PairsFollowLadder` (refinement of `PactLadder` for every pair), `SenatesKeepPeace` |
| `Diplomacy_newcomers` | rebels, and barbarians who die and come back | `IInv` (with the types), `SidesAgree`, `ClocksAgree`, `MaxStateSane`, `DeadKeepPacts`, `CeasefireEnds`, `ArmisticeEnds` |
| `Diplomacy_senate_triad` | a senate inside a team | finds `NoLoveLoveHate` violated |
| `Treaty_wealth` | 2 gold, a city, 2 advances, promised twice | `AcceptedAsSigned`, `GoldNeverNegative`, `PromisesKept` |
| `Treaty_pacts` | alliance and cease-fire clauses, wars, contacts, deaths in between | `RefinesDiplomacy`, `MeetingsOfTheLiving`, `BrokenPactsVoidAcceptances` |
| `TreatySync_views` | two C clients; a web client and a C client | `MeetingsAgree`, `ListsAgree`, `ThumbsAgree` |
| `Voting_turns` | 3 connections, 2 votes | `VotesOfThePresent`, `RemovedByMajority`, `FailsOnlyWhenLost`, `VotesEnd` |
| `Voting_remove` | 4 connections, 2 votes | finds `LoopsStayOnList` violated |
| `TurnCycle_game` | 2 players, 1 or 2 of the tex AI, a city, 2 turns, 2 incidents, four settings | `CopyFollows`, `ThreadWhileNeeded`, `NobodyCutShort`, `WhoeverIsLastEndsTheTurn`, `MessagesHeard`, `TurnsEnd` |
| `TurnCycle_waits` | the same without a timeout, 1 incident | finds `DoneTurnsEnd` violated |
| `Proxy_reload` | 2 WebSockets, 1 request and 2 packets on each | `RequestsInOrder`, `PacketsInOrder`, `EntriesOfOpenSockets`, `RefusedOnlyBehindRequests`, `LeavesNothing`, `QueuedIsSent` |
| `Publite_demand` | one server with 2 failures, two of which one is used, or three started by demand | `OffersAreTrue`, `LimitKept`, `NoForkBomb`, `GamesBecomeKnown`, `ServersComeFree` |

*Why these bounds.* A triad needs three players, and an obligation of an ally
touches at most the two enemies and that ally, so every rule of `Diplomacy`
shows with three; a fourth player adds pairs, not kinds of pairs, and the
theorems cover any number. `TurnsLeft` is 16 in the code; what matters is that
a counter is set, counted down at the two visits of a pair and compared with 1
and 0, for which 2 is the least that gives all cases (the theorems need
`TurnsLeft >= 2` only). Two meetings at once are enough for a promise made
twice, and two clauses for one to change what the other rests on. In
`TreatySync` one request on its way is enough to cross a change; `MaxPackets`
limits only what is on its way when the next request is handled. In `Voting`
with three connections one can leave, one can be removed and one remains, and
two votes are one for each of the nested loops; `LoopsStayOnList` is looked for
with four because there it fails without any change of access levels. The
`VIEW`s leave out `max_state`, which no action reads.
`Treaty_pacts` switches the deadlock check off: its module follows one turn, in
which everybody may be dead.

In `TurnCycle` two incidents are the least for the thread to end and begin
again, and two turns for a "Turn Done" that comes late; one city suffices
because what the thread knows of one does not depend on others. In `Proxy` two
WebSockets are a page and its successor; with one request (and the login) there
are two messages to be lost, doubled or swapped in each direction. In `Publite`
a failure, a crash or a second user concerns one port and its row, and the
manager sees only counts, so the three bounds are alternatives: what needs
several servers has no failures, what needs failures has one server. These
three modules switch the deadlock check off: a game ends, pages are closed for
good, and with all failures and ports used up nothing need happen.

Six more configurations are kept for what the findings below tell of. Each is
run by hand, as `tlc -config Treaty_left_behind.cfg MCTreaty` and so on, and
shows a violation: `Treaty_city_contact.cfg` (`NoLoveLoveHate`),
`Treaty_left_behind.cfg` (`NoTreatyLeftBehind`), `TreatySync_web.cfg` with
`MCTreatySync` (`ListsAgree`), `Voting_player_freed.cfg` with `Voting`
(`NoPlayerFreedInUse`), and `Proxy_both_close.cfg` (`NamesSetFree`) and
`Proxy_late_connect.cfg` (`RefusedOnlyBehindData`) with `MCProxy`.

*Fairness.* `CeasefireEnds` and `ArmisticeEnds` are checked under weak fairness
of the steps of a turn change: the server ends a turn when all are done or
the timeout is over, and runs `update_diplomatics` to its end. `VotesEnd`
assumes in addition that a running game ends its turns however busy players
are (strong fairness of `EndTurn`, because voters who come and go disable and
enable it): the main loop of the server looks at the turn timer between any two
packets. Nothing is assumed of players: no vote, no acceptance and no treaty is
ever bound to come.

`TurnCycle` assumes that the server and the AI thread run, that the timer of a
phase runs out and that a message that has been sent arrives; `Proxy` that the
operating system runs Tornado's loop, each thread and the server; `Publite`
that the manager checks again and again, a process starts, a report arrives or
fails, and time passes. In all three, what users do is not owed.

## Proofs

TLAPS checks every theorem for every value of the constants that the named
assumptions of the modules allow; TLC evaluates these on every run. For
`Diplomacy` that is any number of players `N`, any `Team` function, any set of
players without diplomacy, any `TurnsLeft >= 2`, any senators and grievances;
for `Treaty` and `TreatySync` any clauses, wealth and events; for `Voting` any number of
connections and votes and any percentage from 50; for `TurnCycle` any players,
cities, turns and settings with any phases; for `Proxy` any number of
WebSockets, requests and packets; for `Publite` any types of games, capacities,
limits and numbers of failures.

| Module | Theorem | Says |
|---|---|---|
| `DiplomacyProofs` | `TypeCorrect` | every field stays in its range; in particular no counter goes below 0 |
| | `Invariant` | `IInv` is an invariant |
| | `SidesAlwaysAgree` | the two copies of a pair hold the same state and best state |
| | `TeamsAlwaysHold` | exactly team-mates are in state `team` |
| | `ClocksAlwaysAgree` | outside the turn change both counters of a pair are equal and positive |
| | `AlliesNeverAtWar` | no player is allied with two at war, if players with a senate have no team-mates |
| | `SenatesAlwaysKeepPeace` | two senates without a complaint do not go to war out of a lasting pact |
| | `LadderImplemented` | seen from any two players, every step is one of `PactLadder` or a stutter |
| | `DeadAlwaysKeepPacts` | nothing changes the pacts and counters of the dead |
| | `MaxStateAlwaysSane` | without teams, `max_state` is never below the present state |
| `TreatyProofs` | `AcceptedAlwaysAsSigned` | an acceptance counts only for the clauses that were accepted |
| | `MeetingsAlwaysOfTheLiving` | nobody negotiates with the dead |
| | `TypeCorrect` | every variable keeps its type, the outcome of a treaty too |
| | `GoldStaysNonNegative` | no treaties and no order of them make a player's gold negative |
| | `PromisesAlwaysKept` | a treaty that is executed gives everybody what was promised, but for advances lost on the way |
| | `BrokenPactsAlwaysVoidAcceptances` | whoever loses a pact has accepted nothing any more |
| | `DiplomacyImplemented` | every step is one of `Diplomacy` or a stutter, if `QuietOffers` |
| | `TreatiesNeverMakeTriads` | no player is allied with two at war, if `QuietOffers` |
| `TreatySyncProofs` | `SyncTypes` | every variable keeps its type |
| | `MeetingsAlwaysAgree` | who has read everything shows a dialog only of a meeting that is there and not said to be over, and a C client shows every such |
| | `ThumbsAlwaysAgree` | ... and the acceptances of the server: a C client always, a web client unless there are none |
| | `ListsAlwaysAgree` | ... and any client its clauses in its order, if the offers are `Distinguishable` |
| | `CListsAlwaysAgree` | ... and a C client whatever the offers are |
| `VotingProofs` | `VotesAlwaysOfThePresent` | nobody has a vote or a cast who is not there, but for what is about to be taken back |
| | `RemovalsAlwaysByMajority` | a vote removes a player only by a majority of those who may vote then |
| | `FailsAlwaysWhenLost` | before its second turn a vote fails only when it is lost |
| `TurnCycleProofs` | `TurnCycleTypes` | every variable keeps its type, the queues and calls of the AI thread too |
| | `NobodyEverCutShort` | a turn does not end early before the connected are done with it |
| | `WhoeverIsLastAlwaysEndsTheTurn` | the handler that makes a turn done notices |
| | `ThreadAlwaysWhileNeeded` | the AI thread is there while a player needs it; a wait for it will end |
| | `CopyAlwaysFollows` | what the AI thread knows of the cities, and what it is being told, is what there is |
| `ProxyProofs` | `Invariant` | the inductive invariant of a connection |
| | `EntriesAlwaysOfOpenSockets` | the table has names of open WebSockets only, but for a page closed while its thread changes the socket |
| | `PacketsAlwaysInOrder` | a client has a prefix of what the server gave it, once and in order |
| | `RequestsAlwaysInOrder` | the server sees the login and then requests in order, none twice |
| | `RefusedAlwaysBehindRequests` | a user is refused only behind unread requests of his own old connection, with the same exception |
| `PubliteProofs` | `TypeCorrect` | every variable keeps its type, what was started is what there is |
| | `OffersAlwaysTrue` | what is offered is free, or about to stop, or a report that says otherwise is on its way, or one failed and none built since has arrived |
| | `LimitAlwaysKept` | more than `server_limit` and one are started only if a check has found too few rows |
| | `NeverAForkBomb` | while nothing has been reported, no more are started than the limit and the capacities allow |

*Diplomacy.* None of the properties is inductive by itself. The counters of
a pair are unequal between its two visits in `update_diplomatics`, so
`ClocksAgree` says nothing in the middle of the loop and needs
`CountersInStep`: the counters differ by exactly what the loop has counted so
far, where `Counted(p, q)` is 1 when the loop is past the pair and counts it.
That a counter never stands at 0 while it runs (`Running`) is what makes the
step from 1 to 0 the one that ends a pact, and what keeps `turns_left` a
natural number; it is mutually dependent with the types, so `TypeOK /\ Running`
is proved first. `Shape` collects what the other handlers rely on: both sides
are marked together, teams are fixed, nobody has a state with himself or with
a player to come, and players without diplomacy have wars only.
`IInv == TypeOK /\ Shape /\ Running /\ CountersInStep`.

`AlliesNeverAtWar` adds `NoLoveLoveHate` to `IInv` and goes through the actions
by what they may do: make no new alliance and no war (`NoNewAlliances`), make
an alliance that the rules allow, or start a war after which no common ally is
left. Its condition is needed: `Diplomacy_senate_triad` is the counterexample
without it.

`LadderImplemented` maps a pair to the abstract clock that is the larger of its
two counters: within `update_diplomatics` the first visit of a pair changes
nothing that the ladder sees, and the second is the tick. `CountersInStep` says
which visit is which. What a cancelled alliance drags along is, for each other
pair, an alliance that one of the two leaves (`AllianceLeft`).
`MaxStateAlwaysSane` needs `MaxStateSeen`: an armistice becomes a peace without
`set_diplstate_type`, and that is right because the peace was already counted
when the armistice was made. It assumes `NoTeams`, for which see above.

*Treaty.* `AInv` is `AcceptedAsSigned` with the domains of its functions.
Each way to change the table (`Close`, `RejectAll`, `ChangeClauses`, a
signature) has a lemma, and the actions are sorted by which they use.

What a treaty does is a fold over its clauses. `Course` turns the fold into a
history: worlds `h[0]` to `h[n]`, each the execution of one clause in the one
before (`OutcomeSteps`). Each type of clause has a lemma that says what it
changes and what it leaves alone, and the theorems are inductions along the
course. `GoldStaysNonNegative` carries `GoldLeft`: whoever has not paid yet has
at least the gold he began with, so his one clause of gold (`NoRivals`: there
is only one) is still covered. `PromisesAlwaysKept` carries that each clause,
once executed, stays `Fulfilled` by those that follow: cities come once, there
is one pact, and an embassy is not taken back. `tech_transfer` may lose an
advance on the way: with `techlost_recv` the receiver may get nothing, with
`techlost_donor` the giver may forget it. What is lost in a treaty is chosen at
`Conclude` (`Mistakes`), and `PromisesKept` says that a promised advance arrives
unless its receiver lost it or the two promised it to each other, and that
nobody is without an advance he had but the one who forgot it.
`BrokenPactsAlwaysVoidAcceptances` goes through all that lowers a state, on
either side of a pair, and needs that the two sides hold the same (`Agreed`).

`DiplomacyImplemented` shows that the course of a treaty, as far as pacts are
concerned, is one `MakePact` or nothing, and that its guard holds when the pact
is made. It assumes `QuietOffers`: no city that is offered stands where its new
owner meets somebody new (`Near` is empty). A contact in the middle of a treaty
is a step that `Diplomacy` has not, and the second finding shows what can come
of it, so the hypothesis cannot be dropped; the instances without city clauses,
and those whose cities have no strangers near, satisfy it. From this and
`AlliesNeverAtWar`, which is taken from an instance of `DiplomacyProofs`,
follows `TreatiesNeverMakeTriads`.

*TreatySync.* The invariant is about the packets a client has not read. It
says that they lead, each allowed in its place, from what the client shows to
what it is due to show, the meeting of the server or, for who is misled, none
(`Path` in `DataLemmas`, `WillShow` for C clients, `WillShowInWeb` for web
clients). That a web client takes two acceptances for the end needs that both
have accepted only where it is misled anyway (`ServerInv`). Whatever the server does appends
packets that lead on to what is due then (`PathOn`), reading drops the first
step (`PathFromHead`), and a new connection starts from nothing with packets
that lead all the way. A client with an empty queue is where the path ends. A
C client replays the server's own list rules. A web client finds a clause by
type and giver and replaces none, so its list is only that of the server if no
two clauses that may be offered look alike or replace each other
(`Distinguishable`); both setups of `TreatySync_views` satisfy it, and
`TreatySync_web.cfg` shows what happens without (finding 4).

*Voting.* `Good` is said of each vote: what a connection that is attached has
said is its cast; a cast of another is owed, by a loop whose iterator has not
passed the vote, or by a detachment to come. The loops move their iterator
before they run their body, so after a visit a cast is still owed in exactly
the votes behind the one visited (`MovedOwes`), however deep the stack of
loops. An id is used again only when nothing is owed. With that, the counts of
`check_vote` are those of what has been said (`SameCount`), and the two
properties about the outcome are the arithmetic of its five conditions over
those who may vote (`EverybodyCounted`, `Arithmetic`).

*TurnCycle.* A message of Turn Done is of a turn that is not to come
(`InflightPast`), and who is done in this phase has said so in this turn
(`DonePressed`); so whenever the flag is set, all who are connected have, or
have come since (`ForceJust`). For the thread, `num_players` may be too high
but never too low (`Counted`), and an exit that has been sent stays in the
queue, in a call that has read it, or in the state of the thread, whatever
calls return in between (`Told`): a call passes the strongest abort class on
to the one below it. `CopyInv` says of each city that the messages under way
about it lead from the owner the thread knows to the owner there is, and that
each is allowed in its place: a city is created where none is known, changed
where one is, so no message that the thread would ignore is ever sent. What
`CopyFollows` reads off the last message about a city is where the path ends
(`LeadsToReads`).

*Proxy.* What the server has received and what is under way to it, in this
order, is what has been sent; `RequestInv` says that it is strictly increasing
and begins with the login, and that what the two loops have still to send, and
the queue, is later than all of it, so neither a second loop nor the clearing
of the queue can repeat or reorder a request. In the other direction what the
client has, the thread's buffer and what is under way are consecutive spans of
what the server gave (`PacketInv`); each close cuts off an end. `Wiring` says
which states of the WebSocket, the thread and the two ends of the TCP
connection go together, and `BacklogInv` which connections wait for `accept`.
`Looked` ties what `on_close` has found of the socket to what the socket is now:
they differ only if the socket is `stale`.

`RefusedAlwaysBehindRequests` needs to know what other sockets may still do
(`InTurn`). Only one WebSocket has an entry in the table (`OneEntry`); a socket
without one has said nothing and will not, or its end of the connection is
closed where the server can see it (`NoEntry`), or it is `stale`. So when a
WebSocket is open, every other connection that has said something and is not
`stale` is `Over`, and stands before it in the server's backlog (`Before`).
When the new one is accepted, the old one is found by the same `select`,
because its end of stream can be read; unless it also has requests to read
(`behind`), the first read closes it in this round (`Spent`), in which the new
one cannot be read yet. By the time its login is handled, nobody has the name.

*Publite.* A report that says a server is free, and has no later one behind it,
stays true until it arrives: the report of the first user is built at once and
waits for it, unless a failure makes the server drop that report, and then the
failure is not yet made up for. `PortsInv` says this port by port: reports leave
in the order in which they are built (`ThreadEnds`), only a report built before a
failure is under way while others are dropped, and a goodbye is the last. `CountInv` bounds what the loop of
`publite2.py` may start by the counts it has read, which cover every server
started before unless `unreported` says that one had no row. `SilentInv` is
for the time in which nothing has been heard. Then the metaserver's counts say
nothing, and only `fork_bomb_preventer` stops the manager: a check goes on while
no more servers than the limit have been started, and what it starts counts as
available, of no type more than there are to be (`StartedInCheck`, where the
sum over the types is that of `DataLemmas`).
`IInv == TypeOK /\ PortsInv /\ CountInv /\ LimitKept /\ SilentInv /\ NoForkBomb`.

*Induction.* The library's induction theorems take operators, which the provers
cannot instantiate. `DataLemmas` states them with sets instead: a set that holds
0 and with each number the next holds all numbers (`SetInduction`, from the
well-foundedness of `<`), and the same for the subsets of a finite set
(`SubsetInduction`). From these follow that folds, sums and functions defined by
recursion along a sequence exist, and what they do step by step, so that a claim
about all of a list is an induction over the set of positions where it holds.

*Only model-checked.* The liveness properties, which are out of the prover's
reach: `CeasefireEnds`, `ArmisticeEnds`, `VotesEnd`, `MessagesHeard`,
`TurnsEnd`, `LeavesNothing`, `QueuedIsSent`, `GamesBecomeKnown` and
`ServersComeFree`. Every invariant and every action property of a passing run
is a theorem, some under the hypotheses named above.

## Findings

Each is a disagreement of the code with what its own comments, checks or
documents say. Numbers 1, 5 and 6 are `violation` runs, with the quotation in
`PROJECT.json`; the others can be seen with the configurations named.

1. **A senate breaks the rule of the triad** (`plrhand.c:1052`). When a player
   declares war, a team-mate allied with the victim is to leave the victim, but
   is not given a reason to cancel as the other allies are; a senate refuses,
   and the alliance stays.
2. **A city brings a war into an alliance** (`diplhand.c:539`). The clauses
   are checked before the first is executed. A transferred city makes contact
   with an ally of the giver, which means war, and the alliance that follows
   in the same treaty makes the triad, the "love-love-hate" of `player.c:128`
   (`Treaty_city_contact.cfg`).
3. **A treaty is left behind** (`diplhand.c:356`). When the requirements of an
   advance fail at the second check, both are told that the treaty is
   cancelled, but it stays in the list and the two can meet no more until it
   is removed for another reason (`Treaty_left_behind.cfg`). The clients have been
   told that the meeting is over; `MeetingsAgree` says which of them show none.
4. **The web client drops the wrong clause** (`diplomacy.js:221`). It compares
   type and giver, not the value: of two advances it removes the first
   (`TreatySync_web.cfg`). `doc/HACKING:341` promises that the structures of
   clients and server are updated concurrently.
5. **A vote frees the next one under the loop** (`voting.c:699`). Taking back
   the casts of a leaving connection may pass a vote that removes a player,
   whose connection is detached in turn, and with it the vote it had called:
   the one the outer loop is to visit next.
6. **A finished AI thread ends no turn** (`texaiplayer.c:395`). Without a
   timeout, when the human players have pressed Turn Done before the AI thread
   is finished, nobody asks afterwards whether the turn is done; it goes on
   until somebody connects, leaves or moves again.
7. **A vote frees the player that is leaving** (`connecthand.c:829`).
   `connection_detach` takes back the casts of the leaving connection before it
   is done with its player. If that lets a vote pass that removes this very
   player, the player is freed, and the code goes on to write its
   `is_connected` and to remove it again. The same holds for a second
   connection that closes in the same round (`sernet.c:320`), which still points
   to its player (`Voting_player_freed.cfg`).

Two smaller ones were met on the way. `publite2.py:97` starts a server while
`total <= server_limit`, so there may be one more than the "server limit"
that `pubstatus.py:42` calls the maximum; `LimitKept` says what holds.
`civcom.py:133` wants to take a closed connection off the table through
`self.civwebserver.civcoms`, which the handler does not have, so that only
`on_close` does. `EntriesOfOpenSockets` holds all the same, unless both
threads close at once: `on_close` has found the socket, the thread resets it,
and `on_close` ends in an AttributeError before it comes to the table, so the
name stays taken until the proxy is restarted (`Proxy_both_close.cfg`).
Likewise a page that is closed while its thread connects is taken off the table
before the thread has logged in; the server may then refuse the next page as
the same user (`Proxy_late_connect.cfg`).

## What is not modelled

- *Within modelled components*: shared vision and shared tiles, which
  `handle_diplomacy_cancel_pact` also withdraws; `contact_turns_left`; map and
  vision clauses, which can be executed any number of times; the evaluation of
  treaties by AI players (in the models an AI may do what the handlers allow);
  the vote flags that no command has; send buffers, pings and freezes; observers
  and delegation; wishes of the AI thread and the lock of the city lists; a
  connection that ends inside a packet's header, with which the proxy's loop
  (`civcom.py:94`) is not left, and its limit of connections; more than one
  type of games in the instance of `Publite` (the theorems have any number).
- *Units, cities and the map, rulesets, AI heuristics, scripting*: a large
  sequential rule engine over large data. Its bugs are wrong rules, for which
  a model would be a second copy.
- *Savegames, packets*: conversions, generated or with one case per field.
- *Drawing, dialogs and statistics* of the clients and web services.

## Plan

A (`Diplomacy`) is done; B to H as far as the sections above say. What is left
of each, and what comes next:

| | Module | What is left |
|---|---|---|
| B | `Treaty` | shared vision, which a broken pact also withdraws |
| C | `TreatySync` | several meetings of one client at once |
| D | `Voting` | teams and the flags of votes, once a command sets one |
| E, H | `TexAI`, `TurnCycle` | the end of a turn with `Voting`; the save thread |
| F | `Proxy` | framing and full buffers |
| I | `Research` | one counter of bulbs: none are gained by changing research |
| J | `Connections`, `Authentication` | pings as timers, freezes and thaws, the states of a login |
| K | `distribute()` | checked against its definition on bounded input |

Components that interact are then composed: `TurnCycle` with `Voting` (the end
of a turn), `Treaty` with `TreatySync` (one meeting of several).
