------------------------------ MODULE Publite -------------------------------
(***************************************************************************)
(* How a user finds a server: the process manager publite2 starts game     *)
(* servers by the counts of the metaserver, a server reports what it does  *)
(* (server/meta.c), the metaserver keeps a row for each in its table, and  *)
(* the launcher of the web application offers a server whose row says that *)
(* it is free.                                                             *)
(*                                                                         *)
(* Everything is asynchronous.  A report is a POST by a thread of its own; *)
(* the server goes on, and waits only when it has another one to send: it  *)
(* has decided to send it, and has built it, before it waits.              *)
(* Reports are limited in time; of time this module knows three intervals  *)
(* since the last report: not yet METASERVER_MIN_UPDATE_INTERVAL, not yet  *)
(* METASERVER_REFRESH_INTERVAL, and more.                                  *)
(***************************************************************************)
EXTENDS Integers, Sequences, FiniteSets, FiniteSetsExt

CONSTANTS
    GameTypes,      \* game_types, in the order in which they are started
    Capacity,       \* server_capacity_single, server_capacity_multi
    ServerLimit,    \* server_limit
    RetryCalls,     \* reports that are dropped after one that failed
    MaxServers,     \* bound: servers in all
    Bounds          \* bounds, of which a behaviour has one: servers started,
                    \* servers in use at a time, crashes and failed reports

ASSUME TypesAssumption ==
    GameTypes \in Seq({"singleplayer", "multiplayer"}) \ {<<>>}
ASSUME LimitsAssumption ==
    /\ Capacity \in [{GameTypes[i] : i \in DOMAIN GameTypes} -> Nat]
    /\ ServerLimit \in Nat /\ RetryCalls \in Nat \ {0}
    /\ MaxServers \in Nat
    /\ Bounds \subseteq [servers : Len(GameTypes) .. MaxServers,
                          inUse : Nat, failures : Nat]

\* Servers have consecutive ports: 6000 is 1.
Ports == 1 .. MaxServers

VARIABLES
    \* publite2
    server_list,    \* the game types of the servers started, by port
    stage,          \* the loop of check under way, 0 between two checks
    total,          \* what check believes there is
    available,      \* ... and is free, by type
    \* the servers
    proc,           \* "none", "down", "starting", "pregame", "running" or
                    \* "quitting"
    users,          \* est_connections: "never", "here" or "left"
    age,            \* last_send_timer, as 0, 1 or 2 (or there is none)
    want_update,
    retry,          \* meta_retry_wait
    post,           \* the report under way, or NoReport
    next,           \* the report for which the server waits until the one
                    \* under way has come to its end, or NoReport
    \* the metaserver
    rows,           \* the table: a report by port, or NoReport
    fresh,          \* ports with a stamp of the last minute
    \* the bounds and the history
    bound,
    failures,
    lost,           \* a crash, or a report that failed, and no report built
                    \* since has arrived
    old,            \* the report under way was built before one failed
    unreported,     \* a check found fewer rows than servers
    heard           \* there has been a row

publiteVars == <<server_list, stage, total, available>>
metaVars == <<age, want_update, retry, post, next>>
tableVars == <<rows, fresh, heard>>
boundVars == <<bound, failures>>
historyVars == <<lost, old, unreported>>
vars == <<publiteVars, proc, users, metaVars, tableVars, boundVars,
          historyVars>>

Types == {GameTypes[i] : i \in DOMAIN GameTypes}

\* The state, and whether there are humans; a goodbye.
NoReport == [state |-> "none", humans |-> "none"]
Bye == [state |-> "bye", humans |-> "none"]
Reports ==
    [state : {"Pregame", "Running"}, humans : {"none", "some", "unknown"}]

Up(p) == proc[p] \in {"starting", "pregame", "running", "quitting"}
Reported == {p \in Ports : rows[p] # NoReport}

TypeOK ==
    /\ server_list \in Seq(Types) /\ Len(server_list) \in 0 .. MaxServers
    /\ stage \in 0 .. Len(GameTypes)
    /\ total \in Nat /\ available \in [Types -> Nat]
    /\ proc \in [Ports -> {"none", "down", "starting", "pregame", "running",
                           "quitting"}]
    /\ users \in [Ports -> {"never", "here", "left"}]
    /\ age \in [Ports -> 0 .. 2] /\ want_update \in [Ports -> BOOLEAN]
    /\ retry \in [Ports -> 0 .. RetryCalls + 1]
    /\ post \in [Ports -> Reports \cup {NoReport, Bye}]
    /\ next \in [Ports -> Reports \cup {NoReport, Bye}]
    /\ rows \in [Ports -> Reports \cup {NoReport}]
    /\ fresh \subseteq Reported
    /\ bound \in Bounds /\ failures \in 0 .. bound.failures
    /\ lost \subseteq Ports /\ old \subseteq Ports
    /\ unreported \in BOOLEAN /\ heard \in BOOLEAN
    /\ \A p \in Ports : proc[p] = "none" <=> p > Len(server_list)
    /\ \A p \in Ports : users[p] = "here" => proc[p] \in {"pregame", "running"}

----------------------------------------------------------------------------
(* server/meta.c                                                           *)

\* send_to_metaserver: in pregame "humans" counts connections; in a game it
\* counts players, and nobody asks for it.
Report(state, user) ==
    [state |-> IF state = "running" THEN "Running" ELSE "Pregame",
     humans |-> IF user = "here" THEN "some" ELSE "none"]

\* "dropplrs": before the script has been read there are no players, and
\* nothing is said of humans.
NoPlayers == [state |-> "Pregame", humans |-> "unknown"]

\* A report that comes too early is made up for as soon as possible.
Remember(p, flag) == want_update[p] \/ flag = "META_INFO"

\* Slip: the first connection is reported like anything else.
TooEarlyForAll(p, flag) == flag # "META_GOODBYE" /\ age[p] = 0

\* "Don't allow the user to spam the metaserver with updates"
TooEarly(p, flag) == flag \in {"META_INFO", "META_REFRESH"} /\ age[p] = 0

\* Slip: there is a refresh only if something is to be made up for.
NotDueAlone(p, flag) == flag = "META_REFRESH" /\ ~ want_update[p]

NotDue(p, flag) == flag = "META_REFRESH" /\ ~ want_update[p] /\ age[p] < 2

\* Some calls after a failure do nothing, whatever they are for.
Dropped(p) == retry[p] \in 1 .. RetryCalls

\* The server does nothing but wait.
Waits(p) == next[p] # NoReport

\* send_server_info_to_metaserver.  It looks at everything first; only with
\* the report in its hands it waits for the thread of the report before,
\* whatever that one may come to.
Send(p, flag, report) ==
    /\ ~ Waits(p)
    /\ retry' = [retry EXCEPT ![p] = IF Dropped(p) THEN @ + 1 ELSE 0]
    /\ \/ /\ Dropped(p) \/ (~ TooEarly(p, flag) /\ NotDue(p, flag))
          /\ UNCHANGED <<age, want_update, post, next>>
       \/ /\ ~ Dropped(p) /\ TooEarly(p, flag)
          /\ want_update' = [want_update EXCEPT ![p] = Remember(p, flag)]
          /\ UNCHANGED <<age, post, next>>
       \/ /\ ~ Dropped(p) /\ ~ TooEarly(p, flag) /\ ~ NotDue(p, flag)
          /\ IF post[p] = NoReport
               THEN post' = [post EXCEPT ![p] = report] /\ UNCHANGED next
               ELSE next' = [next EXCEPT ![p] = report] /\ UNCHANGED post
          /\ age' = [age EXCEPT ![p] = IF flag = "META_GOODBYE" THEN 2 ELSE 0]
          /\ want_update' = [want_update EXCEPT ![p] = FALSE]

TimePasses(p) ==
    /\ Up(p) /\ age[p] < 2
    /\ age' = [age EXCEPT ![p] = @ + 1]
    /\ UNCHANGED <<publiteVars, proc, users, want_update, retry, post, next,
                   tableVars, boundVars, historyVars>>

\* Once a second of silence, and every turn.
Refresh(p) ==
    /\ proc[p] \in {"pregame", "running"}
    /\ Send(p, "META_REFRESH", Report(proc[p], users[p]))
    /\ UNCHANGED <<publiteVars, proc, users, tableVars, boundVars,
                   historyVars>>

----------------------------------------------------------------------------
(* What happens in a server.                                               *)

\* srv_prepare of a new process; it has no timer yet.
Start(p) ==
    /\ proc[p] = "down"
    /\ proc' = [proc EXCEPT ![p] = "starting"]
    /\ post' = [post EXCEPT ![p] = NoPlayers]
    /\ age' = [age EXCEPT ![p] = 0]
    /\ UNCHANGED <<publiteVars, users, want_update, retry, next, tableVars,
                   boundVars, historyVars>>

\* srv_main: the script is read, which tells the metaserver of its settings
\* and makes the players; from now on connections are accepted.
Script(p) ==
    /\ proc[p] = "starting"
    /\ proc' = [proc EXCEPT ![p] = "pregame"]
    /\ Send(p, "META_INFO", Report("pregame", "never"))
    /\ UNCHANGED <<publiteVars, users, tableVars, boundVars, historyVars>>

\* establish_new_connection.  A user knows the port from the launcher, or
\* from before; only the first connection matters here.
Connect(p) ==
    /\ proc[p] \in {"pregame", "running"} /\ users[p] # "here"
    /\ Cardinality({q \in Ports \ {p} : users[q] # "never"}) < bound.inUse
    /\ users' = [users EXCEPT ![p] = "here"]
    /\ Send(p, "META_FORCE", Report(proc[p], "here"))
    /\ UNCHANGED <<publiteVars, proc, tableVars, boundVars, historyVars>>

\* srv_ready
StartGame(p) ==
    /\ proc[p] = "pregame" /\ users[p] = "here"
    /\ proc' = [proc EXCEPT ![p] = "running"]
    /\ Send(p, "META_INFO", Report("running", "here"))
    /\ UNCHANGED <<publiteVars, users, tableVars, boundVars, historyVars>>

\* The last connection is lost: "shutting down soon for lack of players".
Leave(p) ==
    /\ users[p] = "here"
    /\ users' = [users EXCEPT ![p] = "left"]
    /\ Send(p, "META_INFO", Report(proc[p], "left"))
    /\ UNCHANGED <<publiteVars, proc, tableVars, boundVars, historyVars>>

\* --quitidle: "shutting down for lack of players", but a server nobody has
\* used stays.
Quit(p) ==
    /\ proc[p] \in {"pregame", "running"} /\ users[p] = "left"
    /\ proc' = [proc EXCEPT ![p] = "quitting"]
    /\ Send(p, "META_INFO", Report(proc[p], "left"))
    /\ UNCHANGED <<publiteVars, users, tableVars, boundVars, historyVars>>

Nobody(p) == "never"

\* The process is gone, with all its variables.
Ended(p) ==
    /\ proc' = [proc EXCEPT ![p] = "down"]
    /\ users' = [users EXCEPT ![p] = Nobody(p)]
    /\ want_update' = [want_update EXCEPT ![p] = FALSE]
    /\ retry' = [retry EXCEPT ![p] = 0]
    /\ age' = [age EXCEPT ![p] = 2]

\* server_quit: META_GOODBYE is sent, and its thread waited for; but it may be
\* one of the calls dropped after a failure, and then the process ends with
\* the report under way.
Goodbye(p) ==
    /\ proc[p] = "quitting" /\ post[p] # Bye
    /\ IF Dropped(p)
         THEN /\ ~ Waits(p)
              /\ Ended(p)
              /\ post' = [post EXCEPT ![p] = NoReport] /\ old' = old \ {p}
              /\ UNCHANGED <<next, lost>>
         ELSE /\ Send(p, "META_GOODBYE", Bye)
              /\ UNCHANGED <<proc, users, lost, old>>
    /\ UNCHANGED <<publiteVars, tableVars, boundVars, unreported>>

\* Whatever ends a server without a goodbye.
Crash(p) ==
    /\ Up(p) /\ failures < bound.failures
    /\ failures' = failures + 1 /\ UNCHANGED bound
    /\ Ended(p)
    /\ post' = [post EXCEPT ![p] = NoReport]
    /\ next' = [next EXCEPT ![p] = NoReport]
    /\ lost' = lost \cup {p} /\ old' = old \ {p}
    /\ UNCHANGED <<publiteVars, tableVars, unreported>>

----------------------------------------------------------------------------
(* The metaserver.                                                         *)

\* A new row has no humans unless the report says so; in an old one "dropplrs"
\* makes them -1.
RowOf(report, row) ==
    IF report = NoPlayers /\ row = NoReport THEN Report("pregame", "never")
    ELSE report

\* doPost: INSERT, UPDATE, or DELETE if it says "bye"
Store(p) ==
    rows' = [rows EXCEPT ![p] =
                 IF post[p] = Bye THEN NoReport ELSE RowOf(post[p], @)]

Stored(p) ==
    /\ Store(p)
    /\ fresh' = IF rows'[p] = NoReport THEN fresh \ {p} ELSE fresh \cup {p}
    /\ heard' = (heard \/ rows'[p] # NoReport)

\* With its goodbye the server has ended.
After(p) ==
    IF post[p] = Bye THEN Ended(p)
    ELSE UNCHANGED <<proc, users, want_update, retry, age>>

\* A thread has ended: the report that waited for it goes out.
NextReport(p) ==
    /\ post' = [post EXCEPT ![p] = next[p]]
    /\ next' = [next EXCEPT ![p] = NoReport]

PostDone(p) ==
    /\ post[p] # NoReport
    /\ Stored(p) /\ NextReport(p)
    /\ lost' = IF p \in old THEN lost ELSE lost \ {p}
    /\ old' = old \ {p}
    /\ After(p)
    /\ UNCHANGED <<publiteVars, boundVars, unreported>>

\* metaserver_failed, of a persistent connection; the report may have arrived.
\* The thread sets meta_retry_wait while the server may be counting it on, so
\* that one of the two is without effect.
PostFails(p) ==
    /\ post[p] # NoReport /\ failures < bound.failures
    /\ failures' = failures + 1 /\ UNCHANGED bound
    /\ Stored(p) \/ UNCHANGED tableVars
    /\ NextReport(p)
    /\ lost' = lost \cup {p}
    /\ old' = IF Waits(p) THEN old \cup {p} ELSE old \ {p}
    /\ IF post[p] = Bye
         THEN Ended(p)
         ELSE /\ \E n \in {1, retry[p]} \ {0} : retry' = [retry EXCEPT ![p] = n]
              /\ UNCHANGED <<proc, users, want_update, age>>
    /\ UNCHANGED <<publiteVars, unreported>>

\* A report is never newer than its stamp, so the stamp of a server whose
\* reports arrive is a minute old only when the next report is due: which it
\* is, for the interval and the minute are the same.
RowAges(p) ==
    /\ p \in fresh
    /\ ~ Up(p) \/ age[p] = 2 \/ post[p] # NoReport \/ p \in lost
    /\ fresh' = fresh \ {p}
    /\ UNCHANGED <<publiteVars, proc, users, metaVars, rows, heard, boundVars,
                   historyVars>>

\* The event freeciv_web_server_cleanup: nothing for half an hour.
Cleanup(p) ==
    /\ rows[p] # NoReport /\ p \notin fresh
    /\ ~ Up(p) \/ p \in lost
    /\ rows' = [rows EXCEPT ![p] = NoReport]
    /\ UNCHANGED <<publiteVars, proc, users, metaVars, fresh, heard, boundVars,
                   historyVars>>

\* CivclientLauncher: one of these is returned.  Nothing is reserved.
Free(p) == rows[p] = Report("pregame", "never")
Offered == {p \in 1 .. Len(server_list) : server_list[p] = "singleplayer" /\ Free(p)}

\* Slip: as for multiplayer games, a user in pregame does not matter.
InPregame(p) == rows[p].state = "Pregame"

Unused(p) == Free(p)

\* RecentServerStatistics: the servers that count as available
Available(t) ==
    {p \in 1 .. Len(server_list) :
        /\ server_list[p] = t /\ p \in fresh
        /\ IF t = "singleplayer" THEN Unused(p) ELSE rows[p].state = "Pregame"}

----------------------------------------------------------------------------
(* publite2                                                                *)

\* Slip: as for the free servers, only those of the last minute are counted.
TotalOfMinute == Cardinality(fresh)

\* ... and of all there are: the answer of the status page
Total == Cardinality(Reported)

\* Slip: the servers that are known are counted, not those started.
ManyKnown == ServerLimit < Cardinality(Reported)

ManyStarted == ServerLimit < Len(server_list)

fork_bomb_preventer == Reported = {} /\ ManyStarted

Check ==
    /\ stage = 0
    /\ total' = Total
    /\ available' = [t \in Types |-> Cardinality(Available(t))]
    /\ unreported' = (unreported \/ Cardinality(Reported) < Len(server_list))
    /\ stage' = IF fork_bomb_preventer THEN 0 ELSE 1
    /\ UNCHANGED <<server_list, proc, users, metaVars, tableVars, boundVars,
                   lost, old>>

\* The limit is looked at before a server is started, and may be reached.
Room == available[GameTypes[stage]] < Capacity[GameTypes[stage]] /\ total <= ServerLimit

\* One round of the loop for a type.
Launch ==
    /\ stage # 0 /\ Room /\ Len(server_list) < bound.servers
    /\ server_list' = Append(server_list, GameTypes[stage])
    /\ proc' = [proc EXCEPT ![Len(server_list')] = "down"]
    /\ total' = total + 1
    /\ available' = [available EXCEPT ![GameTypes[stage]] = @ + 1]
    /\ UNCHANGED <<stage, users, metaVars, tableVars, boundVars, historyVars>>

\* The bound ends a loop as well.  The counts are not used after the last one.
NextType ==
    /\ stage # 0
    /\ ~ Room \/ Len(server_list) = bound.servers
    /\ stage' = IF stage = Len(GameTypes) THEN 0 ELSE stage + 1
    /\ IF stage' = 0
         THEN total' = 0 /\ available' = [t \in Types |-> 0]
         ELSE UNCHANGED <<total, available>>
    /\ UNCHANGED <<server_list, proc, users, metaVars,
                   tableVars, boundVars, historyVars>>

Init ==
    /\ server_list = GameTypes
    /\ stage = 0 /\ total = 0 /\ available = [t \in Types |-> 0]
    /\ proc = [p \in Ports |-> IF p <= Len(GameTypes) THEN "down" ELSE "none"]
    /\ users = [p \in Ports |-> "never"] /\ age = [p \in Ports |-> 2]
    /\ want_update = [p \in Ports |-> FALSE] /\ retry = [p \in Ports |-> 0]
    /\ post = [p \in Ports |-> NoReport] /\ next = [p \in Ports |-> NoReport]
    /\ rows = [p \in Ports |-> NoReport] /\ fresh = {}
    /\ bound \in Bounds /\ failures = 0 /\ lost = {} /\ old = {}
    /\ unreported = FALSE /\ heard = FALSE

Works(p) ==
    Start(p) \/ Script(p) \/ Goodbye(p) \/ PostDone(p) \/ PostFails(p)
Lives(p) == Connect(p) \/ StartGame(p) \/ Leave(p) \/ Quit(p) \/ Crash(p)
Manager == Check \/ Launch \/ NextType

Next ==
    \/ Manager
    \/ \E p \in Ports :
           \/ Works(p) \/ Lives(p) \/ Refresh(p) \/ TimePasses(p)
           \/ RowAges(p) \/ Cleanup(p)

\* The manager checks again and again; a process starts, a report arrives or
\* fails, time passes.  What users do is not owed.
FairSpec ==
    /\ Init /\ [][Next]_vars
    /\ WF_vars(Manager)
    /\ \A p \in Ports :
           WF_vars(Works(p)) /\ WF_vars(Refresh(p)) /\ WF_vars(TimePasses(p))

----------------------------------------------------------------------------
(* Properties.                                                             *)

\* What a server says of itself that makes its row free.
SaysFree == {Report("pregame", "never"), NoPlayers}

\* A server is offered as free when it is waiting for its first user, or about
\* to stop after its last one; otherwise a report that says more is under way
\* or waits for the one before it, or there was a failure and no report built
\* since has arrived.
OffersAreTrue ==
    \A p \in Offered :
        \/ proc[p] \in {"starting", "pregame", "quitting"} /\ users[p] # "here"
        \/ {post[p], next[p]} \ (SaysFree \cup {NoReport}) # {}
        \/ p \in lost

\* More servers than the limit and one (and than one of each type, with which
\* publite2 begins) are started only if at some check a server that had been
\* started had no row.
LimitKept ==
    \/ Len(server_list) <= ServerLimit + 1
    \/ server_list = GameTypes
    \/ unreported

SumOfCapacities == MapThenSumSet(LAMBDA t : Capacity[t], Types)

\* As long as no report comes through, the number of servers started stays
\* within the limit and the servers of one check.
NoForkBomb ==
    \/ Len(server_list) <= ServerLimit + SumOfCapacities
    \/ server_list = GameTypes
    \/ heard

\* A game that goes on is at last known as running: again and again there is a
\* moment at which all of them are.
GamesBecomeKnown ==
    []<>(\A p \in Ports : proc[p] = "running" => rows[p].state = "Running")

\* Again and again a user is offered a server, unless the limit is reached.
ServersComeFree ==
    []<>(\/ Offered # {} \/ Cardinality(Reported) > ServerLimit
         \/ bound.inUse >= bound.servers)
=============================================================================
