---------------------------- MODULE PubliteProofs ---------------------------
(***************************************************************************)
(* Theorems about module Publite, for any number of servers and users and  *)
(* any number of crashes and failed reports: what is offered is free, or   *)
(* the metaserver is about to learn better, or it has missed something;    *)
(* the limit of servers is passed only by counting too few; and not        *)
(* without bound even if no report ever comes through.                     *)
(***************************************************************************)
EXTENDS Publite, DataLemmas

Spec == Init /\ [][Next]_vars

FreeReport == Report("pregame", "never")

\* The server can take a user, or could have.
Waiting(p) ==
    proc[p] \in {"starting", "pregame", "quitting"} /\ users[p] # "here"

\* What holds of one server and its row.  A report under way is sent by a
\* server that drops none, unless it was built before a failure; only after a
\* report was lost are others dropped; a server that does not run has sent
\* nothing, and one that says goodbye does nothing else; and what says "free"
\* without a later report behind it stays true until it has arrived, because
\* who connects has to wait for it.
PortInv(p) ==
    /\ next[p] # NoReport => post[p] # NoReport /\ retry[p] = 0
    /\ p \in old => post[p] # NoReport /\ p \in lost
    /\ post[p] # NoReport => retry[p] = 0 \/ p \in old
    /\ retry[p] # 0 => p \in lost
    /\ post[p] = Bye => next[p] = NoReport
    /\ Bye \in {post[p], next[p]} => proc[p] = "quitting"
    /\ proc[p] \in {"none", "down"} =>
           retry[p] = 0 /\ post[p] = NoReport /\ users[p] = "never"
    /\ proc[p] = "none" => rows[p] = NoReport
    /\ next[p] \in SaysFree => Waiting(p)
    /\ post[p] \in SaysFree /\ next[p] = NoReport => Waiting(p) \/ p \in old
    /\ rows[p] = FreeReport =>
           Waiting(p) \/ post[p] # NoReport \/ p \in lost

PortsInv == \A p \in Ports : PortInv(p)

\* Inside a check that has seen a row for every server, none goes uncounted.
CountInv == stage # 0 /\ ~ unreported => Len(server_list) <= total

\* A check that nothing was reported to has begun within the limit, and what it has
\* started since it counts as available, of no type more than there are to be.
StartedInCheck ==
    /\ \A t \in Types : available[t] <= Capacity[t]
    /\ \E g \in [SUBSET Types -> Nat] :
          Sums(g, Types, available) /\ Len(server_list) <= ServerLimit + g[Types]

SilentInv ==
    ~ heard => /\ \A p \in Ports : rows[p] = NoReport
               /\ stage # 0 => StartedInCheck

IInv == TypeOK /\ PortsInv /\ CountInv /\ LimitKept /\ SilentInv /\ NoForkBomb

\* The conjuncts of TypeOK, by the part of the system that they are about.
ManagerOK ==
    /\ server_list \in Seq(Types) /\ Len(server_list) \in 0 .. MaxServers
    /\ stage \in 0 .. Len(GameTypes)
    /\ total \in Nat /\ available \in [Types -> Nat]
ServersOK ==
    /\ proc \in [Ports -> {"none", "down", "starting", "pregame", "running",
                           "quitting"}]
    /\ users \in [Ports -> {"never", "here", "left"}]
    /\ \A p \in Ports : proc[p] = "none" <=> p > Len(server_list)
    /\ \A p \in Ports : users[p] = "here" => proc[p] \in {"pregame", "running"}
MetaOK ==
    /\ age \in [Ports -> 0 .. 2] /\ want_update \in [Ports -> BOOLEAN]
    /\ retry \in [Ports -> 0 .. RetryCalls + 1]
    /\ post \in [Ports -> Reports \cup {NoReport, Bye}]
    /\ next \in [Ports -> Reports \cup {NoReport, Bye}]
TableOK ==
    /\ rows \in [Ports -> Reports \cup {NoReport}]
    /\ fresh \subseteq Reported /\ heard \in BOOLEAN
BoundsOK ==
    /\ bound \in Bounds /\ failures \in 0 .. bound.failures
    /\ lost \subseteq Ports /\ old \subseteq Ports /\ unreported \in BOOLEAN

----------------------------------------------------------------------------
LEMMA ReportType ==
    ASSUME NEW state, NEW user
    PROVE  Report(state, user) \in Reports
BY DEF Report, Reports

LEMMA Kinds ==
    /\ NoReport # Bye /\ NoReport \notin Reports /\ Bye \notin Reports
    /\ FreeReport \in Reports /\ NoPlayers \in Reports
    /\ FreeReport = [state |-> "Pregame", humans |-> "none"]
    /\ FreeReport # NoPlayers /\ SaysFree = {FreeReport, NoPlayers}
    /\ NoReport \notin SaysFree /\ Bye \notin SaysFree
BY DEF NoReport, Bye, Reports, Report, FreeReport, NoPlayers, SaysFree

\* A report says "free" of nothing but a server in pregame without users.
LEMMA ReportsFree ==
    ASSUME NEW state, NEW user, Report(state, user) \in SaysFree
    PROVE  state # "running" /\ user # "here"
<1>1. Report(state, user).humans \in {"none", "some"}
  BY DEF Report
<1>2. Report(state, user) # NoPlayers
  BY <1>1 DEF NoPlayers
<1>3. /\ Report(state, user).state = "Pregame"
      /\ Report(state, user).humans = "none"
  BY <1>2, Kinds
<1> QED  BY <1>3 DEF Report

\* A row that is free comes from a report that says so.
LEMMA RowsFree ==
    ASSUME NEW report, NEW row, RowOf(report, row) = FreeReport
    PROVE  report \in SaysFree
BY Kinds DEF RowOf

\* The report goes out at once, or waits for the one before.
Sent(p, report) ==
    \/ /\ post[p] = NoReport /\ post'[p] = report /\ next'[p] = NoReport
    \/ /\ post[p] # NoReport /\ post'[p] = post[p] /\ next'[p] = report

\* What a call of send_server_info_to_metaserver does to the variables of
\* module meta.c, whatever it is for.
LEMMA SendFacts ==
    ASSUME TypeOK, NEW p \in Ports, NEW flag,
           NEW report \in Reports \cup {Bye}, Send(p, flag, report)
    PROVE  /\ retry' \in [Ports -> 0 .. RetryCalls + 1]
           /\ post' \in [Ports -> Reports \cup {NoReport, Bye}]
           /\ next' \in [Ports -> Reports \cup {NoReport, Bye}]
           /\ age' \in [Ports -> 0 .. 2] /\ want_update' \in [Ports -> BOOLEAN]
           /\ \A q \in Ports \ {p} :
                  retry'[q] = retry[q] /\ post'[q] = post[q] /\ next'[q] = next[q]
           /\ next[p] = NoReport
           /\ \/ post'[p] = post[p] /\ next'[p] = NoReport
              \/ Sent(p, report) /\ retry'[p] = 0
           /\ retry'[p] # 0 => retry[p] # 0
           /\ flag = "META_FORCE" => retry[p] # 0 \/ Sent(p, report)
<1>1. /\ retry \in [Ports -> 0 .. RetryCalls + 1]
      /\ post \in [Ports -> Reports \cup {NoReport, Bye}]
      /\ next \in [Ports -> Reports \cup {NoReport, Bye}]
      /\ age \in [Ports -> 0 .. 2] /\ want_update \in [Ports -> BOOLEAN]
      /\ RetryCalls \in Nat \ {0}
  BY LimitsAssumption DEF TypeOK
<1>2. /\ retry' = [retry EXCEPT ![p] = IF Dropped(p) THEN @ + 1 ELSE 0]
      /\ next[p] = NoReport
  BY DEF Send, Waits
<1>3. /\ retry' \in [Ports -> 0 .. RetryCalls + 1]
      /\ \A q \in Ports \ {p} : retry'[q] = retry[q]
      /\ retry'[p] # 0 => retry[p] # 0
      /\ ~ Dropped(p) => retry'[p] = 0
  BY <1>1, <1>2 DEF Dropped
<1>4. CASE UNCHANGED <<age, want_update, post, next>>
           /\ (Dropped(p) \/ (~ TooEarly(p, flag) /\ NotDue(p, flag)))
  <2>1. flag = "META_FORCE" => retry[p] # 0
    BY <1>1, <1>4 DEF NotDue, Dropped
  <2> QED  BY <1>1, <1>2, <1>3, <1>4, <2>1
<1>5. CASE /\ ~ Dropped(p) /\ TooEarly(p, flag)
           /\ want_update' = [want_update EXCEPT ![p] = Remember(p, flag)]
           /\ UNCHANGED <<age, post, next>>
  <2>1. Remember(p, flag) \in BOOLEAN
    BY <1>1 DEF Remember
  <2>2. flag # "META_FORCE"
    BY <1>5 DEF TooEarly
  <2>3. want_update' \in [Ports -> BOOLEAN]
    BY <1>1, <1>5, <2>1
  <2> QED  BY <1>1, <1>2, <1>3, <1>5, <2>2, <2>3
<1>6. CASE /\ ~ Dropped(p)
           /\ IF post[p] = NoReport
                THEN post' = [post EXCEPT ![p] = report] /\ UNCHANGED next
                ELSE next' = [next EXCEPT ![p] = report] /\ UNCHANGED post
           /\ age' = [age EXCEPT ![p] = IF flag = "META_GOODBYE" THEN 2 ELSE 0]
           /\ want_update' = [want_update EXCEPT ![p] = FALSE]
  <2>1. /\ post' \in [Ports -> Reports \cup {NoReport, Bye}]
        /\ next' \in [Ports -> Reports \cup {NoReport, Bye}]
        /\ \A q \in Ports \ {p} : post'[q] = post[q] /\ next'[q] = next[q]
        /\ Sent(p, report)
    BY <1>1, <1>2, <1>6 DEF Sent
  <2>2. age' \in [Ports -> 0 .. 2] /\ want_update' \in [Ports -> BOOLEAN]
    BY <1>1, <1>6
  <2> QED  BY <1>2, <1>3, <1>6, <2>1, <2>2
<1> QED  BY <1>4, <1>5, <1>6 DEF Send

----------------------------------------------------------------------------
(* Type correctness.                                                       *)

LEMMA TypeParts ==
    /\ TypeOK <=> ManagerOK /\ ServersOK /\ MetaOK /\ TableOK /\ BoundsOK
    /\ TypeOK' <=> (ManagerOK /\ ServersOK /\ MetaOK /\ TableOK /\ BoundsOK)'
BY DEF TypeOK, ManagerOK, ServersOK, MetaOK, TableOK, BoundsOK

LEMMA Constants ==
    /\ GameTypes \in Seq(Types) /\ Len(GameTypes) \in Nat \ {0}
    /\ MaxServers \in Nat /\ RetryCalls \in Nat \ {0} /\ ServerLimit \in Nat
    /\ \A b \in Bounds : /\ b.servers \in Len(GameTypes) .. MaxServers
                         /\ b.failures \in Nat
<1>1. GameTypes \in Seq({"singleplayer", "multiplayer"}) /\ GameTypes # <<>>
  BY TypesAssumption
<1>2. /\ Len(GameTypes) \in Nat \ {0}
      /\ \A i \in DOMAIN GameTypes : GameTypes[i] \in Types
  BY <1>1 DEF Types
<1>3. GameTypes \in Seq(Types)
  BY <1>1, <1>2
<1>4. \A b \in Bounds : b \in [servers : Len(GameTypes) .. MaxServers,
                               inUse : Nat, failures : Nat]
  BY LimitsAssumption
<1> QED  BY <1>2, <1>3, <1>4, LimitsAssumption

LEMMA TypeInit == Init => TypeOK
<1> SUFFICES ASSUME Init PROVE TypeOK
  OBVIOUS
<1>1. ManagerOK
  <2>1. Len(GameTypes) \in 0 .. MaxServers
    BY Constants DEF Init
  <2>2. available \in [Types -> Nat]
    BY DEF Init
  <2> QED  BY <2>1, <2>2, Constants DEF Init, ManagerOK
<1>2. ServersOK
  BY Constants DEF Init, ServersOK, Ports
<1>3. MetaOK
  BY Constants DEF Init, MetaOK
<1>4. TableOK
  BY DEF Init, TableOK
<1>5. BoundsOK
  <2>1. bound \in Bounds /\ bound.failures \in Nat
    BY Constants DEF Init
  <2>2. failures = 0 /\ lost = {} /\ old = {} /\ unreported = FALSE
    BY DEF Init
  <2>3. failures \in 0 .. bound.failures
    BY <2>1, <2>2
  <2> QED  BY <2>1, <2>2, <2>3 DEF BoundsOK
<1> QED  BY <1>1, <1>2, <1>3, <1>4, <1>5, TypeParts

\* Cardinalities of sets of ports are numbers.
LEMMA Counts ==
    /\ Cardinality(Reported) \in Nat
    /\ TypeOK => \A t \in Types : Cardinality(Available(t)) \in Nat
<1>1. IsFiniteSet(Ports)
  BY FS_Interval, Constants DEF Ports
<1>2. Cardinality(Reported) \in Nat
  BY <1>1, FS_Subset, FS_CardinalityType DEF Reported
<1>3. ASSUME TypeOK, NEW t \in Types PROVE Cardinality(Available(t)) \in Nat
  <2>1. Len(server_list) \in Nat
    BY <1>3 DEF TypeOK
  <2>2. IsFiniteSet(1 .. Len(server_list))
    BY <2>1, FS_Interval
  <2> QED  BY <2>2, FS_Subset, FS_CardinalityType DEF Available
<1> QED  BY <1>2, <1>3

LEMMA TypeManager ==
    ASSUME TypeOK, Manager
    PROVE  TypeOK'
<1> USE TypeParts, Constants
<1>1. CASE Check
  <2>1. ManagerOK'
    <3>1. /\ total' \in Nat /\ available' \in [Types -> Nat]
          /\ stage' \in 0 .. Len(GameTypes)
      BY <1>1, Counts DEF Check, Total
    <3> QED  BY <1>1, <3>1 DEF Check, ManagerOK
  <2>2. ServersOK' /\ MetaOK' /\ TableOK'
    BY <1>1 DEF Check, ServersOK, MetaOK, TableOK, metaVars, tableVars, Reported
  <2>3. BoundsOK'
    BY <1>1 DEF Check, BoundsOK, boundVars
  <2> QED  BY <2>1, <2>2, <2>3
<1>2. CASE Launch
  <2>1. /\ GameTypes[stage] \in Types /\ Len(server_list) \in Nat
        /\ Len(server_list) + 1 \in 1 .. MaxServers
    BY <1>2 DEF Launch, ManagerOK, BoundsOK
  <2>2. /\ server_list' \in Seq(Types)
        /\ Len(server_list') = Len(server_list) + 1
    <3>1. server_list \in Seq(Types)
      BY DEF ManagerOK
    <3>2. server_list' = Append(server_list, GameTypes[stage])
      BY <1>2 DEF Launch
    <3> QED  BY <2>1, <3>1, <3>2
  <2>3. ManagerOK'
    <3>1. total' \in Nat /\ available' \in [Types -> Nat] /\ stage' = stage
      <4>1. total' = total + 1 /\ total \in Nat /\ stage' = stage
        BY <1>2 DEF Launch, ManagerOK
      <4>2. /\ available' = [available EXCEPT ![GameTypes[stage]] = @ + 1]
            /\ available \in [Types -> Nat]
        BY <1>2 DEF Launch, ManagerOK
      <4> QED  BY <2>1, <4>1, <4>2
    <3> QED  BY <2>1, <2>2, <3>1 DEF ManagerOK
  <2>4. ServersOK'
    BY <1>2, <2>1, <2>2 DEF Launch, ServersOK, Ports
  <2>5. MetaOK' /\ TableOK' /\ BoundsOK'
    BY <1>2 DEF Launch, MetaOK, TableOK, BoundsOK, metaVars, tableVars,
                boundVars, historyVars, Reported
  <2> QED  BY <2>3, <2>4, <2>5
<1>3. CASE NextType
  <2>1. ManagerOK'
    BY <1>3 DEF NextType, ManagerOK
  <2>2. ServersOK' /\ MetaOK' /\ TableOK' /\ BoundsOK'
    BY <1>3 DEF NextType, ServersOK, MetaOK, TableOK, BoundsOK, metaVars,
                tableVars, boundVars, historyVars, Reported
  <2> QED  BY <2>1, <2>2
<1> QED  BY <1>1, <1>2, <1>3 DEF Manager

\* A call of send_server_info_to_metaserver keeps the types of its variables.
LEMMA TypeSend ==
    ASSUME TypeOK, NEW p \in Ports, NEW flag,
           NEW report \in Reports \cup {Bye}, Send(p, flag, report)
    PROVE  MetaOK'
BY SendFacts DEF MetaOK

\* The end of a process does, too.
LEMMA TypeEnded ==
    ASSUME TypeOK, NEW p \in Ports, Ended(p), proc[p] # "none",
           server_list' = server_list
    PROVE  /\ ServersOK'
           /\ age' \in [Ports -> 0 .. 2] /\ want_update' \in [Ports -> BOOLEAN]
           /\ retry' \in [Ports -> 0 .. RetryCalls + 1]
<1> USE TypeParts, Constants
<1>1. ServersOK'
  BY DEF Ended, ServersOK, Nobody
<1>2. /\ age' \in [Ports -> 0 .. 2] /\ want_update' \in [Ports -> BOOLEAN]
      /\ retry' \in [Ports -> 0 .. RetryCalls + 1]
  BY DEF Ended, MetaOK
<1> QED  BY <1>1, <1>2

\* And a report that is stored is one.
LEMMA TypeStored ==
    ASSUME TypeOK, NEW p \in Ports, post[p] # NoReport, Stored(p)
    PROVE  TableOK'
<1>1. post[p] \in Reports \cup {Bye}
  BY TypeParts DEF MetaOK
<1>2. /\ rows' = [rows EXCEPT ![p] =
                   IF post[p] = Bye THEN NoReport ELSE RowOf(post[p], @)]
      /\ rows' \in [Ports -> Reports \cup {NoReport}]
  <2>1. \A row : post[p] # Bye => RowOf(post[p], row) \in Reports
    BY <1>1, ReportType DEF RowOf
  <2> QED  BY <2>1, TypeParts DEF Stored, Store, TableOK
<1>3. fresh' \subseteq {q \in Ports : rows'[q] # NoReport}
  BY <1>2, TypeParts DEF Stored, TableOK, Reported
<1>4. heard' \in BOOLEAN
  BY TypeParts DEF Stored, TableOK
<1> QED  BY <1>2, <1>3, <1>4 DEF TableOK, Reported

\* What the reports, the users and the metaserver do to the types.
LEMMA TypeServers ==
    ASSUME TypeOK, NEW p \in Ports, PortInv(p),
           Works(p) \/ Lives(p) \/ Refresh(p) \/ TimePasses(p) \/ RowAges(p) \/ Cleanup(p)
    PROVE  TypeOK'
<1> USE TypeParts, Constants
<1>a. \A s, u : Report(s, u) \in Reports \cup {Bye}
  BY ReportType
<1>b. ASSUME UNCHANGED publiteVars PROVE ManagerOK'
  BY <1>b DEF publiteVars, ManagerOK
<1>c. ASSUME UNCHANGED <<rows, fresh, heard>> PROVE TableOK'
  BY <1>c DEF TableOK, Reported
<1>d. ASSUME UNCHANGED <<publiteVars, proc, users>> PROVE ServersOK'
  BY <1>d DEF publiteVars, ServersOK
<1>e. ASSUME UNCHANGED <<boundVars, unreported>>, lost' \subseteq Ports, old' \subseteq Ports
      PROVE  BoundsOK'
  BY <1>e DEF boundVars, BoundsOK
<1>f. ASSUME failures < bound.failures, failures' = failures + 1, UNCHANGED <<bound, unreported>>,
             lost' \subseteq Ports, old' \subseteq Ports
      PROVE  BoundsOK'
  BY <1>f DEF BoundsOK
<1>g. lost \subseteq Ports /\ old \subseteq Ports
  BY DEF BoundsOK
<1>h. post[p] # NoReport => proc[p] # "none"
  BY DEF PortInv
<1>1. CASE Start(p)
  <2>1. ServersOK'
    BY <1>1 DEF Start, ServersOK, publiteVars
  <2>2. MetaOK'
    BY <1>1, Kinds DEF Start, MetaOK
  <2> QED  BY <1>1, <1>b, <1>c, <1>e, <1>g, <2>1, <2>2 DEF Start, tableVars, historyVars
<1>2. CASE Script(p)
  <2>1. ServersOK' /\ MetaOK'
    BY <1>2, <1>a, TypeSend DEF Script, ServersOK, publiteVars
  <2> QED  BY <1>2, <1>b, <1>c, <1>e, <1>g, <2>1 DEF Script, tableVars, historyVars
<1>3. CASE Goodbye(p)
  <2>1. ServersOK' /\ MetaOK'
    <3>1. CASE /\ Ended(p)
               /\ post' = [post EXCEPT ![p] = NoReport] /\ UNCHANGED next
      BY <1>3, <3>1, TypeEnded DEF Goodbye, publiteVars, MetaOK
    <3>2. CASE Send(p, "META_GOODBYE", Bye) /\ UNCHANGED <<proc, users>>
      BY <1>3, <1>d, <3>2, TypeSend DEF Goodbye
    <3> QED  BY <1>3, <3>1, <3>2 DEF Goodbye
  <2>2. UNCHANGED lost /\ old' \subseteq old
    BY <1>3 DEF Goodbye
  <2> QED  BY <1>3, <1>b, <1>c, <1>e, <1>g, <2>1, <2>2 DEF Goodbye, tableVars
<1>4. CASE PostDone(p) \/ PostFails(p)
  <2>1. TableOK'
    BY <1>4, <1>c, TypeStored DEF PostDone, PostFails, tableVars
  <2>2. ServersOK' /\ MetaOK'
    <3>1. /\ post' \in [Ports -> Reports \cup {NoReport, Bye}]
          /\ next' \in [Ports -> Reports \cup {NoReport, Bye}]
      BY <1>4 DEF PostDone, PostFails, NextReport, MetaOK
    <3>2. CASE post[p] = Bye /\ Ended(p)
      BY <1>4, <1>h, <3>1, <3>2, TypeEnded DEF PostDone, PostFails, publiteVars, MetaOK
    <3>3. CASE UNCHANGED <<proc, users, want_update, retry, age>>
      BY <1>4, <1>d, <3>1, <3>3 DEF PostDone, PostFails, MetaOK
    <3>4. CASE /\ \E n \in {1, retry[p]} \ {0} : retry' = [retry EXCEPT ![p] = n]
               /\ UNCHANGED <<proc, users, want_update, age>>
      <4>1. retry' \in [Ports -> 0 .. RetryCalls + 1]
        BY <3>4 DEF MetaOK
      <4> QED  BY <1>4, <1>d, <3>1, <3>4, <4>1 DEF PostDone, PostFails, MetaOK
    <3> QED  BY <1>4, <3>2, <3>3, <3>4 DEF PostDone, PostFails, After
  <2>3. lost' \subseteq Ports /\ old' \subseteq Ports
    BY <1>4, <1>g DEF PostDone, PostFails
  <2>4. BoundsOK'
    BY <1>4, <1>e, <1>f, <2>3 DEF PostDone, PostFails
  <2> QED  BY <1>4, <1>b, <2>1, <2>2, <2>4 DEF PostDone, PostFails
<1>5. CASE Connect(p)
  <2>1. ServersOK' /\ MetaOK'
    BY <1>5, <1>a, TypeSend DEF Connect, ServersOK, publiteVars
  <2> QED  BY <1>5, <1>b, <1>c, <1>e, <1>g, <2>1 DEF Connect, tableVars, historyVars
<1>6. CASE StartGame(p)
  <2>1. ServersOK' /\ MetaOK'
    BY <1>6, <1>a, TypeSend DEF StartGame, ServersOK, publiteVars
  <2> QED  BY <1>6, <1>b, <1>c, <1>e, <1>g, <2>1 DEF StartGame, tableVars, historyVars
<1>7. CASE Leave(p)
  <2>1. ServersOK' /\ MetaOK'
    BY <1>7, <1>a, TypeSend DEF Leave, ServersOK, publiteVars
  <2> QED  BY <1>7, <1>b, <1>c, <1>e, <1>g, <2>1 DEF Leave, tableVars, historyVars
<1>8. CASE Quit(p)
  <2>1. ServersOK' /\ MetaOK'
    BY <1>8, <1>a, TypeSend DEF Quit, ServersOK, publiteVars
  <2> QED  BY <1>8, <1>b, <1>c, <1>e, <1>g, <2>1 DEF Quit, tableVars, historyVars
<1>9. CASE Crash(p)
  <2>1. ServersOK' /\ MetaOK'
    BY <1>9, TypeEnded DEF Crash, Up, publiteVars, MetaOK
  <2> QED  BY <1>9, <1>b, <1>c, <1>f, <1>g, <2>1 DEF Crash, tableVars
<1>10. CASE Refresh(p)
  <2>1. MetaOK'
    BY <1>10, <1>a, TypeSend DEF Refresh
  <2> QED  BY <1>10, <1>b, <1>c, <1>d, <1>e, <1>g, <2>1 DEF Refresh, tableVars, historyVars
<1>11. CASE TimePasses(p)
  <2>1. MetaOK'
    <3>1. age \in [Ports -> 0 .. 2] /\ age[p] < 2
      BY <1>11 DEF TimePasses, MetaOK
    <3>2. age' \in [Ports -> 0 .. 2]
      BY <1>11, <3>1 DEF TimePasses
    <3> QED  BY <1>11, <3>2 DEF TimePasses, MetaOK
  <2> QED  BY <1>11, <1>b, <1>c, <1>d, <1>e, <1>g, <2>1 DEF TimePasses, tableVars, historyVars
<1>12. CASE RowAges(p)
  <2>1. TableOK' /\ MetaOK'
    BY <1>12 DEF RowAges, TableOK, MetaOK, metaVars, Reported
  <2> QED  BY <1>12, <1>b, <1>d, <1>e, <1>g, <2>1 DEF RowAges, historyVars
<1>13. CASE Cleanup(p)
  <2>1. TableOK' /\ MetaOK'
    BY <1>13 DEF Cleanup, TableOK, MetaOK, metaVars, Reported
  <2> QED  BY <1>13, <1>b, <1>d, <1>e, <1>g, <2>1 DEF Cleanup, historyVars
<1> QED
  BY <1>1, <1>2, <1>3, <1>4, <1>5, <1>6, <1>7, <1>8, <1>9, <1>10, <1>11, <1>12,
     <1>13 DEF Works, Lives

----------------------------------------------------------------------------
(* What holds of each server and its row.                                  *)

LEMMA PortsInit == Init => PortsInv
BY Kinds DEF Init, PortsInv, PortInv

\* What nobody touches stays as it is.
LEMMA Untouched ==
    ASSUME NEW q \in Ports, PortInv(q),
           proc'[q] = proc[q], users'[q] = users[q], post'[q] = post[q],
           next'[q] = next[q], retry'[q] = retry[q], rows'[q] = rows[q],
           q \in lost => q \in lost', q \in old <=> q \in old'
    PROVE  PortInv(q)'
BY DEF PortInv, Waiting

\* A server that sends a report which says "free" only of a server that is.
LEMMA Reporting ==
    ASSUME TypeOK, PortsInv, NEW p \in Ports, NEW flag,
           NEW report \in Reports \cup {Bye}, Send(p, flag, report),
           UNCHANGED <<rows, lost, old>>,
           \A q \in Ports \ {p} : proc'[q] = proc[q] /\ users'[q] = users[q],
           proc'[p] \notin {"none", "down"}, post[p] # Bye,
           report = Bye => proc'[p] = "quitting",
           report \in SaysFree => Waiting(p)',
           Waiting(p) => Waiting(p)' \/ (flag = "META_FORCE" /\ report \notin SaysFree),
           proc[p] \in {"starting", "pregame", "running", "quitting"}
    PROVE  PortsInv'
<1>1. SUFFICES ASSUME NEW q \in Ports PROVE PortInv(q)'
  BY DEF PortsInv
<1>2. PortInv(q)
  BY DEF PortsInv
<1>3. CASE q # p
  BY <1>2, <1>3, SendFacts, Untouched
<1>4. CASE q = p
  <2>1. report # NoReport /\ NoReport # Bye /\ NoReport \notin SaysFree
    BY Kinds
  <2>2. PortInv(p)
    BY DEF PortsInv
  <2>3. /\ next[p] = NoReport
        /\ \/ post'[p] = post[p] /\ next'[p] = NoReport
           \/ Sent(p, report) /\ retry'[p] = 0
        /\ retry'[p] # 0 => retry[p] # 0
        /\ flag = "META_FORCE" => retry[p] # 0 \/ Sent(p, report)
    BY SendFacts
  <2>4. /\ post[p] # NoReport => retry[p] = 0 \/ p \in old
        /\ p \in old => post[p] # NoReport /\ p \in lost
        /\ retry[p] # 0 => p \in lost
        /\ post[p] \in SaysFree => Waiting(p) \/ p \in old
        /\ rows[p] = FreeReport => Waiting(p) \/ post[p] # NoReport \/ p \in lost
    BY <2>2, <2>3 DEF PortInv
  <2>5. /\ next'[p] # NoReport => post'[p] # NoReport /\ retry'[p] = 0
        /\ p \in old' => post'[p] # NoReport /\ p \in lost'
        /\ post'[p] # NoReport => retry'[p] = 0 \/ p \in old'
        /\ retry'[p] # 0 => p \in lost'
    BY <2>1, <2>3, <2>4 DEF Sent
  <2>6. /\ post'[p] = Bye => next'[p] = NoReport
        /\ Bye \in {post'[p], next'[p]} => proc'[p] = "quitting"
    BY <2>1, <2>3 DEF Sent
  <2>7. /\ next'[p] \in SaysFree => Waiting(p)'
        /\ post'[p] \in SaysFree /\ next'[p] = NoReport => Waiting(p)' \/ p \in old'
    BY <2>1, <2>3, <2>4 DEF Sent
  <2>8. rows'[p] = FreeReport => Waiting(p)' \/ post'[p] # NoReport \/ p \in lost'
    BY <2>1, <2>3, <2>4 DEF Sent
  <2> QED  BY <1>4, <2>5, <2>6, <2>7, <2>8 DEF PortInv
<1> QED  BY <1>3, <1>4

\* A server that has ended: nothing is left of it but its row.
LEMMA Ending ==
    ASSUME TypeOK, PortsInv, NEW p \in Ports, Ended(p),
           post'[p] = NoReport, next'[p] = NoReport, p \notin old',
           \A q \in Ports \ {p} :
               /\ post'[q] = post[q] /\ next'[q] = next[q] /\ rows'[q] = rows[q]
               /\ (q \in lost => q \in lost') /\ (q \in old <=> q \in old'),
           rows'[p] = FreeReport => p \in lost'
    PROVE  PortsInv'
<1>1. SUFFICES ASSUME NEW q \in Ports PROVE PortInv(q)'
  BY DEF PortsInv
<1>2. CASE q # p
  <2>1. proc'[q] = proc[q] /\ users'[q] = users[q] /\ retry'[q] = retry[q]
    BY <1>2 DEF Ended, TypeOK
  <2> QED  BY <1>2, <2>1, Untouched DEF PortsInv
<1>3. CASE q = p
  <2>1. /\ proc'[p] = "down" /\ users'[p] = "never" /\ retry'[p] = 0
    BY DEF Ended, TypeOK, Nobody
  <2> QED  BY <1>3, <2>1, Kinds DEF PortInv
<1> QED  BY <1>2, <1>3

\* The end of a thread: its report has been stored or not, and the one that
\* waited for it is under way.
LEMMA ThreadEnds ==
    ASSUME TypeOK, PortsInv, NEW p \in Ports, PostDone(p) \/ PostFails(p)
    PROVE  PortsInv'
<1>1. PortInv(p)
  BY DEF PortsInv
<1>2. /\ post[p] # NoReport /\ post'[p] = next[p] /\ next'[p] = NoReport
      /\ \A q \in Ports \ {p} : post'[q] = post[q] /\ next'[q] = next[q]
  BY DEF PostDone, PostFails, NextReport, TypeOK
<1>3. \A q \in Ports \ {p} :
          /\ rows'[q] = rows[q]
          /\ (q \in lost => q \in lost') /\ (q \in old <=> q \in old')
  BY DEF PostDone, PostFails, Stored, Store, TypeOK, tableVars
<1>4. \/ /\ p \in lost' /\ (p \in old' <=> next[p] # NoReport)
      \/ /\ PostDone(p) /\ p \notin old' /\ (p \in lost' <=> p \in lost /\ p \in old)
         /\ rows'[p] = IF post[p] = Bye THEN NoReport ELSE RowOf(post[p], rows[p])
  <2>1. CASE PostDone(p)
    <3>1. rows'[p] = IF post[p] = Bye THEN NoReport ELSE RowOf(post[p], rows[p])
      BY <2>1 DEF PostDone, Stored, Store, TypeOK
    <3>2. p \notin old' /\ (p \in lost' <=> p \in lost /\ p \in old)
      BY <2>1 DEF PostDone
    <3> QED  BY <2>1, <3>1, <3>2
  <2>2. CASE PostFails(p)
    BY <2>2 DEF PostFails, Waits
  <2> QED  BY <2>1, <2>2
<1>5. CASE post[p] = Bye
  <2>1. next[p] = NoReport
    BY <1>1, <1>5 DEF PortInv
  <2>2. Ended(p)
    BY <1>5 DEF PostDone, PostFails, After
  <2>3. p \notin old' /\ (rows'[p] = FreeReport => p \in lost')
    BY <1>4, <1>5, <2>1, Kinds
  <2> QED  BY <1>2, <1>3, <2>1, <2>2, <2>3, Ending
<1>6. CASE post[p] # Bye
  <2>1. /\ UNCHANGED <<proc, users>>
        /\ \A q \in Ports \ {p} : retry'[q] = retry[q]
        /\ PostDone(p) => retry'[p] = retry[p]
    BY <1>6 DEF PostDone, PostFails, After, TypeOK
  <2>2. SUFFICES ASSUME NEW q \in Ports PROVE PortInv(q)'
    BY DEF PortsInv
  <2>3. CASE q # p
    BY <1>2, <1>3, <2>1, <2>3, Untouched DEF PortsInv
  <2>4. CASE q = p
    <3>1. /\ proc[p] \notin {"none", "down"}
          /\ next[p] # Bye \/ proc[p] = "quitting"
          /\ next[p] # NoReport => retry[p] = 0
          /\ next[p] \in SaysFree => Waiting(p)
          /\ p \in old => p \in lost
          /\ retry[p] = 0 \/ p \in old
          /\ post[p] \in SaysFree => Waiting(p) \/ p \in old \/ next[p] # NoReport
      BY <1>1, <1>2 DEF PortInv
    <3>2. Waiting(p)' = Waiting(p) /\ proc'[p] = proc[p]
      BY <2>1 DEF Waiting
    <3>3. rows'[p] = FreeReport => Waiting(p)' \/ post'[p] # NoReport \/ p \in lost'
      <4>1. CASE p \in lost'
        BY <4>1
      <4>2. CASE p \notin lost'
        <5>1. rows'[p] = RowOf(post[p], rows[p]) /\ ~ (p \in lost /\ p \in old)
          BY <1>4, <1>6, <4>2
        <5>2. rows'[p] = FreeReport => post[p] \in SaysFree
          BY <5>1, RowsFree
        <5> QED  BY <1>2, <3>1, <3>2, <5>1, <5>2
      <4> QED  BY <4>1, <4>2
    <3>4. /\ p \in old' => post'[p] # NoReport /\ p \in lost'
          /\ post'[p] # NoReport => retry'[p] = 0 \/ p \in old'
          /\ retry'[p] # 0 => p \in lost'
      BY <1>2, <1>4, <2>1, <3>1
    <3> QED  BY <1>2, <2>4, <3>1, <3>2, <3>3, <3>4, Kinds DEF PortInv
  <2> QED  BY <2>3, <2>4
<1> QED  BY <1>5, <1>6

LEMMA PortsManager ==
    ASSUME TypeOK, PortsInv, Manager
    PROVE  PortsInv'
<1>1. SUFFICES ASSUME NEW q \in Ports PROVE PortInv(q)'
  BY DEF PortsInv
<1>2. PortInv(q)
  BY DEF PortsInv
<1>3. CASE Check \/ NextType
  BY <1>2, <1>3, Untouched DEF Check, NextType, metaVars, tableVars,
                                 historyVars
<1>4. CASE Launch
  <2>1. /\ Len(server_list') = Len(server_list) + 1 /\ Len(server_list) \in Nat
        /\ UNCHANGED <<users, post, next, retry, rows, lost, old>>
    <3>1. GameTypes[stage] \in Types
      BY <1>4, Constants DEF Launch, TypeOK
    <3> QED  BY <1>4, <3>1 DEF Launch, TypeOK, metaVars, tableVars, historyVars
  <2>2. CASE q # Len(server_list')
    BY <1>2, <1>4, <2>1, <2>2, Untouched DEF Launch, TypeOK
  <2>3. CASE q = Len(server_list')
    <3>1. proc[q] = "none" /\ proc'[q] = "down"
      BY <1>4, <2>1, <2>3 DEF Launch, TypeOK
    <3> QED  BY <1>2, <2>1, <3>1, Kinds DEF PortInv
  <2> QED  BY <2>2, <2>3
<1> QED  BY <1>3, <1>4 DEF Manager

LEMMA PortsStep ==
    ASSUME TypeOK, PortsInv, NEW p \in Ports,
           Works(p) \/ Lives(p) \/ Refresh(p) \/ TimePasses(p) \/ RowAges(p) \/ Cleanup(p)
    PROVE  PortsInv'
<1>a. PortInv(p)
  BY DEF PortsInv
<1>b. \A s, u : Report(s, u) \in Reports \cup {Bye} /\ Report(s, u) \notin {NoReport, Bye}
  BY ReportType, Kinds
<1>c. proc[p] # "quitting" => post[p] # Bye
  BY <1>a DEF PortInv
<1>1. CASE Start(p)
  <2>1. SUFFICES ASSUME NEW q \in Ports PROVE PortInv(q)'
    BY DEF PortsInv
  <2>2. CASE q # p
    BY <1>1, <2>2, Untouched DEF Start, TypeOK, PortsInv, tableVars, historyVars
  <2>3. CASE q = p
    <3>1. /\ proc'[p] = "starting" /\ users'[p] = "never" /\ retry'[p] = 0
          /\ post'[p] = NoPlayers /\ next'[p] = NoReport /\ p \notin old'
      BY <1>1, <1>a DEF Start, PortInv, TypeOK, historyVars
    <3> QED  BY <2>3, <3>1, Kinds DEF PortInv, Waiting
  <2> QED  BY <2>2, <2>3
<1>2. CASE Script(p)
  <2>1. /\ proc'[p] = "pregame" /\ UNCHANGED <<users, rows, lost, old>>
        /\ \A q \in Ports \ {p} : proc'[q] = proc[q] /\ users'[q] = users[q]
    BY <1>2 DEF Script, TypeOK, tableVars, historyVars
  <2>2. Waiting(p)'
    BY <1>2, <2>1 DEF Script, Waiting, TypeOK
  <2> QED  BY <1>2, <1>b, <1>c, <2>1, <2>2, Reporting DEF Script
<1>3. CASE Goodbye(p)
  <2>1. CASE /\ Dropped(p) /\ ~ Waits(p) /\ Ended(p)
             /\ post' = [post EXCEPT ![p] = NoReport] /\ old' = old \ {p}
             /\ UNCHANGED <<next, lost>>
    <3>1. p \in lost'
      BY <1>a, <2>1 DEF Dropped, PortInv
    <3>2. /\ post'[p] = NoReport /\ next'[p] = NoReport /\ p \notin old'
          /\ \A q \in Ports \ {p} :
                 /\ post'[q] = post[q] /\ next'[q] = next[q] /\ rows'[q] = rows[q]
                 /\ (q \in lost => q \in lost') /\ (q \in old <=> q \in old')
      BY <1>3, <2>1 DEF Goodbye, Waits, TypeOK, tableVars
    <3> QED  BY <2>1, <3>1, <3>2, Ending
  <2>2. CASE Send(p, "META_GOODBYE", Bye) /\ UNCHANGED <<proc, users, lost, old>>
    BY <1>3, <2>2, Reporting, Kinds DEF Goodbye, Waiting, tableVars
  <2> QED  BY <1>3, <2>1, <2>2 DEF Goodbye
<1>4. CASE PostDone(p) \/ PostFails(p)
  BY <1>4, ThreadEnds
<1>5. CASE Connect(p)
  <2>1. Report(proc[p], "here") \notin SaysFree
    BY ReportsFree
  <2> QED
    BY <1>5, <1>b, <1>c, <2>1, Reporting DEF Connect, TypeOK, tableVars, historyVars
<1>6. CASE StartGame(p)
  <2>1. Report("running", "here") \notin SaysFree
    BY ReportsFree
  <2>2. ~ Waiting(p)
    BY <1>6 DEF StartGame, Waiting
  <2> QED
    BY <1>6, <1>b, <1>c, <2>1, <2>2, Reporting DEF StartGame, TypeOK, tableVars,
       historyVars
<1>7. CASE Leave(p)
  <2>1. Report(proc[p], "left") \in SaysFree => proc[p] # "running"
    BY ReportsFree
  <2>2. /\ ~ Waiting(p) /\ proc[p] \in {"pregame", "running"}
        /\ users'[p] = "left" /\ UNCHANGED <<proc, rows, lost, old>>
        /\ \A q \in Ports \ {p} : users'[q] = users[q]
    BY <1>7 DEF Leave, Waiting, TypeOK, tableVars, historyVars
  <2>3. Report(proc[p], "left") \in SaysFree => Waiting(p)'
    BY <2>1, <2>2 DEF Waiting
  <2> QED  BY <1>7, <1>b, <1>c, <2>2, <2>3, Reporting DEF Leave
<1>8. CASE Quit(p)
  <2>1. Waiting(p)' /\ UNCHANGED <<rows, lost, old>>
    BY <1>8 DEF Quit, TypeOK, Waiting, tableVars, historyVars
  <2>2. /\ proc'[p] = "quitting" /\ proc[p] \in {"pregame", "running"}
        /\ \A q \in Ports \ {p} : proc'[q] = proc[q] /\ users'[q] = users[q]
    BY <1>8 DEF Quit, TypeOK
  <2> QED  BY <1>8, <1>b, <1>c, <2>1, <2>2, Reporting DEF Quit
<1>9. CASE Crash(p)
  <2>1. /\ post'[p] = NoReport /\ next'[p] = NoReport /\ p \notin old' /\ p \in lost'
        /\ \A q \in Ports \ {p} :
               /\ post'[q] = post[q] /\ next'[q] = next[q] /\ rows'[q] = rows[q]
               /\ (q \in lost => q \in lost') /\ (q \in old <=> q \in old')
    BY <1>9 DEF Crash, TypeOK, tableVars
  <2> QED  BY <1>9, <2>1, Ending DEF Crash
<1>10. CASE Refresh(p)
  <2>1. Report(proc[p], users[p]) \in SaysFree => Waiting(p)'
    BY <1>10, ReportsFree DEF Refresh, Waiting
  <2>2. /\ UNCHANGED <<proc, users, rows, lost, old>>
        /\ proc[p] \in {"pregame", "running"}
        /\ Waiting(p) => Waiting(p)'
    BY <1>10 DEF Refresh, Waiting, tableVars, historyVars
  <2> QED  BY <1>10, <1>b, <1>c, <2>1, <2>2, Reporting DEF Refresh
<1>11. CASE TimePasses(p)
  BY <1>11, Untouched DEF TimePasses, PortsInv, tableVars, historyVars
<1>12. CASE RowAges(p)
  BY <1>12, Untouched DEF RowAges, PortsInv, metaVars, historyVars
<1>13. CASE Cleanup(p)
  <2>1. UNCHANGED <<proc, users, post, next, retry, lost, old>>
    BY <1>13 DEF Cleanup, metaVars, historyVars
  <2>2. SUFFICES ASSUME NEW q \in Ports PROVE PortInv(q)'
    BY DEF PortsInv
  <2>3. rows'[q] \in {rows[q], NoReport}
    BY <1>13 DEF Cleanup, TypeOK
  <2> QED  BY <2>1, <2>3, Kinds DEF PortInv, PortsInv, Waiting
<1> QED
  BY <1>1, <1>2, <1>3, <1>4, <1>5, <1>6, <1>7, <1>8, <1>9, <1>10, <1>11, <1>12,
     <1>13 DEF Works, Lives

----------------------------------------------------------------------------
(* The limit.                                                              *)

\* Inside a check with a row for every server none goes uncounted, so the
\* loop that starts servers sees when there are more than the limit.
LEMMA LimitStep ==
    ASSUME TypeOK, CountInv, LimitKept, [Next]_vars
    PROVE  CountInv' /\ LimitKept'
<1> USE DEF CountInv, LimitKept
<1>1. Len(server_list) \in Nat /\ total \in Nat /\ ServerLimit \in Nat
  BY Constants DEF TypeOK
<1>2. CASE Check
  <2>1. /\ server_list' = server_list /\ total' = Cardinality(Reported)
        /\ unreported' = (unreported \/ Cardinality(Reported) < Len(server_list))
    BY <1>2 DEF Check, Total
  <2>2. unreported => unreported'
    BY <2>1, Zenon
  <2>3. ~ unreported' => ~ (Cardinality(Reported) < Len(server_list))
    BY <2>1, Zenon
  <2> QED  BY <1>1, <2>1, <2>2, <2>3, Counts
<1>3. CASE Launch
  <2>1. GameTypes[stage] \in Types
    BY <1>3, Constants DEF Launch, TypeOK
  <2>2. Len(server_list') = Len(server_list) + 1
    BY <1>3, <2>1 DEF Launch, TypeOK
  <2> QED  BY <1>1, <1>3, <2>2 DEF Launch, Room, historyVars
<1>4. CASE NextType
  BY <1>1, <1>4 DEF NextType, historyVars
<1>5. CASE UNCHANGED <<publiteVars, unreported>>
  BY <1>5 DEF publiteVars
<1>6. ASSUME NEW p \in Ports,
             Works(p) \/ Lives(p) \/ Refresh(p) \/ TimePasses(p) \/ RowAges(p) \/ Cleanup(p)
      PROVE  UNCHANGED <<publiteVars, unreported>>
  BY <1>6 DEF Works, Lives, Start, Script, Goodbye, PostDone, PostFails, Connect,
              StartGame, Leave, Quit, Crash, Refresh, TimePasses, RowAges, Cleanup,
              historyVars
<1>7. CASE UNCHANGED vars
  BY <1>5, <1>7 DEF vars, historyVars
<1> QED  BY <1>2, <1>3, <1>4, <1>5, <1>6, <1>7 DEF Next, Manager

----------------------------------------------------------------------------
(* Before the first report.                                                *)

LEMMA TypesFinite == IsFiniteSet(Types)
<1> DEFINE at == [i \in 1 .. Len(GameTypes) |-> GameTypes[i]]
<1>1. Len(GameTypes) \in Nat /\ DOMAIN GameTypes = 1 .. Len(GameTypes)
  BY Constants
<1>2. at \in Surjection(1 .. Len(GameTypes), Types)
  BY <1>1 DEF Surjection, Types
<1> HIDE DEF at
<1> QED
  BY <1>1, <1>2, FS_Interval, FS_Surjection

LEMMA CapacityType ==
    /\ Capacity \in [Types -> Nat]
    /\ \E g \in [SUBSET Types -> Nat] :
          Sums(g, Types, Capacity) /\ SumOfCapacities = g[Types]
<1> DEFINE Iter(g) == g = [s \in SUBSET Types |->
                             IF s = {} THEN 0
                             ELSE LET x == CHOOSE y \in s : TRUE
                                  IN  Capacity[x] + g[s \ {x}]]
           iter == CHOOSE g : Iter(g)
<1>1. Capacity \in [Types -> Nat]
  BY LimitsAssumption DEF Types
<1>2. SumOfCapacities = iter[Types]
  BY DEF SumOfCapacities, MapThenSumSet, MapThenFoldSet
<1>3. PICK g \in [SUBSET Types -> Nat] : Sums(g, Types, Capacity)
  BY <1>1, TypesFinite, SumExists
<1>4. Iter(g)
  BY <1>3 DEF Sums, One
<1>5. Iter(iter)
  <2> HIDE DEF Iter
  <2> QED
    BY <1>4
<1> HIDE DEF iter
<1>6. Sums(iter, Types, Capacity)
  BY <1>5 DEF Sums, One
<1>7. iter \in [SUBSET Types -> Nat]
  <2> DEFINE U == {s \in SUBSET Types : iter[s] = g[s]}
  <2>1. {} \in U
    BY <1>3, <1>6 DEF Sums
  <2>2. ASSUME NEW s \in SUBSET Types, s # {}, s \ {One(s)} \in U
        PROVE  s \in U
    BY <1>3, <1>6, <2>2 DEF Sums
  <2> HIDE DEF U
  <2>3. SUBSET Types \subseteq U
    BY <2>1, <2>2, TypesFinite, SubsetInduction
  <2>4. \A s \in SUBSET Types : iter[s] = g[s]
    BY <2>3 DEF U
  <2>5. iter = [s \in SUBSET Types |-> iter[s]]
    BY <1>5
  <2> HIDE DEF Iter
  <2> QED
    BY <2>4, <2>5
<1> QED
  BY <1>1, <1>2, <1>6, <1>7

\* So as long as nothing was reported the servers started are not more than the limit and
\* the capacities.
LEMMA StartedIsBounded ==
    ASSUME TypeOK, StartedInCheck
    PROVE  Len(server_list) <= ServerLimit + SumOfCapacities
<1>1. /\ available \in [Types -> Nat] /\ Len(server_list) \in Nat /\ ServerLimit \in Nat
  BY Constants DEF TypeOK
<1>2. PICK g \in [SUBSET Types -> Nat] :
          Sums(g, Types, available) /\ Len(server_list) <= ServerLimit + g[Types]
  BY DEF StartedInCheck
<1>3. PICK h \in [SUBSET Types -> Nat] :
          Sums(h, Types, Capacity) /\ SumOfCapacities = h[Types]
  BY CapacityType
<1>4. \A t \in Types : available[t] <= Capacity[t]
  BY DEF StartedInCheck
<1>5. g[Types] <= h[Types]
  BY <1>1, <1>2, <1>3, <1>4, CapacityType, TypesFinite, SumsCompared
<1>6. g[Types] \in Nat /\ h[Types] \in Nat
  OBVIOUS
<1> QED
  BY <1>1, <1>2, <1>3, <1>5, <1>6

\* A check that begins now has not started any.
LEMMA CheckBegins ==
    ASSUME TypeOK, SilentInv, ~ heard, Check, stage' # 0
    PROVE  StartedInCheck'
<1>1. /\ ~ fork_bomb_preventer /\ server_list' = server_list
      /\ available' = [t \in Types |-> Cardinality(Available(t))]
  BY DEF Check
<1>2. Reported = {}
  BY DEF SilentInv, Reported
<1>3. ASSUME NEW t \in Types
      PROVE  Available(t) = {}
  BY <1>2 DEF Available, TypeOK
<1>4. available' \in [Types -> Nat] /\ \A t \in Types : available'[t] = 0
  BY <1>1, <1>3, FS_EmptySet
<1>5. Len(server_list) <= ServerLimit /\ Len(server_list) \in Nat /\ ServerLimit \in Nat
  BY <1>1, <1>2, Constants DEF fork_bomb_preventer, ManyStarted, TypeOK
<1>6. PICK g \in [SUBSET Types -> Nat] : Sums(g, Types, available')
  BY <1>4, TypesFinite, SumExists
<1>7. Len(server_list') <= ServerLimit + g[Types]
  <2>1. g[Types] \in Nat
    OBVIOUS
  <2> QED
    BY <1>1, <1>5, <2>1
<1>8. \A t \in Types : available'[t] <= Capacity[t]
  BY <1>4, CapacityType
<1> QED
  BY <1>6, <1>7, <1>8 DEF StartedInCheck

\* One more is one more that is available.
LEMMA CheckGoesOn ==
    ASSUME TypeOK, StartedInCheck, Launch
    PROVE  StartedInCheck'
<1>1. PICK type \in Types : type = GameTypes[stage]
  BY Constants DEF Launch, TypeOK
<1>2. /\ available \in [Types -> Nat] /\ Len(server_list) \in Nat /\ ServerLimit \in Nat
      /\ server_list \in Seq(Types)
  BY Constants DEF TypeOK
<1>3. available' = [available EXCEPT ![type] = @ + 1] /\ available[type] < Capacity[type]
  BY <1>1 DEF Launch, Room
<1>4. Len(server_list') = Len(server_list) + 1
  BY <1>1, <1>2 DEF Launch
<1>5. available' \in [Types -> Nat]
  BY <1>1, <1>2, <1>3
<1>6. \A t \in Types : available'[t] <= Capacity[t]
  <2>1. \A t \in Types : available[t] <= Capacity[t]
    BY DEF StartedInCheck
  <2>2. \A t \in Types : available'[t] = IF t = type THEN available[t] + 1 ELSE available[t]
    BY <1>2, <1>3
  <2>3. available[type] \in Nat /\ Capacity[type] \in Nat
    BY <1>2, CapacityType
  <2> QED
    BY <1>3, <2>1, <2>2, <2>3
<1>7. PICK g \in [SUBSET Types -> Nat] :
          Sums(g, Types, available) /\ Len(server_list) <= ServerLimit + g[Types]
  BY DEF StartedInCheck
<1>8. PICK h \in [SUBSET Types -> Nat] : Sums(h, Types, available')
  BY <1>5, TypesFinite, SumExists
<1>9. h[Types] = g[Types] + 1
  <2>1. OneMoreAt(available', Types, available, type)
    BY <1>2, <1>3 DEF OneMoreAt
  <2>2. available \in [Types -> Nat]
    BY <1>2
  <2>3. Sums(g, Types, available) /\ Sums(h, Types, available')
    BY <1>7, <1>8
  <2> QED
    BY <1>5, <2>1, <2>2, <2>3, TypesFinite, SumsOneMore
<1>10. g[Types] \in Nat
  OBVIOUS
<1>11. Len(server_list') <= ServerLimit + h[Types]
  BY <1>2, <1>4, <1>7, <1>9, <1>10
<1> QED
  BY <1>6, <1>8, <1>11 DEF StartedInCheck

\* What is stored without being heard of is nothing.
LEMMA NothingStored ==
    ASSUME TypeOK, NEW p \in Ports, Stored(p) \/ UNCHANGED tableVars, ~ heard'
    PROVE  ~ heard /\ \A q \in Ports : rows'[q] = rows[q] \/ rows'[q] = NoReport
<1>1. CASE UNCHANGED tableVars
  BY <1>1 DEF tableVars
<1>2. CASE Stored(p)
  <2>1. /\ heard' = (heard \/ rows'[p] # NoReport)
        /\ rows \in [Ports -> Reports \cup {NoReport}]
        /\ rows' = [rows EXCEPT ![p] =
                        IF post[p] = Bye THEN NoReport ELSE RowOf(post[p], @)]
    BY <1>2 DEF Stored, Store, TypeOK
  <2>2. ~ heard /\ rows'[p] = NoReport
    BY <2>1, Zenon
  <2>3. \A q \in Ports \ {p} : rows'[q] = rows[q]
    BY <2>1
  <2> QED
    BY <2>2, <2>3
<1> QED
  BY <1>1, <1>2

LEMMA SilentServers ==
    ASSUME TypeOK, NEW p \in Ports, ~ heard',
           Works(p) \/ Lives(p) \/ Refresh(p) \/ TimePasses(p) \/ RowAges(p) \/ Cleanup(p)
    PROVE  /\ UNCHANGED publiteVars /\ ~ heard
           /\ \A q \in Ports : rows'[q] = rows[q] \/ rows'[q] = NoReport
<1>1. CASE PostDone(p) \/ PostFails(p)
  BY <1>1, NothingStored DEF PostDone, PostFails
<1>2. CASE Cleanup(p)
  BY <1>2 DEF Cleanup, TypeOK
<1>3. CASE \/ Start(p) \/ Script(p) \/ Goodbye(p) \/ Lives(p) \/ Refresh(p) \/ TimePasses(p)
           \/ RowAges(p)
  <2>1. UNCHANGED <<publiteVars, rows, heard>>
    BY <1>3 DEF Lives, Start, Script, Goodbye, Connect, StartGame, Leave, Quit, Crash, Refresh,
                TimePasses, RowAges, tableVars
  <2> QED
    BY <2>1
<1> QED
  BY <1>1, <1>2, <1>3 DEF Works

LEMMA SilentStep ==
    ASSUME TypeOK, TypeOK', SilentInv, NoForkBomb, [Next]_vars
    PROVE  SilentInv' /\ NoForkBomb'
<1> SUFFICES ASSUME ~ heard'
             PROVE  /\ \A p \in Ports : rows'[p] = NoReport
                    /\ stage' # 0 => StartedInCheck'
                    /\ \/ Len(server_list') <= ServerLimit + SumOfCapacities
                       \/ server_list' = GameTypes
  BY DEF SilentInv, NoForkBomb
<1>1. CASE Check
  <2>1. ~ heard /\ UNCHANGED <<rows, server_list>>
    BY <1>1 DEF Check, tableVars
  <2> QED
    BY <1>1, <2>1, CheckBegins DEF SilentInv, NoForkBomb
<1>2. CASE Launch
  <2>1. ~ heard /\ UNCHANGED rows /\ stage # 0
    BY <1>2 DEF Launch, tableVars
  <2>2. StartedInCheck'
    BY <1>2, <2>1, CheckGoesOn DEF SilentInv
  <2>3. (Len(server_list) <= ServerLimit + SumOfCapacities)'
    BY <2>2, StartedIsBounded, PTL
  <2> QED
    BY <2>1, <2>2, <2>3 DEF SilentInv
<1>3. CASE NextType
  <2>1. ~ heard /\ UNCHANGED <<rows, server_list>> /\ stage # 0
    BY <1>3 DEF NextType, tableVars
  <2>2. stage' # 0 => UNCHANGED available
    BY <1>3 DEF NextType
  <2> QED
    BY <2>1, <2>2 DEF SilentInv, NoForkBomb, StartedInCheck
<1>4. ASSUME UNCHANGED publiteVars, ~ heard,
             \A q \in Ports : rows'[q] = rows[q] \/ rows'[q] = NoReport
      PROVE  /\ \A p \in Ports : rows'[p] = NoReport
             /\ stage' # 0 => StartedInCheck'
             /\ \/ Len(server_list') <= ServerLimit + SumOfCapacities
                \/ server_list' = GameTypes
  BY <1>4 DEF SilentInv, NoForkBomb, StartedInCheck, publiteVars
<1>5. ASSUME NEW p \in Ports,
             Works(p) \/ Lives(p) \/ Refresh(p) \/ TimePasses(p) \/ RowAges(p) \/ Cleanup(p)
      PROVE  /\ UNCHANGED publiteVars /\ ~ heard
             /\ \A q \in Ports : rows'[q] = rows[q] \/ rows'[q] = NoReport
  BY <1>5, SilentServers
<1>6. CASE UNCHANGED vars
  BY <1>4, <1>6 DEF vars, tableVars
<1> QED
  BY <1>1, <1>2, <1>3, <1>4, <1>5, <1>6 DEF Next, Manager

----------------------------------------------------------------------------
(* The theorems.                                                           *)

LEMMA IInvInit == Init => IInv
<1>1. Init => CountInv /\ LimitKept /\ SilentInv /\ NoForkBomb
  BY DEF Init, CountInv, LimitKept, SilentInv, NoForkBomb
<1> QED  BY <1>1, TypeInit, PortsInit DEF IInv

LEMMA IInvStep == IInv /\ [Next]_vars => IInv'
<1> SUFFICES ASSUME IInv, [Next]_vars PROVE IInv'
  OBVIOUS
<1>1. TypeOK' /\ PortsInv'
  <2>1. CASE Manager
    BY <2>1, TypeManager, PortsManager DEF IInv
  <2>2. ASSUME NEW p \in Ports,
               Works(p) \/ Lives(p) \/ Refresh(p) \/ TimePasses(p) \/ RowAges(p) \/ Cleanup(p)
        PROVE  TypeOK' /\ PortsInv'
    <3>1. PortInv(p)
      BY DEF IInv, PortsInv
    <3> QED  BY <2>2, <3>1, TypeServers, PortsStep DEF IInv
  <2>3. CASE UNCHANGED vars
    <3>1. TypeOK'
      BY <2>3 DEF IInv, TypeOK, vars, publiteVars, metaVars, tableVars, boundVars,
                  historyVars, Reported
    <3>2. PortsInv'
      BY <2>3 DEF IInv, PortsInv, PortInv, Waiting, vars, metaVars, tableVars,
                  historyVars
    <3> QED  BY <3>1, <3>2
  <2> QED  BY <2>1, <2>2, <2>3 DEF Next
<1>2. CountInv' /\ LimitKept'
  BY LimitStep DEF IInv
<1>3. SilentInv' /\ NoForkBomb'
  BY <1>1, SilentStep DEF IInv
<1> QED  BY <1>1, <1>2, <1>3 DEF IInv

LEMMA InvariantHolds == Spec => []IInv
BY IInvInit, IInvStep, PTL DEF Spec

\* Every variable keeps its type; what publite2 has started is what there is,
\* and users are at servers that run.
THEOREM TypeCorrect == Spec => []TypeOK
<1>1. IInv => TypeOK
  BY DEF IInv
<1> QED  BY <1>1, InvariantHolds, PTL

\* A server the launcher offers waits for its first user or is about to stop;
\* or a report that says otherwise is under way, or has been lost (meta.c,
\* Metaserver.java and CivclientLauncher.java together).
THEOREM OffersAlwaysTrue == Spec => []OffersAreTrue
<1>1. IInv => OffersAreTrue
  <2>1. SUFFICES ASSUME IInv, NEW p \in Offered
                 PROVE  \/ Waiting(p) \/ p \in lost
                        \/ {post[p], next[p]} \ (SaysFree \cup {NoReport}) # {}
    BY <2>1 DEF OffersAreTrue, Waiting
  <2>2. p \in Ports /\ rows[p] = FreeReport
    <3>1. Len(server_list) \in 0 .. MaxServers /\ MaxServers \in Nat
      BY <2>1, Constants DEF IInv, TypeOK
    <3>2. p \in 1 .. Len(server_list) /\ Free(p)
      BY <2>1 DEF Offered
    <3> QED  BY <3>1, <3>2 DEF Free, FreeReport, Ports
  <2> QED  BY <2>1, <2>2 DEF IInv, PortsInv, PortInv
<1> QED  BY <1>1, InvariantHolds, PTL

\* More servers than server_limit and one are started only if a check has
\* found fewer rows than there are servers (the loops of publite2.py).
THEOREM LimitAlwaysKept == Spec => []LimitKept
<1>1. IInv => LimitKept
  BY DEF IInv
<1> QED  BY <1>1, InvariantHolds, PTL

\* As long as the metaserver has heard nothing, no more servers are started than the limit
\* and those of one check: a server whose reports never arrive is not replaced again and
\* again (fork_bomb_preventer of publite2.py).
THEOREM NeverAForkBomb == Spec => []NoForkBomb
<1>1. IInv => NoForkBomb
  BY DEF IInv
<1> QED  BY <1>1, InvariantHolds, PTL
=============================================================================
