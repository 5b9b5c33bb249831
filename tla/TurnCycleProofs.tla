--------------------------- MODULE TurnCycleProofs ---------------------------
(***************************************************************************)
(* Theorems about module TurnCycle, for any number of players, cities,     *)
(* phases and turns: a turn is not ended before the connected players are  *)
(* done with this very turn, whoever is the last one ends it, and the      *)
(* thread of the tex AI is there for as long as a player needs it and      *)
(* knows the cities of the server.                                         *)
(***************************************************************************)
EXTENDS TurnCycle, DataLemmas, TLAPS, FiniteSetTheorems, SequenceTheorems

USE PlayersAssumption, CitiesAssumption, SettingsAssumption, TurnsAssumption

-----------------------------------------------------------------------------
(***************************************************************************)
(* Who is done.                                                            *)
(***************************************************************************)
\* A message on its way is not of a turn to come.
InflightPast == turn \in Nat \ {0} /\ inflight \in [Players -> Int]
                    /\ \A p \in Players : inflight[p] <= turn

\* Who is done in this phase, or about to be, has said so in this turn.
DonePressed ==
    /\ \A p \in Players : inflight[p] = turn => p \in pressed
    /\ phase_done \cap InPhase \subseteq pressed

\* Once the flag is set, all who are connected have said so, or have come since.
ForceJust ==
    force => \A p \in InPhase \cap alive \cap connected : p \in pressed \cup latecomers

DInv == InflightPast /\ DonePressed /\ ForceJust

\* A turn that is done waits for nobody who is connected.
LEMMA FullMeansDone ==
    ASSUME FullTurnDone
    PROVE  \A p \in InPhase \cap alive \cap connected : p \in phase_done
BY DEF FullTurnDone, Missing

LEMMA FullMeansDoneNext ==
    ASSUME FullTurnDone'
    PROVE  \A p \in (InPhase \cap alive \cap connected)' : p \in phase_done'
BY DEF FullTurnDone, Missing

LEMMA InitDInv == Init => DInv
<1> SUFFICES ASSUME Init
             PROVE  DInv
  OBVIOUS
<1>1. InflightPast /\ DonePressed
  BY DEF Init, InflightPast, DonePressed, Nothing
<1>2. ForceJust
  BY FullMeansDone DEF Init, ForceJust
<1> QED
  BY <1>1, <1>2 DEF DInv

\* check_for_full_turn_done at the end of a handler that takes nobody's word
\* back, and connects nobody.
LEMMA CheckKeeps ==
    ASSUME DInv, DonePressed', Check, UNCHANGED <<setting, phase, alive, pressed>>,
           connected' \subseteq connected
    PROVE  ForceJust'
<1>1. CASE FullTurnDone'
  <2>1. \A p \in (InPhase \cap alive \cap connected)' : p \in phase_done'
    BY <1>1, FullMeansDoneNext
  <2> QED
    BY <2>1 DEF ForceJust, DonePressed
<1>2. CASE ~ FullTurnDone'
  <2>1. (force' => force) /\ latecomers' = latecomers
    BY <1>2 DEF Check
  <2> QED
    BY <2>1 DEF ForceJust, DInv, InPhase, Phases
<1> QED
  BY <1>1, <1>2

\* Handlers that leave what has been said as it is.
Said == <<setting, turn, phase, phase_done, pressed>>

LEMMA SaidKeeps ==
    ASSUME DInv, UNCHANGED Said,
           \/ UNCHANGED inflight
           \/ \E p \in Players : inflight' = [inflight EXCEPT ![p] = Nothing]
    PROVE  InflightPast' /\ DonePressed'
<1>1. CASE UNCHANGED inflight
  BY <1>1 DEF Said, DInv, InflightPast, DonePressed, InPhase, Phases
<1>2. ASSUME NEW p \in Players, inflight' = [inflight EXCEPT ![p] = Nothing]
      PROVE  InflightPast' /\ DonePressed'
  <2>1. turn' = turn /\ turn \in Nat /\ pressed' = pressed /\ inflight' \in [Players -> Int]
    BY <1>2 DEF Said, DInv, InflightPast, Nothing
  <2>2. \A q \in Players : inflight'[q] <= turn
    BY <1>2, <2>1 DEF DInv, InflightPast, Nothing
  <2>3. ASSUME NEW q \in Players, inflight'[q] = turn
        PROVE  q \in pressed
    <3>1. CASE q # p
      BY <1>2, <2>3, <3>1 DEF DInv, DonePressed, InflightPast
    <3>2. CASE q = p
      BY <1>2, <2>3, <3>2 DEF DInv, InflightPast, Nothing
    <3> QED
      BY <3>1, <3>2
  <2> QED
    BY <2>1, <2>2, <2>3 DEF Said, DInv, InflightPast, DonePressed, InPhase, Phases
<1> QED
  BY <1>1, <1>2

\* How the actions of the server and of the players disturb it.
LEMMA PressKeeps ==
    ASSUME DInv, NEW p \in Players, PressTurnDone(p)
    PROVE  DInv'
<1>1. /\ inflight' = [inflight EXCEPT ![p] = turn] /\ pressed' = pressed \cup {p}
      /\ UNCHANGED <<setting, turn, phase, phase_done, force, alive, connected, latecomers>>
  BY DEF PressTurnDone
<1>2. InflightPast'
  BY <1>1 DEF DInv, InflightPast
<1>3. DonePressed'
  BY <1>1 DEF DInv, InflightPast, DonePressed, InPhase, Phases
<1>4. ForceJust'
  BY <1>1 DEF DInv, ForceJust, InPhase, Phases
<1> QED
  BY <1>2, <1>3, <1>4 DEF DInv

LEMMA HandleKeeps ==
    ASSUME DInv, NEW p \in Players, HandlePhaseDone(p)
    PROVE  DInv'
<1>1. /\ inflight' = [inflight EXCEPT ![p] = Nothing]
      /\ UNCHANGED <<setting, turn, phase, alive, connected, pressed>>
  BY DEF HandlePhaseDone
<1>2. CASE phase_done' = phase_done /\ UNCHANGED <<force, latecomers>>
  <2>1. InflightPast' /\ DonePressed'
    BY <1>1, <1>2, SaidKeeps DEF Said
  <2>2. ForceJust'
    BY <1>1, <1>2 DEF DInv, ForceJust, InPhase, Phases
  <2> QED
    BY <2>1, <2>2 DEF DInv
<1>3. CASE OfThisTurn(inflight[p]) /\ phase_done' = phase_done \cup {p} /\ Check
  <2>1. p \in pressed
    BY <1>3 DEF OfThisTurn, DInv, DonePressed
  <2>2. InflightPast'
    BY <1>1 DEF DInv, InflightPast, Nothing
  <2>3. \A q \in Players : inflight'[q] = turn => q \in pressed
    BY <1>1, <2>1 DEF DInv, InflightPast, DonePressed
  <2>4. DonePressed'
    BY <1>1, <1>3, <2>1, <2>3 DEF DInv, DonePressed, InPhase, Phases
  <2>5. ForceJust'
    BY <1>1, <1>3, <2>4, CheckKeeps
  <2> QED
    BY <2>2, <2>4, <2>5 DEF DInv
<1> QED
  BY <1>2, <1>3 DEF HandlePhaseDone, NoCheck

LEMMA LoseKeeps ==
    ASSUME DInv, NEW p \in Players, LoseConnection(p) \/ ToggleAI(p)
    PROVE  DInv'
<1>1. /\ UNCHANGED Said /\ Check /\ alive' = alive /\ connected' \subseteq connected
      /\ \/ UNCHANGED inflight
         \/ \E q \in Players : inflight' = [inflight EXCEPT ![q] = Nothing]
  BY DEF LoseConnection, ToggleAI, Said
<1>2. InflightPast' /\ DonePressed'
  BY <1>1, SaidKeeps
<1>3. ForceJust'
  BY <1>1, <1>2, CheckKeeps DEF Said
<1> QED
  BY <1>2, <1>3 DEF DInv

\* Actions that set no flag; a connection that comes is a latecomer.
LEMMA QuietKeeps ==
    ASSUME DInv, UNCHANGED <<Said, inflight>>, force' => force, alive' \subseteq alive,
           latecomers \subseteq latecomers',
           connected' \subseteq connected \cup latecomers'
    PROVE  DInv'
<1>1. InflightPast' /\ DonePressed'
  BY SaidKeeps DEF Said
<1>2. ForceJust'
  BY DEF DInv, ForceJust, InPhase, Phases, Said
<1> QED
  BY <1>1, <1>2 DEF DInv

\* A new phase begins with nobody done.
LEMMA BeginKeeps ==
    ASSUME DInv, NEW n, BeginPhase(n),
           \/ UNCHANGED <<turn, pressed>>
           \/ turn' = turn + 1 /\ pressed' = {}
    PROVE  DInv'
<1>1. /\ phase' = n /\ setting' = setting /\ inflight' = inflight
      /\ phase_done' = phase_done \ Phases[n] /\ force' = FullTurnDone'
      /\ UNCHANGED <<alive, connected>>
  BY DEF BeginPhase, ResetDone
<1>2. InPhase' = Phases[n] /\ phase_done' \cap InPhase' = {}
  BY <1>1 DEF InPhase, Phases
<1>3. InflightPast'
  BY <1>1 DEF DInv, InflightPast
<1>4. \A p \in Players : inflight'[p] = turn' => p \in pressed'
  BY <1>1 DEF DInv, InflightPast, DonePressed
<1>5. DonePressed'
  BY <1>2, <1>4 DEF DonePressed
<1>6. ForceJust'
  BY <1>1, <1>2, FullMeansDoneNext DEF ForceJust
<1> QED
  BY <1>3, <1>5, <1>6 DEF DInv

LEMMA DStep == DInv /\ [Next]_vars => DInv'
<1> SUFFICES ASSUME DInv, [Next]_vars
             PROVE  DInv'
  OBVIOUS
<1>1. ASSUME NEW p \in Players, PressTurnDone(p) \/ HandlePhaseDone(p)
                                   \/ LoseConnection(p) \/ ToggleAI(p)
      PROVE  DInv'
  BY <1>1, PressKeeps, HandleKeeps, LoseKeeps
<1>2. ASSUME NEW p \in Players, Attach(p)
      PROVE  DInv'
  BY <1>2, QuietKeeps DEF Attach, Said
<1>3. ASSUME NEW p \in Players, ToggleHuman(p) \/ Die(p)
      PROVE  DInv'
  BY <1>3, QuietKeeps DEF ToggleHuman, Die, NoCheck, Said
<1>4. ASSUME NEW c, NEW owner, RemoveCity(c) \/ ChangeCity(c, owner)
      PROVE  DInv'
  BY <1>4, QuietKeeps DEF RemoveCity, ChangeCity, NoCheck, Said
<1>5. ASSUME NEW c, RemoveCity(c)
      PROVE  DInv'
  BY <1>5, QuietKeeps DEF RemoveCity, NoCheck, Said
<1>6. ASSUME SendNext \/ Sniff \/ AfterWait \/ GameOver \/ AIThread \/ TimerRunsOut
                \/ UNCHANGED vars
      PROVE  DInv'
  BY <1>6, QuietKeeps DEF SendNext, Sniff, EndPhase, AfterWait, GameOver, AIThread,
     TimerRunsOut, vars, gameVars, Said
<1>7. CASE NextPhase
  BY <1>7, BeginKeeps DEF NextPhase
<1>8. CASE NextTurn
  BY <1>8, BeginKeeps DEF NextTurn
<1> QED
  BY <1>1, <1>2, <1>3, <1>4, <1>5, <1>6, <1>7, <1>8 DEF Next, Server

LEMMA DHolds == Spec => []DInv
  BY InitDInv, DStep, PTL DEF Spec

\* "In all cases, we wait for any connected players": of whatever phase, a turn
\* is not ended early before the connected have said that they are done with it.
THEOREM NobodyEverCutShort == Spec => NobodyCutShort
<1>1. ASSUME DInv, Sniff, state' = "end_phase", ~ expired
      PROVE  \A p \in InPhase \cap alive \cap connected : p \in pressed \cup latecomers
  <2>1. force
    BY <1>1 DEF Sniff, Sniffing, TimeIsUp
  <2> QED
    BY <1>1, <2>1 DEF DInv, ForceJust
<1>2. DInv /\ [Next]_vars =>
         [(Sniff /\ state' = "end_phase" /\ ~ expired) =>
             \A p \in InPhase \cap alive \cap connected :
                 p \in pressed \cup latecomers]_vars
  BY <1>1
<1> QED
  BY <1>2, DHolds, PTL DEF Spec, NobodyCutShort

\* Whatever makes a turn done in a handler, the handler notices.
THEOREM WhoeverIsLastAlwaysEndsTheTurn == Spec => WhoeverIsLastEndsTheTurn
<1> DEFINE NowDone == /\ state = "sniff" /\ ~ FullTurnDone /\ FullTurnDone'
                   /\ \/ phase_done' # phase_done
                      \/ connected \ connected' # {}
                      \/ human \ human' # {}
<1>1. ASSUME Check, FullTurnDone'
      PROVE  force'
  BY <1>1 DEF Check
<1>2. ASSUME NEW p \in Players, HandlePhaseDone(p), NowDone
      PROVE  force'
  BY <1>1, <1>2 DEF HandlePhaseDone
<1>3. ASSUME NEW p \in Players, LoseConnection(p) \/ ToggleAI(p), NowDone
      PROVE  force'
  BY <1>1, <1>3 DEF LoseConnection, ToggleAI
<1>4. ASSUME NEW p \in Players,
             PressTurnDone(p) \/ Attach(p) \/ ToggleHuman(p) \/ Die(p)
      PROVE  ~ NowDone
  BY <1>4 DEF PressTurnDone, Attach, ToggleHuman, Die, SetToHuman
<1>5. ASSUME NEW c, NEW owner, RemoveCity(c) \/ ChangeCity(c, owner)
      PROVE  ~ NowDone
  BY <1>5 DEF RemoveCity, ChangeCity
<1>6. ASSUME NEW c, RemoveCity(c)
      PROVE  ~ NowDone
  BY <1>6 DEF RemoveCity
<1>7. ASSUME SendNext \/ Sniff \/ AfterWait \/ GameOver \/ AIThread \/ TimerRunsOut
      PROVE  ~ NowDone
  BY <1>7 DEF SendNext, Sniff, AfterWait, GameOver, AIThread, TimerRunsOut, gameVars
<1>8. ASSUME NextPhase \/ NextTurn
      PROVE  ~ NowDone
  BY <1>8 DEF NextPhase, NextTurn
<1>9. [Next]_vars => [NowDone => force' \/ state' # "sniff"]_vars
  BY <1>2, <1>3, <1>4, <1>5, <1>6, <1>7, <1>8 DEF Next, Server
<1> QED
  BY <1>9, PTL DEF Spec, WhoeverIsLastEndsTheTurn

-----------------------------------------------------------------------------
(***************************************************************************)
(* The thread of the tex AI.                                               *)
(***************************************************************************)
Needed == Tex \ human

\* All calls but the outermost are made for a player.
Callers(calls) == \A k \in DOMAIN calls : k > 1 => calls[k].plr \in Players

QueueTypes ==
    /\ numPlayers \in Nat
    /\ running \in BOOLEAN
    /\ thread \in Places
    /\ msglist \in Seq(Messages)
    /\ reqlist \in Seq(Players)
    /\ stack \in Seq(Calls)
    /\ copy \in [Cities -> Players \cup {Nobody}]
    /\ running <=> thread # "off"
    /\ stack = <<>> <=> thread # "working"
    /\ Callers(stack)

CityTypes == cities \in [Cities -> Players \cup {Nobody}]

\* num_players may be too high, never too low; and the server waits for the
\* thread only when nobody needs it.
Counted ==
    /\ Cardinality(Needed) <= numPlayers
    /\ Needed # {} => running /\ state # "wait"

Exits(ms) == \E i \in DOMAIN ms : ms[i].type = "exit"
ExitSeen(calls) == \E k \in DOMAIN calls : calls[k].abort = Exit

\* The exit has been read by a call, or will be, or the thread has ended.
ExitComes == thread = "ended" \/ ExitSeen(stack) \/ Exits(msglist)

\* ... or is on its way.
Told == state = "wait" => ExitComes \/ Exits(outbox)

\* The rest of TypeOK.
GameTypes ==
    /\ setting \in Settings
    /\ turn \in 1 .. EndTurn /\ phase \in 1 .. Len(Phases)
    /\ state \in {"sniff", "end_phase", "wait", "over"}
    /\ force \in BOOLEAN /\ expired \in BOOLEAN
    /\ connected \subseteq Players /\ human \subseteq Players
    /\ alive \subseteq Players
    /\ phase_done \subseteq Players /\ ai_phase_done \subseteq Players
    /\ inflight \in [Players -> 0 .. EndTurn]
    /\ incidents \in 0 .. MaxIncidents
    /\ pressed \subseteq Players /\ latecomers \subseteq Players

ThreadInv ==
    /\ QueueTypes /\ CityTypes /\ outbox \in Seq(Messages)
    /\ Counted /\ Told

TInv == GameTypes /\ ThreadInv

\* Lists.
LEMMA SeqOfSet ==
    ASSUME NEW S, IsFiniteSet(S)
    PROVE  /\ SetToSeq(S) \in Seq(S)
           /\ \A i, j \in DOMAIN SetToSeq(S) : SetToSeq(S)[i] = SetToSeq(S)[j] => i = j
           /\ \A x \in S : \E i \in DOMAIN SetToSeq(S) : SetToSeq(S)[i] = x
<1> DEFINE n == Cardinality(S)
<1>1. n \in Nat /\ ExistsBijection(1 .. n, S)
  BY FS_CardinalityType
<1>2. PICK f \in Bijection(1 .. n, S) : TRUE
  BY <1>1 DEF ExistsBijection
<1>3. f \in [1 .. n -> S] /\ IsInjective(f)
  BY <1>2 DEF Bijection, Injection, IsInjective
<1>4. SetToSeq(S) \in [1 .. n -> S] /\ IsInjective(SetToSeq(S))
  BY <1>3 DEF SetToSeq
<1> DEFINE g == SetToSeq(S)
<1> HIDE DEF g, n
<1>5. g \in Injection(1 .. n, S)
  BY <1>4 DEF Injection, g
<1>6. Cardinality(1 .. n) = n
  BY <1>1, FS_Interval
<1>7. g \in Surjection(1 .. n, S)
  BY <1>5, <1>6, FS_Injection DEF n
<1>8. /\ g \in Seq(S) /\ DOMAIN g = 1 .. n
      /\ \A i, j \in DOMAIN g : g[i] = g[j] => i = j
      /\ \A x \in S : \E i \in 1 .. n : g[i] = x
  BY <1>1, <1>4, <1>7 DEF IsInjective, Surjection, g
<1> QED
  BY <1>8 DEF g

LEMMA NoMessages == \A S : <<>> \in Seq(S)
OBVIOUS

LEMMA Replaced ==
    ASSUME NEW S, NEW q \in Seq(S), NEW i \in DOMAIN q, NEW x \in S
    PROVE  /\ [q EXCEPT ![i] = x] \in Seq(S)
           /\ DOMAIN [q EXCEPT ![i] = x] = DOMAIN q
           /\ Len([q EXCEPT ![i] = x]) = Len(q)
           /\ [q EXCEPT ![i] = x][i] = x
           /\ \A j \in DOMAIN q : j # i => [q EXCEPT ![i] = x][j] = q[j]
OBVIOUS

LEMMA PlainMessages ==
    ASSUME NEW type \in {"first", "finished", "exit"}, NEW p \in Players
    PROVE  Message(type, p, NoId) \in Messages
BY DEF Messages

LEMMA CityMessages ==
    ASSUME NEW type \in {"created", "changed", "destroyed"}, NEW p \in Players,
           NEW c \in Cities
    PROVE  Message(type, p, c) \in Messages
BY DEF Messages

LEMMA MessageFields ==
    ASSUME NEW m \in Messages
    PROVE  /\ m.plr \in Players
           /\ m.type \in {"first", "finished", "exit", "created", "changed", "destroyed"}
           /\ m.type \in {"created", "changed", "destroyed"} => m.city \in Cities
BY DEF Messages, Message

LEMMA ToTexType ==
    ASSUME NEW type \in {"first", "finished", "exit"}, NEW ps, Tex \subseteq Players
    PROVE  ToTex(type, ps) \in Seq(Messages)
<1> DEFINE order == SetToSeq(ps \cap Tex)
<1>1. ps \cap Tex \subseteq Players
  OBVIOUS
<1>2. IsFiniteSet(ps \cap Tex)
  BY <1>1, FS_Subset
<1>3. order \in Seq(ps \cap Tex)
  BY <1>2, SeqOfSet
<1> HIDE DEF order
<1>4. order \in Seq(Players)
  BY <1>1, <1>3
<1>5. [i \in DOMAIN order |-> Message(type, order[i], NoId)] \in Seq(Messages)
  <2>1. ASSUME NEW i \in DOMAIN order
        PROVE  Message(type, order[i], NoId) \in Messages
    <3>1. order[i] \in Players
      BY <1>4
    <3> QED
      BY <3>1, PlainMessages
  <2>2. DOMAIN order = 1 .. Len(order) /\ Len(order) \in Nat
    BY <1>4
  <2> QED
    BY <2>1, <2>2
<1> QED
  BY <1>5 DEF ToTex, order

LEMMA CreatedType ==
    ASSUME CityTypes
    PROVE  Created \in Seq(Messages)
<1> DEFINE owned == SetToSeq(Owned)
<1>1. Owned \subseteq Cities /\ \A c \in Owned : cities[c] \in Players
  BY DEF Owned, CityTypes
<1>2. IsFiniteSet(Owned)
  BY <1>1, FS_Subset
<1>3. owned \in Seq(Owned)
  BY <1>2, SeqOfSet
<1> HIDE DEF owned
<1>5. [i \in DOMAIN owned |-> Message("created", cities[owned[i]], owned[i])] \in Seq(Messages)
  <2>1. ASSUME NEW i \in DOMAIN owned
        PROVE  Message("created", cities[owned[i]], owned[i]) \in Messages
    <3>1. owned[i] \in Cities /\ cities[owned[i]] \in Players
      <4>1. owned[i] \in Owned
        BY <1>3
      <4> QED
        BY <1>1, <4>1
    <3> QED
      BY <3>1, CityMessages
  <2>2. DOMAIN owned = 1 .. Len(owned) /\ Len(owned) \in Nat
    BY <1>3
  <2> QED
    BY <2>1, <2>2
<1> QED
  BY <1>5 DEF Created, owned

LEMMA AppendExits ==
    ASSUME NEW ms \in Seq(Messages), NEW m \in Messages
    PROVE  /\ Append(ms, m) \in Seq(Messages)
           /\ Exits(ms) \/ m.type = "exit" => Exits(Append(ms, m))
<1>1. /\ Append(ms, m) \in Seq(Messages) /\ DOMAIN Append(ms, m) = 1 .. Len(ms) + 1
      /\ Append(ms, m)[Len(ms) + 1] = m
      /\ \A i \in 1 .. Len(ms) : Append(ms, m)[i] = ms[i]
      /\ DOMAIN ms = 1 .. Len(ms) /\ Len(ms) \in Nat
  OBVIOUS
<1> QED
  BY <1>1 DEF Exits

LEMMA TailExits ==
    ASSUME NEW ms \in Seq(Messages), ms # <<>>
    PROVE  /\ Head(ms) \in Messages /\ Tail(ms) \in Seq(Messages)
           /\ Exits(ms) => Head(ms).type = "exit" \/ Exits(Tail(ms))
<1>1. /\ Head(ms) \in Messages /\ Tail(ms) \in Seq(Messages)
      /\ Len(ms) \in Nat \ {0} /\ DOMAIN ms = 1 .. Len(ms)
      /\ DOMAIN Tail(ms) = 1 .. Len(ms) - 1 /\ Head(ms) = ms[1]
      /\ \A i \in 1 .. Len(ms) - 1 : Tail(ms)[i] = ms[i + 1]
  BY EmptySeq, LenProperties, HeadTailProperties
<1>2. ASSUME NEW i \in 1 .. Len(ms), i # 1, ms[i].type = "exit"
      PROVE  Exits(Tail(ms))
  <2>1. i - 1 \in 1 .. Len(ms) - 1 /\ (i - 1) + 1 = i
    BY <1>1, <1>2
  <2>2. Tail(ms)[i - 1] = ms[i]
    BY <1>1, <2>1
  <2> QED
    BY <1>1, <1>2, <2>1, <2>2 DEF Exits
<1> QED
  BY <1>1, <1>2 DEF Exits

-----------------------------------------------------------------------------
(***************************************************************************)
(* What the server does to the thread, and what the thread does.           *)
(***************************************************************************)
LEMMA SendKeeps ==
    ASSUME QueueTypes, NEW m \in Messages, Send(m)
    PROVE  /\ QueueTypes' /\ numPlayers' = numPlayers /\ running' = running
           /\ ExitComes \/ m.type = "exit" => ExitComes'
<1>1. /\ msglist' = Append(msglist, m) /\ thread # "working"
      /\ thread' = IF thread = "waiting" THEN "woken" ELSE thread
      /\ UNCHANGED <<numPlayers, running, reqlist, stack, copy>>
  BY DEF Send
<1>2. msglist' \in Seq(Messages)
      /\ (Exits(msglist) \/ m.type = "exit" => Exits(msglist'))
  BY <1>1, AppendExits DEF QueueTypes
<1>3. QueueTypes'
  BY <1>1, <1>2 DEF QueueTypes, Places
<1>4. ExitComes \/ m.type = "exit" => ExitComes'
  BY <1>1, <1>2 DEF ExitComes
<1> QED
  BY <1>1, <1>3, <1>4

LEMMA GainFacts ==
    ASSUME QueueTypes, Gain
    PROVE  QueueTypes' /\ numPlayers' = numPlayers + 1 /\ running'
<1>1. NoCity \in [Cities -> Players \cup {Nobody}]
  BY DEF NoCity
<1>2. CASE running
  BY <1>2 DEF Gain, QueueTypes
<1>3. CASE ~ running
  <2>1. /\ numPlayers' = numPlayers + 1 /\ running' = TRUE /\ thread' = "started"
        /\ msglist' = <<>> /\ reqlist' = <<>> /\ copy' = NoCity /\ stack' = stack
    BY <1>3 DEF Gain
  <2>2. thread = "off" /\ stack = <<>>
    BY <1>3 DEF QueueTypes
  <2>3. msglist' \in Seq(Messages) /\ reqlist' \in Seq(Players) /\ stack' \in Seq(Calls)
    BY <2>1, NoMessages DEF QueueTypes
  <2> QED
    BY <1>1, <2>1, <2>2, <2>3 DEF QueueTypes, Places
<1> QED
  BY <1>2, <1>3

LEMMA JoinedFacts ==
    ASSUME QueueTypes, Joined
    PROVE  QueueTypes' /\ numPlayers' = numPlayers
<1>1. NoCity \in [Cities -> Players \cup {Nobody}]
  BY DEF NoCity
<1> QED
  BY <1>1, NoMessages DEF Joined, QueueTypes, Places

\* The calls of the thread: pushed, changed at the top, and returned from.
LEMMA CallFacts ==
    ASSUME stack \in Seq(Calls), stack # <<>>, NEW call \in Calls
    PROVE  /\ Append(stack, call) \in Seq(Calls) /\ Append(stack, call) # <<>>
           /\ ExitSeen(stack) => ExitSeen(Append(stack, call))
           /\ Top \in Calls
           /\ SetTop(call) \in Seq(Calls) /\ SetTop(call) # <<>>
           /\ call.abort = Exit => ExitSeen(SetTop(call))
           /\ ExitSeen(stack) /\ (Top.abort = Exit => call.abort = Exit)
                => ExitSeen(SetTop(call))
           /\ Callers(stack) /\ call.plr \in Players => Callers(Append(stack, call))
           /\ Callers(stack) /\ call.plr = Top.plr => Callers(SetTop(call))
<1> DEFINE n == Len(stack)
<1>1. n \in Nat \ {0} /\ DOMAIN stack = 1 .. n
  BY EmptySeq, LenProperties
<1>2. /\ Append(stack, call) \in Seq(Calls) /\ DOMAIN Append(stack, call) = 1 .. n + 1
      /\ \A i \in 1 .. n : Append(stack, call)[i] = stack[i]
      /\ Len(Append(stack, call)) = n + 1
  OBVIOUS
<1>3. Append(stack, call) # <<>>
  BY <1>1, <1>2, EmptySeq
<1>4. ExitSeen(stack) => ExitSeen(Append(stack, call))
  BY <1>1, <1>2 DEF ExitSeen
<1>5. Top \in Calls
  BY <1>1 DEF Top
<1>6. /\ SetTop(call) \in Seq(Calls) /\ DOMAIN SetTop(call) = 1 .. n
      /\ Len(SetTop(call)) = n /\ SetTop(call)[n] = call
      /\ \A i \in 1 .. n : i # n => SetTop(call)[i] = stack[i]
  <2>1. n \in DOMAIN stack
    BY <1>1
  <2>2. SetTop(call) = [stack EXCEPT ![n] = call]
    BY DEF SetTop
  <2> QED
    BY <1>1, <2>1, <2>2, Replaced
<1>7. SetTop(call) # <<>>
  BY <1>1, <1>6, EmptySeq
<1>8. call.abort = Exit => ExitSeen(SetTop(call))
  <2>1. n \in 1 .. n
    BY <1>1
  <2> QED
    BY <1>6, <2>1 DEF ExitSeen
<1>9. ASSUME NEW k \in 1 .. n, stack[k].abort = Exit, Top.abort = Exit => call.abort = Exit
      PROVE  ExitSeen(SetTop(call))
  <2>1. SetTop(call)[k].abort = Exit
    BY <1>6, <1>9 DEF Top
  <2> QED
    BY <1>6, <2>1 DEF ExitSeen
<1>11. ASSUME Callers(stack), call.plr \in Players, NEW k \in 1 .. n + 1, k > 1
       PROVE  Append(stack, call)[k].plr \in Players
  <2>1. CASE k = n + 1
    <3>1. Append(stack, call)[k] = call
      BY <2>1, AppendProperties
    <3> QED
      BY <1>11, <3>1
  <2>2. CASE k # n + 1
    <3>1. k \in 1 .. n
      BY <1>1, <2>2
    <3> QED
      BY <1>1, <1>2, <1>11, <3>1 DEF Callers
  <2> QED
    BY <2>1, <2>2
<1>12. Callers(stack) /\ call.plr \in Players => Callers(Append(stack, call))
  BY <1>2, <1>11 DEF Callers
<1>13. Callers(stack) /\ call.plr = Top.plr => Callers(SetTop(call))
  BY <1>1, <1>6 DEF Callers, Top
<1>10. ExitSeen(stack) => \E k \in 1 .. n : stack[k].abort = Exit
  BY <1>1 DEF ExitSeen
<1> QED
  BY <1>2, <1>3, <1>4, <1>5, <1>6, <1>7, <1>8, <1>9, <1>10, <1>12, <1>13

LEMMA TopFacts ==
    ASSUME stack \in Seq(Calls), stack # <<>>
    PROVE  Top \in Calls
<1>1. Len(stack) \in DOMAIN stack
  BY EmptySeq, LenProperties
<1> QED
  BY <1>1 DEF Top

LEMMA StrongerFacts ==
    ASSUME NEW a \in NoAbort .. Exit, NEW b \in NoAbort .. Exit
    PROVE  /\ Stronger(a, b) \in NoAbort .. Exit
           /\ a = Exit \/ b = Exit => Stronger(a, b) = Exit
BY DEF Stronger, NoAbort, Exit

LEMMA RestKeeps ==
    ASSUME QueueTypes, Start \/ Wake \/ Rest
    PROVE  QueueTypes' /\ UNCHANGED <<numPlayers, running>> /\ (ExitComes => ExitComes')
<1>1. CASE Start
  BY <1>1 DEF Start, QueueTypes, Places, ExitComes
<1>2. CASE Wake
  <2>1. <<Outermost>> \in Seq(Calls) /\ <<Outermost>> # <<>>
    BY DEF Outermost, Calls, NoAbort, Exit
  <2>2. stack = <<>> /\ ~ ExitSeen(stack)
    BY <1>2 DEF Wake, QueueTypes, ExitSeen
  <2>3. Callers(<<Outermost>>)
    BY DEF Callers
  <2> QED
    BY <1>2, <2>1, <2>2, <2>3 DEF Wake, QueueTypes, Places, ExitComes
<1>3. CASE Rest
  <2>1. /\ msglist = <<>> /\ Len(stack) = 1 /\ stack' = <<>>
        /\ thread' = IF Top.abort = Exit THEN "ended" ELSE "waiting"
        /\ thread = "working"
        /\ UNCHANGED <<numPlayers, running, msglist, reqlist, copy>>
    BY <1>3 DEF Rest
  <2>2. QueueTypes'
    <3>1. Callers(<<>>) /\ <<>> \in Seq(Calls)
      BY DEF Callers
    <3> QED
      BY <2>1, <3>1 DEF QueueTypes, Places
  <2>3. ~ Exits(msglist) /\ (ExitSeen(stack) => Top.abort = Exit)
    BY <2>1 DEF Exits, ExitSeen, Top, QueueTypes
  <2> QED
    BY <2>1, <2>2, <2>3 DEF ExitComes
<1> QED
  BY <1>1, <1>2, <1>3

LEMMA TakeKeeps ==
    ASSUME QueueTypes, CityTypes, Take
    PROVE  QueueTypes' /\ UNCHANGED <<numPlayers, running>> /\ (ExitComes => ExitComes')
<1> DEFINE m == Head(msglist)
           n == Cardinality(CitiesOf(m.plr))
           ended == [Top EXCEPT !.abort = Stronger(@, PhaseEnd)]
           exit == [Top EXCEPT !.abort = Exit]
           call == [plr |-> m.plr, left |-> n - 1, abort |-> NoAbort]
<1>1. /\ thread = "working" /\ msglist # <<>> /\ msglist' = Tail(msglist)
      /\ UNCHANGED <<numPlayers, running, thread>>
  BY DEF Take
<1>2. /\ m \in Messages /\ msglist' \in Seq(Messages)
      /\ Exits(msglist) => m.type = "exit" \/ Exits(msglist')
  BY <1>1, TailExits DEF QueueTypes
<1>3. /\ m.plr \in Players
      /\ m.type \in {"created", "changed", "destroyed"} => m.city \in Cities
  BY <1>2, MessageFields
<1>4. n \in Nat
  <2>1. IsFiniteSet(CitiesOf(m.plr))
    BY FS_Subset DEF CitiesOf
  <2> QED
    BY <2>1, FS_CardinalityType
<1>5. stack \in Seq(Calls) /\ stack # <<>>
  BY <1>1 DEF QueueTypes
<1>6. Top \in Calls
  BY <1>5, TopFacts
<1>7. /\ ended \in Calls /\ ended.plr = Top.plr /\ exit.plr = Top.plr
      /\ (Top.abort = Exit => ended.abort = Exit)
      /\ exit \in Calls /\ exit.abort = Exit
  <2>1. Top.abort \in NoAbort .. Exit /\ PhaseEnd \in NoAbort .. Exit
    BY <1>6 DEF Calls, NoAbort, Exit, PhaseEnd
  <2>2. /\ Stronger(Top.abort, PhaseEnd) \in NoAbort .. Exit
        /\ Top.abort = Exit => Stronger(Top.abort, PhaseEnd) = Exit
    BY <2>1, StrongerFacts
  <2> QED
    BY <1>6, <2>2 DEF Calls, NoAbort, Exit
<1> HIDE DEF m, n, ended, exit, call
<1>8. CASE /\ m.type = "first" /\ n = 0 /\ reqlist' = Append(reqlist, m.plr)
           /\ UNCHANGED <<stack, copy>>
  <2>1. reqlist' \in Seq(Players)
    BY <1>3, <1>8 DEF QueueTypes
  <2> QED
    BY <1>1, <1>2, <1>8, <2>1 DEF QueueTypes, ExitComes
<1>9. CASE /\ m.type = "first" /\ n > 0 /\ stack' = Append(stack, call)
           /\ UNCHANGED <<reqlist, copy>>
  <2>1. call \in Calls /\ call.plr \in Players
    BY <1>3, <1>4, <1>9 DEF call, Calls, NoAbort, Exit
  <2>2. /\ stack' \in Seq(Calls) /\ stack' # <<>> /\ (ExitSeen(stack) => ExitSeen(stack'))
        /\ Callers(stack) => Callers(stack')
    BY <1>5, <1>9, <2>1, CallFacts
  <2> QED
    BY <1>1, <1>2, <1>9, <2>2 DEF QueueTypes, ExitComes
<1>10. CASE /\ m.type = "finished" /\ stack' = SetTop(ended)
            /\ UNCHANGED <<reqlist, copy>>
  <2>2. /\ stack' \in Seq(Calls) /\ stack' # <<>> /\ (ExitSeen(stack) => ExitSeen(stack'))
        /\ Callers(stack) => Callers(stack')
    BY <1>5, <1>7, <1>10, CallFacts
  <2> QED
    BY <1>1, <1>2, <1>10, <2>2 DEF QueueTypes, ExitComes
<1>11. CASE /\ m.type = "exit" /\ stack' = SetTop(exit)
            /\ UNCHANGED <<reqlist, copy>>
  <2>2. /\ stack' \in Seq(Calls) /\ stack' # <<>> /\ ExitSeen(stack')
        /\ Callers(stack) => Callers(stack')
    BY <1>5, <1>7, <1>11, CallFacts
  <2> QED
    BY <1>1, <1>2, <1>11, <2>2 DEF QueueTypes, ExitComes
<1>12. CASE /\ m.type \in {"created", "changed", "destroyed"} /\ copy' = NewCopy(m)
            /\ UNCHANGED <<reqlist, stack>>
  <2>1. copy' \in [Cities -> Players \cup {Nobody}]
    BY <1>3, <1>12 DEF NewCopy, QueueTypes
  <2> QED
    BY <1>1, <1>2, <1>12, <2>1 DEF QueueTypes, ExitComes
<1> QED
  BY <1>8, <1>9, <1>10, <1>11, <1>12 DEF Take, m, n, ended, exit, call

LEMMA OneOfThree ==
    ASSUME NEW a \in Nat, NEW e \in 1 .. a
    PROVE  e \in 1 .. a - 2 \/ e = a - 1 \/ e = a
OBVIOUS

LEMMA OneLess ==
    ASSUME NEW a \in Nat, NEW e \in 1 .. a - 1, e # a - 1
    PROVE  e \in 1 .. a - 2 /\ e \in 1 .. a
OBVIOUS

LEMMA ReturnKeeps ==
    ASSUME QueueTypes, Return
    PROVE  QueueTypes' /\ UNCHANGED <<numPlayers, running>> /\ (ExitComes => ExitComes')
<1> DEFINE done == Top.left = 0 \/ Top.abort # NoAbort
           n == Len(stack)
           below == stack[n - 1]
           less == [Top EXCEPT !.left = @ - 1]
           new == [below EXCEPT !.abort = Stronger(@, Top.abort)]
<1>1. /\ thread = "working" /\ msglist = <<>> /\ n > 1
      /\ UNCHANGED <<numPlayers, running, thread, msglist, copy>>
      /\ stack \in Seq(Calls) /\ stack # <<>> /\ n \in Nat /\ DOMAIN stack = 1 .. n
      /\ ~ Exits(msglist)
  BY DEF Return, QueueTypes, Exits
<1>2. Top \in Calls /\ below \in Calls
  BY <1>1 DEF Top
<1>3. CASE ~ done /\ stack' = SetTop(less) /\ reqlist' = reqlist
  <2>1. less \in Calls /\ less.abort = Top.abort /\ less.plr = Top.plr
    BY <1>2, <1>3 DEF Calls
  <2> HIDE DEF less
  <2>2. /\ stack' \in Seq(Calls) /\ stack' # <<>> /\ (ExitSeen(stack) => ExitSeen(stack'))
        /\ Callers(stack) => Callers(stack')
    BY <1>1, <1>3, <2>1, CallFacts
  <2> QED
    BY <1>1, <1>3, <2>2 DEF QueueTypes, ExitComes
<1>4. CASE /\ done /\ stack' = Append(SubSeq(stack, 1, n - 2), new)
           /\ reqlist' = Append(reqlist, Top.plr)
  <2>1. /\ new \in Calls /\ new.plr = below.plr
        /\ below.abort = Exit \/ Top.abort = Exit => new.abort = Exit
    <3>1. below.abort \in NoAbort .. Exit /\ Top.abort \in NoAbort .. Exit
      BY <1>2 DEF Calls
    <3>2. /\ Stronger(below.abort, Top.abort) \in NoAbort .. Exit
          /\ below.abort = Exit \/ Top.abort = Exit
                => Stronger(below.abort, Top.abort) = Exit
      BY <3>1, StrongerFacts
    <3> QED
      BY <1>2, <3>2 DEF Calls
  <2> HIDE DEF new
  <2>2. /\ SubSeq(stack, 1, n - 2) \in Seq(Calls) /\ Len(SubSeq(stack, 1, n - 2)) = n - 2
        /\ \A i \in 1 .. n - 2 : SubSeq(stack, 1, n - 2)[i] = stack[i]
    BY <1>1, SubSeqProperties
  <2> DEFINE rest == SubSeq(stack, 1, n - 2)
  <2> HIDE DEF rest
  <2>3. /\ stack' = Append(rest, new)
        /\ rest \in Seq(Calls) /\ Len(rest) = n - 2 /\ \A i \in 1 .. n - 2 : rest[i] = stack[i]
    BY <1>4, <2>2 DEF rest
  <2>4. /\ stack' \in Seq(Calls) /\ Len(stack') = n - 1 /\ DOMAIN stack' = 1 .. n - 1
        /\ \A i \in 1 .. n - 2 : stack'[i] = stack[i]
        /\ stack'[n - 1] = new
    <3>1. /\ Append(rest, new) \in Seq(Calls) /\ Len(Append(rest, new)) = Len(rest) + 1
          /\ \A i \in 1 .. Len(rest) : Append(rest, new)[i] = rest[i]
          /\ Append(rest, new)[Len(rest) + 1] = new
      BY <2>1, <2>3, AppendProperties
    <3>2. (n - 2) + 1 = n - 1
      BY <1>1
    <3> QED
      BY <2>3, <3>1, <3>2
  <2>5. stack' # <<>>
    BY <1>1, <2>4, EmptySeq
  <2>6. ASSUME NEW k \in 1 .. n, stack[k].abort = Exit
        PROVE  ExitSeen(stack')
    <3>1. k \in 1 .. n - 2 \/ k = n - 1 \/ k = n
      BY <1>1, OneOfThree
    <3>2. CASE k \in 1 .. n - 2
      BY <1>1, <2>4, <2>6, <3>2 DEF ExitSeen
    <3>3. CASE k = n - 1 \/ k = n
      <4>1. new.abort = Exit
        BY <2>1, <2>6, <3>3 DEF Top
      <4>2. n - 1 \in 1 .. n - 1
        BY <1>1
      <4> QED
        BY <2>4, <4>1, <4>2 DEF ExitSeen
    <3> QED
      BY <3>1, <3>2, <3>3
  <2>7. ExitSeen(stack) => ExitSeen(stack')
    BY <1>1, <2>6 DEF ExitSeen
  <2>8. reqlist' \in Seq(Players)
    <3>1. Top.plr \in Players
      BY <1>1 DEF Top, Callers, QueueTypes
    <3> QED
      BY <1>4, <3>1 DEF QueueTypes
  <2>9. Callers(stack')
    <3>1. ASSUME NEW k \in 1 .. n - 1, k > 1
          PROVE  stack'[k].plr \in Players
      <4>1. CASE k = n - 1
        <5>1. k \in DOMAIN stack /\ stack[k] = below
          BY <1>1, <4>1
        <5> QED
          BY <2>1, <2>4, <3>1, <4>1, <5>1 DEF Callers, QueueTypes
      <4>2. CASE k # n - 1
        <5>1. k \in 1 .. n - 2 /\ k \in DOMAIN stack
          BY <1>1, <3>1, <4>2, OneLess
        <5> QED
          BY <2>4, <3>1, <5>1 DEF Callers, QueueTypes
      <4> QED
        BY <4>1, <4>2
    <3> QED
      BY <2>4, <3>1 DEF Callers
  <2> QED
    BY <1>1, <1>4, <2>4, <2>5, <2>7, <2>8, <2>9 DEF QueueTypes, ExitComes
<1> QED
  BY <1>3, <1>4 DEF Return

LEMMA ThreadKeeps ==
    ASSUME QueueTypes, CityTypes, ThreadStep
    PROVE  QueueTypes' /\ UNCHANGED <<numPlayers, running>> /\ (ExitComes => ExitComes')
BY RestKeeps, TakeKeeps, ReturnKeeps DEF ThreadStep

-----------------------------------------------------------------------------
(***************************************************************************)
(* The types of the game.                                                  *)
(***************************************************************************)
LEMMA SettingFacts ==
    ASSUME setting \in Settings
    PROVE  /\ Tex \subseteq Players
           /\ Phases \in Seq(SUBSET Players) /\ Len(Phases) \in Nat \ {0}
           /\ \A n \in 1 .. Len(Phases) : Phases[n] \subseteq Players
<1>1. setting \in SettingRecords
  OBVIOUS
<1>2. setting.phases \in Seq(SUBSET Players) /\ setting.phases # <<>>
      /\ setting.tex \subseteq Players
  BY <1>1 DEF SettingRecords
<1>3. Len(setting.phases) \in Nat \ {0} /\ DOMAIN setting.phases = 1 .. Len(setting.phases)
  BY <1>2, EmptySeq, LenProperties
<1> QED
  BY <1>2, <1>3 DEF Tex, Phases

LEMMA CheckTypes ==
    ASSUME GameTypes, Check
    PROVE  force' \in BOOLEAN /\ latecomers' \subseteq Players
BY DEF Check, GameTypes

LEMMA GameTypesStep ==
    ASSUME GameTypes, ThreadInv, [Next]_vars
    PROVE  GameTypes'
<1> USE DEF GameTypes, Phases, Nothing
<1>0. /\ Tex \subseteq Players /\ InPhase \subseteq Players
      /\ \A n \in 1 .. Len(Phases) : Phases[n] \subseteq Players
      /\ Len(Phases) \in Nat \ {0}
  BY SettingFacts DEF InPhase
<1>1. ASSUME NEW p \in Players, PressTurnDone(p)
      PROVE  GameTypes'
  BY <1>1 DEF PressTurnDone
<1>2. ASSUME NEW p \in Players, HandlePhaseDone(p)
      PROVE  GameTypes'
  <2>1. force' \in BOOLEAN /\ latecomers' \subseteq Players
    BY <1>2, CheckTypes DEF HandlePhaseDone, NoCheck
  <2>2. inflight' \in [Players -> 0 .. EndTurn]
    BY <1>2 DEF HandlePhaseDone
  <2>3. phase_done' \subseteq Players
    BY <1>2 DEF HandlePhaseDone
  <2> QED
    BY <1>2, <2>1, <2>2, <2>3 DEF HandlePhaseDone
<1>3. ASSUME NEW p \in Players, LoseConnection(p)
      PROVE  GameTypes'
  <2>1. force' \in BOOLEAN /\ latecomers' \subseteq Players
    BY <1>3, CheckTypes DEF LoseConnection
  <2>2. inflight' \in [Players -> 0 .. EndTurn]
    BY <1>3 DEF LoseConnection
  <2>3. human' \subseteq Players /\ ai_phase_done' \subseteq Players /\ state' = state
    BY <1>0, <1>3 DEF LoseConnection, SetToAI
  <2>4. incidents' \in 0 .. MaxIncidents
    BY <1>3 DEF LoseConnection, Incident
  <2> QED
    BY <1>3, <2>1, <2>2, <2>3, <2>4 DEF LoseConnection
<1>4. ASSUME NEW p \in Players, Attach(p)
      PROVE  GameTypes'
  <2>1. human' \subseteq Players /\ ai_phase_done' = ai_phase_done
    BY <1>4 DEF Attach, SetToHuman
  <2>2. state' \in {"sniff", "wait"}
    BY <1>4 DEF Attach, SetToHuman, Sniffing
  <2>3. incidents' \in 0 .. MaxIncidents
    BY <1>4 DEF Attach, Incident
  <2> QED
    BY <1>4, <2>1, <2>2, <2>3 DEF Attach
<1>5. ASSUME NEW p \in Players, ToggleAI(p)
      PROVE  GameTypes'
  <2>1. force' \in BOOLEAN /\ latecomers' \subseteq Players
    BY <1>5, CheckTypes DEF ToggleAI
  <2>2. human' \subseteq Players /\ ai_phase_done' \subseteq Players /\ state' = state
    BY <1>0, <1>5 DEF ToggleAI, SetToAI
  <2>3. incidents' \in 0 .. MaxIncidents
    BY <1>5 DEF ToggleAI, Incident
  <2> QED
    BY <1>5, <2>1, <2>2, <2>3 DEF ToggleAI
<1>6. ASSUME NEW p \in Players, ToggleHuman(p)
      PROVE  GameTypes'
  BY <1>6 DEF ToggleHuman, Incident, SetToHuman, NoCheck
<1>7. ASSUME NEW p \in Players, Die(p)
      PROVE  GameTypes'
  BY <1>7 DEF Die, Incident, NoCheck
<1>8. ASSUME NEW c \in Cities, RemoveCity(c)
      PROVE  GameTypes'
  BY <1>8 DEF RemoveCity, Incident, NoCheck
<1>9. ASSUME NEW c \in Cities, NEW owner \in Owners, ChangeCity(c, owner)
      PROVE  GameTypes'
  BY <1>9 DEF ChangeCity, Incident, NoCheck
<1>10. CASE Sniff
  <2>1. \A i \in DOMAIN reqlist : reqlist[i] \in Players
    BY DEF ThreadInv, QueueTypes
  <2> QED
    BY <1>10, <2>1 DEF Sniff, EndPhase
<1>11. CASE SendNext \/ AfterWait \/ GameOver \/ AIThread \/ TimerRunsOut \/ UNCHANGED vars
  BY <1>11 DEF SendNext, AfterWait, GameOver, AIThread, TimerRunsOut, vars, gameVars
<1>12. ASSUME NEW n \in 1 .. Len(Phases), BeginPhase(n),
              turn' \in 1 .. EndTurn, pressed' \subseteq Players
       PROVE  GameTypes'
  <2>1. FullTurnDone' \in BOOLEAN
    BY DEF FullTurnDone
  <2> QED
    BY <1>0, <1>12, <2>1 DEF BeginPhase, ResetDone
<1>13. CASE NextPhase
  <2>1. phase + 1 \in 1 .. Len(Phases) /\ BeginPhase(phase + 1)
        /\ UNCHANGED <<turn, pressed>>
    BY <1>0, <1>13 DEF NextPhase
  <2>2. turn' \in 1 .. EndTurn /\ pressed' \subseteq Players
    BY <2>1
  <2> QED
    BY <1>12, <2>1, <2>2
<1>14. CASE NextTurn
  <2>1. 1 \in 1 .. Len(Phases) /\ BeginPhase(1) /\ turn' \in 1 .. EndTurn
        /\ pressed' = {}
    BY <1>0, <1>14 DEF NextTurn
  <2> QED
    BY <1>12, <2>1
<1> QED
  BY <1>1, <1>2, <1>3, <1>4, <1>5, <1>6, <1>7, <1>8, <1>9, <1>10, <1>11, <1>13,
     <1>14 DEF Next, Server

-----------------------------------------------------------------------------
(***************************************************************************)
(* The thread and those who need it.                                       *)
(***************************************************************************)
LEMMA NeededFinite ==
    ASSUME Tex \subseteq Players
    PROVE  IsFiniteSet(Needed) /\ Cardinality(Needed) \in Nat
<1>1. Needed \subseteq Players
  BY DEF Needed
<1> QED
  BY <1>1, FS_Subset, FS_CardinalityType

\* An action that leaves the thread, the AI players and the wait alone.
LEMMA IdleKeeps ==
    ASSUME ThreadInv, UNCHANGED <<texVars, cities, setting, human, outbox>>,
           state' = "wait" => state = "wait"
    PROVE  ThreadInv'
BY DEF ThreadInv, QueueTypes, CityTypes, Counted, Told, ExitComes, Needed, Tex, texVars

\* An action that sends messages later; there is no wait.
LEMMA LaterKeeps ==
    ASSUME ThreadInv, UNCHANGED <<texVars, setting, human>>, CityTypes',
           outbox' \in Seq(Messages), state' # "wait"
    PROVE  ThreadInv'
BY DEF ThreadInv, QueueTypes, CityTypes, Counted, Told, Needed, Tex, texVars

LEMMA IfRunningType ==
    ASSUME NEW ms \in Seq(Messages)
    PROVE  IfRunning(ms) \in Seq(Messages)
BY NoMessages DEF IfRunning

\* player_set_to_ai_mode makes the thread, if there is none.
LEMMA SetToAIKeeps ==
    ASSUME ThreadInv, Tex \subseteq Players, Sniffing, NEW p \in human, SetToAI(p),
           UNCHANGED <<cities, setting>>
    PROVE  ThreadInv'
<1>1. state' = "sniff" /\ human' = human \ {p} /\ QueueTypes /\ CityTypes /\ Counted
  BY DEF Sniffing, SetToAI, ThreadInv
<1>2. CityTypes'
  BY <1>1 DEF CityTypes
<1>3. CASE p \in Tex
  <2>1. /\ Gain
        /\ outbox' = (IF running THEN <<>> ELSE Created) \o ToTex("first", InPhase \cap {p})
    BY <1>3 DEF SetToAI
  <2>2. QueueTypes' /\ numPlayers' = numPlayers + 1 /\ running'
    BY <1>1, <2>1, GainFacts
  <2>3. outbox' \in Seq(Messages)
    <3>1. Created \in Seq(Messages) /\ ToTex("first", InPhase \cap {p}) \in Seq(Messages)
      BY <1>1, CreatedType, ToTexType
    <3>2. (IF running THEN <<>> ELSE Created) \in Seq(Messages)
      BY <3>1, NoMessages
    <3> QED
      BY <2>1, <3>1, <3>2, ConcatProperties
  <2>4. Needed' = Needed \cup {p}
    BY <1>1, <1>3 DEF Needed, Tex
  <2>5. Cardinality(Needed \cup {p}) <= Cardinality(Needed) + 1 /\ Cardinality(Needed) \in Nat
    <3>1. IsFiniteSet(Needed) /\ Cardinality(Needed) \in Nat
      BY NeededFinite
    <3>2. Cardinality(Needed \cup {p})
             = IF p \in Needed THEN Cardinality(Needed) ELSE Cardinality(Needed) + 1
      BY <3>1, FS_AddElement
    <3> QED
      BY <3>1, <3>2
  <2>6. Cardinality(Needed') <= numPlayers'
    <3>1. Cardinality(Needed) <= numPlayers /\ numPlayers \in Nat
      BY <1>1 DEF Counted, QueueTypes
    <3>2. IsFiniteSet(Needed \cup {p}) /\ Cardinality(Needed \cup {p}) \in Nat
      BY NeededFinite, FS_AddElement, FS_CardinalityType
    <3>3. Cardinality(Needed \cup {p}) <= numPlayers + 1
      BY <2>5, <3>1, <3>2
    <3> QED
      BY <2>2, <2>4, <3>3
  <2> QED
    BY <1>1, <1>2, <2>2, <2>3, <2>6 DEF ThreadInv, Counted, Told
<1>4. CASE p \notin Tex
  <2>1. UNCHANGED <<texVars, outbox>>
    BY <1>4 DEF SetToAI
  <2>2. Needed' = Needed
    BY <1>1, <1>4 DEF Needed, Tex
  <2> QED
    BY <1>1, <1>2, <2>1, <2>2 DEF ThreadInv, QueueTypes, Counted, Told, texVars
<1> QED
  BY <1>3, <1>4

\* player_set_under_human_control ends the thread with the last that needs it.
LEMMA SetToHumanKeeps ==
    ASSUME ThreadInv, Tex \subseteq Players, Sniffing,
           NEW p \in Players, p \notin human, SetToHuman(p), UNCHANGED <<cities, setting>>
    PROVE  ThreadInv'
<1>1. /\ state = "sniff" /\ outbox = <<>> /\ human' = human \cup {p}
      /\ QueueTypes /\ CityTypes /\ Counted /\ outbox \in Seq(Messages)
  BY DEF Sniffing, SetToHuman, ThreadInv
<1>2. CityTypes'
  BY <1>1 DEF CityTypes
<1>3. CASE p \in Tex
  <2>1. /\ numPlayers' = numPlayers - 1
        /\ UNCHANGED <<running, thread, msglist, reqlist, stack, copy>>
        /\ \/ /\ EndsWithLast /\ state' = "wait"
              /\ outbox' = IfRunning(<<Message("exit", p, NoId)>>)
           \/ ~ EndsWithLast /\ UNCHANGED <<outbox, state>>
    BY <1>3 DEF SetToHuman
  <2>2. p \in Needed /\ running /\ Needed' = Needed \ {p}
    BY <1>1, <1>3 DEF Needed, Tex, Counted
  <2>3. /\ IsFiniteSet(Needed) /\ Cardinality(Needed) \in Nat
        /\ Cardinality(Needed \ {p}) = Cardinality(Needed) - 1
        /\ Cardinality(Needed) # 0
    BY <2>2, NeededFinite, FS_RemoveElement, FS_EmptySet
  <2>4. numPlayers' \in Nat /\ Cardinality(Needed') <= numPlayers'
    BY <1>1, <2>1, <2>2, <2>3 DEF Counted, QueueTypes
  <2>5. QueueTypes'
    BY <1>1, <2>1, <2>4 DEF QueueTypes
  <2>6. CASE ~ EndsWithLast /\ UNCHANGED <<outbox, state>>
    BY <1>1, <1>2, <2>1, <2>2, <2>4, <2>5, <2>6 DEF ThreadInv, Counted, Told
  <2>7. CASE /\ EndsWithLast /\ state' = "wait"
             /\ outbox' = IfRunning(<<Message("exit", p, NoId)>>)
    <3>1. Cardinality(Needed') = 0
      BY <1>1, <2>2, <2>3, <2>7 DEF EndsWithLast, Counted, QueueTypes
    <3>2. Needed' = {}
      <4>1. IsFiniteSet(Needed \ {p})
        BY <2>3, FS_RemoveElement
      <4> QED
        BY <2>2, <3>1, <4>1, FS_EmptySet
    <3>3. outbox' = <<Message("exit", p, NoId)>>
      BY <2>2, <2>7 DEF IfRunning
    <3>4. Message("exit", p, NoId) \in Messages
      BY PlainMessages
    <3>5. outbox' \in Seq(Messages) /\ Exits(outbox')
      BY <3>3, <3>4 DEF Exits, Message
    <3> QED
      BY <1>2, <2>4, <2>5, <3>2, <3>5 DEF ThreadInv, Counted, Told
  <2> QED
    BY <2>1, <2>6, <2>7
<1>4. CASE p \notin Tex
  <2>1. UNCHANGED <<texVars, outbox, state>>
    BY <1>4 DEF SetToHuman
  <2>2. Needed' = Needed
    BY <1>1, <1>4 DEF Needed, Tex
  <2> QED
    BY <1>1, <1>2, <2>1, <2>2 DEF ThreadInv, QueueTypes, Counted, Told, texVars
<1> QED
  BY <1>3, <1>4

LEMMA ThreadInvStep ==
    ASSUME GameTypes, ThreadInv, [Next]_vars
    PROVE  ThreadInv'
<1>0. /\ Tex \subseteq Players /\ InPhase \subseteq Players
      /\ \A n \in 1 .. Len(Phases) : Phases[n] \subseteq Players
  BY SettingFacts DEF InPhase, GameTypes
<1>1. ASSUME NEW p \in Players, PressTurnDone(p) \/ HandlePhaseDone(p) \/ Die(p)
      PROVE  ThreadInv'
  BY <1>1, IdleKeeps DEF PressTurnDone, HandlePhaseDone, Die
<1>2. ASSUME NEW p \in Players, LoseConnection(p)
      PROVE  ThreadInv'
  <2>1. Sniffing /\ UNCHANGED <<cities, setting>>
    BY <1>2 DEF LoseConnection
  <2>2. CASE p \in human /\ SetToAI(p)
    BY <1>0, <2>1, <2>2, SetToAIKeeps
  <2>3. CASE UNCHANGED <<texVars, state, outbox, human, ai_phase_done>>
    BY <2>1, <2>3, IdleKeeps
  <2> QED
    BY <1>2, <2>2, <2>3 DEF LoseConnection
<1>3. ASSUME NEW p \in Players, Attach(p)
      PROVE  ThreadInv'
  <2>1. Sniffing /\ UNCHANGED <<cities, setting>>
    BY <1>3 DEF Attach
  <2>2. CASE p \notin human /\ SetToHuman(p)
    BY <1>0, <2>1, <2>2, SetToHumanKeeps
  <2>3. CASE UNCHANGED <<texVars, state, outbox, human, ai_phase_done>>
    BY <2>1, <2>3, IdleKeeps
  <2> QED
    BY <1>3, <2>2, <2>3 DEF Attach
<1>4. ASSUME NEW p \in Players, ToggleAI(p)
      PROVE  ThreadInv'
  BY <1>0, <1>4, SetToAIKeeps DEF ToggleAI
<1>5. ASSUME NEW p \in Players, ToggleHuman(p)
      PROVE  ThreadInv'
  BY <1>0, <1>5, SetToHumanKeeps DEF ToggleHuman
<1>6. ASSUME NEW c \in Cities, NEW owner \in Owners, ChangeCity(c, owner)
      PROVE  ThreadInv'
  <2> DEFINE m == Message(IF cities[c] = Nobody THEN "created" ELSE "changed", owner, c)
  <2>1. /\ Sniffing /\ cities' = [cities EXCEPT ![c] = owner]
        /\ outbox' = IfRunning(<<m>>) /\ UNCHANGED <<texVars, setting, state, human>>
    BY <1>6 DEF ChangeCity
  <2>2. m \in Messages
    <3>1. (IF cities[c] = Nobody THEN "created" ELSE "changed")
             \in {"created", "changed", "destroyed"} /\ owner \in Players
      OBVIOUS
    <3> QED
      BY <3>1, CityMessages
  <2> HIDE DEF m
  <2>3. outbox' \in Seq(Messages)
    <3>1. <<m>> \in Seq(Messages)
      BY <2>2
    <3> QED
      BY <2>1, <3>1, IfRunningType
  <2>4. CityTypes' /\ state' # "wait"
    BY <2>1 DEF ThreadInv, CityTypes, Sniffing
  <2> QED
    BY <2>1, <2>3, <2>4, LaterKeeps
<1>7. ASSUME NEW c \in Cities, RemoveCity(c)
      PROVE  ThreadInv'
  <2> DEFINE m == Message("destroyed", cities[c], c)
  <2>1. /\ Sniffing /\ cities' = [cities EXCEPT ![c] = Nobody] /\ cities[c] # Nobody
        /\ UNCHANGED <<setting, state, human, outbox>>
        /\ Send(m) \/ UNCHANGED texVars
    BY <1>7 DEF RemoveCity
  <2>2. CityTypes /\ CityTypes' /\ cities[c] \in Players
    BY <2>1 DEF ThreadInv, CityTypes
  <2>3. m \in Messages
    BY <2>2, CityMessages
  <2> HIDE DEF m
  <2>4. QueueTypes' /\ UNCHANGED <<numPlayers, running>>
    <3>1. CASE Send(m)
      BY <2>3, <3>1, SendKeeps DEF ThreadInv
    <3>2. CASE UNCHANGED texVars
      BY <3>2 DEF ThreadInv, QueueTypes, texVars
    <3> QED
      BY <2>1, <3>1, <3>2
  <2> QED
    BY <2>1, <2>2, <2>4 DEF ThreadInv, Counted, Told, Needed, Tex, Sniffing
<1>8. CASE SendNext
  <2>1. /\ outbox # <<>> /\ Send(Head(outbox)) /\ outbox' = Tail(outbox)
        /\ UNCHANGED <<cities, setting, state, human>>
    BY <1>8 DEF SendNext
  <2>2. /\ Head(outbox) \in Messages /\ outbox' \in Seq(Messages)
        /\ Exits(outbox) => Head(outbox).type = "exit" \/ Exits(outbox')
    BY <2>1, TailExits DEF ThreadInv
  <2>3. /\ QueueTypes' /\ numPlayers' = numPlayers /\ running' = running
        /\ ExitComes \/ Head(outbox).type = "exit" => ExitComes'
    BY <2>1, <2>2, SendKeeps DEF ThreadInv
  <2>4. CityTypes' /\ Counted'
    BY <2>1, <2>3 DEF ThreadInv, CityTypes, Counted, Needed, Tex
  <2>5. Told'
    BY <2>1, <2>2, <2>3 DEF ThreadInv, Told
  <2> QED
    BY <2>2, <2>3, <2>4, <2>5 DEF ThreadInv
<1>9. CASE AIThread
  <2>1. ThreadStep /\ UNCHANGED <<cities, setting, state, human, outbox>>
    BY <1>9 DEF AIThread, gameVars
  <2>2. QueueTypes' /\ UNCHANGED <<numPlayers, running>> /\ (ExitComes => ExitComes')
    BY <2>1, ThreadKeeps DEF ThreadInv
  <2>3. CityTypes' /\ Counted' /\ Told'
    BY <2>1, <2>2 DEF ThreadInv, CityTypes, Counted, Told, Needed, Tex
  <2> QED
    BY <2>1, <2>2, <2>3 DEF ThreadInv
<1>10. CASE AfterWait
  <2>1. /\ state = "wait" /\ state' = "sniff" /\ Joined
        /\ UNCHANGED <<cities, setting, human, outbox>>
    BY <1>10 DEF AfterWait
  <2>2. QueueTypes' /\ numPlayers' = numPlayers
    BY <2>1, JoinedFacts DEF ThreadInv
  <2>3. Needed = {} /\ Needed' = Needed
    BY <2>1 DEF ThreadInv, Counted, Needed, Tex
  <2> QED
    BY <2>1, <2>2, <2>3 DEF ThreadInv, CityTypes, Counted, Told
<1>11. CASE Sniff
  <2>1. /\ Sniffing /\ reqlist' = <<>> /\ state' # "wait"
        /\ outbox' = outbox \/ outbox' = IfRunning(ToTex("finished", InPhase))
        /\ UNCHANGED <<numPlayers, running, thread, msglist, stack, copy, cities,
                       setting, human>>
    BY <1>11 DEF Sniff, EndPhase, Sniffing
  <2>2. outbox' \in Seq(Messages)
    BY <1>0, <2>1, ToTexType, IfRunningType DEF ThreadInv
  <2>3. QueueTypes'
    BY <2>1, NoMessages DEF ThreadInv, QueueTypes
  <2> QED
    BY <2>1, <2>2, <2>3 DEF ThreadInv, CityTypes, Counted, Told, Needed, Tex
<1>12. ASSUME NEW n, BeginPhase(n)
       PROVE  ThreadInv'
  <2>1. /\ state' = "sniff" /\ outbox' = IfRunning(ToTex("first", Phases[n] \ human))
        /\ UNCHANGED <<texVars, cities, setting, human>>
    BY <1>12 DEF BeginPhase
  <2>2. outbox' \in Seq(Messages)
    BY <1>0, <2>1, ToTexType, IfRunningType
  <2>3. CityTypes'
    BY <2>1 DEF ThreadInv, CityTypes
  <2> QED
    BY <2>1, <2>2, <2>3, LaterKeeps
<1>13. CASE NextPhase \/ NextTurn
  BY <1>12, <1>13 DEF NextPhase, NextTurn
<1>14. CASE GameOver \/ TimerRunsOut \/ UNCHANGED vars
  BY <1>14, IdleKeeps DEF GameOver, TimerRunsOut, vars, gameVars, texVars
<1> QED
  BY <1>1, <1>2, <1>3, <1>4, <1>5, <1>6, <1>7, <1>8, <1>9, <1>10, <1>11, <1>13,
     <1>14 DEF Next, Server

LEMMA InitTInv == Init => TInv
<1> SUFFICES ASSUME Init
             PROVE  TInv
  OBVIOUS
<1>1. /\ setting \in Settings /\ human = connected /\ connected \subseteq Players
      /\ phase = 1 /\ turn = 1 /\ cities = NoCity /\ state = "sniff"
      /\ stack = <<>> /\ msglist = <<>> /\ reqlist = <<>>
  BY DEF Init
<1>2. /\ Tex \subseteq Players /\ Len(Phases) \in Nat \ {0} /\ Phases[1] \subseteq Players
  BY <1>1, SettingFacts
<1>3. GameTypes
  <2>1. FullTurnDone \in BOOLEAN
    BY DEF FullTurnDone
  <2> QED
    <3>1. /\ expired = FALSE /\ alive = Players /\ phase_done = {}
          /\ ai_phase_done = Phases[1] \ (Tex \cup human)
          /\ inflight = [p \in Players |-> Nothing] /\ incidents = 0
          /\ pressed = {} /\ latecomers = {} /\ force = FullTurnDone
      BY DEF Init
    <3>2. inflight \in [Players -> 0 .. EndTurn] /\ 0 \in 0 .. MaxIncidents
      BY <3>1 DEF Nothing
    <3>3. phase \in 1 .. Len(Phases) /\ turn \in 1 .. EndTurn
      BY <1>1, <1>2
    <3> QED
      BY <1>1, <1>2, <2>1, <3>1, <3>2, <3>3 DEF GameTypes
<1>4. /\ IsFiniteSet(Needed) /\ Cardinality(Needed) \in Nat
      /\ IsFiniteSet(Tex) /\ Cardinality(Tex) \in Nat
      /\ Cardinality(Needed) <= Cardinality(Tex)
  BY <1>2, NeededFinite, FS_Subset, FS_CardinalityType DEF Needed
<1>5. numPlayers \in Nat /\ Cardinality(Needed) <= numPlayers /\ (running <=> numPlayers > 0)
      /\ running \in BOOLEAN
  <2>1. /\ numPlayers \in {Cardinality(Needed), Cardinality(Tex)}
        /\ running = (numPlayers > 0)
    BY DEF Init, Needed
  <2>2. numPlayers \in Nat /\ Cardinality(Needed) <= numPlayers
    BY <1>4, <2>1
  <2>3. (running <=> numPlayers > 0) /\ running \in BOOLEAN
    <3>1. CASE numPlayers > 0
      <4>1. running = TRUE
        BY <2>1, <3>1, Zenon
      <4> QED
        BY <3>1, <4>1
    <3>2. CASE ~ (numPlayers > 0)
      <4>1. running = FALSE
        <5>1. (numPlayers > 0) = FALSE
          BY <3>2
        <5> QED
          BY <2>1, <5>1, Zenon
      <4> QED
        BY <3>2, <4>1
    <3> QED
      BY <3>1, <3>2
  <2> QED
    BY <2>2, <2>3
<1>6. Needed # {} => running
  BY <1>4, <1>5, FS_EmptySet
<1>7. NoCity \in [Cities -> Players \cup {Nobody}]
  BY DEF NoCity
<1>8. QueueTypes
  <2>1. Callers(<<>>)
    BY DEF Callers
  <2>2. copy = NoCity /\ thread = IF running THEN "waiting" ELSE "off"
    BY <1>1 DEF Init
  <2> QED
    BY <1>1, <1>5, <1>7, <2>1, <2>2, NoMessages DEF QueueTypes, Places
<1>9. outbox \in Seq(Messages)
  BY <1>2, ToTexType, IfRunningType DEF Init
<1> QED
  BY <1>1, <1>3, <1>5, <1>6, <1>7, <1>8, <1>9 DEF TInv, ThreadInv, CityTypes, Counted, Told

LEMMA THolds == Spec => []TInv
<1>1. TInv /\ [Next]_vars => TInv'
  BY GameTypesStep, ThreadInvStep DEF TInv
<1> QED
  BY <1>1, InitTInv, PTL DEF Spec

-----------------------------------------------------------------------------
\* Type correctness, of the thread as well.
THEOREM TurnCycleTypes == Spec => []TypeOK
<1>1. TInv => TypeOK
  BY DEF TInv, GameTypes, ThreadInv, QueueTypes, CityTypes, TypeOK, TexTypeOK
<1> QED
  BY <1>1, THolds, PTL

\* However the players of the tex AI come and go, none of them is without the
\* thread, and the server waits for the thread only when it will end.
THEOREM ThreadAlwaysWhileNeeded == Spec => []ThreadWhileNeeded
<1>1. ASSUME TInv
      PROVE  ThreadWhileNeeded
  <2>1. msglist \in Seq(Messages) /\ outbox \in Seq(Messages)
    BY <1>1 DEF TInv, ThreadInv, QueueTypes
  <2>2. ASSUME Exits(msglist) \/ Exits(outbox)
        PROVE  \E m \in Range(msglist \o outbox) : m.type = "exit"
    <3>1. /\ DOMAIN msglist = 1 .. Len(msglist) /\ DOMAIN outbox = 1 .. Len(outbox)
          /\ Len(msglist) \in Nat /\ Len(outbox) \in Nat
          /\ DOMAIN (msglist \o outbox) = 1 .. Len(msglist) + Len(outbox)
          /\ \A i \in 1 .. Len(msglist) : (msglist \o outbox)[i] = msglist[i]
          /\ \A i \in 1 .. Len(outbox) :
                (msglist \o outbox)[Len(msglist) + i] = outbox[i]
      BY <2>1
    <3>2. \E i \in DOMAIN (msglist \o outbox) : (msglist \o outbox)[i].type = "exit"
      <4>1. ASSUME NEW i \in 1 .. Len(msglist), msglist[i].type = "exit"
            PROVE  /\ i \in DOMAIN (msglist \o outbox)
                   /\ (msglist \o outbox)[i].type = "exit"
        BY <3>1, <4>1
      <4>2. ASSUME NEW i \in 1 .. Len(outbox), outbox[i].type = "exit"
            PROVE  /\ Len(msglist) + i \in DOMAIN (msglist \o outbox)
                   /\ (msglist \o outbox)[Len(msglist) + i].type = "exit"
        BY <3>1, <4>2
      <4> QED
        BY <2>2, <3>1, <4>1, <4>2 DEF Exits
    <3> QED
      BY <3>2 DEF Range
  <2>3. Tex \ human # {} => running /\ state # "wait"
    BY <1>1 DEF TInv, ThreadInv, Counted, Needed
  <2>4. state = "wait" => thread = "ended" \/ ExitSeen(stack) \/ Exits(msglist) \/ Exits(outbox)
    BY <1>1 DEF TInv, ThreadInv, Told, ExitComes
  <2> QED
    BY <2>2, <2>3, <2>4 DEF ThreadWhileNeeded, ExitSeen
<1> QED
  BY <1>1, THolds, PTL
-----------------------------------------------------------------------------
(***************************************************************************)
(* What the thread knows of the cities.                                    *)
(***************************************************************************)
\* What the thread knows of c after a message m, where it knew a before.  A city
\* is created when the thread knows no owner, and changed when it knows one.
Tells(c, m, a, b) ==
    IF m.city # c THEN b = a
    ELSE CASE m.type = "created"   -> a = Nobody /\ b = m.plr
           [] m.type = "changed"   -> a # Nobody /\ b = m.plr
           [] m.type = "destroyed" -> b = Nobody
           [] OTHER                -> FALSE

\* The messages ms take the thread from owner a of c to owner b, each in its
\* place.
Known == Players \cup {Nobody}
Telling(c) == {t \in Known \X Messages \X Known : Tells(c, t[2], t[1], t[3])}
Leads(c, ms, a, b) == Path(Telling(c), ms, a, b)

\* CopyFollows, with what it rests on: no message is ignored by the thread.
CopyInv ==
    running => \A c \in Cities : Leads(c, msglist \o outbox, copy[c], cities[c])

LEMMA LeadsNowhere ==
    ASSUME NEW c, NEW ms \in Seq(Messages), NEW a \in Known,
           \A i \in DOMAIN ms : ms[i].city # c
    PROVE  Leads(c, ms, a, a)
<1>1. ASSUME NEW i \in DOMAIN ms
      PROVE  <<a, ms[i], a>> \in Telling(c)
  BY DEF Telling, Tells
<1> QED
  BY <1>1, PathNowhere DEF Leads

LEMMA LeadsOn ==
    ASSUME NEW c, NEW ms \in Seq(Messages), NEW ns \in Seq(Messages), NEW a, NEW b, NEW d,
           Leads(c, ms, a, b), Leads(c, ns, b, d)
    PROVE  Leads(c, ms \o ns, a, d)
BY PathOn DEF Leads

LEMMA LeadsOneStep ==
    ASSUME NEW c, NEW m \in Messages, NEW a \in Known, NEW b \in Known, Tells(c, m, a, b)
    PROVE  Leads(c, <<m>>, a, b)
<1>1. <<a, m, b>> \in Telling(c)
  BY DEF Telling
<1> QED
  BY <1>1, PathOneStep DEF Leads

LEMMA LeadsFromHead ==
    ASSUME NEW c, NEW ms \in Seq(Messages), ms # <<>>, NEW a, NEW b, Leads(c, ms, a, b)
    PROVE  \E d : Tells(c, Head(ms), a, d) /\ Leads(c, Tail(ms), d, b)
<1>1. PICK d : <<a, Head(ms), d>> \in Telling(c) /\ Path(Telling(c), Tail(ms), d, b)
  BY PathFromHead DEF Leads
<1> QED
  BY <1>1 DEF Leads, Telling

\* Where messages lead is what is read of them.
LEMMA LeadsToReads ==
    ASSUME NEW c, NEW ms \in Seq(Messages), NEW b, Leads(c, ms, copy[c], b)
    PROVE  Reads(c, ms) = b
<1> DEFINE n == Len(ms)
           about == About(c, ms)
<1>1. n \in Nat /\ DOMAIN ms = 1 .. n /\ about \in SUBSET (1 .. n)
  BY DEF About
<1>2. PICK h : /\ h[0] = copy[c] /\ h[n] = b
               /\ \A i \in 1 .. n : Tells(c, ms[i], h[i - 1], h[i])
  BY DEF Leads, Path, Telling
<1>3. \A i \in 1 .. n : i \notin about => h[i] = h[i - 1]
  BY <1>1, <1>2 DEF Tells, About
<1> HIDE DEF n, about
<1>4. CASE about = {}
  <2> DEFINE S == {i \in 0 .. n : h[i] = copy[c]}
  <2>1. ASSUME NEW i \in 1 .. n, i - 1 \in S
        PROVE  i \in S
    BY <1>1, <1>3, <1>4, <2>1
  <2>2. 0 \in S
    BY <1>1, <1>2
  <2>3. n \in S
    <3> HIDE DEF S
    <3> QED
      BY <1>1, <2>1, <2>2, BoundedInduction
  <2> QED
    BY <1>2, <1>4, <2>3 DEF Reads, about
<1>5. CASE about # {}
  <2> DEFINE k == Max(about)
             S == {i \in 0 .. n : i >= k => h[i] = h[k]}
  <2>1. k \in 1 .. n /\ k \in about /\ \A y \in about : k >= y
    BY <1>1, <1>5, MaxExists
  <2> HIDE DEF k
  <2>2. ASSUME NEW i \in 1 .. n, i - 1 \in S
        PROVE  i \in S
    <3>1. CASE i > k
      <4>1. i \notin about /\ i - 1 >= k
        BY <1>1, <2>1, <3>1
      <4> QED
        BY <1>1, <1>3, <2>2, <4>1
    <3>2. CASE ~ (i > k)
      BY <1>1, <2>1, <3>2
    <3> QED
      BY <3>1, <3>2
  <2>3. 0 \in S
    BY <1>1, <2>1
  <2>4. n \in S
    <3> HIDE DEF S
    <3> QED
      BY <1>1, <2>2, <2>3, BoundedInduction
  <2>5. h[k] = b
    BY <1>1, <1>2, <2>1, <2>4
  <2>6. ms[k].city = c
    BY <2>1 DEF about, About
  <2>7. Tells(c, ms[k], h[k - 1], h[k])
    BY <1>2, <2>1
  <2>8. IF ms[k].type = "destroyed" THEN b = Nobody ELSE b = ms[k].plr
    BY <2>5, <2>6, <2>7 DEF Tells
  <2> QED
    BY <1>5, <2>8 DEF Reads, about, k
<1> QED
  BY <1>4, <1>5

\* The messages of a phase say nothing of a city, those of a new thread say all.
LEMMA LeadsNowhereTex ==
    ASSUME NEW c \in Cities, NEW type \in {"first", "finished", "exit"}, NEW ps, NEW a \in Known,
           Tex \subseteq Players
    PROVE  Leads(c, ToTex(type, ps), a, a)
<1> DEFINE order == SetToSeq(ps \cap Tex)
           ms == ToTex(type, ps)
<1>1. ms \in Seq(Messages)
  BY ToTexType
<1>2. ms = [i \in DOMAIN order |-> Message(type, order[i], NoId)]
  BY DEF ToTex
<1> HIDE DEF order, ms
<1>3. \A i \in DOMAIN ms : ms[i].city # c
  BY <1>2 DEF Message, NoId
<1>4. Leads(c, ms, a, a)
  BY <1>1, <1>3, LeadsNowhere
<1> QED
  BY <1>4 DEF ms

LEMMA LeadsNowhereIfEmpty ==
    ASSUME NEW c, NEW a \in Known
    PROVE  Leads(c, <<>>, a, a)
<1>1. <<>> \in Seq(Messages) /\ DOMAIN <<>> = {}
  OBVIOUS
<1> QED
  BY <1>1, LeadsNowhere

LEMMA CreatedLeads ==
    ASSUME CityTypes, NEW c \in Cities
    PROVE  Leads(c, Created, Nobody, cities[c])
<1> DEFINE owned == SetToSeq(Owned)
           ms == Created
           n == Len(owned)
           h == [i \in 0 .. n |-> IF \E j \in 1 .. i : owned[j] = c THEN cities[c] ELSE Nobody]
<1>1. Owned \subseteq Cities /\ \A x \in Owned : cities[x] \in Players
  BY DEF Owned, CityTypes
<1>2. IsFiniteSet(Owned)
  BY <1>1, FS_Subset
<1>3. /\ owned \in Seq(Owned)
      /\ \A i, j \in DOMAIN owned : owned[i] = owned[j] => i = j
      /\ \A x \in Owned : \E i \in DOMAIN owned : owned[i] = x
  BY <1>2, SeqOfSet
<1>4. ms = [i \in DOMAIN owned |-> Message("created", cities[owned[i]], owned[i])]
  BY DEF Created
<1> HIDE DEF owned, ms
<1>5. n \in Nat /\ DOMAIN owned = 1 .. n
  BY <1>3
<1> HIDE DEF n
<1>6. Len(ms) = n
  BY <1>4, <1>5
<1>7. h[0] = Nobody
  BY <1>5
<1>8. h[n] = cities[c]
  <2>1. CASE c \in Owned
    BY <1>3, <1>5, <2>1
  <2>2. CASE c \notin Owned
    BY <1>3, <1>5, <2>2 DEF Owned
  <2> QED
    BY <2>1, <2>2
<1>9. ASSUME NEW i \in 1 .. n
      PROVE  Tells(c, ms[i], h[i - 1], h[i])
  <2>1. ms[i].city = owned[i] /\ ms[i].type = "created" /\ ms[i].plr = cities[owned[i]]
    BY <1>4, <1>5 DEF Message
  <2>2. CASE owned[i] = c
    <3>1. h[i] = cities[c]
      BY <1>5, <2>2
    <3>2. h[i - 1] = Nobody
      <4>1. \A j \in 1 .. (i - 1) : owned[j] # c
        BY <1>3, <1>5, <2>2
      <4>2. i - 1 \in 0 .. n
        BY <1>5
      <4> QED
        BY <4>1, <4>2
    <3> HIDE DEF h
    <3> QED
      BY <2>1, <2>2, <3>1, <3>2 DEF Tells
  <2>3. CASE owned[i] # c
    <3>1. (\E j \in 1 .. i : owned[j] = c) <=> (\E j \in 1 .. (i - 1) : owned[j] = c)
      BY <1>5, <2>3
    <3>2. h[i] = h[i - 1]
      BY <1>5, <3>1
    <3> HIDE DEF h
    <3> QED
      BY <2>1, <2>3, <3>2 DEF Tells
  <2> QED
    BY <2>2, <2>3
<1>11. \A i \in 0 .. n : h[i] \in Known
  BY DEF Known, CityTypes
<1>12. \A i \in 1 .. n : ms[i] \in Messages
  BY <1>6, CreatedType DEF ms
<1> HIDE DEF h
<1>10. Leads(c, ms, Nobody, cities[c])
  <2>1. ASSUME NEW i \in 1 .. n
        PROVE  <<h[i - 1], ms[i], h[i]>> \in Telling(c)
    <3>1. h[i - 1] \in Known /\ h[i] \in Known
      BY <1>5, <1>11
    <3>2. ms[i] \in Messages
      BY <1>5, <1>12
    <3> QED
      BY <1>9, <3>1, <3>2 DEF Telling
  <2> QED
    BY <1>6, <1>7, <1>8, <2>1 DEF Leads, Path
<1> QED
  BY <1>10 DEF ms

\* The thread understands what it takes from the queue.
LEMMA TakeFollows ==
    ASSUME QueueTypes, CityTypes, NEW c \in Cities, Take,
           NEW d, Tells(c, Head(msglist), copy[c], d)
    PROVE  copy'[c] = d
<1> DEFINE m == Head(msglist)
<1>1. m \in Messages
  BY TailExits DEF Take, QueueTypes
<1>2. /\ m.type \in {"created", "changed", "destroyed"} => m.city \in Cities
      /\ m.city \in Cities => m.type \in {"created", "changed", "destroyed"}
      /\ m.type \in {"first", "finished", "exit"} \/ m.type \in {"created", "changed", "destroyed"}
  BY <1>1 DEF Messages, Message, NoId
<1>3. /\ m.type \in {"created", "changed", "destroyed"} => copy' = NewCopy(m)
      /\ m.type \in {"first", "finished", "exit"} => copy' = copy
  BY <1>2 DEF Take
<1>4. copy \in [Cities -> Players \cup {Nobody}]
  BY DEF QueueTypes
<1>5. Tells(c, m, copy[c], d)
  OBVIOUS
<1> HIDE DEF m
<1>6. CASE m.city = c
  <2>1. CASE m.type = "created"
    BY <1>3, <1>4, <1>5, <1>6, <2>1 DEF Tells, NewCopy
  <2>2. CASE m.type = "changed"
    BY <1>3, <1>4, <1>5, <1>6, <2>2 DEF Tells, NewCopy
  <2>3. CASE m.type = "destroyed"
    BY <1>3, <1>4, <1>5, <1>6, <2>3 DEF Tells, NewCopy
  <2> QED
    BY <1>2, <1>6, <2>1, <2>2, <2>3
<1>7. CASE m.city # c
  <2>1. d = copy[c]
    BY <1>5, <1>7 DEF Tells
  <2>2. CASE m.type \in {"first", "finished", "exit"}
    BY <1>3, <2>1, <2>2
  <2>3. CASE m.type = "created"
    BY <1>2, <1>3, <1>4, <1>7, <2>1, <2>3 DEF NewCopy
  <2>4. CASE m.type = "changed"
    BY <1>2, <1>3, <1>4, <1>7, <2>1, <2>4 DEF NewCopy
  <2>5. CASE m.type = "destroyed"
    BY <1>2, <1>3, <1>4, <1>7, <2>1, <2>5 DEF NewCopy
  <2> QED
    BY <1>2, <2>2, <2>3, <2>4, <2>5
<1> QED
  BY <1>6, <1>7

LEMMA KnownOwners ==
    ASSUME CityTypes
    PROVE  \A c \in Cities : cities[c] \in Known
BY DEF CityTypes, Known

LEMMA AddNothing ==
    ASSUME NEW S, NEW s \in Seq(S)
    PROVE  s \o <<>> = s
OBVIOUS

\* An action that sends nothing, or sends what it must of the changes it makes.
LEMMA LaterFollows ==
    ASSUME ThreadInv, CopyInv, UNCHANGED <<running, copy, msglist>>,
           outbox = <<>>, outbox' \in Seq(Messages),
           running => \A c \in Cities : Leads(c, outbox', cities[c], cities'[c])
    PROVE  CopyInv'
<1> SUFFICES ASSUME running, NEW c \in Cities
             PROVE  Leads(c, msglist \o outbox', copy[c], cities'[c])
  BY DEF CopyInv
<1>1. msglist \in Seq(Messages)
  BY DEF ThreadInv, QueueTypes
<1>2. Leads(c, msglist \o outbox, copy[c], cities[c])
  BY DEF CopyInv
<1>3. msglist \o outbox = msglist
  BY <1>1, AddNothing
<1>4. Leads(c, msglist, copy[c], cities[c])
  BY <1>2, <1>3
<1> QED
  BY <1>1, <1>4, LeadsOn

LEMMA IdleFollows ==
    ASSUME CopyInv, UNCHANGED <<running, copy, msglist, outbox, cities>>
    PROVE  CopyInv'
BY DEF CopyInv

\* The actions that send something.
LEMMA GainFollows ==
    ASSUME ThreadInv, CopyInv, Tex \subseteq Players, Sniffing, NEW p \in human, SetToAI(p),
           UNCHANGED <<cities, setting>>
    PROVE  CopyInv'
<1> DEFINE first == ToTex("first", InPhase \cap {p})
<1>1. outbox = <<>>
  BY DEF Sniffing
<1>2. first \in Seq(Messages) /\ \A c \in Cities, a \in Known : Leads(c, first, a, a)
  BY ToTexType, LeadsNowhereTex
<1>3. CASE p \notin Tex
  BY <1>3, IdleFollows DEF SetToAI, texVars
<1>4. CASE p \in Tex /\ running
  <2>1. /\ outbox' = <<>> \o first /\ UNCHANGED <<running, msglist, copy>>
    BY <1>4 DEF SetToAI, Gain
  <2> HIDE DEF first
  <2>2. outbox' = first
    BY <1>2, <2>1
  <2> QED
    BY <1>1, <1>2, <2>1, <2>2, LaterFollows, KnownOwners DEF ThreadInv
<1>5. CASE p \in Tex /\ ~ running
  <2>1. /\ outbox' = Created \o first /\ msglist' = <<>> /\ copy' = NoCity /\ running'
    BY <1>5 DEF SetToAI, Gain
  <2>2. CityTypes /\ Created \in Seq(Messages)
    BY CreatedType DEF ThreadInv
  <2> HIDE DEF first
  <2>3. Created \o first \in Seq(Messages)
    BY <1>2, <2>2
  <2>4. (msglist \o outbox)' = Created \o first
    BY <2>1, <2>3
  <2>5. ASSUME NEW c \in Cities
        PROVE  Leads(c, (msglist \o outbox)', copy'[c], cities'[c])
    <3>1. copy'[c] = Nobody
      BY <2>1 DEF NoCity
    <3>2. Leads(c, Created, Nobody, cities[c])
      BY <2>2, CreatedLeads
    <3>3. Leads(c, Created \o first, Nobody, cities[c])
      <4>1. Leads(c, first, cities[c], cities[c])
        BY <1>2, <2>2, KnownOwners
      <4> QED
        BY <1>2, <2>2, <3>2, <4>1, LeadsOn
    <3> QED
      BY <2>4, <3>1, <3>3
  <2> QED
    BY <2>5 DEF CopyInv
<1> QED
  BY <1>3, <1>4, <1>5

LEMMA LoseFollows ==
    ASSUME ThreadInv, CopyInv, Sniffing,
           NEW p \in Players, SetToHuman(p), UNCHANGED cities
    PROVE  CopyInv'
<1> DEFINE m == Message("exit", p, NoId)
<1>1. outbox = <<>> /\ m \in Messages
  BY PlainMessages DEF Sniffing
<1>2. CASE outbox' = outbox
  BY <1>2, IdleFollows DEF SetToHuman, texVars
<1>3. CASE outbox' = IfRunning(<<m>>)
  <2>1. UNCHANGED <<running, msglist, copy>>
    BY DEF SetToHuman, texVars
  <2>2. outbox' \in Seq(Messages)
    BY <1>1, <1>3, NoMessages DEF IfRunning
  <2>3. ASSUME NEW c \in Cities
        PROVE  Leads(c, <<m>>, cities[c], cities[c])
    <3>1. m.city # c
      BY DEF Message, NoId
    <3> HIDE DEF m
    <3> QED
      BY <3>1, <1>1, LeadsOneStep, KnownOwners DEF Tells, ThreadInv
  <2> QED
    BY <1>1, <1>3, <2>1, <2>2, <2>3, LaterFollows DEF IfRunning
<1> QED
  BY <1>2, <1>3 DEF SetToHuman

LEMMA PhaseFollows ==
    ASSUME ThreadInv, CopyInv, Tex \subseteq Players, outbox = <<>>,
           NEW type \in {"first", "finished", "exit"}, NEW ps,
           outbox' = outbox \/ outbox' = IfRunning(ToTex(type, ps)),
           UNCHANGED <<running, msglist, copy, cities>>
    PROVE  CopyInv'
<1>1. CASE outbox' = outbox
  BY <1>1, IdleFollows
<1>2. CASE outbox' = IfRunning(ToTex(type, ps))
  <2>1. outbox' \in Seq(Messages)
    BY <1>2, ToTexType, NoMessages DEF IfRunning
  <2>2. \A c \in Cities : Leads(c, ToTex(type, ps), cities[c], cities[c])
    BY LeadsNowhereTex, KnownOwners DEF ThreadInv
  <2> QED
    BY <1>2, <2>1, <2>2, LaterFollows DEF IfRunning
<1> QED
  BY <1>1, <1>2

LEMMA SendNextFollows ==
    ASSUME ThreadInv, CopyInv, SendNext
    PROVE  CopyInv'
<1>1. /\ outbox # <<>> /\ msglist' = Append(msglist, Head(outbox)) /\ outbox' = Tail(outbox)
      /\ UNCHANGED <<running, copy, cities>>
  BY DEF SendNext, Send
<1>2. msglist \in Seq(Messages) /\ outbox \in Seq(Messages)
  BY DEF ThreadInv, QueueTypes
<1>3. Append(msglist, Head(outbox)) \o Tail(outbox) = msglist \o outbox
  BY <1>1, <1>2
<1>4. (msglist \o outbox)' = msglist \o outbox
  BY <1>1, <1>3
<1> QED
  BY <1>1, <1>4 DEF CopyInv

LEMMA RemoveFollows ==
    ASSUME ThreadInv, CopyInv, NEW c \in Cities, RemoveCity(c)
    PROVE  CopyInv'
<1> DEFINE m == Message("destroyed", cities[c], c)
<1>1. /\ outbox = <<>> /\ outbox' = <<>> /\ cities' = [cities EXCEPT ![c] = Nobody]
      /\ cities[c] # Nobody
      /\ running' = running /\ copy' = copy
      /\ running => msglist' = Append(msglist, m)
  BY DEF RemoveCity, Sniffing, Send, texVars
<1>2. cities \in [Cities -> Players \cup {Nobody}] /\ msglist \in Seq(Messages)
  BY DEF ThreadInv, CityTypes, QueueTypes
<1>3. m \in Messages
  BY <1>1, <1>2, CityMessages
<1>4. m.city = c /\ m.type = "destroyed"
  BY DEF Message
<1> HIDE DEF m
<1>5. ASSUME running, NEW d \in Cities
      PROVE  Leads(d, (msglist \o outbox)', copy'[d], cities'[d])
  <2>1. (msglist \o outbox)' = msglist \o <<m>> /\ msglist \o outbox = msglist
    <3>1. Append(msglist, m) \o <<>> = msglist \o <<m>> /\ msglist \o <<>> = msglist
      BY <1>2, <1>3
    <3> QED
      BY <1>1, <1>5, <3>1
  <2>2. Leads(d, msglist, copy[d], cities[d])
    BY <1>5, <2>1 DEF CopyInv
  <2>3. Tells(d, m, cities[d], cities'[d])
    BY <1>1, <1>2, <1>4 DEF Tells, Nobody
  <2>4. Leads(d, msglist \o <<m>>, copy[d], cities'[d])
    <3>1. Leads(d, <<m>>, cities[d], cities'[d]) /\ <<m>> \in Seq(Messages)
      <4>1. cities[d] \in Known /\ cities'[d] \in Known
        BY <1>1, <1>2 DEF Known
      <4>2. <<m>> \in Seq(Messages)
        BY <1>3
      <4> QED
        BY <1>3, <2>3, <4>1, <4>2, LeadsOneStep
    <3> QED
      BY <1>2, <2>2, <3>1, LeadsOn
  <2> QED
    BY <1>1, <2>1, <2>4
<1> QED
  BY <1>1, <1>5 DEF CopyInv

LEMMA ChangeFollows ==
    ASSUME ThreadInv, CopyInv, NEW c \in Cities, NEW owner \in Owners, ChangeCity(c, owner)
    PROVE  CopyInv'
<1> DEFINE type == IF cities[c] = Nobody THEN "created" ELSE "changed"
           m == Message(type, owner, c)
<1>1. /\ outbox = <<>> /\ outbox' = IfRunning(<<m>>) /\ cities' = [cities EXCEPT ![c] = owner]
      /\ UNCHANGED <<running, copy, msglist>>
  BY DEF ChangeCity, Sniffing, texVars
<1>2. cities \in [Cities -> Players \cup {Nobody}] /\ owner \in Players
  BY DEF ThreadInv, CityTypes
<1>3. type \in {"created", "changed", "destroyed"} /\ (cities[c] = Nobody => type = "created")
      /\ (cities[c] # Nobody => type = "changed")
  OBVIOUS
<1> HIDE DEF type
<1>4. m \in Messages /\ m.city = c /\ m.plr = owner /\ m.type = type
  BY <1>2, <1>3, CityMessages DEF Message
<1> HIDE DEF m
<1>5. ASSUME NEW d \in Cities
      PROVE  Leads(d, <<m>>, cities[d], cities'[d])
  <2>1. Tells(d, m, cities[d], cities'[d])
    <3>1. CASE d # c
      BY <1>1, <1>2, <1>4, <3>1 DEF Tells
    <3>2. CASE d = c
      <4>1. cities'[d] = m.plr
        BY <1>1, <1>2, <1>4, <3>2
      <4>2. CASE cities[c] = Nobody
        BY <1>3, <1>4, <3>2, <4>1, <4>2 DEF Tells
      <4>3. CASE cities[c] # Nobody
        BY <1>3, <1>4, <3>2, <4>1, <4>3 DEF Tells
      <4> QED
        BY <4>2, <4>3
    <3> QED
      BY <3>1, <3>2
  <2> QED
    BY <2>1, <1>1, <1>2, <1>4, LeadsOneStep DEF Known
<1>6. outbox' \in Seq(Messages)
  <2>1. <<m>> \in Seq(Messages)
    BY <1>4
  <2> QED
    BY <1>1, <2>1, NoMessages DEF IfRunning
<1> QED
  BY <1>1, <1>5, <1>6, LaterFollows DEF IfRunning

LEMMA ThreadFollows ==
    ASSUME ThreadInv, CopyInv, AIThread
    PROVE  CopyInv'
<1>1. ThreadStep /\ UNCHANGED <<cities, outbox, running>>
  BY DEF AIThread, gameVars, ThreadStep, Start, Wake, Take, Return, Rest
<1>2. CASE Start \/ Wake \/ Return \/ Rest
  BY <1>1, <1>2, IdleFollows DEF Start, Wake, Return, Rest
<1>3. CASE Take
  <2>1. msglist # <<>> /\ msglist' = Tail(msglist)
    BY <1>3 DEF Take
  <2>2. msglist \in Seq(Messages) /\ outbox \in Seq(Messages) /\ QueueTypes /\ CityTypes
    BY DEF ThreadInv, QueueTypes
  <2>3. /\ msglist \o outbox \in Seq(Messages) /\ msglist \o outbox # <<>>
        /\ Head(msglist \o outbox) = Head(msglist)
        /\ Tail(msglist \o outbox) = Tail(msglist) \o outbox
    BY <2>1, <2>2
  <2>4. ASSUME running, NEW c \in Cities
        PROVE  Leads(c, (msglist \o outbox)', copy'[c], cities'[c])
    <3>1. Leads(c, msglist \o outbox, copy[c], cities[c])
      BY <2>4 DEF CopyInv
    <3>2. PICK d : /\ Tells(c, Head(msglist), copy[c], d)
                   /\ Leads(c, Tail(msglist) \o outbox, d, cities[c])
      BY <2>3, <3>1, LeadsFromHead
    <3>3. copy'[c] = d
      BY <1>3, <2>2, <3>2, TakeFollows
    <3> QED
      BY <1>1, <2>1, <3>2, <3>3
  <2> QED
    BY <1>1, <2>4 DEF CopyInv
<1> QED
  BY <1>1, <1>2, <1>3 DEF ThreadStep

\* All of them.
LEMMA CopyInvStep ==
    ASSUME GameTypes, ThreadInv, CopyInv, [Next]_vars
    PROVE  CopyInv'
<1>0. Tex \subseteq Players
  BY SettingFacts DEF GameTypes
<1>1. ASSUME NEW p \in Players, PressTurnDone(p) \/ HandlePhaseDone(p) \/ Die(p)
      PROVE  CopyInv'
  BY <1>1, IdleFollows DEF PressTurnDone, HandlePhaseDone, Die, texVars
<1>2. ASSUME NEW p \in Players, LoseConnection(p)
      PROVE  CopyInv'
  <2>1. Sniffing /\ UNCHANGED <<cities, setting>>
    BY <1>2 DEF LoseConnection
  <2>2. CASE p \in human /\ SetToAI(p)
    BY <1>0, <2>1, <2>2, GainFollows
  <2>3. CASE UNCHANGED <<texVars, state, outbox, human, ai_phase_done>>
    BY <2>1, <2>3, IdleFollows DEF texVars
  <2> QED
    BY <1>2, <2>2, <2>3 DEF LoseConnection
<1>3. ASSUME NEW p \in Players, Attach(p)
      PROVE  CopyInv'
  <2>1. Sniffing /\ UNCHANGED <<cities, setting>>
    BY <1>3 DEF Attach
  <2>2. CASE SetToHuman(p)
    BY <2>1, <2>2, LoseFollows
  <2>3. CASE UNCHANGED <<texVars, state, outbox, human, ai_phase_done>>
    BY <2>1, <2>3, IdleFollows DEF texVars
  <2> QED
    BY <1>3, <2>2, <2>3 DEF Attach
<1>4. ASSUME NEW p \in Players, ToggleAI(p)
      PROVE  CopyInv'
  BY <1>0, <1>4, GainFollows DEF ToggleAI
<1>5. ASSUME NEW p \in Players, ToggleHuman(p)
      PROVE  CopyInv'
  BY <1>5, LoseFollows DEF ToggleHuman
<1>6. ASSUME NEW c \in Cities, NEW owner \in Owners, ChangeCity(c, owner)
      PROVE  CopyInv'
  BY <1>6, ChangeFollows
<1>7. ASSUME NEW c \in Cities, RemoveCity(c)
      PROVE  CopyInv'
  BY <1>7, RemoveFollows
<1>8. CASE AfterWait
  BY <1>8 DEF AfterWait, Joined, CopyInv
<1>9. CASE Sniff
  <2>1. /\ outbox = <<>>
        /\ outbox' = outbox \/ outbox' = IfRunning(ToTex("finished", InPhase))
        /\ UNCHANGED <<running, msglist, copy, cities>>
    BY <1>9 DEF Sniff, EndPhase, Sniffing
  <2> QED
    BY <1>0, <2>1, PhaseFollows
<1>10. ASSUME NEW n, BeginPhase(n), outbox = <<>>
       PROVE  CopyInv'
  <2>1. /\ outbox' = IfRunning(ToTex("first", Phases[n] \ human))
        /\ UNCHANGED <<running, msglist, copy, cities>>
    BY <1>10 DEF BeginPhase, texVars
  <2> QED
    BY <1>0, <1>10, <2>1, PhaseFollows
<1>11. CASE NextPhase \/ NextTurn
  BY <1>10, <1>11 DEF NextPhase, NextTurn
<1>12. CASE GameOver \/ TimerRunsOut \/ UNCHANGED vars
  BY <1>12, IdleFollows DEF GameOver, TimerRunsOut, vars, gameVars, texVars
<1> QED
  BY <1>1, <1>2, <1>3, <1>4, <1>5, <1>6, <1>7, <1>8, <1>9, <1>11, <1>12,
     SendNextFollows, ThreadFollows DEF Next, Server

LEMMA InitCopyInv ==
    ASSUME Init, ThreadInv, Tex \subseteq Players
    PROVE  CopyInv
<1>1. /\ cities = NoCity /\ msglist = <<>> /\ (running => copy = cities)
      /\ outbox = IfRunning(ToTex("first", Phases[1] \ human))
  BY DEF Init
<1> DEFINE first == ToTex("first", Phases[1] \ human)
<1>2. first \in Seq(Messages) /\ \A c \in Cities, a \in Known : Leads(c, first, a, a)
  BY ToTexType, LeadsNowhereTex
<1> HIDE DEF first
<1>3. running => msglist \o outbox = first
  BY <1>1, <1>2 DEF IfRunning, first
<1> QED
  BY <1>1, <1>2, <1>3 DEF CopyInv, Known, NoCity

\* Whatever becomes of the cities, and however often the thread has ended and
\* begun again, what it has read and will read are the cities of the server: no
\* message is lost, is sent twice, or comes before one it needs.
THEOREM CopyAlwaysFollows == Spec => []CopyFollows
<1>1. Init => CopyInv
  <2> SUFFICES ASSUME Init
               PROVE  CopyInv
    OBVIOUS
  <2>1. TInv
    BY InitTInv
  <2> QED
    BY <2>1, InitCopyInv, SettingFacts DEF TInv, GameTypes
<1>2. TInv /\ CopyInv /\ [Next]_vars => CopyInv'
  BY CopyInvStep DEF TInv
<1>3. ASSUME TInv, CopyInv
      PROVE  CopyFollows
  <2>1. msglist \o outbox \in Seq(Messages)
    BY <1>3 DEF TInv, ThreadInv, QueueTypes
  <2> QED
    BY <1>3, <2>1, LeadsToReads DEF CopyFollows, CopyInv
<1> QED
  BY <1>1, <1>2, <1>3, THolds, PTL DEF Spec
=============================================================================
