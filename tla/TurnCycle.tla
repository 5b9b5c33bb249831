----------------------------- MODULE TurnCycle ------------------------------
(***************************************************************************)
(* The turns of a running game: srv_running and the main loop of the       *)
(* server, server_sniff_all_input, with everything that decides when a     *)
(* phase ends: "Turn Done" of the clients, connections that come and go,   *)
(* players handed to an AI and back, deaths, the timer, and the answers of *)
(* the tex AI, whose thread is that of module TexAI.                       *)
(*                                                                         *)
(* The server is one thread.  It may have to wait in the middle of an      *)
(* operation to send a message to the AI thread; "outbox" is what it has   *)
(* still to send, and nothing else happens in the server meanwhile.        *)
(* Only one connection of a player counts, the one that controls it.       *)
(* A death, a change of a city, a connection that comes or goes and a      *)
(* change between human and AI are incidents; their number is bounded.     *)
(***************************************************************************)
EXTENDS TexAI

CONSTANTS
    Settings,       \* combinations of server settings to look at
    EndTurn,        \* game.server.end_turn
    Owners,         \* bound: players whose cities come and go
    MaxIncidents    \* bound: incidents in a behaviour

\* timeout: there is a time limit.
SettingRecords ==
    [timeout : BOOLEAN, fixedlength : BOOLEAN, turnblock : BOOLEAN,
     autotoggle : BOOLEAN, tex : SUBSET Players,
     phases : Seq(SUBSET Players) \ {<<>>}]

ASSUME SettingsAssumption == Settings \subseteq SettingRecords
ASSUME TurnsAssumption ==
    EndTurn \in Nat \ {0} /\ MaxIncidents \in Nat /\ Owners \subseteq Players

VARIABLES
    setting,        \* the settings of this game
    turn, phase,    \* game.info.turn, game.info.phase (from 1)
    state,          \* "sniff", "end_phase", "wait" for the AI thread, "over"
    force,          \* force_end_of_sniff
    expired,        \* phase_timer has passed seconds_to_phasedone
    outbox,         \* messages the server has still to send to the AI thread
    connected,      \* players with is_connected
    human,          \* players that are no AI
    alive,
    phase_done,     \* "Has human player finished"
    ai_phase_done,  \* "Has AI type finished"
    inflight,       \* the turn in a PLAYER_PHASE_DONE under way, or Nothing
    incidents,
    pressed,        \* history: who has pressed Turn Done in this turn
    latecomers      \* history: who has come since force_end_of_sniff was set

gameVars == <<setting, turn, phase, state, force, expired, outbox,
              connected, human, alive, phase_done, ai_phase_done, inflight,
              incidents, pressed, latecomers>>
vars == <<texVars, cities, gameVars>>

Nothing == 0

\* Those whose AI type is tex.
Tex == setting.tex

\* phase_mode: who moves in which phase
Phases == setting.phases

TypeOK ==
    /\ TexTypeOK
    /\ setting \in Settings
    /\ turn \in 1 .. EndTurn /\ phase \in 1 .. Len(Phases)
    /\ state \in {"sniff", "end_phase", "wait", "over"}
    /\ force \in BOOLEAN /\ expired \in BOOLEAN
    /\ outbox \in Seq(Messages)
    /\ connected \subseteq Players /\ human \subseteq Players
    /\ alive \subseteq Players
    /\ phase_done \subseteq Players /\ ai_phase_done \subseteq Players
    /\ inflight \in [Players -> 0 .. EndTurn]
    /\ incidents \in 0 .. MaxIncidents
    /\ pressed \subseteq Players /\ latecomers \subseteq Players

InPhase == Phases[phase]

\* The messages of one type for the tex players among ps.
ToTex(type, ps) ==
    LET order == SetToSeq(ps \cap Tex)
    IN  [i \in DOMAIN order |-> Message(type, order[i], NoId)]

\* check_for_full_turn_done waits for p.
Missing(p) ==
    /\ p \in alive
    /\ p \notin phase_done
    /\ \/ p \in connected
       \/ setting.turnblock /\ p \in human
       \/ p \notin human /\ p \notin ai_phase_done

\* A game of AIs alone does not run by itself.
InCompany ==
    \E p \in alive \cap connected : p \in human \/ p \in phase_done

FullTurnDone ==
    /\ ~ (setting.fixedlength /\ setting.timeout)
    /\ InCompany
    /\ \A p \in InPhase : ~ Missing(p)

\* check_for_full_turn_done, at the end of a handler.  latecomers starts anew
\* when the flag is set.
Check ==
    /\ force' = (force \/ FullTurnDone')
    /\ latecomers' = IF FullTurnDone' THEN {} ELSE latecomers

NoCheck == UNCHANGED <<force, latecomers>>

-----------------------------------------------------------------------------
(***************************************************************************)
(* A game begins: the first phase has begun, and the thread of the tex AI  *)
(* has been waiting for messages since the pregame, if it has a player.    *)
(* Num_players may count a player too many: one that aifill made and a     *)
(* client took over before the start (set_as_human without lost_control).  *)
(***************************************************************************)
Init ==
    /\ setting \in Settings
    /\ turn = 1 /\ phase = 1
    /\ state = "sniff"
    /\ expired = FALSE
    /\ connected \in SUBSET Players
    /\ human = connected
    /\ alive = Players
    /\ phase_done = {}
    /\ ai_phase_done = Phases[1] \ (Tex \cup human)
    /\ inflight = [p \in Players |-> Nothing]
    /\ incidents = 0
    /\ pressed = {}
    /\ latecomers = {}
    /\ cities = NoCity
    /\ numPlayers \in {Cardinality(Tex \ human), Cardinality(Tex)}
    /\ running = (numPlayers > 0)
    /\ copy = IF running THEN cities ELSE NoCity
    /\ thread = IF running THEN "waiting" ELSE "off"
    /\ msglist = <<>> /\ reqlist = <<>> /\ stack = <<>>
    /\ outbox = IfRunning(ToTex("first", Phases[1] \ human))
    /\ force = FullTurnDone

-----------------------------------------------------------------------------
(***************************************************************************)
(* Handlers, called from server_sniff_all_input.                           *)
(***************************************************************************)
Sniffing == state = "sniff" /\ outbox = <<>>

Incident == incidents < MaxIncidents /\ incidents' = incidents + 1

\* The client sends the turn it is in.
PressTurnDone(p) ==
    /\ state # "over"
    /\ p \in connected \cap alive
    /\ inflight[p] = Nothing
    /\ p \notin phase_done
    /\ inflight' = [inflight EXCEPT ![p] = turn]
    /\ pressed' = pressed \cup {p}
    /\ UNCHANGED <<texVars, cities, setting, turn, phase, state, force,
                   expired, outbox, connected, human, alive, phase_done,
                   ai_phase_done, incidents, latecomers>>

\* Slip: the turn of the message is not looked at.
OfAnyTurn(t) == t # Nothing

OfThisTurn(t) == t = turn

\* handle_player_phase_done; messages of a dead player are dropped.
HandlePhaseDone(p) ==
    /\ Sniffing
    /\ inflight[p] # Nothing
    /\ inflight' = [inflight EXCEPT ![p] = Nothing]
    /\ \/ /\ p \in alive
          /\ OfThisTurn(inflight[p])
          /\ phase_done' = phase_done \cup {p}
          /\ UNCHANGED <<texVars, cities, setting, turn, phase, state,
                         expired, outbox, connected, human, alive,
                         ai_phase_done, incidents, pressed>>
          /\ Check
       \/ /\ p \notin alive \/ ~ OfThisTurn(inflight[p])
          /\ UNCHANGED <<texVars, cities, setting, turn, phase, state,
                         expired, outbox, connected, human, alive, phase_done,
                         ai_phase_done, incidents, pressed>>
          /\ NoCheck

\* player_set_to_ai_mode, up to its check: AI types other than tex are done at
\* once (restart_phase), the thread of the tex AI is started or told.
SetToAI(p) ==
    /\ human' = human \ {p}
    /\ \/ /\ p \in Tex
          /\ Gain
          /\ outbox' = (IF running THEN <<>> ELSE Created)
                          \o ToTex("first", InPhase \cap {p})
          /\ UNCHANGED ai_phase_done
       \/ /\ p \notin Tex
          /\ ai_phase_done' = ai_phase_done \cup (InPhase \cap {p})
          /\ UNCHANGED <<texVars, outbox>>
    /\ UNCHANGED state

\* player_set_under_human_control
SetToHuman(p) ==
    /\ human' = human \cup {p}
    /\ \/ /\ p \in Tex
          /\ numPlayers' = numPlayers - 1
          /\ \/ /\ EndsWithLast
                /\ outbox' = IfRunning(<<Message("exit", p, NoId)>>)
                /\ state' = "wait"
             \/ /\ ~ EndsWithLast
                /\ UNCHANGED <<outbox, state>>
          /\ UNCHANGED <<running, thread, msglist, reqlist, stack, copy>>
       \/ /\ p \notin Tex
          /\ UNCHANGED <<texVars, outbox, state>>
    /\ UNCHANGED ai_phase_done

\* Slip: nobody asks whether the turn is done.
LoseConnectionQuietly(p) ==
    /\ Sniffing /\ Incident
    /\ p \in connected
    /\ connected' = connected \ {p}
    /\ inflight' = [inflight EXCEPT ![p] = Nothing]
    /\ UNCHANGED <<texVars, cities, setting, turn, phase, expired, alive,
                   phase_done, pressed, outbox, human, ai_phase_done, state>>
    /\ NoCheck

\* lost_connection_to_client, and detach_command.
LoseConnection(p) ==
    /\ Sniffing /\ Incident
    /\ p \in connected
    /\ connected' = connected \ {p}
    /\ inflight' = [inflight EXCEPT ![p] = Nothing]
    /\ UNCHANGED <<cities, setting, turn, phase, expired, alive,
                   phase_done, pressed>>
    /\ \/ /\ setting.autotoggle /\ p \in human
          /\ SetToAI(p)
       \/ /\ ~ setting.autotoggle \/ p \notin human
          /\ UNCHANGED <<texVars, state, outbox, human, ai_phase_done>>
    /\ Check

\* connection_attach of a client that comes or takes a player.
Attach(p) ==
    /\ Sniffing /\ Incident
    /\ p \notin connected
    /\ connected' = connected \cup {p}
    /\ latecomers' = latecomers \cup {p}
    /\ \/ /\ setting.autotoggle /\ p \notin human
          /\ SetToHuman(p)
       \/ /\ ~ setting.autotoggle \/ p \in human
          /\ UNCHANGED <<texVars, state, outbox, human, ai_phase_done>>
    /\ UNCHANGED <<cities, setting, turn, phase, force, expired, alive,
                   phase_done, inflight, pressed>>

\* toggle_ai_command and away_command
ToggleAI(p) ==
    /\ Sniffing /\ Incident
    /\ p \in human
    /\ SetToAI(p)
    /\ UNCHANGED <<cities, setting, turn, phase, expired, connected, alive,
                   phase_done, inflight, pressed>>
    /\ Check

ToggleHuman(p) ==
    /\ Sniffing /\ Incident
    /\ p \notin human
    /\ SetToHuman(p)
    /\ UNCHANGED <<cities, setting, turn, phase, expired, connected, alive,
                   phase_done, inflight, pressed>>
    /\ NoCheck

\* kill_dying_players, after a packet.
Die(p) ==
    /\ Sniffing /\ Incident
    /\ p \in alive
    /\ alive' = alive \ {p}
    /\ UNCHANGED <<texVars, cities, setting, turn, phase, state, expired,
                   outbox, connected, human, phase_done, ai_phase_done, inflight,
                   pressed>>
    /\ NoCheck

\* create_city and transfer_city: the AI thread is told after the change.  The
\* thread counts the cities when it begins with a player; that the lists change
\* without the mutex that it holds then is left out.
ChangeCity(c, owner) ==
    LET type == IF cities[c] = Nobody THEN "created" ELSE "changed"
    IN  /\ Sniffing /\ Incident
        /\ cities[c] # owner
        /\ cities' = [cities EXCEPT ![c] = owner]
        /\ outbox' = IfRunning(<<Message(type, owner, c)>>)
        /\ UNCHANGED <<texVars, setting, turn, phase, state, expired,
                       connected, human, alive, phase_done, ai_phase_done,
                       inflight, pressed>>
        /\ NoCheck

\* remove_city: the thread is told, then the city goes.
RemoveCity(c) ==
    /\ Sniffing /\ Incident
    /\ cities[c] # Nobody
    /\ \/ running /\ Send(Message("destroyed", cities[c], c))
       \/ ~ running /\ UNCHANGED texVars
    /\ cities' = [cities EXCEPT ![c] = Nobody]
    /\ UNCHANGED <<setting, turn, phase, state, expired, outbox, connected,
                   human, alive, phase_done, ai_phase_done, inflight, pressed>>
    /\ NoCheck

-----------------------------------------------------------------------------
(***************************************************************************)
(* The main loop.                                                          *)
(***************************************************************************)
SendNext ==
    /\ outbox # <<>>
    /\ Send(Head(outbox))
    /\ outbox' = Tail(outbox)
    /\ UNCHANGED <<cities, setting, turn, phase, state, force, expired,
                   connected, human, alive, phase_done, ai_phase_done, inflight,
                   incidents, pressed, latecomers>>

TimerRunsOut ==
    /\ setting.timeout /\ ~ expired
    /\ state = "sniff"
    /\ expired' = TRUE
    /\ UNCHANGED <<texVars, cities, setting, turn, phase, state, force,
                   outbox, connected, human, alive, phase_done, ai_phase_done,
                   inflight, incidents, pressed, latecomers>>

\* end_phase as far as the AI is concerned (phase_finished)
EndPhase ==
    /\ state' = "end_phase"
    /\ outbox' = IfRunning(ToTex("finished", InPhase))

\* Slip: turns of a fixed length are left to Turn Done.
TimeIsUpUnlessFixed == expired /\ ~ setting.fixedlength

\* The test of phase_timer, after input and when there is none.
TimeIsUp == expired

\* call_ai_refresh, which reads the answers of the AI thread, the test of the
\* timer, and the one of force_end_of_sniff when the loop is entered again.
Sniff ==
    /\ Sniffing
    /\ ai_phase_done' = ai_phase_done \cup {reqlist[i] : i \in DOMAIN reqlist}
    /\ reqlist' = <<>>
    /\ \/ /\ TimeIsUp /\ EndPhase /\ UNCHANGED force
       \/ /\ ~ TimeIsUp /\ force /\ EndPhase /\ force' = FALSE
       \/ /\ ~ TimeIsUp /\ ~ force /\ reqlist # <<>>
          /\ UNCHANGED <<state, outbox, force>>
    /\ UNCHANGED <<numPlayers, running, thread, msglist, stack, copy, cities,
                   setting, turn, phase, expired, connected, human, alive,
                   phase_done, inflight, incidents, pressed, latecomers>>

\* texai_control_lost has waited for the thread.
AfterWait ==
    /\ state = "wait" /\ outbox = <<>>
    /\ Joined
    /\ state' = "sniff"
    /\ UNCHANGED <<cities, setting, turn, phase, force, expired, outbox,
                   connected, human, alive, phase_done, ai_phase_done, inflight,
                   incidents, pressed, latecomers>>

\* begin_phase and ai_start_phase: AI types other than tex are done at once.
ResetDone(ps) ==
    /\ phase_done' = phase_done \ ps
    /\ ai_phase_done' = (ai_phase_done \ ps) \cup (ps \ (human \cup Tex))

\* srv_running sets the flag to FALSE and asks before it listens again.
BeginPhase(n) ==
    /\ phase' = n
    /\ state' = "sniff"
    /\ expired' = FALSE
    /\ ResetDone(Phases[n])
    /\ outbox' = IfRunning(ToTex("first", Phases[n] \ human))
    /\ latecomers' = {}
    /\ UNCHANGED <<texVars, cities, setting, connected, human, alive,
                   inflight, incidents>>
    /\ force' = FullTurnDone'

NextPhase ==
    /\ state = "end_phase" /\ outbox = <<>>
    /\ phase < Len(Phases)
    /\ UNCHANGED <<turn, pressed>>
    /\ BeginPhase(phase + 1)

\* end_turn and begin_turn
NextTurn ==
    /\ state = "end_phase" /\ outbox = <<>>
    /\ phase = Len(Phases)
    /\ turn < EndTurn
    /\ turn' = turn + 1
    /\ pressed' = {}
    /\ BeginPhase(1)

\* check_for_game_over
GameOver ==
    /\ state = "end_phase" /\ outbox = <<>>
    /\ phase = Len(Phases)
    /\ turn = EndTurn
    /\ state' = "over"
    /\ UNCHANGED <<texVars, cities, setting, turn, phase, force, expired,
                   outbox, connected, human, alive, phase_done, ai_phase_done,
                   inflight, incidents, pressed, latecomers>>

AIThread == ThreadStep /\ UNCHANGED <<cities, gameVars>>

Server == SendNext \/ Sniff \/ AfterWait \/ NextPhase \/ NextTurn \/ GameOver

Next ==
    \/ Server
    \/ AIThread
    \/ TimerRunsOut
    \/ \E p \in Players :
          \/ PressTurnDone(p) \/ HandlePhaseDone(p)
          \/ LoseConnection(p) \/ Attach(p)
          \/ ToggleAI(p) \/ ToggleHuman(p)
          \/ Die(p)
    \/ \E c \in Cities : RemoveCity(c) \/ \E owner \in Owners : ChangeCity(c, owner)

Spec == Init /\ [][Next]_vars

\* Both threads run, the timer runs, and a message that has been sent arrives.
FairSpec ==
    /\ Spec
    /\ WF_vars(Server) /\ WF_vars(AIThread) /\ WF_vars(TimerRunsOut)
    /\ WF_vars(\E p \in Players : HandlePhaseDone(p))

-----------------------------------------------------------------------------
(***************************************************************************)
(* Properties.                                                             *)
(***************************************************************************)

\* The owner of c in the copy once the messages ms are read: the last of them
\* about c decides.
About(c, ms) == {i \in DOMAIN ms : ms[i].city = c}

Reads(c, ms) ==
    LET last == ms[Max(About(c, ms))]
    IN  IF About(c, ms) = {} THEN copy[c]
        ELSE IF last.type = "destroyed" THEN Nobody ELSE last.plr

\* The copy of the thread, once it has read what is sent or about to be sent
\* to it, holds the cities of the server with their owners, however often the
\* thread has ended and begun again (log_error "not known" in texaiworld.c).
CopyFollows ==
    running => \A c \in Cities : Reads(c, msglist \o outbox) = cities[c]

\* The thread is there for as long as an AI player needs it, and control_lost
\* waits only for a thread that has been told to exit.
ThreadWhileNeeded ==
    /\ Tex \ human # {} => running /\ state # "wait"
    /\ state = "wait" => \/ thread = "ended"
                         \/ \E k \in DOMAIN stack : stack[k].abort = Exit
                         \/ \E m \in Range(msglist \o outbox) : m.type = "exit"

\* "In all cases, we wait for any connected players": a phase that is ended
\* before its time has all its living connected players done, in this turn and
\* not in an earlier one.  The exception are those who came after the last of
\* the others was done, before the main loop noticed it.
NobodyCutShort ==
    [][(Sniff /\ state' = "end_phase" /\ ~ expired) =>
          \A p \in InPhase \cap alive \cap connected :
              p \in pressed \cup latecomers]_vars

\* Whoever is the last one to press Turn Done, to leave or to hand over to an AI
\* ends the turn.
WhoeverIsLastEndsTheTurn ==
    [][(state = "sniff" /\ ~ FullTurnDone /\ FullTurnDone'
          /\ \/ phase_done' # phase_done
             \/ connected \ connected' # {}
             \/ human \ human' # {}) =>
          force' \/ state' # "sniff"]_vars

\* A message that was sent before the thread listened waits for the next one, at
\* the latest for that of the end of the phase; no other message is forgotten.
MessagesHeard ==
    (setting.timeout /\ state = "sniff" /\ thread = "waiting" /\ msglist # <<>>)
        ~> (msglist = <<>> \/ state = "wait")

\* With a timeout every turn ends, whoever stays away and whatever the AI thread
\* does, unless the server waits for a thread that missed its signal to exit.
TurnsEnd ==
    \A t \in 1 .. EndTurn :
        (setting.timeout /\ turn = t) ~> (turn > t \/ state \in {"over", "wait"})

\* A turn that is done ends.
DoneTurnsEnd ==
    (state = "sniff" /\ FullTurnDone)
        ~> (~ FullTurnDone \/ state = "end_phase" \/ state = "over")
=============================================================================
