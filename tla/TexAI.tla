------------------------------- MODULE TexAI --------------------------------
(***************************************************************************)
(* The thread of the tex AI (ai/tex): the server sends it messages, it     *)
(* keeps a copy of the cities and answers "turn done".                     *)
(*                                                                         *)
(* The thread takes the mutex of the message queue when it starts and      *)
(* gives it up only inside fc_thread_cond_wait, so the server waits in     *)
(* texai_msg_to_thr for as long as the thread works.  A signal that finds  *)
(* nobody in fc_thread_cond_wait is lost.  Wake-ups without a signal,      *)
(* which POSIX allows, are left out.                                       *)
(*                                                                         *)
(* Of the world the model has the owners of cities.  The wishes for        *)
(* workers and buildings that the thread also sends are left out.          *)
(***************************************************************************)
EXTENDS Naturals, FiniteSets, Sequences, SequencesExt

CONSTANTS
    Players,        \* player numbers, in the order of players_iterate
    Cities          \* ids of cities; 0 is not one

ASSUME PlayersAssumption == IsFiniteSet(Players) /\ Players \subseteq Nat \ {0}
ASSUME CitiesAssumption == IsFiniteSet(Cities) /\ Cities \subseteq Nat \ {0}

VARIABLES
    numPlayers,     \* exthrai.num_players
    running,        \* exthrai.thread_running
    thread,         \* where the thread is
    msglist,        \* exthrai.msgs_to
    reqlist,        \* exthrai.reqs_from: players whose turn is done
    stack,          \* calls of texai_check_messages under way
    cities,         \* the cities of the server: their owners
    copy            \* the cities the thread knows

texVars == <<numPlayers, running, thread, msglist, reqlist, stack, copy>>

Nobody == 0
NoCity == [c \in Cities |-> Nobody]

\* "off" or "started" (before it has the mutex), "waiting" for a signal, "woken"
\* by one, "working" with the mutex, or "ended" and to be waited for.
Places == {"off", "started", "waiting", "woken", "working", "ended"}

Message(type, plr, city) == [type |-> type, plr |-> plr, city |-> city]
NoId == 0
Messages ==
    {Message(t, p, NoId) : t \in {"first", "finished", "exit"}, p \in Players}
        \cup {Message(t, p, c) : t \in {"created", "changed", "destroyed"},
                                 p \in Players, c \in Cities}

\* enum texai_abort_msg_class, the stronger the greater.
NoAbort == 0
PhaseEnd == 1
Exit == 2
Stronger(a, b) == IF a > b THEN a ELSE b

\* plr is the player whose cities the caller goes through, left is the number
\* of those cities it has still to visit.  The outermost call has no such caller.
Calls == [plr : Players \cup {Nobody}, left : Nat, abort : NoAbort .. Exit]
Outermost == [plr |-> Nobody, left |-> 0, abort |-> NoAbort]

TexTypeOK ==
    /\ numPlayers \in Nat
    /\ running \in BOOLEAN
    /\ thread \in Places
    /\ msglist \in Seq(Messages)
    /\ reqlist \in Seq(Players)
    /\ stack \in Seq(Calls)
    /\ cities \in [Cities -> Players \cup {Nobody}]
    /\ copy \in [Cities -> Players \cup {Nobody}]
    /\ running <=> thread # "off"
    /\ stack = <<>> <=> thread # "working"

CitiesOf(p) == {c \in Cities : cities[c] = p}

-----------------------------------------------------------------------------
(***************************************************************************)
(* What the server does.                                                   *)
(***************************************************************************)
\* Slip: the thread is not signalled.
SendQuietly(m) ==
    /\ thread # "working"
    /\ msglist' = Append(msglist, m)
    /\ UNCHANGED <<numPlayers, running, thread, reqlist, stack, copy>>

\* texai_msg_to_thr, for a thread that is running.
Send(m) ==
    /\ thread # "working"
    /\ msglist' = Append(msglist, m)
    /\ thread' = IF thread = "waiting" THEN "woken" ELSE thread
    /\ UNCHANGED <<numPlayers, running, reqlist, stack, copy>>

\* texai_send_msg: without a thread there is nobody to send to.
IfRunning(ms) == IF running THEN ms ELSE <<>>

Owned == {c \in Cities : cities[c] # Nobody}

\* Slip: a new thread is told of nothing.
CreatedLater == <<>>

\* What texai_control_gained tells a new thread of the cities of all players.
Created ==
    LET owned == SetToSeq(Owned)
    IN  [i \in DOMAIN owned |-> Message("created", cities[owned[i]], owned[i])]

\* texai_control_gained, up to the messages.
Gain ==
    /\ numPlayers' = numPlayers + 1
    /\ \/ running /\ UNCHANGED <<running, thread, msglist, reqlist, copy>>
       \/ /\ ~ running
          /\ running' = TRUE
          /\ thread' = "started"
          /\ msglist' = <<>>
          /\ reqlist' = <<>>
          /\ copy' = NoCity
    /\ UNCHANGED stack

\* Slip: the thread ends with any of its players.
EndsAlways == TRUE

\* texai_control_lost: with the last player the thread is told to exit.
EndsWithLast == numPlayers <= 1

\* The end of texai_control_lost, after fc_thread_wait.
Joined ==
    /\ thread = "ended"
    /\ running' = FALSE
    /\ thread' = "off"
    /\ msglist' = <<>>
    /\ reqlist' = <<>>
    /\ copy' = NoCity
    /\ UNCHANGED <<numPlayers, stack>>

-----------------------------------------------------------------------------
(***************************************************************************)
(* What the thread does: texai_thread_start and texai_check_messages.      *)
(***************************************************************************)
Top == stack[Len(stack)]
SetTop(call) == [stack EXCEPT ![Len(stack)] = call]

\* The mutex is taken and given up again in fc_thread_cond_wait, whatever is
\* already in the queue.
Start ==
    /\ thread = "started"
    /\ thread' = "waiting"
    /\ UNCHANGED <<numPlayers, running, msglist, reqlist, stack, copy>>

Wake ==
    /\ thread = "woken"
    /\ thread' = "working"
    /\ stack' = <<Outermost>>
    /\ UNCHANGED <<numPlayers, running, msglist, reqlist, copy>>

\* texai_city_info_recv and texai_city_destruction_recv
NewCopy(m) ==
    CASE m.type = "created"   -> IF copy[m.city] = Nobody
                                 THEN [copy EXCEPT ![m.city] = m.plr] ELSE copy
      [] m.type = "changed"   -> IF copy[m.city] # Nobody
                                 THEN [copy EXCEPT ![m.city] = m.plr] ELSE copy
      [] m.type = "destroyed" -> [copy EXCEPT ![m.city] = Nobody]

Take ==
    LET m == Head(msglist)
        n == Cardinality(CitiesOf(m.plr))
    IN  /\ thread = "working"
        /\ msglist # <<>>
        /\ msglist' = Tail(msglist)
        /\ \/ /\ m.type = "first" /\ n = 0
              /\ reqlist' = Append(reqlist, m.plr)
              /\ UNCHANGED <<stack, copy>>
           \* After each city the messages are checked recursively.
           \/ /\ m.type = "first" /\ n > 0
              /\ stack' = Append(stack, [plr |-> m.plr, left |-> n - 1,
                                         abort |-> NoAbort])
              /\ UNCHANGED <<reqlist, copy>>
           \/ /\ m.type = "finished"
              /\ stack' = SetTop([Top EXCEPT !.abort = Stronger(@, PhaseEnd)])
              /\ UNCHANGED <<reqlist, copy>>
           \/ /\ m.type = "exit"
              /\ stack' = SetTop([Top EXCEPT !.abort = Exit])
              /\ UNCHANGED <<reqlist, copy>>
           \/ /\ m.type \in {"created", "changed", "destroyed"}
              /\ copy' = NewCopy(m)
              /\ UNCHANGED <<reqlist, stack>>
        /\ UNCHANGED <<numPlayers, running, thread>>

\* The messages are read: a recursive call returns to the loop over the cities,
\* which goes on or, after the last city or an abort, is done.
Return ==
    LET done  == Top.left = 0 \/ Top.abort # NoAbort
        below == stack[Len(stack) - 1]
    IN  /\ thread = "working"
        /\ msglist = <<>>
        /\ Len(stack) > 1
        /\ \/ /\ ~ done
              /\ stack' = SetTop([Top EXCEPT !.left = @ - 1])
              /\ UNCHANGED reqlist
           \/ /\ done
              /\ stack' = Append(SubSeq(stack, 1, Len(stack) - 2),
                                 [below EXCEPT !.abort = Stronger(@, Top.abort)])
              /\ reqlist' = Append(reqlist, Top.plr)
        /\ UNCHANGED <<numPlayers, running, thread, msglist, copy>>

\* The outermost call returns; the thread waits again, or ends.
Rest ==
    /\ thread = "working"
    /\ msglist = <<>>
    /\ Len(stack) = 1
    /\ thread' = IF Top.abort = Exit THEN "ended" ELSE "waiting"
    /\ stack' = <<>>
    /\ UNCHANGED <<numPlayers, running, msglist, reqlist, copy>>

ThreadStep == Start \/ Wake \/ Take \/ Return \/ Rest
=============================================================================
