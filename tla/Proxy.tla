------------------------------- MODULE Proxy --------------------------------
(***************************************************************************)
(* The path of a user's packets: the web client, the proxy and the part of *)
(* the game server that accepts, reads and closes connections.             *)
(*                                                                         *)
(* A socket stands for one WebSocket of the user (a tab, or the page after *)
(* a reload) with all that belongs to it: its WSHandler, its CivCom thread *)
(* and its connection to the server.  The handlers share one thread, that  *)
(* of Tornado; each CivCom has its own; the server has one.  The user      *)
(* opens and closes WebSockets as he likes, so what must not mix are the   *)
(* end of one and the beginning of the next.                               *)
(*                                                                         *)
(* Requests and packets are numbered; request 0 is the login.  Framing,    *)
(* compression and full buffers of the kernel are left out: a packet is    *)
(* written and read as a whole, and a write never blocks.                  *)
(*                                                                         *)
(* The two threads of the proxy are taken to change places between any two *)
(* statements, and between a test of self.socket and its use.  CPython up  *)
(* to 3.9 may do so anywhere; from 3.10 on it does so at calls and loops   *)
(* only, so that some of the steps below are one.                          *)
(***************************************************************************)
EXTENDS Integers, Sequences, SequencesExt

CONSTANTS
    Sockets,        \* the user's WebSockets, in the order he opens them
    MaxRequests,    \* bound: requests sent on one of them
    MaxPackets      \* bound: packets the server sends on one of them

ASSUME SocketsAssumption == Sockets \subseteq Nat \ {0}
ASSUME BoundsAssumption == MaxRequests \in Nat /\ MaxPackets \in Nat \ {0}

VARIABLES
    \* WebSocket and handler
    ws,             \* "new", "ready" (is_ready), "refused" or "closed"
    civcoms,        \* the sockets with an entry in the table civcoms
    asked,          \* requests the client has sent
    got,            \* packets the page has received, while it is there
    closing,        \* the socket whose on_close is running, or Nothing
    ioRest,         \* what the loop of on_close has still to send
    tested,         \* what on_close found of self.socket: "no" before it has
                    \* looked, "set" or "unset"
    \* the CivCom thread
    thr,            \* its place: "none" before it is started, "connect",
                    \* "login", "send", "clear", "read", "close", "dead"
    queue,          \* civserver_messages
    rest,           \* what the loop of the thread has still to send
    buffer,         \* send_buffer
    handler,        \* civwebserver is set
    stopped,
    socket,         \* "none", "unconnected", "open" or "closed"
    stale,          \* history: sockets the thread has opened or closed since
                    \* on_close had looked at them
    \* TCP
    up, upEnd,      \* sent to the server and not read, end of the stream
    down, downEnd,  \* the same, to the proxy
    \* the server
    conn,           \* "none", "backlog", "open", "established", "closing", "gone"
    backlog,        \* connections waiting to be accepted, in order
    readable,       \* sockets of this round of the main loop not yet read
    inRound,        \* the server is between select and the end of the round
    recv,           \* history: requests the server has read
    given,          \* packets the server has sent
    behind          \* history: sockets accepted while an older connection
                    \* had data to read

wsVars == <<ws, civcoms, asked, got, closing, ioRest, tested>>
thrVars == <<thr, queue, rest, buffer, handler, stopped, socket, stale>>
tcpVars == <<up, upEnd, down, downEnd>>
serverVars == <<conn, backlog, readable, inRound, recv, given, behind>>
vars == <<wsVars, thrVars, tcpVars, serverVars>>

Nothing == 0
Login == 0

Requests == Seq(0 .. MaxRequests)
Packets == Seq(1 .. MaxPackets)

TypeOK ==
    /\ ws \in [Sockets -> {"new", "ready", "refused", "closed"}]
    /\ civcoms \subseteq Sockets
    /\ asked \in [Sockets -> 0 .. MaxRequests]
    /\ closing \in Sockets \cup {Nothing} /\ ioRest \in Requests
    /\ tested \in {"no", "set", "unset"}
    /\ thr \in [Sockets -> {"none", "connect", "login", "send", "clear",
                            "read", "close", "dead"}]
    /\ queue \in [Sockets -> Requests] /\ rest \in [Sockets -> Requests]
    /\ got \in [Sockets -> Packets] /\ buffer \in [Sockets -> Packets]
    /\ handler \in [Sockets -> BOOLEAN] /\ stopped \in [Sockets -> BOOLEAN]
    /\ socket \in [Sockets -> {"none", "unconnected", "open", "closed"}]
    /\ stale \subseteq Sockets
    /\ up \in [Sockets -> Requests] /\ upEnd \in [Sockets -> BOOLEAN]
    /\ down \in [Sockets -> Packets] /\ downEnd \in [Sockets -> BOOLEAN]
    /\ conn \in [Sockets -> {"none", "backlog", "open", "established",
                             "closing", "gone"}]
    /\ backlog \in Seq(Sockets)
    /\ readable \subseteq Sockets /\ inRound \in BOOLEAN
    /\ recv \in [Sockets -> Requests] /\ given \in [Sockets -> 0 .. MaxPackets]
    /\ behind \subseteq Sockets
    /\ \A s \in Sockets :
           /\ thr[s] # "send" => rest[s] = <<>>
           /\ thr[s] = "none" => socket[s] = "none" /\ s \notin civcoms
           /\ handler[s] /\ thr[s] \notin {"none", "connect"}
                  => socket[s] \in {"unconnected", "open"}
           /\ conn[s] = "backlog" <=> Contains(backlog, s)
           /\ s \in readable => conn[s] \in {"open", "established", "closing"}

Init ==
    /\ ws = [s \in Sockets |-> "new"] /\ civcoms = {}
    /\ asked = [s \in Sockets |-> 0] /\ got = [s \in Sockets |-> <<>>]
    /\ closing = Nothing /\ ioRest = <<>> /\ tested = "no"
    /\ thr = [s \in Sockets |-> "none"]
    /\ queue = [s \in Sockets |-> <<>>] /\ rest = [s \in Sockets |-> <<>>]
    /\ buffer = [s \in Sockets |-> <<>>]
    /\ handler = [s \in Sockets |-> FALSE] /\ stopped = [s \in Sockets |-> FALSE]
    /\ socket = [s \in Sockets |-> "none"] /\ stale = {}
    /\ up = [s \in Sockets |-> <<>>] /\ upEnd = [s \in Sockets |-> FALSE]
    /\ down = [s \in Sockets |-> <<>>] /\ downEnd = [s \in Sockets |-> FALSE]
    /\ conn = [s \in Sockets |-> "none"]
    /\ backlog = <<>> /\ readable = {} /\ inRound = FALSE
    /\ recv = [s \in Sockets |-> <<>>] /\ given = [s \in Sockets |-> 0]
    /\ behind = {}

\* What is sent to a side that has closed its socket is lost.
ToServer(s, n) == up' = IF conn[s] = "gone" THEN up ELSE [up EXCEPT ![s] = Append(@, n)]
ToProxy(s, n) ==
    down' = IF socket[s] = "closed" THEN down ELSE [down EXCEPT ![s] = Append(@, n)]
----------------------------------------------------------------------------
(* The thread of Tornado: one handler runs at a time.                      *)

\* Slip: a name may have several connections.
AnyUsername == TRUE

\* validate_username: there is one user, so any entry has his name.
ValidUsername == civcoms = {}

\* The first message of a client is its login; get_civcom makes the CivCom,
\* starts it and enters it in the table.
FirstMessage(s) ==
    /\ closing = Nothing
    /\ ws[s] = "new" /\ \A t \in Sockets : t < s => ws[t] # "new"
    /\ IF ValidUsername
         THEN /\ ws' = [ws EXCEPT ![s] = "ready"]
              /\ civcoms' = civcoms \cup {s}
              /\ handler' = [handler EXCEPT ![s] = TRUE]
              /\ thr' = [thr EXCEPT ![s] = "connect"]
         ELSE /\ ws' = [ws EXCEPT ![s] = "refused"]
              /\ UNCHANGED <<civcoms, handler, thr>>
    /\ UNCHANGED <<asked, got, closing, ioRest, tested, queue, rest, buffer,
                   stopped, socket, stale, tcpVars, serverVars>>

\* Any other.  A client asks for something only when the server has answered
\* its login.  A loop of the thread over the queue sees what is appended.
Request(s) ==
    /\ closing = Nothing
    /\ ws[s] = "ready" /\ got[s] # <<>> /\ asked[s] < MaxRequests
    /\ asked' = [asked EXCEPT ![s] = @ + 1]
    /\ queue' = [queue EXCEPT ![s] = Append(@, asked'[s])]
    /\ rest' = IF thr[s] = "send"
                 THEN [rest EXCEPT ![s] = Append(@, asked'[s])] ELSE rest
    /\ UNCHANGED <<ws, civcoms, got, closing, ioRest, tested, thr, buffer,
                   handler, stopped, socket, stale, tcpVars, serverVars>>

\* Slip: the result string is built and the buffer kept.
Kept(s) == buffer[s]

\* get_client_result_string empties the buffer.
Emptied(s) == <<>>

\* on_close, up to the loop that sends what is queued.  What was to be sent to
\* the page goes to nobody.
Close(s) ==
    /\ closing = Nothing
    /\ ws[s] \in {"ready", "refused"}
    /\ ws' = [ws EXCEPT ![s] = "closed"]
    /\ IF ws[s] = "ready"
         THEN /\ stopped' = [stopped EXCEPT ![s] = TRUE]
              /\ closing' = s
              /\ ioRest' = IF socket[s] = "open" THEN queue[s] ELSE <<>>
         ELSE UNCHANGED <<stopped, closing, ioRest>>
    /\ got' = [got EXCEPT ![s] = <<>>]
    /\ buffer' = [buffer EXCEPT ![s] = Emptied(s)]
    /\ UNCHANGED <<civcoms, asked, tested, thr, queue, rest,
                   handler, socket, stale, tcpVars, serverVars>>

SendOnClose ==
    /\ closing # Nothing /\ tested = "no"
    /\ ioRest # <<>> /\ socket[closing] = "open"
    /\ ToServer(closing, Head(ioRest))
    /\ ioRest' = Tail(ioRest)
    /\ UNCHANGED <<ws, civcoms, asked, got, closing, tested, thrVars, upEnd,
                   down, downEnd, serverVars>>

\* The end of the loop, and the look at self.socket.  It is unset before the
\* thread connects and when the thread has closed it.
Test ==
    /\ closing # Nothing /\ tested = "no"
    /\ ioRest = <<>> \/ socket[closing] # "open"
    /\ tested' = IF socket[closing] \in {"unconnected", "open"}
                   THEN "set" ELSE "unset"
    /\ queue' = [queue EXCEPT ![closing] = <<>>]
    /\ ioRest' = <<>>
    /\ UNCHANGED <<ws, civcoms, asked, got, closing, thr, rest, buffer, handler,
                   stopped, socket, stale, tcpVars, serverVars>>

\* Slip: the entry is left to close_connection.
EntryLeft(s) == civcoms

\* The table is that of the module, so the test of close_connection for an
\* attribute "civcoms" of the handler fails; on_close removes the entry itself.
EntryRemoved(s) == civcoms \ {s}

\* Slip: the socket is left to the thread, which returns when it is stopped.
SocketLeft(s) == socket[s]

\* A CivCom that nobody has any more, neither the table nor its own thread,
\* takes its socket with it.
SocketClosed(s) == IF tested = "set" \/ thr[s] = "dead" THEN "closed" ELSE socket[s]

\* ... and what follows: the rest of close_connection and on_close, unless the
\* thread has reset self.socket since on_close has found it set.
Closed ==
    /\ closing # Nothing /\ tested # "no"
    /\ tested = "set" => socket[closing] # "closed"
    /\ socket' = [socket EXCEPT ![closing] = SocketClosed(closing)]
    /\ upEnd' = [upEnd EXCEPT ![closing] =
                     @ \/ (socket[closing] = "open" /\ socket'[closing] = "closed")]
    /\ down' = [down EXCEPT ![closing] = <<>>]
    /\ handler' = [handler EXCEPT ![closing] = FALSE]
    /\ civcoms' = EntryRemoved(closing)
    /\ closing' = Nothing /\ tested' = "no"
    /\ UNCHANGED <<ws, asked, got, ioRest, thr, queue, rest, buffer, stopped,
                   stale, up, downEnd, serverVars>>

\* self.socket.close() of None: on_close dies of an AttributeError, and does
\* not come to the table.  (The same may befall it at the end of
\* send_packets_to_client, when the thread has reset civwebserver; the thread
\* has closed the socket by then, and nothing is sent.)
Dies ==
    /\ closing # Nothing /\ tested = "set" /\ socket[closing] = "closed"
    /\ closing' = Nothing /\ tested' = "no"
    /\ UNCHANGED <<ws, civcoms, asked, got, ioRest, thrVars, tcpVars, serverVars>>

----------------------------------------------------------------------------
(* The thread of a CivCom: run.                                            *)

At(s, place) == thr[s] = place
Goto(s, place) == thr' = [thr EXCEPT ![s] = place]

\* The thread returns, or dies of an exception.  When on_close has ended before
\* it, what is left of the CivCom goes with it.
Finish(s) ==
    /\ Goto(s, "dead")
    /\ LET last == closing # s /\ socket[s] = "open"
       IN  /\ socket' = [socket EXCEPT ![s] = IF last THEN "closed" ELSE @]
           /\ upEnd' = [upEnd EXCEPT ![s] = @ \/ last]

\* The thread opens or closes the socket.
Touch(s) ==
    stale' = IF closing = s /\ tested # "no" THEN stale \cup {s} ELSE stale

\* What the WebSocket gets; write_message on a closed one fails.
ToClient(s) ==
    /\ got' = IF ws[s] = "closed" THEN got ELSE [got EXCEPT ![s] = @ \o buffer[s]]
    /\ buffer' = [buffer EXCEPT ![s] = Emptied(s)]

\* (A page closed while the thread waits in connect is as one closed before, with
\* a connection that then fails, or as one closed after.)
Connect(s) ==
    /\ At(s, "connect") /\ Goto(s, "login")
    /\ socket' = [socket EXCEPT ![s] = "open"]
    /\ conn' = [conn EXCEPT ![s] = "backlog"]
    /\ backlog' = Append(backlog, s)
    /\ Touch(s)
    /\ UNCHANGED <<wsVars, queue, rest, buffer, handler, stopped, tcpVars,
                   readable, inRound, recv, given, behind>>

\* No server listens at the port.
ConnectFails(s) ==
    /\ At(s, "connect") /\ Goto(s, "close")
    /\ socket' = [socket EXCEPT ![s] = "unconnected"]
    /\ Touch(s)
    /\ UNCHANGED <<wsVars, queue, rest, buffer, handler, stopped, tcpVars,
                   serverVars>>

\* The login packet is taken from the handler.  When on_close was faster there
\* is none: the thread dies of an exception.
TakeLogin(s) ==
    /\ At(s, "login")
    /\ IF handler[s]
         THEN /\ Goto(s, "send")
              /\ queue' = [queue EXCEPT ![s] = <<Login>>]
              /\ rest' = [rest EXCEPT ![s] = <<Login>>]
              /\ UNCHANGED <<socket, upEnd>>
         ELSE Finish(s) /\ UNCHANGED <<queue, rest>>
    /\ UNCHANGED <<wsVars, buffer, handler, stopped, stale, up, down, downEnd,
                   serverVars>>

\* send_packets_to_civserver: the loop
SendNext(s) ==
    /\ At(s, "send") /\ rest[s] # <<>> /\ socket[s] = "open"
    /\ ToServer(s, Head(rest[s]))
    /\ rest' = [rest EXCEPT ![s] = Tail(@)]
    /\ UNCHANGED <<wsVars, thr, queue, buffer, handler, stopped, socket, stale,
                   upEnd, down, downEnd, serverVars>>

\* The loop's list is not looked at again.
Forgotten(s) == <<>>

\* ... and how it ends: by itself, or because on_close has closed the socket
SendEnds(s) ==
    /\ At(s, "send") /\ Goto(s, "clear")
    /\ rest[s] = <<>> \/ socket[s] # "open"
    /\ rest' = [rest EXCEPT ![s] = Forgotten(s)]
    /\ UNCHANGED <<wsVars, queue, buffer, handler, stopped, socket, stale,
                   tcpVars, serverVars>>

\* Slip: the list is kept, with what has been sent.
Uncleared(s) == queue[s]

Cleared(s) == <<>>

\* "finally": what was appended since the loop ended goes with the rest.  The
\* thread returns to run, which looks whether it is stopped.
Clear(s) ==
    /\ At(s, "clear")
    /\ queue' = [queue EXCEPT ![s] = Cleared(s)]
    /\ IF stopped[s] THEN Finish(s) ELSE Goto(s, "read") /\ UNCHANGED <<socket, upEnd>>
    /\ UNCHANGED <<wsVars, rest, buffer, handler, stopped, stale, up, down,
                   downEnd, serverVars>>

\* The thread is in recv, perhaps since before it was stopped.
Reading(s) == At(s, "read") /\ socket[s] = "open"

\* (A packet that is read by a stopped thread is lost: see Return.)
ReadPacket(s) ==
    /\ Reading(s) /\ ~ stopped[s] /\ down[s] # <<>>
    /\ buffer' = [buffer EXCEPT ![s] = Append(@, Head(down[s]))]
    /\ down' = [down EXCEPT ![s] = Tail(@)]
    /\ UNCHANGED <<wsVars, thr, queue, rest, handler, stopped, socket, stale, up,
                   upEnd, downEnd, serverVars>>

\* Slip: requests are sent only when there was something for the client.
SentInTurn(s) == IF buffer[s] = <<>> THEN <<>> ELSE queue[s]

ToSend(s) == queue[s]

\* The server has been silent for a hundredth of a second.
Timeout(s) ==
    /\ Reading(s) /\ down[s] = <<>> /\ ~ downEnd[s]
    /\ ToClient(s)
    /\ Goto(s, "send")
    /\ rest' = [rest EXCEPT ![s] = ToSend(s)]
    /\ UNCHANGED <<ws, civcoms, asked, closing, ioRest, tested, queue, handler,
                   stopped, socket, stale, tcpVars, serverVars>>

\* The server has closed: close_connection of the thread.  What it still sends
\* there is lost.
HangUp(s) ==
    /\ Reading(s) /\ down[s] = <<>> /\ downEnd[s]
    /\ ToClient(s)
    /\ Goto(s, "close")
    /\ queue' = [queue EXCEPT ![s] = <<>>]
    /\ UNCHANGED <<ws, civcoms, asked, closing, ioRest, tested, rest, handler,
                   stopped, socket, stale, tcpVars, serverVars>>

\* The rest of it: the entry in the table stays (see EntryRemoved), and nobody
\* closes the WebSocket.  When on_close has been faster nothing is left to do
\* (nor when the thread dies because of that).
Shut(s) ==
    /\ At(s, "close") /\ Goto(s, "dead")
    /\ IF socket[s] = "closed"
         THEN UNCHANGED <<handler, stopped, socket, upEnd, stale>>
         ELSE /\ handler' = [handler EXCEPT ![s] = FALSE]
              /\ stopped' = [stopped EXCEPT ![s] = TRUE]
              /\ socket' = [socket EXCEPT ![s] = "closed"]
              /\ upEnd' = [upEnd EXCEPT ![s] = @ \/ socket[s] = "open"]
              /\ Touch(s)
    /\ UNCHANGED <<wsVars, queue, rest, buffer, up, down, downEnd, serverVars>>

\* The thread finds that it is stopped, or that its socket is gone.
Return(s) ==
    /\ At(s, "read") /\ stopped[s] /\ Finish(s)
    /\ queue' = [queue EXCEPT ![s] = <<>>]
    /\ buffer' = [buffer EXCEPT ![s] = <<>>]
    /\ UNCHANGED <<wsVars, rest, handler, stopped, stale, up, down, downEnd,
                   serverVars>>

CivCom(s) ==
    \/ Connect(s) \/ ConnectFails(s) \/ TakeLogin(s)
    \/ SendNext(s) \/ SendEnds(s) \/ Clear(s)
    \/ ReadPacket(s) \/ Timeout(s) \/ HangUp(s) \/ Shut(s) \/ Return(s)

----------------------------------------------------------------------------
(* The server: server_sniff_all_input, one round at a time.                *)

InUse(s) == conn[s] \in {"open", "established"}
\* game.all_connections with a name
Named(s) == conn[s] \in {"established", "closing"} /\ recv[s] # <<>>

\* select finds what can be read; a waiting connection is accepted before
\* any input is read, and only one.
Select ==
    /\ ~ inRound
    /\ LET toRead == {s \in Sockets : InUse(s) /\ (up[s] # <<>> \/ upEnd[s])}
       IN  /\ toRead # {} \/ backlog # <<>>
           /\ readable' = toRead
           /\ IF backlog = <<>>
                THEN UNCHANGED <<conn, backlog, behind>>
                ELSE /\ conn' = [conn EXCEPT ![Head(backlog)] = "open"]
                     /\ backlog' = Tail(backlog)
                     /\ behind' = IF \E t \in toRead : up[t] # <<>>
                                    THEN behind \cup {Head(backlog)} ELSE behind
    /\ inRound' = TRUE
    /\ UNCHANGED <<wsVars, thrVars, tcpVars, recv, given>>

Send(s) ==
    /\ given[s] < MaxPackets
    /\ given' = [given EXCEPT ![s] = @ + 1]
    /\ ToProxy(s, given'[s])

\* "don't allow duplicate logins"
Duplicate(s) == \E t \in Sockets \ {s} : Named(t)

\* A login that comes a second time is an error of the client.
LoginOnce(q) == ~ Contains(q, Login)

\* One read of a connection takes all there is, and its packets are handled.
\* The end of the stream is seen by a read that finds nothing else.
ReadConnection(s) ==
    /\ s \in readable
    /\ readable' = readable \ {s}
    /\ \/ /\ conn[s] = "open" /\ up[s] # <<>>       \* handle_login_request
          /\ conn' = [conn EXCEPT ![s] =
                          IF ~ Duplicate(s) /\ LoginOnce(Tail(up[s]))
                            THEN "established" ELSE "closing"]
          /\ Send(s)
          /\ recv' = [recv EXCEPT ![s] = up[s]]
          /\ up' = [up EXCEPT ![s] = <<>>]
       \/ /\ conn[s] = "established" /\ up[s] # <<>>
          /\ recv' = [recv EXCEPT ![s] = @ \o up[s]]
          /\ up' = [up EXCEPT ![s] = <<>>]
          /\ conn' = [conn EXCEPT ![s] = IF LoginOnce(up[s]) THEN @ ELSE "closing"]
          /\ UNCHANGED <<down, given>>
       \/ /\ InUse(s) /\ up[s] = <<>>
          /\ conn' = [conn EXCEPT ![s] = "closing"]
          /\ UNCHANGED <<up, down, recv, given>>
       \/ /\ conn[s] = "closing"
          /\ UNCHANGED <<up, down, conn, recv, given>>
    /\ UNCHANGED <<wsVars, thrVars, upEnd, downEnd, backlog, inRound, behind>>

\* really_close_connections
EndRound ==
    /\ inRound /\ readable = {}
    /\ inRound' = FALSE
    /\ conn' = [s \in Sockets |-> IF conn[s] = "closing" THEN "gone" ELSE conn[s]]
    /\ downEnd' = [s \in Sockets |-> downEnd[s] \/ conn[s] = "closing"]
    /\ up' = [s \in Sockets |-> IF conn[s] = "closing" THEN <<>> ELSE up[s]]
    /\ UNCHANGED <<wsVars, thrVars, upEnd, down, backlog, readable, recv,
                   given, behind>>

\* Whatever the game has to tell the client ...
Inform(s) ==
    /\ conn[s] = "established"
    /\ Send(s)
    /\ UNCHANGED <<wsVars, thrVars, up, upEnd, downEnd, conn, backlog,
                   readable, inRound, recv, behind>>

\* ... and connection_close_server for other reasons: no answer to a ping, a
\* kick.  It is closed at the end of a round.
CloseServer(s) ==
    /\ inRound /\ conn[s] = "established"
    /\ conn' = [conn EXCEPT ![s] = "closing"]
    /\ UNCHANGED <<wsVars, thrVars, tcpVars, backlog, readable, inRound, recv,
                   given, behind>>

Server == Select \/ EndRound \/ \E s \in Sockets : ReadConnection(s)

----------------------------------------------------------------------------
Next ==
    \/ \E s \in Sockets : FirstMessage(s) \/ Request(s) \/ Close(s)
    \/ SendOnClose \/ Test \/ Closed \/ Dies
    \/ \E s \in Sockets : CivCom(s) \/ Inform(s) \/ CloseServer(s)
    \/ Server

\* The operating system runs every thread that can run; what the user and the
\* game do is not owed.
FairSpec ==
    /\ Init /\ [][Next]_vars
    /\ WF_vars(SendOnClose \/ Test \/ Closed \/ Dies)
    /\ \A s \in Sockets : WF_vars(CivCom(s))
    /\ WF_vars(Server)

----------------------------------------------------------------------------
(* Properties.                                                             *)

Increasing(q) == \A i, j \in DOMAIN q : i < j => q[i] < q[j]

\* Until the WebSocket is closed, the server is given the login first and
\* then requests in the order in which the client sent them, none of them
\* twice.  (One may be missing: see Clear.)
RequestsInOrder ==
    \A s \in Sockets :
        LET sent == recv[s] \o up[s]
        IN  ws[s] # "closed" /\ sent # <<>> =>
                sent[1] = Login /\ Increasing(sent)

\* The client has every packet up to some point, once and in order.
PacketsInOrder ==
    \A s \in Sockets :
        \E n \in 0 .. given[s] : got[s] = [i \in 1 .. n |-> i]

\* The proxy knows a name only as long as a WebSocket of that user is open:
\* it is what validate_username takes an entry for.  The exception is a page
\* closed in the very moment in which its thread changes self.socket.
EntriesOfOpenSockets ==
    \A s \in civcoms : ws[s] = "ready" \/ closing = s \/ s \in stale

\* The same without that exception.  It fails: on_close finds self.socket set,
\* the thread resets it, and on_close dies before it comes to the table.
NamesSetFree ==
    \A s \in civcoms : ws[s] = "ready" \/ closing = s

\* The server refuses a user as already connected only if, when it accepted
\* the new connection, it had still to read requests of the old one, or the
\* old page was closed in the moment in which its thread connected.
RefusedOnlyBehindRequests ==
    [][\A s \in Sockets :
           ws[s] = "ready" /\ conn[s] = "open" /\ conn'[s] = "closing"
               => s \in behind \/ \E t \in stale : t # s]_vars

\* The same without the second case.  It fails: on_close finds no socket yet and
\* removes the name, but the thread connects and logs in, and the server reads
\* that login in one round with the login of the new page.
RefusedOnlyBehindData ==
    [][\A s \in Sockets :
           ws[s] = "ready" /\ conn[s] = "open" /\ conn'[s] = "closing"
               => s \in behind]_vars

\* A WebSocket that is closed leaves nothing behind, wherever its thread was:
\* no thread, no connection at the server, and no entry, with the exception
\* of EntriesOfOpenSockets.
LeavesNothing ==
    \A s \in Sockets :
        ws[s] = "closed" ~>
            /\ s \notin civcoms \/ s \in stale
            /\ thr[s] \in {"none", "dead"} /\ conn[s] \in {"none", "gone"}

\* A request that is queued while the thread reads from the server reaches
\* the server, unless one of the two sides hangs up.
QueuedIsSent ==
    \A s \in Sockets : \A n \in 1 .. MaxRequests :
        thr[s] = "read" /\ Contains(queue[s], n) ~>
            \/ Contains(recv[s], n)
            \/ ws[s] = "closed" \/ conn[s] \in {"closing", "gone"}
=============================================================================
