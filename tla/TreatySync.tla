----------------------------- MODULE TreatySync -----------------------------
(***************************************************************************)
(* One meeting of two players as the server and the two clients see it.    *)
(* The server keeps the treaty (module Treaty) and tells both clients what *)
(* changes; the connections keep the order of packets, but a request may   *)
(* cross a change the client has not seen, and a client may lose its       *)
(* connection with packets on the way and come back.                       *)
(*                                                                         *)
(* There are two kinds of clients: the C clients, whose client/clitreaty.c *)
(* applies the same add_clause and remove_clause as the server, and the    *)
(* web client, whose diplomacy.js keeps a list of its own.                 *)
(***************************************************************************)
EXTENDS ClauseList, FiniteSets

CONSTANTS
    Setups,         \* bound: who uses the web client, and the clauses that
                    \* the players put on the table
    MaxClauses,     \* bound: clauses in a list
    MaxRequests,    \* bound: requests of a client on the way to the server
    MaxPackets      \* bound: packets on the way to a client when a request is
                    \* handled

Players == {1, 2}
Other(p) == 3 - p

Clauses == [type : STRING, from : Players, value : Nat]

ASSUME SetupAssumption ==
    \A s \in Setups : s.web \subseteq Players /\ s.offers \subseteq Clauses
ASSUME BoundAssumption ==
    MaxClauses \in Nat /\ MaxRequests \in Nat /\ MaxPackets \in Nat

VARIABLES
    setup,          \* the one of Setups that is played
    meeting,        \* the server has a treaty of the two players
    clauses,        \* its clauses
    accepted,       \* the players whose acceptance it has
    misled,         \* history: players whose client was last told that the
                    \* meeting is over, while the server has kept it
    shown,          \* clients with a treaty (C) or a dialog (web)
    list,           \* the clauses each client shows
    thumbs,         \* the acceptances each client shows
    requests,       \* from each client to the server
    packets         \* from the server to each client

serverVars == <<meeting, clauses, accepted, misled>>
clientVars == <<shown, list, thumbs>>
vars == <<setup, serverVars, clientVars, requests, packets>>

WebPlayers == setup.web
Offers == setup.offers

Init ==
    /\ setup \in Setups
    /\ meeting = FALSE
    /\ clauses = <<>>
    /\ accepted = {}
    /\ misled = {}
    /\ shown = {}
    /\ list = [p \in Players |-> <<>>]
    /\ thumbs = [p \in Players |-> {}]
    /\ requests = [p \in Players |-> <<>>]
    /\ packets = [p \in Players |-> <<>>]

-----------------------------------------------------------------------------
(***************************************************************************)
(* The server.                                                             *)
(***************************************************************************)
Tell(s) == packets' = [p \in Players |-> packets[p] \o s]

\* handle_diplomacy_init_meeting_req
InitMeeting ==
    /\ ~ meeting
    /\ meeting' = TRUE
    /\ Tell(<<[kind |-> "init"]>>)
    /\ UNCHANGED <<clauses, accepted, misled>>

\* Slip: a clause that takes the place of another is not announced.
CreateClauseUntold(c) ==
    /\ meeting
    /\ c \notin ToSet(clauses)
    /\ clauses' = WithClause(clauses, c)
    /\ accepted' = {}
    /\ Tell(IF Len(clauses') = Len(clauses) THEN <<>>
            ELSE <<[kind |-> "create", clause |-> c]>>)
    /\ UNCHANGED <<meeting, misled>>

\* handle_diplomacy_create_clause_req; the clients are told the clause, not
\* that the acceptances are gone.
CreateClause(c) ==
    /\ meeting
    /\ c \notin ToSet(clauses)
    /\ clauses' = WithClause(clauses, c)
    /\ accepted' = {}
    /\ Tell(<<[kind |-> "create", clause |-> c]>>)
    /\ UNCHANGED <<meeting, misled>>

\* handle_diplomacy_remove_clause_req
RemoveClause(c) ==
    /\ meeting
    /\ c \in ToSet(clauses)
    /\ clauses' = WithoutClause(clauses, c)
    /\ accepted' = {}
    /\ Tell(<<[kind |-> "remove", clause |-> c]>>)
    /\ UNCHANGED <<meeting, misled>>

Closed ==
    /\ meeting' = FALSE
    /\ clauses' = <<>>
    /\ accepted' = {}
    /\ misled' = {}

Toggled(p) == IF p \in accepted THEN accepted \ {p} ELSE accepted \cup {p}

\* The requirements of a clause of the other player do not hold any more when p
\* accepts as the second one: the handler returns before it removes the treaty,
\* with the clients told already.
LeftBehind(p) ==
    /\ \E c \in ToSet(clauses) : c.from = Other(p)
    /\ accepted' = Players
    /\ misled' = Players
    /\ UNCHANGED <<meeting, clauses>>

\* handle_diplomacy_accept_treaty_req, for an acceptance that is not refused (see
\* Ignored).  Whether the treaty is executed makes no difference here, unless it
\* stays in the list; from there an acceptance may still be taken back.
AcceptTreaty(p) ==
    /\ meeting
    /\ IF Toggled(p) = Players
       THEN /\ Closed \/ LeftBehind(p)
            /\ Tell(<<[kind |-> "accept", by |-> Players], [kind |-> "cancel"]>>)
       ELSE /\ accepted' = Toggled(p)
            /\ Tell(<<[kind |-> "accept", by |-> Toggled(p)]>>)
            /\ UNCHANGED <<meeting, clauses, misled>>

\* really_diplomacy_cancel_meeting, for a request or because a player dies or
\* is taken over.
CancelMeeting ==
    /\ meeting
    /\ Closed
    /\ Tell(<<[kind |-> "cancel"]>>)

\* Slip: the clients are not told.
RejectSilently ==
    /\ meeting
    /\ accepted' = {}
    /\ UNCHANGED <<meeting, clauses, misled, packets>>

\* reject_all_treaties
RejectTreaty ==
    /\ meeting
    /\ accepted' = {}
    /\ Tell(<<[kind |-> "accept", by |-> {}]>>)
    /\ UNCHANGED <<meeting, clauses, misled>>

\* The end of a turn leaves the treaties as they are.
EndTurn ==
    /\ meeting
    /\ Tell(<<[kind |-> "end_turn"]>>)
    /\ UNCHANGED serverVars

Answer(p, r) ==
    \/ r.kind = "init" /\ InitMeeting
    \/ r.kind = "create" /\ CreateClause(r.clause)
    \/ r.kind = "remove" /\ RemoveClause(r.clause)
    \/ r.kind = "accept" /\ AcceptTreaty(p)
    \/ r.kind = "cancel" /\ CancelMeeting

\* The early returns: no meeting, a meeting already, a clause that is or is
\* not there, an acceptance of what the player cannot promise.
Ignored(p, r) ==
    \/ r.kind = "init" /\ meeting
    \/ r.kind # "init" /\ ~ meeting
    \/ r.kind = "create" /\ r.clause \in ToSet(clauses)
    \/ r.kind = "remove" /\ r.clause \notin ToSet(clauses)
    \/ /\ r.kind = "accept" /\ p \notin accepted
       /\ \E c \in ToSet(clauses) : c.from = p \/ IsPact(c)

Quick == \A p \in Players : Len(packets[p]) <= MaxPackets

HandleRequest(p) ==
    /\ requests[p] # <<>>
    /\ Quick
    /\ LET r == Head(requests[p])
       IN  \/ Answer(p, r)
           \/ Ignored(p, r) /\ UNCHANGED <<serverVars, packets>>
    /\ requests' = [requests EXCEPT ![p] = Tail(@)]
    /\ UNCHANGED clientVars

\* What the server does of its own accord.
ServerEvent ==
    /\ Quick
    /\ \/ RejectTreaty
       \/ CancelMeeting
       \/ EndTurn
    /\ UNCHANGED <<clientVars, requests>>

\* Slip: a player who comes back is told nothing.
NoMeetingSoFar == <<>>

\* send_diplomatic_meetings
MeetingSoFar ==
    IF ~ meeting THEN <<>>
    ELSE <<[kind |-> "init"]>>
            \o [i \in DOMAIN clauses |-> [kind |-> "create", clause |-> clauses[i]]]
            \o <<[kind |-> "accept", by |-> accepted]>>

\* The connection is lost with all that is on the way, and the player comes
\* back with an empty client.  A web client takes a treaty that both have accepted
\* for one that is over.
Reconnect(p) ==
    /\ packets' = [packets EXCEPT ![p] = MeetingSoFar]
    /\ requests' = [requests EXCEPT ![p] = <<>>]
    /\ shown' = shown \ {p}
    /\ list' = [list EXCEPT ![p] = <<>>]
    /\ thumbs' = [thumbs EXCEPT ![p] = {}]
    /\ misled' = IF p \in WebPlayers /\ accepted = Players THEN misled ELSE misled \ {p}
    /\ UNCHANGED <<meeting, clauses, accepted>>

-----------------------------------------------------------------------------
(***************************************************************************)
(* The C clients: client/clitreaty.c.  A packet for a treaty that is not   *)
(* there is dropped.                                                       *)
(***************************************************************************)
Show(p, s, l, t) ==
    /\ shown' = s
    /\ list' = [list EXCEPT ![p] = l]
    /\ thumbs' = [thumbs EXCEPT ![p] = t]

ReceiveInC(p, k) ==
    \/ /\ k.kind = "init"
       /\ Show(p, shown \cup {p}, list[p], thumbs[p])
    \/ /\ (k.kind # "init" /\ p \notin shown) \/ k.kind = "end_turn"
       /\ UNCHANGED clientVars
    \/ /\ k.kind = "create" /\ p \in shown
       /\ IF k.clause \in ToSet(list[p]) THEN UNCHANGED clientVars
          ELSE Show(p, shown, WithClause(list[p], k.clause), {})
    \/ /\ k.kind = "remove" /\ p \in shown
       /\ IF k.clause \notin ToSet(list[p]) THEN UNCHANGED clientVars
          ELSE Show(p, shown, WithoutClause(list[p], k.clause), {})
    \/ /\ k.kind = "accept" /\ p \in shown
       /\ Show(p, shown, list[p], k.by)
    \/ /\ k.kind = "cancel" /\ p \in shown
       /\ Show(p, shown \ {p}, <<>>, {})

(***************************************************************************)
(* The web client: packhand.js and diplomacy.js.                           *)
(***************************************************************************)

\* remove_clause: the first entry of that giver and that type.
LooksLike(c, d) == c.from = d.from /\ c.type = d.type

WithoutFirstLike(l, c) ==
    IF \E i \in DOMAIN l : LooksLike(c, l[i])
    THEN RemoveAt(l, CHOOSE i \in DOMAIN l :
                        /\ LooksLike(c, l[i])
                        /\ \A j \in DOMAIN l : LooksLike(c, l[j]) => i <= j)
    ELSE l

\* The thumbs of a dialog are set by accept packets only.  handle_end_turn
\* removes the dialogs and keeps the lists.
ReceiveInWeb(p, k) ==
    \/ /\ k.kind = "init"
       /\ Show(p, shown \cup {p}, <<>>, {})
    \/ /\ k.kind = "create"
       /\ Show(p, shown, Append(list[p], k.clause), thumbs[p])
    \/ /\ k.kind = "remove"
       /\ Show(p, shown, WithoutFirstLike(list[p], k.clause), thumbs[p])
    \/ /\ k.kind = "accept" /\ k.by # Players
       /\ Show(p, shown, list[p], IF p \in shown THEN k.by ELSE {})
    \/ /\ k.kind = "cancel" \/ (k.kind = "accept" /\ k.by = Players)
       /\ Show(p, shown \ {p}, <<>>, {})
    \/ /\ k.kind = "end_turn"
       /\ Show(p, shown \ {p}, list[p], {})

ReceivePacket(p) ==
    /\ packets[p] # <<>>
    /\ IF p \in WebPlayers THEN ReceiveInWeb(p, Head(packets[p]))
                           ELSE ReceiveInC(p, Head(packets[p]))
    /\ packets' = [packets EXCEPT ![p] = Tail(@)]
    /\ UNCHANGED <<serverVars, requests>>

-----------------------------------------------------------------------------
(***************************************************************************)
(* What the players do.                                                    *)
(***************************************************************************)
Request(p, s) ==
    /\ Len(requests[p]) < MaxRequests
    /\ requests' = [requests EXCEPT ![p] = @ \o s]
    /\ UNCHANGED <<serverVars, clientVars, packets>>

AskMeeting(p) ==
    p \notin shown /\ Request(p, <<[kind |-> "init"]>>)

\* create_clause_req and meeting_gold_change_req of the web client first ask to
\* remove the pact, or the gold of that giver, that the list shows.
Outdated(p, c) ==
    LET among[n \in 0 .. Len(list[p])] ==
            IF n = 0 THEN <<>>
            ELSE IF Replaces(c, list[p][n]) THEN Append(among[n - 1], list[p][n])
            ELSE among[n - 1]
    IN  IF p \in WebPlayers THEN among[Len(list[p])] ELSE <<>>

Offer(p, c) ==
    /\ p \in shown
    /\ Len(list[p]) < MaxClauses
    /\ c.type = "gold" => c \notin ToSet(Outdated(p, c))
    /\ Request(p, [i \in DOMAIN Outdated(p, c) |->
                      [kind |-> "remove", clause |-> Outdated(p, c)[i]]]
                    \o <<[kind |-> "create", clause |-> c]>>)

WithdrawOffer(p, c) ==
    /\ p \in shown
    /\ c \in ToSet(list[p])
    /\ Request(p, <<[kind |-> "remove", clause |-> c]>>)

PressAccept(p) ==
    p \in shown /\ Request(p, <<[kind |-> "accept"]>>)

PressCancel(p) ==
    p \in shown /\ Request(p, <<[kind |-> "cancel"]>>)

Next ==
    /\ \/ ServerEvent
       \/ \E p \in Players :
             \/ HandleRequest(p)
             \/ ReceivePacket(p)
             \/ Reconnect(p)
             \/ AskMeeting(p)
             \/ \E c \in Offers : Offer(p, c)
             \/ \E c \in ToSet(list[p]) : WithdrawOffer(p, c)
             \/ PressAccept(p)
             \/ PressCancel(p)
    /\ UNCHANGED setup

Spec == Init /\ [][Next]_vars

-----------------------------------------------------------------------------
(***************************************************************************)
(* Properties.                                                             *)
(***************************************************************************)
TypeOK ==
    /\ setup \in Setups
    /\ meeting \in BOOLEAN
    /\ accepted \in SUBSET Players
    /\ misled \in SUBSET Players
    /\ shown \in SUBSET Players
    /\ thumbs \in [Players -> SUBSET Players]
    /\ ~ meeting => clauses = <<>> /\ accepted = {} /\ misled = {}

\* Nothing is on the way to p.
UpToDate(p) == packets[p] = <<>>

\* A client that has seen everything shows no meeting the server does not have, nor
\* one it was told the end of, and a C client shows every other meeting of the
\* server, through crossing requests, meetings cancelled and opened again, treaties
\* left behind and lost connections.  (A web client loses its dialog when the turn
\* ends.)
MeetingsAgree ==
    \A p \in Players : UpToDate(p) =>
        /\ p \in shown => meeting /\ p \notin misled
        /\ (meeting /\ p \notin misled /\ p \notin WebPlayers) => p \in shown

\* The clauses a player sees are the clauses of the treaty, in the same order
\* (doc/HACKING: the structures of both clients and of the server "are updated
\* concurrently as clauses are added and removed"), but for a client whose meeting
\* the server ended without removing the treaty.
ListsAgree ==
    \A p \in Players \ misled : UpToDate(p) => list[p] = clauses

\* A C client shows the acceptances the server has, although the server does not
\* say that a change of the clauses voids them.  A dialog of the web client, which
\* goes by accept packets alone, shows them too unless the server has none: it never
\* shows the acceptance of the wrong player, and a voided one lasts only until the
\* next.
ThumbsAgree ==
    \A p \in Players \ misled : UpToDate(p) =>
        \/ thumbs[p] = accepted
        \/ p \in WebPlayers /\ (p \notin shown \/ accepted = {})
=============================================================================
