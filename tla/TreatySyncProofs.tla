-------------------------- MODULE TreatySyncProofs --------------------------
(***************************************************************************)
(* Theorems about module TreatySync, for any clauses, requests and number  *)
(* of clauses, and for any mixture of C and web clients: a client that has *)
(* read all it was sent shows the meeting, the acceptances and the clauses *)
(* that the server has, or nothing if it was told that the meeting is over *)
(* while the server kept it.                                               *)
(*                                                                         *)
(* The argument is about the packets a client has not read yet.  They lead *)
(* from what it shows to what it is due to show (a path, in the sense of   *)
(* module DataLemmas), whatever the server does appends the packets that   *)
(* lead on to what is due then, and reading one drops the first step.      *)
(***************************************************************************)
EXTENDS TreatySync, DataLemmas

-----------------------------------------------------------------------------
(***************************************************************************)
(* What is sent, and what the server keeps.                                *)
(***************************************************************************)
Packets ==
    [kind : {"init", "cancel", "end_turn"}]
        \cup [kind : {"create", "remove"}, clause : Clauses]
        \cup [kind : {"accept"}, by : SUBSET Players]

Requests ==
    [kind : {"init", "accept", "cancel"}]
        \cup [kind : {"create"}, clause : Offers]
        \cup [kind : {"remove"}, clause : Clauses]

\* The list of the server has one pact at most, one sum of gold of each giver,
\* and no clause twice.  Both have accepted only in a treaty that is left behind,
\* and a web client takes that for the end of the meeting.
ServerInv ==
    /\ setup \in Setups
    /\ meeting \in BOOLEAN
    /\ accepted \in SUBSET Players
    /\ misled \in SUBSET Players
    /\ accepted = Players => WebPlayers \subseteq misled
    /\ clauses \in Seq(Clauses) /\ NoRivals(clauses) /\ Once(clauses)
    /\ ~ meeting => clauses = <<>> /\ accepted = {} /\ misled = {}

ClientTypes ==
    /\ shown \in SUBSET Players
    /\ list \in [Players -> Seq(Clauses)]
    /\ thumbs \in [Players -> SUBSET Players]
    /\ requests \in [Players -> Seq(Requests)]
    /\ packets \in [Players -> Seq(Packets)]

TInv == ServerInv /\ ClientTypes

LEMMA SetupFacts ==
    ASSUME setup \in Setups
    PROVE  WebPlayers \subseteq Players /\ Offers \subseteq Clauses
BY SetupAssumption DEF WebPlayers, Offers

\* What the server does: one of its handlers, with its packets to both clients.
ServerDoes ==
    \/ InitMeeting
    \/ \E c \in Offers : CreateClause(c)
    \/ \E c \in Clauses : RemoveClause(c)
    \/ \E p \in Players : AcceptTreaty(p)
    \/ CancelMeeting
    \/ RejectTreaty
    \/ EndTurn

LEMMA RequestFacts ==
    ASSUME TInv, NEW p \in Players, HandleRequest(p), UNCHANGED setup
    PROVE  /\ UNCHANGED clientVars /\ requests' \in [Players -> Seq(Requests)]
           /\ ServerDoes \/ UNCHANGED <<serverVars, packets>>
<1> DEFINE r == Head(requests[p])
<1>1. /\ requests[p] # <<>> /\ UNCHANGED clientVars
      /\ requests' = [requests EXCEPT ![p] = Tail(@)]
      /\ Answer(p, r) \/ UNCHANGED <<serverVars, packets>>
  BY DEF HandleRequest
<1>2. requests \in [Players -> Seq(Requests)]
  BY DEF TInv, ClientTypes
<1>3. r \in Requests /\ Tail(requests[p]) \in Seq(Requests)
  BY <1>1, <1>2
<1>4. requests' \in [Players -> Seq(Requests)]
  BY <1>1, <1>2, <1>3
<1> HIDE DEF r
<1>5. /\ r.kind = "create" => r.clause \in Offers
      /\ r.kind = "remove" => r.clause \in Clauses
  BY <1>3 DEF Requests
<1>6. Answer(p, r) => ServerDoes
  BY <1>5 DEF Answer, ServerDoes
<1> QED
  BY <1>1, <1>4, <1>6

LEMMA NoClauses == NoRivals(<<>>) /\ Once(<<>>) /\ <<>> \in Seq(Clauses)
BY DEF NoRivals, Once

LEMMA ToldFacts ==
    ASSUME TInv, NEW s \in Seq(Packets), Tell(s)
    PROVE  /\ packets' \in [Players -> Seq(Packets)]
           /\ \A p \in Players : packets'[p] = packets[p] \o s
<1>1. packets \in [Players -> Seq(Packets)]
  BY DEF TInv, ClientTypes
<1>2. packets' = [p \in Players |-> packets[p] \o s]
  BY DEF Tell
<1>3. \A p \in Players : packets[p] \o s \in Seq(Packets)
  BY <1>1
<1> QED
  BY <1>2, <1>3

LEMMA PlainPackets ==
    ASSUME NEW k \in {"init", "cancel", "end_turn"}
    PROVE  [kind |-> k] \in Packets
BY DEF Packets

LEMMA ClausePackets ==
    ASSUME NEW k \in {"create", "remove"}, NEW c \in Clauses
    PROVE  [kind |-> k, clause |-> c] \in Packets
BY DEF Packets

LEMMA AcceptPackets ==
    ASSUME NEW ps \in SUBSET Players
    PROVE  [kind |-> "accept", by |-> ps] \in Packets
BY DEF Packets

LEMMA OnePacket ==
    ASSUME NEW k \in Packets
    PROVE  <<k>> \in Seq(Packets)
OBVIOUS

LEMMA TwoPackets ==
    ASSUME NEW k \in Packets, NEW l \in Packets
    PROVE  /\ <<k, l>> \in Seq(Packets)
           /\ <<k, l>> = <<k>> \o <<l>>
<1> DEFINE s == <<k>> \o <<l>>
           t == <<k, l>>
<1>1. s \in Seq(Packets) /\ Len(s) = 2 /\ s[1] = k /\ s[2] = l
  OBVIOUS
<1>2. t \in Seq(Packets) /\ Len(t) = 2 /\ t[1] = k /\ t[2] = l
  OBVIOUS
<1> HIDE DEF s, t
<1>3. s = t
  BY <1>1, <1>2, SeqEqual
<1> QED
  BY <1>2, <1>3 DEF s, t

LEMMA ToggledFacts ==
    ASSUME accepted \in SUBSET Players, NEW p \in Players
    PROVE  Toggled(p) \in SUBSET Players
BY DEF Toggled

LEMMA ServerInvStep ==
    ASSUME TInv, ServerDoes, UNCHANGED setup
    PROVE  ServerInv' /\ packets' \in [Players -> Seq(Packets)]
<1>0. /\ ServerInv /\ clauses \in Seq(Clauses) /\ NoRivals(clauses) /\ Once(clauses)
      /\ Offers \subseteq Clauses /\ setup' \in Setups /\ accepted \in SUBSET Players
      /\ WebPlayers' = WebPlayers /\ WebPlayers \subseteq Players
  BY SetupFacts DEF TInv, ServerInv, WebPlayers
<1>1. CASE InitMeeting
  <2>1. <<[kind |-> "init"]>> \in Seq(Packets)
    BY PlainPackets, OnePacket
  <2> QED
    BY <1>0, <1>1, <2>1, ToldFacts DEF InitMeeting, ServerInv
<1>2. ASSUME NEW c \in Offers, CreateClause(c)
      PROVE  ServerInv' /\ packets' \in [Players -> Seq(Packets)]
  <2>1. c \in Clauses
    BY <1>0
  <2>2. <<[kind |-> "create", clause |-> c]>> \in Seq(Packets)
    BY <2>1, ClausePackets, OnePacket
  <2>3. /\ meeting /\ meeting' = meeting /\ c \notin ToSet(clauses) /\ accepted' = {}
        /\ misled' = misled /\ clauses' = WithClause(clauses, c)
        /\ Tell(<<[kind |-> "create", clause |-> c]>>)
    BY <1>2 DEF CreateClause
  <2>4. clauses' \in Seq(Clauses) /\ NoRivals(clauses') /\ Once(clauses')
    <3>1. Clauses = Records(STRING, Players, Nat)
      BY DEF Clauses, Records
    <3>2. /\ WithClause(clauses, c) \in Seq(Records(STRING, Players, Nat))
          /\ NoRivals(WithClause(clauses, c))
          /\ Once(WithClause(clauses, c))
      BY <1>0, <2>1, <2>3, <3>1, WithClauseFacts
    <3> QED
      BY <2>3, <3>1, <3>2
  <2>5. {} \in SUBSET Players /\ {} # Players
    BY DEF Players
  <2> QED
    BY <1>0, <2>2, <2>3, <2>4, <2>5, ToldFacts DEF ServerInv
<1>3. ASSUME NEW c \in Clauses, RemoveClause(c)
      PROVE  ServerInv' /\ packets' \in [Players -> Seq(Packets)]
  <2>2. <<[kind |-> "remove", clause |-> c]>> \in Seq(Packets)
    BY ClausePackets, OnePacket
  <2>3. /\ meeting /\ meeting' = meeting /\ c \in ToSet(clauses) /\ accepted' = {}
        /\ misled' = misled /\ clauses' = WithoutClause(clauses, c)
        /\ Tell(<<[kind |-> "remove", clause |-> c]>>)
    BY <1>3 DEF RemoveClause
  <2>4. clauses' \in Seq(Clauses) /\ NoRivals(clauses') /\ Once(clauses')
    BY <1>0, <2>3, WithoutClauseFacts
  <2>5. {} \in SUBSET Players /\ {} # Players
    BY DEF Players
  <2> QED
    BY <1>0, <2>2, <2>3, <2>4, <2>5, ToldFacts DEF ServerInv
<1>4. CASE CancelMeeting \/ RejectTreaty \/ EndTurn
  <2>1. {} \in SUBSET Players /\ {} # Players
    BY DEF Players
  <2>2. /\ <<[kind |-> "cancel"]>> \in Seq(Packets)
        /\ <<[kind |-> "end_turn"]>> \in Seq(Packets)
        /\ <<[kind |-> "accept", by |-> {}]>> \in Seq(Packets)
    BY <2>1, PlainPackets, AcceptPackets, OnePacket
  <2>3. CASE CancelMeeting
    BY <1>0, <2>1, <2>2, <2>3, ToldFacts, NoClauses DEF CancelMeeting, Closed, ServerInv
  <2>4. CASE RejectTreaty
    BY <1>0, <2>1, <2>2, <2>4, ToldFacts DEF RejectTreaty, ServerInv
  <2>5. CASE EndTurn
    BY <1>0, <2>2, <2>5, ToldFacts DEF EndTurn, ServerInv, serverVars
  <2> QED
    BY <1>4, <2>3, <2>4, <2>5
<1>5. ASSUME NEW p \in Players, AcceptTreaty(p)
      PROVE  ServerInv' /\ packets' \in [Players -> Seq(Packets)]
  <2>1. {} \in SUBSET Players /\ {} # Players /\ Toggled(p) \in SUBSET Players
    BY <1>0, ToggledFacts DEF Players
  <2>2. CASE Toggled(p) = Players
    <3>1. /\ [kind |-> "accept", by |-> Players] \in Packets
          /\ [kind |-> "cancel"] \in Packets
      BY AcceptPackets, PlainPackets
    <3>2. <<[kind |-> "accept", by |-> Players], [kind |-> "cancel"]>> \in Seq(Packets)
      BY <3>1, TwoPackets
    <3>3. /\ Closed \/ LeftBehind(p)
          /\ Tell(<<[kind |-> "accept", by |-> Players], [kind |-> "cancel"]>>) /\ meeting
      BY <1>5, <2>2 DEF AcceptTreaty
    <3>4. packets' \in [Players -> Seq(Packets)]
      BY <3>2, <3>3, ToldFacts
    <3>5. CASE Closed
      BY <1>0, <2>1, <3>4, <3>5, NoClauses DEF Closed, ServerInv
    <3>6. CASE LeftBehind(p)
      BY <1>0, <3>3, <3>4, <3>6 DEF LeftBehind, ServerInv
    <3> QED
      BY <3>3, <3>5, <3>6
  <2>3. CASE Toggled(p) # Players
    <3>1. <<[kind |-> "accept", by |-> Toggled(p)]>> \in Seq(Packets)
      BY <2>1, AcceptPackets, OnePacket
    <3>2. /\ Tell(<<[kind |-> "accept", by |-> Toggled(p)]>>) /\ meeting
          /\ accepted' = Toggled(p) /\ UNCHANGED <<meeting, clauses, misled>>
      BY <1>5, <2>3 DEF AcceptTreaty
    <3> QED
      BY <1>0, <2>1, <2>3, <3>1, <3>2, ToldFacts DEF ServerInv
  <2> QED
    BY <2>2, <2>3
<1> QED
  BY <1>1, <1>2, <1>3, <1>4, <1>5 DEF ServerDoes

-----------------------------------------------------------------------------
(***************************************************************************)
(* A C client: what it shows, and what a packet makes of it.               *)
(***************************************************************************)
At(b) == IF b THEN "table" ELSE "away"

Views == [at : {"table", "away"}, list : Seq(Clauses), thumbs : SUBSET Players]
AView(at, l, t) == [at |-> at, list |-> l, thumbs |-> t]
View(p) == AView(At(p \in shown), list[p], thumbs[p])
ServerView == AView(At(meeting), clauses, accepted)
Away == AView("away", <<>>, {})

\* ReceiveInC
After(v, k) ==
    IF k.kind = "init" THEN AView("table", v.list, v.thumbs)
    ELSE IF v.at = "away" \/ k.kind = "end_turn" THEN v
    ELSE IF k.kind = "create"
         THEN IF k.clause \in ToSet(v.list) THEN v
              ELSE AView("table", WithClause(v.list, k.clause), {})
    ELSE IF k.kind = "remove"
         THEN IF k.clause \notin ToSet(v.list) THEN v
              ELSE AView("table", WithoutClause(v.list, k.clause), {})
    ELSE IF k.kind = "accept" THEN AView("table", v.list, k.by)
    ELSE Away

Showing == {t \in Views \X Packets \X Views : t[3] = After(t[1], t[2])}

\* What a C client shows when it is up to date: the meeting of the server, or none
\* if it was told that it is over.
Due(p) == IF p \in misled THEN Away ELSE ServerView

WillShow(p) == Path(Showing, packets[p], View(p), Due(p))

LEMMA ViewFields ==
    ASSUME NEW at, NEW l, NEW t
    PROVE  /\ AView(at, l, t).at = at
           /\ AView(at, l, t).list = l
           /\ AView(at, l, t).thumbs = t
BY DEF AView

LEMMA ViewTypes ==
    ASSUME NEW at \in {"table", "away"}, NEW l \in Seq(Clauses), NEW t \in SUBSET Players
    PROVE  AView(at, l, t) \in Views
BY DEF AView, Views

LEMMA ShowingOne ==
    ASSUME NEW v \in Views, NEW k \in Packets, NEW w \in Views, w = After(v, k)
    PROVE  Path(Showing, <<k>>, v, w)
<1>1. <<v, k, w>> \in Showing
  BY DEF Showing
<1> QED
  BY <1>1, PathOneStep

LEMMA TypesOfViews ==
    ASSUME TInv
    PROVE  /\ ServerView \in Views /\ Away \in Views
           /\ \A p \in Players : View(p) \in Views /\ Due(p) \in Views
<1>1. /\ clauses \in Seq(Clauses) /\ accepted \in SUBSET Players
      /\ list \in [Players -> Seq(Clauses)] /\ thumbs \in [Players -> SUBSET Players]
  BY DEF TInv, ServerInv, ClientTypes
<1>2. \A b : At(b) \in {"table", "away"}
  BY DEF At
<1>3. ServerView \in Views /\ Away \in Views
  BY <1>1, <1>2, NoClauses, ViewTypes DEF ServerView, Away
<1> QED
  BY <1>1, <1>2, <1>3, ViewTypes DEF View, Due

\* Only the start of a meeting brings a client back that shows none.
LEMMA StaysAway ==
    ASSUME NEW k \in Packets, k.kind # "init"
    PROVE  After(Away, k) = Away
BY ViewFields DEF After, Away

\* What the server tells a client while it keeps the meeting.
LEMMA DueAfter ==
    ASSUME TInv, NEW p \in Players, NEW k \in Packets, Tell(<<k>>), Due(p)' \in Views,
           misled' = misled, k.kind # "init", ServerView' = After(ServerView, k)
    PROVE  \E s \in Seq(Packets) : Tell(s) /\ Path(Showing, s, Due(p), Due(p)')
<1>1. Due(p)' = After(Due(p), k)
  BY StaysAway DEF Due, Away
<1> QED
  BY <1>1, TypesOfViews, ShowingOne, OnePacket

\* What the server tells a client makes it show what is due then.
LEMMA ServerShown ==
    ASSUME TInv, ServerInv', ServerDoes, NEW p \in Players, Due(p)' \in Views
    PROVE  \E s \in Seq(Packets) : Tell(s) /\ Path(Showing, s, Due(p), Due(p)')
<1>0. /\ Due(p) \in Views /\ accepted \in SUBSET Players /\ Offers \subseteq Clauses
      /\ clauses \in Seq(Clauses) /\ Away \in Views
      /\ ~ meeting => clauses = <<>> /\ accepted = {} /\ misled = {}
  BY TypesOfViews, SetupFacts DEF TInv, ServerInv
<1>1. CASE InitMeeting
  <2> DEFINE k == [kind |-> "init"]
  <2>1. k \in Packets
    BY PlainPackets
  <2>2. Tell(<<k>>) /\ ~ meeting /\ meeting' /\ UNCHANGED <<clauses, accepted, misled>>
    BY <1>1 DEF InitMeeting
  <2>3. ServerView' = After(ServerView, k)
    BY <2>2, ViewFields DEF ServerView, After, At
  <2>4. Due(p) = ServerView /\ Due(p)' = ServerView'
    BY <1>0, <2>2 DEF Due
  <2> HIDE DEF k
  <2> QED
    BY <1>0, <2>1, <2>2, <2>3, <2>4, ShowingOne, OnePacket
<1>2. ASSUME NEW c \in Offers, CreateClause(c)
      PROVE  \E s \in Seq(Packets) : Tell(s) /\ Path(Showing, s, Due(p), Due(p)')
  <2> DEFINE k == [kind |-> "create", clause |-> c]
  <2>1. k \in Packets /\ k.kind # "init"
    BY <1>0, ClausePackets
  <2>2. /\ Tell(<<k>>) /\ meeting /\ meeting' = meeting /\ accepted' = {}
        /\ c \notin ToSet(clauses) /\ clauses' = WithClause(clauses, c) /\ misled' = misled
    BY <1>2 DEF CreateClause
  <2>3. ServerView' = After(ServerView, k)
    BY <2>2, ViewFields DEF ServerView, After, At
  <2> HIDE DEF k
  <2> QED
    BY <2>1, <2>2, <2>3, DueAfter
<1>3. ASSUME NEW c \in Clauses, RemoveClause(c)
      PROVE  \E s \in Seq(Packets) : Tell(s) /\ Path(Showing, s, Due(p), Due(p)')
  <2> DEFINE k == [kind |-> "remove", clause |-> c]
  <2>1. k \in Packets /\ k.kind # "init"
    BY ClausePackets
  <2>2. /\ Tell(<<k>>) /\ meeting /\ meeting' = meeting /\ accepted' = {}
        /\ c \in ToSet(clauses) /\ clauses' = WithoutClause(clauses, c) /\ misled' = misled
    BY <1>3 DEF RemoveClause
  <2>3. ServerView' = After(ServerView, k)
    BY <2>2, ViewFields DEF ServerView, After, At
  <2> HIDE DEF k
  <2> QED
    BY <2>1, <2>2, <2>3, DueAfter
<1>4. CASE CancelMeeting
  <2> DEFINE k == [kind |-> "cancel"]
  <2>1. k \in Packets /\ k.kind # "init"
    BY PlainPackets
  <2>2. Tell(<<k>>) /\ meeting /\ Closed
    BY <1>4 DEF CancelMeeting
  <2>3. Due(p)' = Away
    BY <2>2 DEF Closed, Due, ServerView, Away, At
  <2>4. After(ServerView, k) = Away
    BY <2>2, ViewFields DEF ServerView, After, At, Away
  <2> HIDE DEF k
  <2>5. Due(p)' = After(Due(p), k)
    BY <2>1, <2>3, <2>4, StaysAway DEF Due
  <2> QED
    BY <1>0, <2>1, <2>2, <2>5, ShowingOne, OnePacket
<1>5. CASE RejectTreaty
  <2> DEFINE k == [kind |-> "accept", by |-> {}]
  <2>1. k \in Packets /\ k.kind # "init"
    BY AcceptPackets
  <2>2. Tell(<<k>>) /\ meeting /\ accepted' = {} /\ UNCHANGED <<meeting, clauses, misled>>
    BY <1>5 DEF RejectTreaty
  <2>3. ServerView' = After(ServerView, k)
    BY <2>2, ViewFields DEF ServerView, After, At
  <2> HIDE DEF k
  <2> QED
    BY <2>1, <2>2, <2>3, DueAfter
<1>6. CASE EndTurn
  <2> DEFINE k == [kind |-> "end_turn"]
  <2>1. k \in Packets /\ k.kind # "init"
    BY PlainPackets
  <2>2. Tell(<<k>>) /\ UNCHANGED <<meeting, accepted, clauses, misled>>
    BY <1>6 DEF EndTurn, serverVars
  <2>3. ServerView' = After(ServerView, k)
    BY <2>2 DEF ServerView, After
  <2> HIDE DEF k
  <2> QED
    BY <2>1, <2>2, <2>3, DueAfter
<1>7. ASSUME NEW q \in Players, AcceptTreaty(q)
      PROVE  \E s \in Seq(Packets) : Tell(s) /\ Path(Showing, s, Due(p), Due(p)')
  <2>1. CASE Toggled(q) # Players
    <3> DEFINE k == [kind |-> "accept", by |-> Toggled(q)]
    <3>1. k \in Packets /\ k.kind # "init"
      BY <1>0, ToggledFacts, AcceptPackets
    <3>2. /\ Tell(<<k>>) /\ meeting /\ accepted' = Toggled(q)
          /\ UNCHANGED <<meeting, clauses, misled>>
      BY <1>7, <2>1 DEF AcceptTreaty
    <3>3. ServerView' = After(ServerView, k)
      BY <3>2, ViewFields DEF ServerView, After, At
    <3> HIDE DEF k
    <3> QED
      BY <3>1, <3>2, <3>3, DueAfter
  <2>2. CASE Toggled(q) = Players
    <3> DEFINE k == [kind |-> "accept", by |-> Players]
               l == [kind |-> "cancel"]
               v == After(Due(p), k)
    <3>1. k \in Packets /\ l \in Packets /\ k.kind = "accept" /\ l.kind = "cancel"
          /\ k.by = Players
      BY AcceptPackets, PlainPackets
    <3>2. Tell(<<k, l>>) /\ meeting /\ (Closed \/ LeftBehind(q))
      BY <1>7, <2>2 DEF AcceptTreaty
    <3> HIDE DEF k, l
    <3>3. v \in {Away, AView("table", clauses, Players)}
      <4>1. After(ServerView, k) = AView("table", clauses, Players)
        BY <3>1, <3>2, ViewFields DEF ServerView, After, At
      <4> QED
        BY <3>1, <4>1, StaysAway DEF Due
    <3>4. v \in Views
      BY <1>0, <3>3, ViewTypes
    <3>5. After(v, l) = Away
      <4>1. After(AView("table", clauses, Players), l) = Away
        BY <3>1, ViewFields DEF After
      <4> QED
        BY <3>1, <3>3, <4>1, StaysAway
    <3>6. Due(p)' = Away
      <4>1. CASE Closed
        BY <4>1 DEF Closed, Due, ServerView, Away, At
      <4>2. CASE LeftBehind(q)
        BY <4>2 DEF LeftBehind, Due, Away
      <4> QED
        BY <3>2, <4>1, <4>2
    <3>7. Path(Showing, <<k>>, Due(p), v)
      BY <1>0, <3>1, <3>4, ShowingOne
    <3> HIDE DEF v
    <3>8. Path(Showing, <<l>>, v, Due(p)')
      BY <1>0, <3>1, <3>4, <3>5, <3>6, ShowingOne
    <3>9. <<k>> \in Seq(Packets) /\ <<l>> \in Seq(Packets)
          /\ <<k, l>> \in Seq(Packets) /\ <<k, l>> = <<k>> \o <<l>>
      BY <3>1, TwoPackets, OnePacket
    <3>10. Path(Showing, <<k>> \o <<l>>, Due(p), Due(p)')
      BY <3>7, <3>8, <3>9, PathOn
    <3> QED
      BY <3>2, <3>9, <3>10
  <2> QED
    BY <2>1, <2>2
<1> QED
  BY <1>1, <1>2, <1>3, <1>4, <1>5, <1>6, <1>7 DEF ServerDoes

LEMMA ServerWillShow ==
    ASSUME TInv, ServerInv', ServerDoes, UNCHANGED clientVars,
           NEW p \in Players, Due(p)' \in Views, WillShow(p)
    PROVE  WillShow(p)'
<1>1. PICK s \in Seq(Packets) : Tell(s) /\ Path(Showing, s, Due(p), Due(p)')
  BY ServerShown
<1>2. packets'[p] = packets[p] \o s /\ packets[p] \in Seq(Packets)
  BY <1>1, ToldFacts DEF TInv, ClientTypes
<1>3. Path(Showing, packets[p], View(p), Due(p))
  BY DEF WillShow
<1>4. Path(Showing, packets[p] \o s, View(p), Due(p)')
  BY <1>1, <1>2, <1>3, PathOn
<1>5. View(p)' = View(p)
  BY DEF clientVars, View
<1> QED
  BY <1>2, <1>4, <1>5 DEF WillShow

\* A client that receives a packet.
LEMMA ReceivedInC ==
    ASSUME TInv, NEW p \in Players, NEW k \in Packets, ReceiveInC(p, k)
    PROVE  /\ View(p)' = After(View(p), k)
           /\ \A q \in Players \ {p} : View(q)' = View(q)
<1>1. /\ list \in [Players -> Seq(Clauses)] /\ thumbs \in [Players -> SUBSET Players]
      /\ k.kind \in {"init", "cancel", "end_turn", "create", "remove", "accept"}
  BY DEF TInv, ClientTypes, Packets
<1>2. ASSUME NEW l, NEW t, NEW s, Show(p, s, l, t)
      PROVE  /\ View(p)' = AView(At(p \in s), l, t)
             /\ s \ {p} = shown \ {p} => \A q \in Players \ {p} : View(q)' = View(q)
  <2>1. /\ shown' = s /\ list' = [list EXCEPT ![p] = l] /\ thumbs' = [thumbs EXCEPT ![p] = t]
    BY <1>2 DEF Show
  <2> QED
    BY <1>1, <2>1 DEF View, At
<1>3. ASSUME UNCHANGED clientVars
      PROVE  \A q \in Players : View(q)' = View(q)
  BY <1>3 DEF clientVars, View
<1>4. /\ View(p).at = "away" <=> p \notin shown
      /\ p \in shown => View(p).at = "table"
      /\ View(p).list = list[p] /\ View(p).thumbs = thumbs[p]
  BY ViewFields DEF View, At
<1>5. CASE k.kind = "init"
  <2>1. Show(p, shown \cup {p}, list[p], thumbs[p])
    BY <1>5 DEF ReceiveInC
  <2>2. After(View(p), k) = AView("table", list[p], thumbs[p])
    BY <1>4, <1>5 DEF After
  <2> QED
    BY <1>2, <2>1, <2>2 DEF At
<1>6. CASE (k.kind # "init" /\ p \notin shown) \/ k.kind = "end_turn"
  <2>1. UNCHANGED clientVars
    BY <1>6 DEF ReceiveInC
  <2>2. After(View(p), k) = View(p)
    BY <1>4, <1>6 DEF After
  <2> QED
    BY <1>3, <2>1, <2>2
<1>7. CASE k.kind = "create" /\ p \in shown
  <2>1. CASE k.clause \in ToSet(list[p])
    <3>1. UNCHANGED clientVars
      BY <1>7, <2>1 DEF ReceiveInC
    <3>2. After(View(p), k) = View(p)
      BY <1>4, <1>7, <2>1 DEF After
    <3> QED
      BY <1>3, <3>1, <3>2
  <2>2. CASE k.clause \notin ToSet(list[p])
    <3>1. Show(p, shown, WithClause(list[p], k.clause), {})
      BY <1>7, <2>2 DEF ReceiveInC
    <3>2. After(View(p), k) = AView("table", WithClause(list[p], k.clause), {})
      BY <1>4, <1>7, <2>2 DEF After
    <3> QED
      BY <1>2, <1>7, <3>1, <3>2 DEF At
  <2> QED
    BY <2>1, <2>2
<1>8. CASE k.kind = "remove" /\ p \in shown
  <2>1. CASE k.clause \notin ToSet(list[p])
    <3>1. UNCHANGED clientVars
      BY <1>8, <2>1 DEF ReceiveInC
    <3>2. After(View(p), k) = View(p)
      BY <1>4, <1>8, <2>1 DEF After
    <3> QED
      BY <1>3, <3>1, <3>2
  <2>2. CASE k.clause \in ToSet(list[p])
    <3>1. Show(p, shown, WithoutClause(list[p], k.clause), {})
      BY <1>8, <2>2 DEF ReceiveInC
    <3>2. After(View(p), k) = AView("table", WithoutClause(list[p], k.clause), {})
      BY <1>4, <1>8, <2>2 DEF After
    <3> QED
      BY <1>2, <1>8, <3>1, <3>2 DEF At
  <2> QED
    BY <2>1, <2>2
<1>9. CASE k.kind = "accept" /\ p \in shown
  <2>1. Show(p, shown, list[p], k.by)
    BY <1>9 DEF ReceiveInC
  <2>2. After(View(p), k) = AView("table", list[p], k.by)
    BY <1>4, <1>9 DEF After
  <2> QED
    BY <1>2, <1>9, <2>1, <2>2 DEF At
<1>10. CASE k.kind = "cancel" /\ p \in shown
  <2>1. Show(p, shown \ {p}, <<>>, {})
    BY <1>10 DEF ReceiveInC
  <2>2. After(View(p), k) = Away
    BY <1>4, <1>10 DEF After
  <2> QED
    BY <1>2, <2>1, <2>2 DEF At, Away
<1> QED
  BY <1>1, <1>5, <1>6, <1>7, <1>8, <1>9, <1>10

\* A packet changes nothing of another client.
OnlyChanges(p) ==
    /\ shown' \in SUBSET Players
    /\ list' = [list EXCEPT ![p] = list'[p]]
    /\ thumbs' = [thumbs EXCEPT ![p] = thumbs'[p]]

LEMMA ShowChanges ==
    ASSUME TInv, NEW p \in Players, NEW s \in SUBSET Players, NEW l, NEW t,
           Show(p, s, l, t)
    PROVE  /\ OnlyChanges(p) /\ list'[p] = l /\ thumbs'[p] = t /\ shown' = s
           /\ \A q \in Players \ {p} : list'[q] = list[q]
<1>1. /\ list \in [Players -> Seq(Clauses)] /\ thumbs \in [Players -> SUBSET Players]
      /\ shown' = s /\ list' = [list EXCEPT ![p] = l] /\ thumbs' = [thumbs EXCEPT ![p] = t]
  BY DEF TInv, ClientTypes, Show
<1>2. list'[p] = l /\ thumbs'[p] = t /\ \A q \in Players \ {p} : list'[q] = list[q]
  BY <1>1
<1> QED
  BY <1>1, <1>2 DEF OnlyChanges

LEMMA NoChange ==
    ASSUME TInv, NEW p \in Players, UNCHANGED clientVars
    PROVE  OnlyChanges(p)
<1>1. list \in [Players -> Seq(Clauses)] /\ thumbs \in [Players -> SUBSET Players]
  BY DEF TInv, ClientTypes
<1> QED
  BY <1>1 DEF OnlyChanges, clientVars, TInv, ClientTypes

LEMMA ChangesInC ==
    ASSUME TInv, NEW p \in Players, NEW k \in Packets, ReceiveInC(p, k)
    PROVE  OnlyChanges(p)
<1>1. shown \in SUBSET Players
  BY DEF TInv, ClientTypes
<1>2. \A l, t : \A s \in SUBSET Players : Show(p, s, l, t) => OnlyChanges(p)
  BY ShowChanges
<1> QED
  BY <1>1, <1>2, NoChange DEF ReceiveInC

LEMMA TypesAfterChange ==
    ASSUME TInv, NEW p \in Players, OnlyChanges(p),
           list'[p] \in Seq(Clauses), thumbs'[p] \in SUBSET Players
    PROVE  /\ shown' \in SUBSET Players
           /\ list' \in [Players -> Seq(Clauses)]
           /\ thumbs' \in [Players -> SUBSET Players]
BY DEF TInv, ClientTypes, OnlyChanges

\* What is left of the packets.
LEMMA PacketTaken ==
    ASSUME TInv, NEW p \in Players, ReceivePacket(p)
    PROVE  /\ packets[p] # <<>> /\ Head(packets[p]) \in Packets
           /\ packets' \in [Players -> Seq(Packets)]
           /\ packets'[p] = Tail(packets[p])
           /\ \A q \in Players \ {p} : packets'[q] = packets[q]
           /\ UNCHANGED <<serverVars, requests>>
           /\ IF p \in WebPlayers THEN ReceiveInWeb(p, Head(packets[p]))
                                  ELSE ReceiveInC(p, Head(packets[p]))
<1>1. /\ packets[p] # <<>> /\ packets' = [packets EXCEPT ![p] = Tail(@)]
      /\ UNCHANGED <<serverVars, requests>>
      /\ IF p \in WebPlayers THEN ReceiveInWeb(p, Head(packets[p]))
                             ELSE ReceiveInC(p, Head(packets[p]))
  BY DEF ReceivePacket
<1>2. packets \in [Players -> Seq(Packets)]
  BY DEF TInv, ClientTypes
<1>3. Head(packets[p]) \in Packets /\ Tail(packets[p]) \in Seq(Packets)
  BY <1>1, <1>2
<1> QED
  BY <1>1, <1>2, <1>3

LEMMA ReceiveWillShow ==
    ASSUME TInv, NEW p \in Players, p \notin WebPlayers, WillShow(p), ReceivePacket(p)
    PROVE  /\ WillShow(p)' /\ OnlyChanges(p)
           /\ list'[p] \in Seq(Clauses) /\ thumbs'[p] \in SUBSET Players
           /\ \A q \in Players \ {p} : View(q)' = View(q)
<1> DEFINE k == Head(packets[p])
<1>1. /\ packets[p] # <<>> /\ k \in Packets /\ packets'[p] = Tail(packets[p])
      /\ UNCHANGED serverVars /\ ReceiveInC(p, k) /\ packets[p] \in Seq(Packets)
  BY PacketTaken DEF TInv, ClientTypes
<1>2. PICK d : <<View(p), k, d>> \in Showing /\ Path(Showing, Tail(packets[p]), d, Due(p))
  BY <1>1, PathFromHead DEF WillShow
<1> HIDE DEF k
<1>3. d \in Views /\ d = After(View(p), k)
  BY <1>2 DEF Showing
<1>4. View(p)' = d /\ \A q \in Players \ {p} : View(q)' = View(q)
  BY <1>1, <1>3, ReceivedInC
<1>5. Due(p)' = Due(p)
  BY <1>1 DEF Due, Away, ServerView, serverVars
<1>6. WillShow(p)'
  BY <1>1, <1>2, <1>4, <1>5 DEF WillShow
<1>7. d.list = list'[p] /\ d.thumbs = thumbs'[p]
  BY <1>4 DEF View, AView
<1>8. d.list \in Seq(Clauses) /\ d.thumbs \in SUBSET Players
  BY <1>3 DEF Views
<1> QED
  BY <1>1, <1>4, <1>6, <1>7, <1>8, ChangesInC

-----------------------------------------------------------------------------
(***************************************************************************)
(* A client that comes back.                                               *)
(***************************************************************************)
Prefix(i) == [j \in 1 .. i |-> clauses[j]]
Creates == [i \in DOMAIN clauses |-> [kind |-> "create", clause |-> clauses[i]]]

LEMMA PrefixFacts ==
    ASSUME TInv
    PROVE  /\ Prefix(0) = <<>> /\ Prefix(Len(clauses)) = clauses
           /\ \A i \in 0 .. Len(clauses) : Prefix(i) \in Seq(Clauses)
           /\ \A i \in 1 .. Len(clauses) :
                 /\ clauses[i] \in Clauses /\ clauses[i] \notin ToSet(Prefix(i - 1))
                 /\ Append(Prefix(i - 1), clauses[i]) = Prefix(i)
                 /\ WithClause(Prefix(i - 1), clauses[i]) = Prefix(i)
<1> DEFINE n == Len(clauses)
<1>1. /\ clauses \in Seq(Clauses) /\ n \in Nat /\ DOMAIN clauses = 1 .. n
      /\ \A i, j \in 1 .. n : clauses[i] = clauses[j] => i = j
      /\ \A i, j \in 1 .. n : Replaces(clauses[i], clauses[j]) => i = j
      /\ \A i \in 1 .. n : clauses[i] \in Clauses
  BY DEF TInv, ServerInv, Once, NoRivals
<1> HIDE DEF n
<1>2. Prefix(0) = <<>>
  BY DEF Prefix
<1>3. Prefix(n) = clauses
  BY <1>1 DEF Prefix
<1>4. ASSUME NEW i \in 0 .. n
      PROVE  Prefix(i) \in Seq(Clauses) /\ Len(Prefix(i)) = i /\ DOMAIN Prefix(i) = 1 .. i
  <2>1. i \in Nat /\ \A j \in 1 .. i : clauses[j] \in Clauses
    BY <1>1
  <2> QED
    BY <2>1 DEF Prefix
<1>5. ASSUME NEW i \in 1 .. n
      PROVE  /\ clauses[i] \in Clauses /\ clauses[i] \notin ToSet(Prefix(i - 1))
             /\ Append(Prefix(i - 1), clauses[i]) = Prefix(i)
             /\ WithClause(Prefix(i - 1), clauses[i]) = Prefix(i)
  <2> DEFINE c == clauses[i]
             s == Prefix(i - 1)
             t == Append(s, c)
  <2>1. i - 1 \in 0 .. n /\ i \in 0 .. n /\ c \in Clauses
    BY <1>1
  <2>2. /\ s \in Seq(Clauses) /\ Len(s) = i - 1 /\ DOMAIN s = 1 .. (i - 1)
        /\ \A j \in 1 .. (i - 1) : s[j] = clauses[j] /\ j \in 1 .. n /\ j # i
    BY <1>1, <1>4, <2>1 DEF Prefix
  <2>3. c \notin ToSet(s) /\ \A d \in ToSet(s) : ~ Replaces(c, d)
    BY <1>1, <2>2 DEF ToSet
  <2> HIDE DEF s, c
  <2>4. /\ t \in Seq(Clauses) /\ Len(t) = i
        /\ \A j \in 1 .. i : t[j] = IF j = i THEN c ELSE s[j]
    BY <2>1, <2>2, AppendProperties
  <2>5. t = Prefix(i)
    <3>1. Prefix(i) \in Seq(Clauses) /\ Len(Prefix(i)) = i
      BY <1>4, <2>1
    <3>2. \A j \in 1 .. i : t[j] = Prefix(i)[j]
      BY <2>2, <2>4 DEF Prefix, c
    <3> HIDE DEF t
    <3> QED
      BY <2>4, <3>1, <3>2, SeqEqual
  <2>6. WithClause(s, c) = t
    BY <2>3 DEF WithClause
  <2> QED
    BY <2>1, <2>3, <2>5, <2>6 DEF s, c
<1> QED
  BY <1>2, <1>3, <1>4, <1>5 DEF n

LEMMA CreatesFacts ==
    ASSUME TInv
    PROVE  /\ Creates \in Seq(Packets) /\ Len(Creates) = Len(clauses)
           /\ \A i \in 1 .. Len(clauses) :
                 /\ Creates[i] = [kind |-> "create", clause |-> clauses[i]]
                 /\ Creates[i] \in Packets
<1>1. clauses \in Seq(Clauses)
  BY DEF TInv, ServerInv
<1>2. \A i \in 1 .. Len(clauses) : [kind |-> "create", clause |-> clauses[i]] \in Packets
  BY <1>1, ClausePackets
<1> QED
  BY <1>1, <1>2 DEF Creates

\* send_diplomatic_meetings: the packets, in parts.
LEMMA SoFarFacts ==
    ASSUME TInv
    PROVE  /\ MeetingSoFar \in Seq(Packets)
           /\ ~ meeting => MeetingSoFar = <<>>
           /\ meeting => MeetingSoFar = <<[kind |-> "init"]>> \o Creates
                                           \o <<[kind |-> "accept", by |-> accepted]>>
           /\ <<[kind |-> "init"]>> \in Seq(Packets)
           /\ <<[kind |-> "accept", by |-> accepted]>> \in Seq(Packets)
           /\ <<[kind |-> "init"]>> \o Creates \in Seq(Packets)
<1>1. accepted \in SUBSET Players
  BY DEF TInv, ServerInv
<1>2. /\ <<[kind |-> "init"]>> \in Seq(Packets)
      /\ <<[kind |-> "accept", by |-> accepted]>> \in Seq(Packets)
  BY <1>1, PlainPackets, AcceptPackets, OnePacket
<1>3. Creates \in Seq(Packets)
  BY CreatesFacts
<1>4. <<[kind |-> "init"]>> \o Creates \in Seq(Packets)
  BY <1>2, <1>3, ConcatProperties
<1>5. <<[kind |-> "init"]>> \o Creates \o <<[kind |-> "accept", by |-> accepted]>>
         \in Seq(Packets)
  BY <1>2, <1>4, ConcatProperties
<1>6. <<>> \in Seq(Packets)
  OBVIOUS
<1> QED
  BY <1>2, <1>4, <1>5, <1>6 DEF MeetingSoFar, Creates

LEMMA ComesBackInC ==
    ASSUME TInv
    PROVE  Path(Showing, MeetingSoFar, Away, ServerView)
<1> DEFINE n == Len(clauses)
           open(i) == AView("table", Prefix(i), {})
           init == [kind |-> "init"]
           accept == [kind |-> "accept", by |-> accepted]
<1>0. /\ n \in Nat /\ clauses \in Seq(Clauses) /\ accepted \in SUBSET Players
      /\ ~ meeting => clauses = <<>> /\ accepted = {}
  BY DEF TInv, ServerInv
<1>1. Away \in Views /\ ServerView \in Views
  BY <1>0, NoClauses, ViewTypes, TypesOfViews DEF Away
<1>2. CASE ~ meeting
  <2>1. ServerView = Away
    BY <1>0, <1>2 DEF ServerView, Away, At
  <2>2. MeetingSoFar = <<>> /\ <<>> \in Seq(Packets) /\ DOMAIN <<>> = {}
    BY <1>2, SoFarFacts
  <2> QED
    BY <2>1, <2>2, PathNowhere
<1>3. CASE meeting
  <2>1. \A i \in 0 .. n : open(i) \in Views
    BY PrefixFacts, ViewTypes
  <2>2. Path(Showing, <<init>>, Away, open(0))
    <3>1. open(0) = After(Away, init)
      BY PrefixFacts, ViewFields DEF After, Away
    <3> QED
      BY <1>0, <1>1, <2>1, <3>1, ShowingOne, PlainPackets
  <2>3. Path(Showing, Creates, open(0), open(n))
    <3> DEFINE h == [i \in 0 .. n |-> open(i)]
    <3>1. h[0] = open(0) /\ h[n] = open(n)
      BY <1>0
    <3>2. ASSUME NEW i \in 1 .. n
          PROVE  <<h[i - 1], Creates[i], h[i]>> \in Showing
      <4>1. h[i - 1] = open(i - 1) /\ h[i] = open(i) /\ h[i] \in Views /\ h[i - 1] \in Views
        BY <1>0, <2>1
      <4>2. Creates[i] \in Packets /\ Creates[i].kind = "create" /\ Creates[i].clause = clauses[i]
        <5> HIDE DEF h, open
        <5>1. /\ Creates[i] = [kind |-> "create", clause |-> clauses[i]]
              /\ Creates[i] \in Packets
          BY CreatesFacts
        <5> QED
          BY <5>1
      <4>3. After(open(i - 1), Creates[i]) = open(i)
        <5>1. /\ clauses[i] \notin ToSet(Prefix(i - 1))
              /\ WithClause(Prefix(i - 1), clauses[i]) = Prefix(i)
          BY PrefixFacts
        <5> QED
          BY <4>2, <5>1, ViewFields DEF After
      <4> HIDE DEF h, open
      <4> QED
        BY <4>1, <4>2, <4>3 DEF Showing
    <3>3. Len(Creates) = n
      BY CreatesFacts
    <3> HIDE DEF h, open, n
    <3> QED
      BY <3>1, <3>2, <3>3 DEF Path
  <2>4. Path(Showing, <<accept>>, open(n), ServerView)
    <3>1. ServerView = After(open(n), accept)
      BY <1>3, PrefixFacts, ViewFields DEF After, ServerView, At
    <3> QED
      BY <1>0, <1>1, <2>1, <3>1, ShowingOne, AcceptPackets
  <2>5. /\ MeetingSoFar = <<init>> \o Creates \o <<accept>>
        /\ <<init>> \in Seq(Packets) /\ Creates \in Seq(Packets)
        /\ <<accept>> \in Seq(Packets) /\ <<init>> \o Creates \in Seq(Packets)
    BY <1>3, SoFarFacts, CreatesFacts
  <2> HIDE DEF open, init, accept, n
  <2>6. Path(Showing, <<init>> \o Creates, Away, open(n))
    BY <2>2, <2>3, <2>5, PathOn
  <2> QED
    BY <2>4, <2>5, <2>6, PathOn
<1> QED
  BY <1>2, <1>3

\* The parts of Reconnect.
LEMMA ReconnectFacts ==
    ASSUME TInv, NEW p \in Players, Reconnect(p)
    PROVE  /\ packets' \in [Players -> Seq(Packets)]
           /\ requests' \in [Players -> Seq(Requests)]
           /\ shown' \in SUBSET Players
           /\ list' \in [Players -> Seq(Clauses)]
           /\ thumbs' \in [Players -> SUBSET Players]
           /\ packets'[p] = MeetingSoFar /\ list'[p] = <<>> /\ View(p)' = Away
           /\ p \notin shown'
           /\ \A q \in Players \ {p} : View(q)' = View(q) /\ packets'[q] = packets[q]
                                          /\ list'[q] = list[q] /\ (q \in shown' <=> q \in shown)
           /\ misled' = IF p \in WebPlayers /\ accepted = Players THEN misled
                         ELSE misled \ {p}
           /\ UNCHANGED <<meeting, clauses, accepted>>
<1>1. /\ packets' = [packets EXCEPT ![p] = MeetingSoFar]
      /\ requests' = [requests EXCEPT ![p] = <<>>]
      /\ shown' = shown \ {p}
      /\ list' = [list EXCEPT ![p] = <<>>]
      /\ thumbs' = [thumbs EXCEPT ![p] = {}]
      /\ misled' = IF p \in WebPlayers /\ accepted = Players THEN misled ELSE misled \ {p}
      /\ UNCHANGED <<meeting, clauses, accepted>>
  BY DEF Reconnect
<1>2. ClientTypes /\ MeetingSoFar \in Seq(Packets)
  BY SoFarFacts DEF TInv
<1>3. <<>> \in Seq(Requests) /\ <<>> \in Seq(Clauses) /\ {} \in SUBSET Players
  OBVIOUS
<1>4. /\ packets' \in [Players -> Seq(Packets)]
      /\ requests' \in [Players -> Seq(Requests)]
      /\ shown' \in SUBSET Players
      /\ list' \in [Players -> Seq(Clauses)]
      /\ thumbs' \in [Players -> SUBSET Players]
  BY <1>1, <1>2, <1>3 DEF ClientTypes
<1>5. /\ packets'[p] = MeetingSoFar /\ list'[p] = <<>> /\ thumbs'[p] = {} /\ p \notin shown'
      /\ \A q \in Players \ {p} : /\ packets'[q] = packets[q] /\ list'[q] = list[q]
                                  /\ thumbs'[q] = thumbs[q] /\ (q \in shown' <=> q \in shown)
  BY <1>1, <1>2 DEF ClientTypes
<1>6. View(p)' = Away /\ \A q \in Players \ {p} : View(q)' = View(q)
  BY <1>5 DEF View, Away, At
<1> QED
  BY <1>1, <1>4, <1>5, <1>6

-----------------------------------------------------------------------------
(***************************************************************************)
(* A web client: whether it shows a dialog, its list and its thumbs.  The  *)
(* list is the one of the server if no two clauses look alike to the       *)
(* client, and none takes the place of another.                            *)
(***************************************************************************)
Distinguishable ==
    \A s \in Setups : s.web # {} =>
        \A c, d \in s.offers : LooksLike(c, d) \/ Replaces(c, d) => c = d

\* ReceiveInWeb
WebAfter(v, k) ==
    IF k.kind = "init" THEN AView("table", <<>>, {})
    ELSE IF k.kind = "create" THEN AView(v.at, Append(v.list, k.clause), v.thumbs)
    ELSE IF k.kind = "remove" THEN AView(v.at, WithoutFirstLike(v.list, k.clause), v.thumbs)
    ELSE IF k.kind = "end_turn" THEN AView("away", v.list, {})
    ELSE IF k.kind = "accept" /\ k.by # Players
         THEN AView(v.at, v.list, IF v.at = "table" THEN k.by ELSE {})
    ELSE Away

WebShowing == {t \in Views \X Packets \X Views : t[3] = WebAfter(t[1], t[2])}

\* What a web client may show when it is up to date.
Fits(p, v) ==
    /\ v.at = "table" => /\ meeting /\ p \notin misled
                         /\ v.thumbs = accepted \/ accepted = {}
    /\ Distinguishable /\ p \notin misled => v.list = clauses

WillShowInWeb(p) ==
    \E v \in Views : Fits(p, v) /\ Path(WebShowing, packets[p], View(p), v)

\* The clauses of a meeting with a web client are those that were offered.
OnlyOffers ==
    Distinguishable /\ WebPlayers # {} => \A i \in DOMAIN clauses : clauses[i] \in Offers

LEMMA WebShowingOne ==
    ASSUME NEW v \in Views, NEW k \in Packets, NEW w \in Views, w = WebAfter(v, k)
    PROVE  Path(WebShowing, <<k>>, v, w)
<1>1. <<v, k, w>> \in WebShowing
  BY DEF WebShowing
<1> QED
  BY <1>1, PathOneStep

LEMMA FirstLikeType ==
    ASSUME NEW l \in Seq(Clauses), NEW c
    PROVE  WithoutFirstLike(l, c) \in Seq(Clauses)
<1> DEFINE Likes == {i \in DOMAIN l : LooksLike(c, l[i])}
<1>1. CASE \E i \in DOMAIN l : LooksLike(c, l[i])
  <2>1. Likes \in SUBSET Nat /\ Likes # {}
    BY <1>1
  <2>2. PICK x \in Likes : \A y \in Likes : x <= y
    BY <2>1, LeastExists
  <2> DEFINE First(i) == /\ LooksLike(c, l[i])
                         /\ \A j \in DOMAIN l : LooksLike(c, l[j]) => i <= j
             k == CHOOSE i \in DOMAIN l : First(i)
  <2>3. k \in 1 .. Len(l)
    <3>1. x \in DOMAIN l /\ First(x)
      BY <2>2
    <3>2. k \in DOMAIN l
      BY <3>1
    <3> QED
      BY <3>2
  <2>4. WithoutFirstLike(l, c) = RemoveAt(l, k)
    BY <1>1 DEF WithoutFirstLike
  <2> HIDE DEF k
  <2> QED
    BY <2>3, <2>4, RemovedFacts
<1>2. CASE ~ \E i \in DOMAIN l : LooksLike(c, l[i])
  BY <1>2 DEF WithoutFirstLike
<1> QED
  BY <1>1, <1>2

LEMMA WebAfterType ==
    ASSUME NEW v \in Views, NEW k \in Packets
    PROVE  WebAfter(v, k) \in Views
<1>1. /\ v.at \in {"table", "away"} /\ v.list \in Seq(Clauses) /\ v.thumbs \in SUBSET Players
      /\ k.kind \in {"create", "remove"} => k.clause \in Clauses
      /\ k.kind = "accept" => k.by \in SUBSET Players
      /\ <<>> \in Seq(Clauses) /\ {} \in SUBSET Players
  BY DEF Views, Packets
<1>2. WithoutFirstLike(v.list, k.clause) \in Seq(Clauses)
  BY <1>1, FirstLikeType
<1>3. k.kind = "create" => Append(v.list, k.clause) \in Seq(Clauses)
  BY <1>1
<1>4. k.kind = "accept" => (IF v.at = "table" THEN k.by ELSE {}) \in SUBSET Players
  BY <1>1
<1> QED
  BY <1>1, <1>2, <1>3, <1>4, ViewTypes DEF WebAfter, Away

\* Where clauses can be told apart, the web client adds and removes as the
\* server does.
LEMMA AddedAlike ==
    ASSUME TInv, OnlyOffers, Distinguishable, WebPlayers # {}, NEW c \in Offers,
           c \notin ToSet(clauses)
    PROVE  WithClause(clauses, c) = Append(clauses, c)
<1>1. setup \in Setups
  BY DEF TInv, ServerInv
<1>2. \A i \in DOMAIN clauses : ~ Replaces(c, clauses[i])
  BY <1>1 DEF OnlyOffers, Distinguishable, WebPlayers, Offers, ToSet
<1>3. ~ \E d \in ToSet(clauses) : Replaces(c, d)
  BY <1>2 DEF ToSet
<1> QED
  BY <1>3 DEF WithClause

LEMMA RemovedAlike ==
    ASSUME TInv, OnlyOffers, Distinguishable, WebPlayers # {}, NEW c \in ToSet(clauses)
    PROVE  WithoutClause(clauses, c) = WithoutFirstLike(clauses, c)
<1>1. setup \in Setups /\ Once(clauses) /\ clauses \in Seq(Clauses)
  BY DEF TInv, ServerInv
<1>2. PICK k \in DOMAIN clauses : clauses[k] = c
  BY DEF ToSet
<1>3. \A i \in DOMAIN clauses : clauses[i] = c => i = k
  BY <1>1, <1>2 DEF Once
<1>4. \A i \in DOMAIN clauses : LooksLike(c, clauses[i]) <=> i = k
  <2>1. LooksLike(c, c)
    BY DEF LooksLike
  <2>2. \A i \in DOMAIN clauses : LooksLike(c, clauses[i]) => clauses[i] = c
    BY <1>1, <1>2 DEF OnlyOffers, Distinguishable, WebPlayers, Offers
  <2> QED
    BY <1>2, <1>3, <2>1, <2>2
<1> DEFINE First(i) == /\ LooksLike(c, clauses[i])
                       /\ \A j \in DOMAIN clauses : LooksLike(c, clauses[j]) => i <= j
           a == CHOOSE i \in DOMAIN clauses : clauses[i] = c
           b == CHOOSE i \in DOMAIN clauses : First(i)
<1>5. a = k
  BY <1>2, <1>3
<1>6. b = k
  <2>1. First(k)
    BY <1>1, <1>4
  <2>2. \A i \in DOMAIN clauses : First(i) => i = k
    BY <1>4
  <2> HIDE DEF First
  <2> QED
    BY <2>1, <2>2
<1>7. WithoutClause(clauses, c) = RemoveAt(clauses, a)
  BY DEF WithoutClause
<1>8. WithoutFirstLike(clauses, c) = RemoveAt(clauses, b)
  <2>1. \E i \in DOMAIN clauses : LooksLike(c, clauses[i])
    BY <1>4
  <2> QED
    BY <2>1 DEF WithoutFirstLike
<1> QED
  BY <1>5, <1>6, <1>7, <1>8

LEMMA OnlyOffersKept ==
    ASSUME TInv, OnlyOffers, ServerDoes, UNCHANGED setup
    PROVE  OnlyOffers'
<1>0. /\ Offers' = Offers /\ WebPlayers' = WebPlayers /\ clauses \in Seq(Clauses)
      /\ NoRivals(clauses) /\ Offers \subseteq Clauses
  BY SetupFacts DEF Offers, WebPlayers, TInv, ServerInv
<1>1. CASE clauses' = clauses \/ clauses' = <<>>
  BY <1>0, <1>1 DEF OnlyOffers
<1>2. ASSUME NEW c \in Offers, CreateClause(c)
      PROVE  OnlyOffers'
  <2> SUFFICES ASSUME Distinguishable, WebPlayers # {}
               PROVE  \A i \in DOMAIN clauses' : clauses'[i] \in Offers
    BY <1>0 DEF OnlyOffers
  <2>1. clauses' = Append(clauses, c)
    BY <1>2, AddedAlike DEF CreateClause
  <2>2. c \in Clauses /\ \A i \in DOMAIN clauses : clauses[i] \in Offers
    BY <1>0 DEF OnlyOffers
  <2> QED
    BY <1>0, <2>1, <2>2
<1>3. ASSUME NEW c \in Clauses, RemoveClause(c)
      PROVE  OnlyOffers'
  <2>1. c \in ToSet(clauses) /\ clauses' = WithoutClause(clauses, c)
    BY <1>3 DEF RemoveClause
  <2>2. \A i \in DOMAIN clauses' : \E j \in DOMAIN clauses : clauses'[i] = clauses[j]
    BY <1>0, <2>1, WithoutClauseFacts
  <2> QED
    BY <1>0, <2>2 DEF OnlyOffers
<1> QED
  BY <1>1, <1>2, <1>3 DEF ServerDoes, InitMeeting, AcceptTreaty, CancelMeeting, Closed,
     LeftBehind, RejectTreaty, EndTurn, serverVars

\* A packet after which the web client may show what it shows then.
LEMMA OneFits ==
    ASSUME NEW p \in Players, NEW v \in Views, NEW k \in Packets, Tell(<<k>>),
           Fits(p, WebAfter(v, k))'
    PROVE  \E s \in Seq(Packets), w \in Views :
              Tell(s) /\ Fits(p, w)' /\ Path(WebShowing, s, v, w)
<1> DEFINE w == WebAfter(v, k)
<1>1. w \in Views
  BY WebAfterType
<1>2. Fits(p, w)'
  OBVIOUS
<1>3. Path(WebShowing, <<k>>, v, w)
  BY <1>1, WebShowingOne
<1> HIDE DEF w
<1> QED
  BY <1>1, <1>2, <1>3, OnePacket

\* What fits when the dialog is gone.
LEMMA AwayFits ==
    ASSUME NEW p \in Players, clauses' = <<>> \/ p \in misled'
    PROVE  Fits(p, Away)'
<1>1. Away.at = "away" /\ Away.list = <<>>
  BY ViewFields DEF Away
<1> QED
  BY <1>1 DEF Fits

LEMMA ServerFits ==
    ASSUME TInv, OnlyOffers, ServerDoes, NEW p \in Players, p \in WebPlayers,
           NEW v \in Views, Fits(p, v)
    PROVE  \E s \in Seq(Packets), w \in Views :
              Tell(s) /\ Fits(p, w)' /\ Path(WebShowing, s, v, w)
<1>0. /\ v.at \in {"table", "away"} /\ Offers \subseteq Clauses /\ WebPlayers # {}
      /\ v.at = "table" => meeting /\ p \notin misled
      /\ v.at = "table" => v.thumbs = accepted \/ accepted = {}
      /\ Distinguishable /\ p \notin misled => v.list = clauses
      /\ accepted = Players => p \in misled
      /\ ~ meeting => clauses = <<>> /\ misled = {} /\ accepted = {}
  BY SetupFacts DEF Views, Fits, TInv, ServerInv
<1>1. CASE InitMeeting
  <2> DEFINE k == [kind |-> "init"]
  <2>1. k \in Packets /\ k.kind = "init"
    BY PlainPackets
  <2>2. Tell(<<k>>) /\ meeting' /\ clauses' = <<>> /\ accepted' = {} /\ misled' = {}
    BY <1>0, <1>1 DEF InitMeeting
  <2> HIDE DEF k
  <2>3. Fits(p, WebAfter(v, k))'
    BY <2>1, <2>2, ViewFields DEF Fits, WebAfter
  <2> QED
    BY <2>1, <2>2, <2>3, OneFits
<1>2. ASSUME NEW c \in Offers, CreateClause(c)
      PROVE  \E s \in Seq(Packets), w \in Views :
                Tell(s) /\ Fits(p, w)' /\ Path(WebShowing, s, v, w)
  <2> DEFINE k == [kind |-> "create", clause |-> c]
  <2>1. k \in Packets /\ k.kind = "create" /\ k.clause = c
    BY <1>0, ClausePackets
  <2>2. /\ Tell(<<k>>) /\ meeting' /\ c \notin ToSet(clauses)
        /\ clauses' = WithClause(clauses, c) /\ accepted' = {} /\ misled' = misled
    BY <1>2 DEF CreateClause
  <2> HIDE DEF k
  <2>3. Distinguishable => clauses' = Append(clauses, c)
    BY <1>0, <2>2, AddedAlike
  <2>4. Fits(p, WebAfter(v, k))'
    <3> DEFINE l == Append(v.list, c)
    <3>1. WebAfter(v, k) = AView(v.at, l, v.thumbs)
      BY <2>1 DEF WebAfter
    <3>2. Distinguishable /\ p \notin misled => l = clauses'
      BY <1>0, <2>3
    <3> HIDE DEF l
    <3>3. WebAfter(v, k).at = v.at /\ WebAfter(v, k).list = l
      BY <3>1, ViewFields
    <3> QED
      BY <1>0, <2>2, <3>2, <3>3 DEF Fits
  <2> QED
    BY <2>1, <2>2, <2>4, OneFits
<1>3. ASSUME NEW c \in Clauses, RemoveClause(c)
      PROVE  \E s \in Seq(Packets), w \in Views :
                Tell(s) /\ Fits(p, w)' /\ Path(WebShowing, s, v, w)
  <2> DEFINE k == [kind |-> "remove", clause |-> c]
  <2>1. k \in Packets /\ k.kind = "remove" /\ k.clause = c
    BY ClausePackets
  <2>2. /\ Tell(<<k>>) /\ meeting' /\ c \in ToSet(clauses)
        /\ clauses' = WithoutClause(clauses, c) /\ accepted' = {} /\ misled' = misled
    BY <1>3 DEF RemoveClause
  <2> HIDE DEF k
  <2>3. Distinguishable => clauses' = WithoutFirstLike(clauses, c)
    BY <1>0, <2>2, RemovedAlike
  <2>4. Fits(p, WebAfter(v, k))'
    <3> DEFINE l == WithoutFirstLike(v.list, c)
    <3>1. WebAfter(v, k) = AView(v.at, l, v.thumbs)
      BY <2>1 DEF WebAfter
    <3>2. Distinguishable /\ p \notin misled => l = clauses'
      BY <1>0, <2>3
    <3> HIDE DEF l
    <3>3. WebAfter(v, k).at = v.at /\ WebAfter(v, k).list = l
      BY <3>1, ViewFields
    <3> QED
      BY <1>0, <2>2, <3>2, <3>3 DEF Fits
  <2> QED
    BY <2>1, <2>2, <2>4, OneFits
<1>4. CASE CancelMeeting
  <2> DEFINE k == [kind |-> "cancel"]
  <2>1. k \in Packets /\ k.kind = "cancel"
    BY PlainPackets
  <2>2. Tell(<<k>>) /\ clauses' = <<>>
    BY <1>4 DEF CancelMeeting, Closed
  <2> HIDE DEF k
  <2>3. WebAfter(v, k) = Away
    BY <2>1 DEF WebAfter
  <2> QED
    BY <2>1, <2>2, <2>3, OneFits, AwayFits
<1>5. ASSUME NEW ps \in SUBSET Players, ps # Players, accepted' = ps,
             UNCHANGED <<meeting, clauses, misled>>, Tell(<<[kind |-> "accept", by |-> ps]>>)
      PROVE  \E s \in Seq(Packets), w \in Views :
                Tell(s) /\ Fits(p, w)' /\ Path(WebShowing, s, v, w)
  <2> DEFINE k == [kind |-> "accept", by |-> ps]
  <2>1. k \in Packets /\ k.kind = "accept" /\ k.by = ps
    BY AcceptPackets
  <2>2. Tell(<<k>>)
    BY <1>5
  <2> HIDE DEF k
  <2>3. Fits(p, WebAfter(v, k))'
    <3>1. WebAfter(v, k) = AView(v.at, v.list, IF v.at = "table" THEN ps ELSE {})
      BY <1>5, <2>1 DEF WebAfter
    <3>2. /\ WebAfter(v, k).at = v.at /\ WebAfter(v, k).list = v.list
          /\ v.at = "table" => WebAfter(v, k).thumbs = ps
      BY <3>1, ViewFields
    <3> QED
      BY <1>0, <1>5, <3>2 DEF Fits
  <2> QED
    BY <2>1, <2>2, <2>3, OneFits
<1>6. CASE RejectTreaty
  <2>1. {} \in SUBSET Players /\ {} # Players
    BY DEF Players
  <2> QED
    BY <1>5, <1>6, <2>1 DEF RejectTreaty
<1>7. CASE EndTurn
  <2> DEFINE k == [kind |-> "end_turn"]
  <2>1. k \in Packets /\ k.kind = "end_turn"
    BY PlainPackets
  <2>2. Tell(<<k>>) /\ UNCHANGED <<meeting, clauses, accepted, misled>>
    BY <1>7 DEF EndTurn, serverVars
  <2> HIDE DEF k
  <2>3. Fits(p, WebAfter(v, k))'
    BY <1>0, <2>1, <2>2, ViewFields DEF Fits, WebAfter
  <2> QED
    BY <2>1, <2>2, <2>3, OneFits
<1>8. ASSUME NEW q \in Players, AcceptTreaty(q)
      PROVE  \E s \in Seq(Packets), w \in Views :
                Tell(s) /\ Fits(p, w)' /\ Path(WebShowing, s, v, w)
  <2>0. Toggled(q) \in SUBSET Players
    BY ToggledFacts DEF TInv, ServerInv
  <2>1. CASE Toggled(q) # Players
    BY <1>5, <1>8, <2>0, <2>1 DEF AcceptTreaty
  <2>2. CASE Toggled(q) = Players
    <3> DEFINE k == [kind |-> "accept", by |-> Players]
               l == [kind |-> "cancel"]
    <3>1. /\ k \in Packets /\ l \in Packets /\ k.kind = "accept" /\ k.by = Players
          /\ l.kind = "cancel"
      BY AcceptPackets, PlainPackets
    <3>2. Tell(<<k, l>>) /\ (clauses' = <<>> \/ p \in misled')
      BY <1>8, <2>2 DEF AcceptTreaty, Closed, LeftBehind
    <3> HIDE DEF k, l
    <3>3. Away = WebAfter(v, k) /\ Away = WebAfter(Away, l)
      BY <3>1 DEF WebAfter
    <3>4. Away \in Views /\ Fits(p, Away)'
      BY <3>2, AwayFits, TypesOfViews
    <3>5. Path(WebShowing, <<k>>, v, Away) /\ Path(WebShowing, <<l>>, Away, Away)
      BY <3>1, <3>3, <3>4, WebShowingOne
    <3>6. <<k>> \in Seq(Packets) /\ <<l>> \in Seq(Packets)
          /\ <<k, l>> \in Seq(Packets) /\ <<k, l>> = <<k>> \o <<l>>
      BY <3>1, TwoPackets, OnePacket
    <3>7. Path(WebShowing, <<k>> \o <<l>>, v, Away)
      BY <3>5, <3>6, PathOn
    <3> QED
      BY <3>2, <3>4, <3>6, <3>7
  <2> QED
    BY <2>1, <2>2
<1> QED
  BY <1>1, <1>2, <1>3, <1>4, <1>6, <1>7, <1>8 DEF ServerDoes

LEMMA ServerWillShowInWeb ==
    ASSUME TInv, OnlyOffers, ServerDoes, UNCHANGED clientVars,
           NEW p \in Players, p \in WebPlayers, WillShowInWeb(p)
    PROVE  WillShowInWeb(p)'
<1>1. PICK v \in Views : Fits(p, v) /\ Path(WebShowing, packets[p], View(p), v)
  BY DEF WillShowInWeb
<1>2. PICK s \in Seq(Packets), w \in Views :
         Tell(s) /\ Fits(p, w)' /\ Path(WebShowing, s, v, w)
  BY <1>1, ServerFits
<1>3. packets'[p] = packets[p] \o s /\ packets[p] \in Seq(Packets)
  BY <1>2, ToldFacts DEF TInv, ClientTypes
<1>4. Path(WebShowing, packets[p] \o s, View(p), w)
  BY <1>1, <1>2, <1>3, PathOn
<1>5. View(p)' = View(p)
  BY DEF clientVars, View
<1>6. Path(WebShowing, packets'[p], View(p)', w)
  BY <1>3, <1>4, <1>5
<1> QED
  BY <1>2, <1>6 DEF WillShowInWeb

LEMMA ReceivedInWeb ==
    ASSUME TInv, NEW p \in Players, NEW k \in Packets, ReceiveInWeb(p, k)
    PROVE  /\ View(p)' = WebAfter(View(p), k)
           /\ OnlyChanges(p) /\ thumbs'[p] \in SUBSET Players
           /\ \A q \in Players \ {p} : View(q)' = View(q)
<1>1. /\ list \in [Players -> Seq(Clauses)] /\ thumbs \in [Players -> SUBSET Players]
      /\ shown \in SUBSET Players /\ {} \in SUBSET Players
      /\ k.kind \in {"init", "cancel", "end_turn", "create", "remove", "accept"}
      /\ k.kind = "accept" => k.by \in SUBSET Players
  BY DEF TInv, ClientTypes, Packets
<1>2. ASSUME NEW s \in SUBSET Players, NEW l, NEW t \in SUBSET Players, Show(p, s, l, t),
             s \ {p} = shown \ {p}
      PROVE  /\ View(p)' = AView(At(p \in s), l, t)
             /\ OnlyChanges(p) /\ thumbs'[p] \in SUBSET Players
             /\ \A q \in Players \ {p} : View(q)' = View(q)
  <2>1. /\ OnlyChanges(p) /\ list'[p] = l /\ thumbs'[p] = t /\ shown' = s
        /\ \A q \in Players \ {p} : list'[q] = list[q] /\ thumbs'[q] = thumbs[q]
    BY <1>1, <1>2, ShowChanges DEF Show
  <2> QED
    BY <1>2, <2>1 DEF View, At
<1>3. /\ View(p).at = At(p \in shown) /\ View(p).list = list[p] /\ View(p).thumbs = thumbs[p]
      /\ View(p).at = "table" <=> p \in shown
  BY ViewFields DEF View, At
<1>4. CASE k.kind = "init"
  <2>1. Show(p, shown \cup {p}, <<>>, {})
    BY <1>4 DEF ReceiveInWeb
  <2>2. WebAfter(View(p), k) = AView(At(p \in shown \cup {p}), <<>>, {})
    BY <1>4 DEF WebAfter, At
  <2> QED
    BY <1>1, <1>2, <2>1, <2>2
<1>5. CASE k.kind = "create"
  <2>1. Show(p, shown, Append(list[p], k.clause), thumbs[p])
    BY <1>5 DEF ReceiveInWeb
  <2>2. WebAfter(View(p), k) = AView(At(p \in shown), Append(list[p], k.clause), thumbs[p])
    BY <1>3, <1>5 DEF WebAfter
  <2> QED
    BY <1>1, <1>2, <2>1, <2>2
<1>6. CASE k.kind = "remove"
  <2>1. Show(p, shown, WithoutFirstLike(list[p], k.clause), thumbs[p])
    BY <1>6 DEF ReceiveInWeb
  <2>2. WebAfter(View(p), k)
            = AView(At(p \in shown), WithoutFirstLike(list[p], k.clause), thumbs[p])
    BY <1>3, <1>6 DEF WebAfter
  <2> QED
    BY <1>1, <1>2, <2>1, <2>2
<1>7. CASE k.kind = "accept" /\ k.by # Players
  <2>1. Show(p, shown, list[p], IF p \in shown THEN k.by ELSE {})
    BY <1>7 DEF ReceiveInWeb
  <2>2. WebAfter(View(p), k)
            = AView(At(p \in shown), list[p], IF p \in shown THEN k.by ELSE {})
    BY <1>3, <1>7 DEF WebAfter
  <2>3. (IF p \in shown THEN k.by ELSE {}) \in SUBSET Players
    BY <1>1, <1>7
  <2> QED
    BY <1>1, <1>2, <2>1, <2>2, <2>3
<1>8. CASE k.kind = "cancel" \/ (k.kind = "accept" /\ k.by = Players)
  <2>1. Show(p, shown \ {p}, <<>>, {})
    BY <1>8 DEF ReceiveInWeb
  <2>2. WebAfter(View(p), k) = AView(At(p \in shown \ {p}), <<>>, {})
    BY <1>8 DEF WebAfter, At, Away
  <2> QED
    BY <1>1, <1>2, <2>1, <2>2
<1>9. CASE k.kind = "end_turn"
  <2>1. Show(p, shown \ {p}, list[p], {})
    BY <1>9 DEF ReceiveInWeb
  <2>2. WebAfter(View(p), k) = AView(At(p \in shown \ {p}), list[p], {})
    BY <1>3, <1>9 DEF WebAfter, At
  <2> QED
    BY <1>1, <1>2, <2>1, <2>2
<1> QED
  BY <1>1, <1>4, <1>5, <1>6, <1>7, <1>8, <1>9

LEMMA ReceiveWillShowInWeb ==
    ASSUME TInv, NEW p \in Players, p \in WebPlayers, WillShowInWeb(p), ReceivePacket(p)
    PROVE  /\ WillShowInWeb(p)' /\ OnlyChanges(p)
           /\ list'[p] \in Seq(Clauses) /\ thumbs'[p] \in SUBSET Players
           /\ \A q \in Players \ {p} : View(q)' = View(q)
<1> DEFINE k == Head(packets[p])
<1>1. /\ packets[p] # <<>> /\ k \in Packets /\ packets'[p] = Tail(packets[p])
      /\ UNCHANGED serverVars /\ ReceiveInWeb(p, k) /\ packets[p] \in Seq(Packets)
  BY PacketTaken DEF TInv, ClientTypes
<1>2. PICK v \in Views : Fits(p, v) /\ Path(WebShowing, packets[p], View(p), v)
  BY DEF WillShowInWeb
<1>3. PICK d : <<View(p), k, d>> \in WebShowing /\ Path(WebShowing, Tail(packets[p]), d, v)
  BY <1>1, <1>2, PathFromHead
<1> HIDE DEF k
<1>4. d \in Views /\ d = WebAfter(View(p), k)
  BY <1>3 DEF WebShowing
<1>5. /\ View(p)' = d /\ OnlyChanges(p) /\ thumbs'[p] \in SUBSET Players
      /\ \A q \in Players \ {p} : View(q)' = View(q)
  BY <1>1, <1>4, ReceivedInWeb
<1>6. Fits(p, v)'
  BY <1>1, <1>2 DEF Fits, serverVars
<1>7. Path(WebShowing, packets'[p], View(p)', v)
  BY <1>1, <1>3, <1>5
<1>8. WillShowInWeb(p)'
  BY <1>6, <1>7 DEF WillShowInWeb
<1>9. d.list = list'[p]
  BY <1>5 DEF View, AView
<1>10. d.list \in Seq(Clauses)
  BY <1>4 DEF Views
<1> QED
  BY <1>5, <1>8, <1>9, <1>10

LEMMA ComesBackInWeb ==
    ASSUME TInv, NEW p \in Players, p \in WebPlayers, Reconnect(p)
    PROVE  \E v \in Views : Fits(p, v)' /\ Path(WebShowing, MeetingSoFar, Away, v)
<1> DEFINE n == Len(clauses)
           open(i) == AView("table", Prefix(i), {})
           init == [kind |-> "init"]
           accept == [kind |-> "accept", by |-> accepted]
<1>0. /\ n \in Nat /\ clauses \in Seq(Clauses) /\ accepted \in SUBSET Players
      /\ ~ meeting => clauses = <<>> /\ accepted = {}
      /\ meeting' = meeting /\ clauses' = clauses /\ accepted' = accepted
      /\ accepted = Players => p \in misled'
      /\ accepted # Players => p \notin misled'
  BY ReconnectFacts DEF TInv, ServerInv
<1>1. Away \in Views
  BY TypesOfViews
<1>2. CASE ~ meeting
  <2>1. Fits(p, Away)'
    BY <1>0, <1>2, AwayFits
  <2>2. MeetingSoFar = <<>> /\ <<>> \in Seq(Packets) /\ DOMAIN <<>> = {}
    BY <1>2, SoFarFacts
  <2>3. Path(WebShowing, MeetingSoFar, Away, Away)
    BY <2>2, PathNowhere
  <2> QED
    BY <1>1, <2>1, <2>3
<1>3. CASE meeting
  <2>1. \A i \in 0 .. n : open(i) \in Views
    BY PrefixFacts, ViewTypes
  <2>2. Path(WebShowing, <<init>>, Away, open(0))
    <3>1. open(0) = WebAfter(Away, init)
      BY PrefixFacts DEF WebAfter
    <3> QED
      BY <1>0, <1>1, <2>1, <3>1, WebShowingOne, PlainPackets
  <2>3. Path(WebShowing, Creates, open(0), open(n))
    <3> DEFINE h == [i \in 0 .. n |-> open(i)]
    <3>1. h[0] = open(0) /\ h[n] = open(n)
      BY <1>0
    <3>2. ASSUME NEW i \in 1 .. n
          PROVE  <<h[i - 1], Creates[i], h[i]>> \in WebShowing
      <4>1. h[i - 1] = open(i - 1) /\ h[i] = open(i) /\ h[i] \in Views /\ h[i - 1] \in Views
        BY <1>0, <2>1
      <4>2. Creates[i] \in Packets /\ Creates[i].kind = "create" /\ Creates[i].clause = clauses[i]
        <5> HIDE DEF h, open
        <5>1. /\ Creates[i] = [kind |-> "create", clause |-> clauses[i]]
              /\ Creates[i] \in Packets
          BY CreatesFacts
        <5> QED
          BY <5>1
      <4>3. WebAfter(open(i - 1), Creates[i]) = open(i)
        <5>1. Append(Prefix(i - 1), clauses[i]) = Prefix(i)
          BY PrefixFacts
        <5>2. /\ open(i - 1).at = "table" /\ open(i - 1).list = Prefix(i - 1)
              /\ open(i - 1).thumbs = {} /\ open(i) = AView("table", Prefix(i), {})
          BY ViewFields
        <5> HIDE DEF h, open
        <5>3. WebAfter(open(i - 1), Creates[i])
                = AView("table", Append(Prefix(i - 1), clauses[i]), {})
          BY <4>2, <5>2 DEF WebAfter
        <5> QED
          BY <5>1, <5>2, <5>3
      <4> HIDE DEF h, open
      <4> QED
        BY <4>1, <4>2, <4>3 DEF WebShowing
    <3>3. Len(Creates) = n
      BY CreatesFacts
    <3> HIDE DEF h, open, n
    <3> QED
      BY <3>1, <3>2, <3>3 DEF Path
  <2>4. PICK last \in Views : /\ last = WebAfter(open(n), accept)
                             /\ Path(WebShowing, <<accept>>, open(n), last)
    <3>1. accept \in Packets /\ open(n) \in Views
      BY <1>0, <2>1, AcceptPackets
    <3> HIDE DEF accept, open
    <3> QED
      BY <3>1, WebAfterType, WebShowingOne
  <2>5. /\ MeetingSoFar = <<init>> \o Creates \o <<accept>>
        /\ <<init>> \in Seq(Packets) /\ Creates \in Seq(Packets)
        /\ <<accept>> \in Seq(Packets) /\ <<init>> \o Creates \in Seq(Packets)
    BY <1>3, SoFarFacts, CreatesFacts
  <2>6. Fits(p, last)'
    <3>1. /\ accept.kind = "accept" /\ accept.by = accepted
          /\ open(n).at = "table" /\ open(n).list = clauses
      BY PrefixFacts, ViewFields
    <3> HIDE DEF accept, open
    <3>2. CASE accepted = Players
      <4>1. last = Away
        BY <2>4, <3>1, <3>2 DEF WebAfter
      <4> QED
        BY <1>0, <3>2, <4>1, AwayFits
    <3>3. CASE accepted # Players
      <4>1. last = AView("table", clauses, accepted)
        BY <2>4, <3>1, <3>3 DEF WebAfter
      <4>2. last.at = "table" /\ last.list = clauses /\ last.thumbs = accepted
        BY <4>1, ViewFields
      <4> QED
        BY <1>0, <1>3, <3>3, <4>2 DEF Fits
    <3> QED
      BY <3>2, <3>3
  <2> HIDE DEF open, init, accept, n
  <2>7. Path(WebShowing, <<init>> \o Creates, Away, open(n))
    BY <2>2, <2>3, <2>5, PathOn
  <2>8. Path(WebShowing, MeetingSoFar, Away, last)
    BY <2>4, <2>5, <2>7, PathOn
  <2> QED
    BY <2>4, <2>6, <2>8
<1> QED
  BY <1>2, <1>3

-----------------------------------------------------------------------------
(***************************************************************************)
(* The requests of the clients.                                            *)
(***************************************************************************)
\* The elements of the first n of l that a clause c replaces, after those of base.
Selects(g, base, l, n, c) ==
    g = [i \in 0 .. n |->
            IF i = 0 THEN base
            ELSE IF Replaces(c, l[i]) THEN Append(g[i - 1], l[i])
            ELSE g[i - 1]]

\* Any of the first n of l may follow a sequence of W.
Extends(W, l, n) == \A s \in W, i \in 1 .. n : Append(s, l[i]) \in W

LEMMA SelectionType ==
    ASSUME NEW c, NEW W, NEW l, NEW n \in Nat, NEW base \in W, Extends(W, l, n)
    PROVE  /\ \E g : Selects(g, base, l, n, c)
           /\ \A g : Selects(g, base, l, n, c) => g[n] \in W
<1> DEFINE f == [t \in W \X (1 .. n) |->
                    IF Replaces(c, l[t[2]]) THEN Append(t[1], l[t[2]]) ELSE t[1]]
<1>1. \A s \in W, i \in 1 .. n :
          f[<<s, i>>] = IF Replaces(c, l[i]) THEN Append(s, l[i]) ELSE s
  OBVIOUS
<1>2. f \in [W \X (1 .. n) -> W]
  <2>1. \A t \in W \X (1 .. n) : Append(t[1], l[t[2]]) \in W /\ t[1] \in W
    BY DEF Extends
  <2> QED
    BY <2>1
<1> HIDE DEF f
<1>3. PICK g \in [0 .. n -> W] : Recurs(g, n, base, f)
  BY <1>2, RecursionExists
<1>4. \A i \in 0 .. n : i # 0 => i \in 1 .. n /\ i - 1 \in 0 .. n
  OBVIOUS
<1>5. Selects(g, base, l, n, c)
  <2>1. ASSUME NEW i \in 0 .. n
        PROVE  g[i] = IF i = 0 THEN base
                      ELSE IF Replaces(c, l[i]) THEN Append(g[i - 1], l[i])
                      ELSE g[i - 1]
    BY <1>1, <1>3, <1>4 DEF Recurs
  <2> QED
    BY <1>3, <2>1 DEF Selects
<1>6. ASSUME NEW h, Selects(h, base, l, n, c)
      PROVE  h[n] \in W
  <2> DEFINE S == {i \in 0 .. n : h[i] \in W}
  <2>1. h[0] = base
    BY <1>6 DEF Selects
  <2>2. ASSUME NEW i \in 0 .. n, i # 0
        PROVE  h[i] = IF Replaces(c, l[i]) THEN Append(h[i - 1], l[i]) ELSE h[i - 1]
    BY <1>6, <2>2 DEF Selects
  <2>3. 0 \in S
    BY <2>1
  <2>4. ASSUME NEW i \in 1 .. n, i - 1 \in S
        PROVE  i \in S
    <3>1. h[i - 1] \in W /\ i \in 0 .. n /\ i # 0
      BY <2>4
    <3>2. Append(h[i - 1], l[i]) \in W
      BY <3>1 DEF Extends
    <3> QED
      BY <2>2, <3>1, <3>2
  <2> HIDE DEF S
  <2>5. 0 .. n \subseteq S
    BY <2>3, <2>4, BoundedInduction
  <2> QED
    BY <2>5 DEF S
<1> QED
  BY <1>5, <1>6

LEMMA OutdatedType ==
    ASSUME TInv, NEW p \in Players, NEW c
    PROVE  Outdated(p, c) \in Seq(Clauses)
<1> DEFINE among == CHOOSE g : Selects(g, <<>>, list[p], Len(list[p]), c)
<1>1. list[p] \in Seq(Clauses) /\ Len(list[p]) \in Nat /\ <<>> \in Seq(Clauses)
  BY DEF TInv, ClientTypes
<1>2. Outdated(p, c) = IF p \in WebPlayers THEN among[Len(list[p])] ELSE <<>>
  BY DEF Outdated, Selects
<1>3. ASSUME NEW s \in Seq(Clauses), NEW i \in 1 .. Len(list[p])
      PROVE  Append(s, list[p][i]) \in Seq(Clauses)
  <2>1. list[p][i] \in Clauses
    BY <1>1
  <2> QED
    BY <2>1
<1>4. among[Len(list[p])] \in Seq(Clauses)
  <2> DEFINE W == Seq(Clauses)
             n == Len(list[p])
             base == <<>>
  <2>1. n \in Nat /\ base \in W /\ Extends(W, list[p], n)
    BY <1>1, <1>3 DEF Extends
  <2> HIDE DEF W, n, base
  <2>2. /\ \E g : Selects(g, base, list[p], n, c)
        /\ \A g : Selects(g, base, list[p], n, c) => g[n] \in W
    BY <2>1, SelectionType
  <2> QED
    BY <2>2 DEF W, n, base
<1> HIDE DEF among
<1> QED
  BY <1>1, <1>2, <1>4

\* A client asks for something.
Asks ==
    \E p \in Players :
        \/ AskMeeting(p)
        \/ \E c \in Offers : Offer(p, c)
        \/ \E c \in ToSet(list[p]) : WithdrawOffer(p, c)
        \/ PressAccept(p)
        \/ PressCancel(p)

LEMMA RequestType ==
    ASSUME TInv, NEW p \in Players, NEW s \in Seq(Requests), Request(p, s)
    PROVE  requests' \in [Players -> Seq(Requests)]
<1>1. requests \in [Players -> Seq(Requests)] /\ requests' = [requests EXCEPT ![p] = @ \o s]
  BY DEF TInv, ClientTypes, Request
<1>2. requests[p] \o s \in Seq(Requests)
  BY <1>1
<1> QED
  BY <1>1, <1>2

LEMMA AsksKeeps ==
    ASSUME TInv, Asks
    PROVE  /\ requests' \in [Players -> Seq(Requests)]
           /\ UNCHANGED <<serverVars, clientVars, packets>>
<1>0. /\ list \in [Players -> Seq(Clauses)]
      /\ \A k \in {"init", "accept", "cancel"} : <<[kind |-> k]>> \in Seq(Requests)
      /\ \A c \in Clauses : <<[kind |-> "remove", clause |-> c]>> \in Seq(Requests)
      /\ \A c \in Offers : <<[kind |-> "create", clause |-> c]>> \in Seq(Requests)
  <2>1. /\ \A k \in {"init", "accept", "cancel"} : [kind |-> k] \in Requests
        /\ \A c \in Clauses : [kind |-> "remove", clause |-> c] \in Requests
        /\ \A c \in Offers : [kind |-> "create", clause |-> c] \in Requests
    BY DEF Requests
  <2>2. \A r \in Requests : <<r>> \in Seq(Requests)
    OBVIOUS
  <2> QED
    BY <2>1, <2>2 DEF TInv, ClientTypes
<1>1. ASSUME NEW p \in Players, AskMeeting(p) \/ PressAccept(p) \/ PressCancel(p)
      PROVE  /\ requests' \in [Players -> Seq(Requests)]
             /\ UNCHANGED <<serverVars, clientVars, packets>>
  BY <1>0, <1>1, RequestType DEF AskMeeting, PressAccept, PressCancel, Request
<1>2. ASSUME NEW p \in Players, NEW c \in ToSet(list[p]), WithdrawOffer(p, c)
      PROVE  /\ requests' \in [Players -> Seq(Requests)]
             /\ UNCHANGED <<serverVars, clientVars, packets>>
  <2>1. c \in Clauses
    <3>1. list[p] \in Seq(Clauses)
      BY <1>0
    <3> QED
      BY <3>1 DEF ToSet
  <2> QED
    BY <1>0, <1>2, <2>1, RequestType DEF WithdrawOffer, Request
<1>3. ASSUME NEW p \in Players, NEW c \in Offers, Offer(p, c)
      PROVE  /\ requests' \in [Players -> Seq(Requests)]
             /\ UNCHANGED <<serverVars, clientVars, packets>>
  <2> DEFINE out == Outdated(p, c)
             removes == [i \in DOMAIN out |-> [kind |-> "remove", clause |-> out[i]]]
             create == <<[kind |-> "create", clause |-> c]>>
  <2>1. Request(p, removes \o create)
    BY <1>3 DEF Offer
  <2>2. out \in Seq(Clauses)
    BY OutdatedType
  <2> HIDE DEF out
  <2>3. removes \in Seq(Requests)
    <3>1. DOMAIN out = 1 .. Len(out) /\ Len(out) \in Nat /\ \A i \in DOMAIN out : out[i] \in Clauses
      BY <2>2
    <3>2. \A i \in DOMAIN out : [kind |-> "remove", clause |-> out[i]] \in Requests
      BY <3>1 DEF Requests
    <3> QED
      BY <3>1, <3>2
  <2>4. create \in Seq(Requests)
    BY <1>0
  <2> HIDE DEF removes, create
  <2>5. removes \o create \in Seq(Requests)
    BY <2>3, <2>4, ConcatProperties
  <2> QED
    BY <2>1, <2>5, RequestType DEF Request
<1> QED
  BY <1>1, <1>2, <1>3 DEF Asks

-----------------------------------------------------------------------------
(***************************************************************************)
(* Every client will show what the server has, once it has received what   *)
(* is on the way: the invariant.                                           *)
(***************************************************************************)
WillFollow(p) == IF p \in WebPlayers THEN WillShowInWeb(p) ELSE WillShow(p)

SInv == TInv /\ OnlyOffers /\ \A p \in Players : WillFollow(p)

LEMMA FollowsAlong ==
    ASSUME NEW p \in Players, WillFollow(p), UNCHANGED <<setup, meeting, clauses, accepted>>,
           p \in misled' <=> p \in misled, packets'[p] = packets[p], View(p)' = View(p)
    PROVE  WillFollow(p)'
<1>1. WebPlayers' = WebPlayers
  BY DEF WebPlayers
<1>2. Due(p)' = Due(p) /\ \A v : Fits(p, v)' <=> Fits(p, v)
  BY DEF ServerView, Due, Away, Fits
<1>3. CASE p \in WebPlayers
  <2>1. PICK v \in Views : Fits(p, v) /\ Path(WebShowing, packets[p], View(p), v)
    BY <1>3 DEF WillFollow, WillShowInWeb
  <2>2. Fits(p, v)' /\ Path(WebShowing, packets'[p], View(p)', v)
    BY <1>2, <1>3, <2>1
  <2> QED
    BY <1>1, <1>3, <2>2 DEF WillFollow, WillShowInWeb
<1>4. CASE p \notin WebPlayers
  BY <1>1, <1>2, <1>4 DEF WillFollow, WillShow
<1> QED
  BY <1>3, <1>4

LEMMA OnlyOffersSame ==
    ASSUME OnlyOffers, UNCHANGED <<setup, clauses>>
    PROVE  OnlyOffers'
BY DEF OnlyOffers, WebPlayers, Offers

LEMMA ServerInvSame ==
    ASSUME TInv, UNCHANGED <<setup, serverVars>>
    PROVE  ServerInv'
BY DEF TInv, ServerInv, serverVars, WebPlayers

LEMMA ServerFollows ==
    ASSUME SInv, ServerDoes, UNCHANGED <<setup, clientVars>>,
           requests' \in [Players -> Seq(Requests)]
    PROVE  SInv'
<1>1. TInv /\ OnlyOffers /\ WebPlayers' = WebPlayers /\ Requests' = Requests
  BY DEF SInv, WebPlayers, Requests, Offers
<1>2. ServerInv' /\ packets' \in [Players -> Seq(Packets)]
  BY <1>1, ServerInvStep
<1>3. TInv'
  BY <1>1, <1>2 DEF TInv, ClientTypes, clientVars
<1>4. OnlyOffers'
  BY <1>1, OnlyOffersKept
<1>5. \A p \in Players : Due(p)' \in Views
  <2>1. clauses' \in Seq(Clauses) /\ accepted' \in SUBSET Players /\ Away \in Views
    BY <1>1, <1>2, TypesOfViews DEF ServerInv
  <2>2. At(meeting') \in {"table", "away"}
    BY DEF At
  <2>3. ServerView' \in Views
    BY <2>1, <2>2, ViewTypes DEF ServerView
  <2> QED
    BY <2>1, <2>3 DEF Due, Away
<1>6. ASSUME NEW p \in Players
      PROVE  WillFollow(p)'
  <2>1. CASE p \in WebPlayers
    BY <1>1, <2>1, ServerWillShowInWeb DEF SInv, WillFollow
  <2>2. CASE p \notin WebPlayers
    BY <1>1, <1>2, <1>5, <2>2, ServerWillShow DEF SInv, WillFollow
  <2> QED
    BY <2>1, <2>2
<1> QED
  BY <1>3, <1>4, <1>6 DEF SInv

LEMMA ReceiveFollows ==
    ASSUME SInv, NEW p \in Players, ReceivePacket(p), UNCHANGED setup
    PROVE  SInv'
<1>1. TInv /\ OnlyOffers /\ WebPlayers' = WebPlayers /\ Requests' = Requests
  BY DEF SInv, WebPlayers, Requests, Offers
<1>2. /\ packets' \in [Players -> Seq(Packets)]
      /\ \A q \in Players \ {p} : packets'[q] = packets[q]
      /\ UNCHANGED <<serverVars, requests>>
  BY <1>1, PacketTaken
<1>3. /\ WillFollow(p)' /\ OnlyChanges(p)
      /\ list'[p] \in Seq(Clauses) /\ thumbs'[p] \in SUBSET Players
      /\ \A q \in Players \ {p} : View(q)' = View(q)
  <2>1. CASE p \in WebPlayers
    BY <1>1, <2>1, ReceiveWillShowInWeb DEF SInv, WillFollow
  <2>2. CASE p \notin WebPlayers
    BY <1>1, <2>2, ReceiveWillShow DEF SInv, WillFollow
  <2> QED
    BY <2>1, <2>2
<1>4. TInv'
  <2>1. ServerInv'
    BY <1>1, <1>2, ServerInvSame
  <2>2. /\ shown' \in SUBSET Players /\ list' \in [Players -> Seq(Clauses)]
        /\ thumbs' \in [Players -> SUBSET Players]
    BY <1>1, <1>3, TypesAfterChange
  <2> QED
    BY <1>1, <1>2, <2>1, <2>2 DEF TInv, ClientTypes
<1>5. ASSUME NEW q \in Players \ {p}
      PROVE  WillFollow(q)'
  <2>1. View(q)' = View(q) /\ packets'[q] = packets[q] /\ misled' = misled
    BY <1>2, <1>3 DEF serverVars
  <2>2. UNCHANGED <<setup, meeting, clauses, accepted>>
    BY <1>2 DEF serverVars
  <2> QED
    BY <2>1, <2>2, FollowsAlong DEF SInv
<1> QED
  BY <1>1, <1>2, <1>3, <1>4, <1>5, OnlyOffersSame DEF SInv, serverVars

LEMMA ReconnectFollows ==
    ASSUME SInv, NEW p \in Players, Reconnect(p), UNCHANGED setup
    PROVE  SInv'
<1>1. TInv /\ OnlyOffers /\ WebPlayers' = WebPlayers /\ Requests' = Requests
  BY DEF SInv, WebPlayers, Requests, Offers
<1>2. /\ packets' \in [Players -> Seq(Packets)]
      /\ requests' \in [Players -> Seq(Requests)]
      /\ shown' \in SUBSET Players
      /\ list' \in [Players -> Seq(Clauses)]
      /\ thumbs' \in [Players -> SUBSET Players]
      /\ packets'[p] = MeetingSoFar /\ list'[p] = <<>> /\ View(p)' = Away
      /\ p \notin shown'
      /\ \A q \in Players \ {p} : View(q)' = View(q) /\ packets'[q] = packets[q]
                                     /\ list'[q] = list[q] /\ (q \in shown' <=> q \in shown)
      /\ UNCHANGED <<meeting, clauses, accepted>>
      /\ misled' = IF p \in WebPlayers /\ accepted = Players THEN misled
                    ELSE misled \ {p}
  BY <1>1, ReconnectFacts
<1>3. TInv'
  <2>1. ServerInv'
    BY <1>1, <1>2 DEF TInv, ServerInv
  <2> QED
    BY <1>1, <1>2, <2>1 DEF TInv, ClientTypes
<1>4. WillFollow(p)'
  <2>1. CASE p \in WebPlayers
    <3>1. PICK v \in Views : Fits(p, v)' /\ Path(WebShowing, MeetingSoFar, Away, v)
      BY <1>1, <2>1, ComesBackInWeb
    <3>2. Path(WebShowing, packets'[p], View(p)', v)
      BY <1>2, <3>1
    <3> QED
      BY <1>1, <2>1, <3>1, <3>2 DEF WillFollow, WillShowInWeb
  <2>2. CASE p \notin WebPlayers
    <3>1. Due(p)' = ServerView
      BY <1>2, <2>2 DEF Due, ServerView
    <3>2. Path(Showing, packets'[p], View(p)', Due(p)')
      BY <1>1, <1>2, <3>1, ComesBackInC
    <3> QED
      BY <1>1, <2>2, <3>2 DEF WillFollow, WillShow
  <2> QED
    BY <2>1, <2>2
<1>5. ASSUME NEW q \in Players \ {p}
      PROVE  WillFollow(q)'
  <2>1. View(q)' = View(q) /\ packets'[q] = packets[q] /\ (q \in misled' <=> q \in misled)
    BY <1>2
  <2> QED
    BY <1>2, <2>1, FollowsAlong DEF SInv
<1> QED
  BY <1>1, <1>2, <1>3, <1>4, <1>5, OnlyOffersSame DEF SInv

LEMMA AsksFollows ==
    ASSUME SInv, UNCHANGED <<setup, serverVars, clientVars, packets>>,
           requests' \in [Players -> Seq(Requests)]
    PROVE  SInv'
<1>1. TInv /\ OnlyOffers /\ Requests' = Requests
  BY DEF SInv, Requests, Offers
<1>2. TInv'
  BY <1>1, ServerInvSame DEF TInv, ClientTypes, clientVars
<1>3. ASSUME NEW p \in Players
      PROVE  WillFollow(p)'
  <2>1. View(p)' = View(p)
    BY DEF clientVars, View
  <2> QED
    BY <2>1, FollowsAlong DEF SInv, serverVars
<1> QED
  BY <1>1, <1>2, <1>3, OnlyOffersSame DEF SInv, serverVars

LEMMA InitSInv == Init => SInv
<1> SUFFICES ASSUME Init
             PROVE  SInv
  OBVIOUS
<1>1. /\ setup \in Setups /\ meeting = FALSE /\ clauses = <<>> /\ accepted = {}
      /\ misled = {} /\ shown = {}
      /\ list = [p \in Players |-> <<>>] /\ thumbs = [p \in Players |-> {}]
      /\ requests = [p \in Players |-> <<>>] /\ packets = [p \in Players |-> <<>>]
  BY DEF Init
<1>2. /\ <<>> \in Seq(Requests) /\ <<>> \in Seq(Packets) /\ <<>> \in Seq(Clauses)
      /\ {} \in SUBSET Players /\ {} # Players
      /\ \A S : <<>> \in Seq(S)
  BY DEF Players
<1>3. TInv
  <2>1. ServerInv
    BY <1>1, <1>2, NoClauses DEF ServerInv
  <2>2. ClientTypes
    BY <1>1, <1>2 DEF ClientTypes
  <2> QED
    BY <2>1, <2>2 DEF TInv
<1>4. OnlyOffers
  BY <1>1 DEF OnlyOffers
<1>5. ASSUME NEW p \in Players
      PROVE  WillFollow(p)
  <2>1. packets[p] = <<>> /\ View(p) = Away /\ Due(p) = Away
    BY <1>1 DEF View, ServerView, Due, Away, At
  <2>2. Away \in Views /\ Fits(p, Away)
    <3>1. Away.at = "away" /\ Away.list = <<>>
      BY ViewFields DEF Away
    <3> QED
      BY <1>1, <1>3, <3>1, TypesOfViews DEF Fits
  <2>3. Path(Showing, <<>>, Away, Away) /\ Path(WebShowing, <<>>, Away, Away)
    <3>1. <<>> \in Seq(Packets) /\ DOMAIN <<>> = {}
      OBVIOUS
    <3> QED
      BY <3>1, PathNowhere
  <2> QED
    BY <2>1, <2>2, <2>3 DEF WillFollow, WillShow, WillShowInWeb
<1> QED
  BY <1>3, <1>4, <1>5 DEF SInv

LEMMA SInvStep == SInv /\ [Next]_vars => SInv'
<1> SUFFICES ASSUME SInv, [Next]_vars
             PROVE  SInv'
  OBVIOUS
<1>1. TInv /\ requests \in [Players -> Seq(Requests)]
  BY DEF SInv, TInv, ClientTypes
<1>2. CASE UNCHANGED vars
  BY <1>1, <1>2, AsksFollows DEF vars
<1>3. CASE Next
  <2>0. UNCHANGED setup
    BY <1>3 DEF Next
  <2>1. CASE ServerEvent
    BY <1>1, <2>0, <2>1, ServerFollows DEF ServerEvent, ServerDoes
  <2>2. ASSUME NEW p \in Players, HandleRequest(p)
        PROVE  SInv'
    <3>1. /\ UNCHANGED clientVars /\ requests' \in [Players -> Seq(Requests)]
          /\ ServerDoes \/ UNCHANGED <<serverVars, packets>>
      BY <1>1, <2>0, <2>2, RequestFacts
    <3> QED
      BY <2>0, <3>1, ServerFollows, AsksFollows
  <2>3. ASSUME NEW p \in Players, ReceivePacket(p)
        PROVE  SInv'
    BY <2>0, <2>3, ReceiveFollows
  <2>4. ASSUME NEW p \in Players, Reconnect(p)
        PROVE  SInv'
    BY <2>0, <2>4, ReconnectFollows
  <2>5. CASE Asks
    BY <1>1, <2>0, <2>5, AsksKeeps, AsksFollows
  <2> QED
    BY <1>3, <2>1, <2>2, <2>3, <2>4, <2>5 DEF Next, Asks
<1> QED
  BY <1>2, <1>3

LEMMA SHolds == Spec => []SInv
BY InitSInv, SInvStep, PTL DEF Spec

-----------------------------------------------------------------------------
LEMMA EmptyPath ==
    ASSUME NEW R, NEW a, NEW b, Path(R, <<>>, a, b)
    PROVE  a = b
BY DEF Path

\* An up-to-date client.
LEMMA SeenAll ==
    ASSUME SInv, NEW p \in Players, UpToDate(p)
    PROVE  /\ p \notin WebPlayers =>
                 /\ p \in shown <=> meeting /\ p \notin misled
                 /\ p \notin misled => list[p] = clauses /\ thumbs[p] = accepted
           /\ p \in WebPlayers =>
                 /\ p \in shown => meeting /\ p \notin misled
                 /\ p \in shown => thumbs[p] = accepted \/ accepted = {}
                 /\ Distinguishable /\ p \notin misled => list[p] = clauses
<1>1. packets[p] = <<>>
  BY DEF UpToDate
<1>2. View(p).at = At(p \in shown) /\ View(p).list = list[p] /\ View(p).thumbs = thumbs[p]
  BY ViewFields DEF View
<1>3. CASE p \notin WebPlayers
  <2>1. View(p) = Due(p)
    BY <1>1, <1>3, EmptyPath DEF SInv, WillFollow, WillShow
  <2>2. CASE p \in misled
    <3>1. At(p \in shown) = "away"
      BY <1>2, <2>1, <2>2, ViewFields DEF Due, Away
    <3> QED
      BY <1>3, <2>2, <3>1 DEF At
  <2>3. CASE p \notin misled
    <3>1. At(p \in shown) = At(meeting) /\ list[p] = clauses /\ thumbs[p] = accepted
      BY <1>2, <2>1, <2>3, ViewFields DEF Due, ServerView
    <3> QED
      BY <1>3, <2>3, <3>1 DEF At
  <2> QED
    BY <2>2, <2>3
<1>4. CASE p \in WebPlayers
  <2>1. Fits(p, View(p))
    BY <1>1, <1>4, EmptyPath DEF SInv, WillFollow, WillShowInWeb
  <2> QED
    BY <1>2, <1>4, <2>1 DEF Fits, At
<1> QED
  BY <1>3, <1>4

\* Players, meetings, acceptances, packets and requests stay what they are meant to
\* be, in the server and in every client; nothing is left of a meeting that is over.
THEOREM SyncTypes == Spec => []TypeOK
<1>1. SInv => TypeOK
  BY DEF SInv, TInv, ServerInv, ClientTypes, TypeOK
<1> QED
  BY <1>1, SHolds, PTL

\* A client that has read all it was sent shows a dialog only if the server has the
\* meeting and has not told it otherwise, and a C client shows one whenever that is so:
\* none is left open after the meeting ended, after whatever requests, cancellations,
\* treaties left behind and reconnections.
THEOREM MeetingsAlwaysAgree == Spec => []MeetingsAgree
<1>1. SInv => MeetingsAgree
  BY SeenAll DEF MeetingsAgree
<1> QED
  BY <1>1, SHolds, PTL

\* A client that has read all it was sent, and was not told that the meeting is over,
\* shows who has accepted: a C client always, a dialog of the web client unless nobody
\* has (an acceptance that a changed clause took back may stay on that screen).
THEOREM ThumbsAlwaysAgree == Spec => []ThumbsAgree
<1>1. SInv => ThumbsAgree
  BY SeenAll DEF ThumbsAgree
<1> QED
  BY <1>1, SHolds, PTL

\* A client that has read all it was sent, and was not told that the meeting is over,
\* lists the clauses that the server has, in the order of the server.  The web client
\* compares clauses as they look to it, so this needs offers that it can tell apart;
\* TreatySync_views has a setup with web clients and such offers.
THEOREM ListsAlwaysAgree ==
    ASSUME Distinguishable
    PROVE  Spec => []ListsAgree
<1>1. SInv => ListsAgree
  BY SeenAll DEF ListsAgree
<1> QED
  BY <1>1, SHolds, PTL

\* A C client that is up to date lists what the server has.
CListsAgree ==
    \A p \in Players \ (WebPlayers \cup misled) : UpToDate(p) => list[p] = clauses

\* A C client, which compares clauses as the server does, lists the clauses of the
\* server whatever the offers are, unless it was told that the meeting is over.
THEOREM CListsAlwaysAgree == Spec => []CListsAgree
<1>1. SInv => CListsAgree
  BY SeenAll DEF CListsAgree
<1> QED
  BY <1>1, SHolds, PTL
=============================================================================
