---------------------------- MODULE ProxyProofs -----------------------------
(***************************************************************************)
(* Theorems about module Proxy, for any number of WebSockets, requests and *)
(* packets: neither side of a connection sees anything twice or out of     *)
(* order, the table of connections has no entry without a WebSocket, and a *)
(* user is refused only behind requests of his own.                        *)
(***************************************************************************)
EXTENDS Proxy, TLAPS, SequenceTheorems

USE SocketsAssumption, BoundsAssumption

Spec == Init /\ [][Next]_vars

(***************************************************************************)
(* The types, as far as the proofs need them.                              *)
(***************************************************************************)
WsOK ==
    /\ ws \in [Sockets -> {"new", "ready", "refused", "closed"}]
    /\ civcoms \subseteq Sockets
    /\ asked \in [Sockets -> 0 .. MaxRequests]
    /\ got \in [Sockets -> Packets]
    /\ closing \in Sockets \cup {Nothing} /\ ioRest \in Requests
    /\ tested \in {"no", "set", "unset"}
ThrOK ==
    /\ thr \in [Sockets -> {"none", "connect", "login", "send", "clear",
                            "read", "close", "dead"}]
    /\ queue \in [Sockets -> Requests] /\ rest \in [Sockets -> Requests]
    /\ buffer \in [Sockets -> Packets]
    /\ handler \in [Sockets -> BOOLEAN] /\ stopped \in [Sockets -> BOOLEAN]
    /\ socket \in [Sockets -> {"none", "unconnected", "open", "closed"}]
    /\ stale \subseteq Sockets
TcpOK ==
    /\ up \in [Sockets -> Requests] /\ upEnd \in [Sockets -> BOOLEAN]
    /\ down \in [Sockets -> Packets] /\ downEnd \in [Sockets -> BOOLEAN]
ServerOK ==
    /\ conn \in [Sockets -> {"none", "backlog", "open", "established",
                             "closing", "gone"}]
    /\ backlog \in Seq(Sockets)
    /\ readable \subseteq Sockets /\ inRound \in BOOLEAN
    /\ recv \in [Sockets -> Requests] /\ given \in [Sockets -> 0 .. MaxPackets]
    /\ behind \subseteq Sockets
Types == WsOK /\ ThrOK /\ TcpOK /\ ServerOK

----------------------------------------------------------------------------
LEMMA OneMore ==
    ASSUME NEW n \in Nat, NEW f \in [Sockets -> 0 .. n], NEW s \in Sockets, f[s] < n
    PROVE  /\ [f EXCEPT ![s] = f[s] + 1] \in [Sockets -> 0 .. n]
           /\ [f EXCEPT ![s] = f[s] + 1][s] \in 1 .. n
<1>1. f[s] + 1 \in 1 .. n
  OBVIOUS
<1> QED
  BY <1>1

(***************************************************************************)
(* Sequences.                                                              *)
(***************************************************************************)
LEMMA AppendType ==
    ASSUME NEW S, NEW q \in Seq(S), NEW x \in S
    PROVE  Append(q, x) \in Seq(S)
OBVIOUS

LEMMA ConcatAppend ==
    ASSUME NEW a \in Seq(Int), NEW b \in Seq(Int), NEW x \in Int
    PROVE  a \o Append(b, x) = Append(a \o b, x)
OBVIOUS

LEMMA AppendNotEmpty ==
    ASSUME NEW S, NEW q \in Seq(S), NEW x \in S
    PROVE  Append(q, x) # <<>>
OBVIOUS

LEMMA IncreasingAppend ==
    ASSUME NEW q \in Seq(Int), NEW x \in Int, Increasing(q),
           \A i \in DOMAIN q : q[i] < x
    PROVE  Increasing(Append(q, x))
BY DEF Increasing

LEMMA IncreasingTail ==
    ASSUME NEW q \in Seq(Int), Increasing(q), q # <<>>
    PROVE  /\ Increasing(Tail(q))
           /\ \A i \in DOMAIN Tail(q) : Head(q) < Tail(q)[i]
<1>1. /\ DOMAIN q = 1 .. Len(q) /\ Len(q) \in Nat \ {0}
      /\ \A i \in 1 .. Len(q) : q[i] \in Int
      /\ DOMAIN Tail(q) = 1 .. Len(q) - 1
      /\ \A i \in 1 .. Len(q) - 1 : Tail(q)[i] = q[i + 1]
      /\ Head(q) = q[1]
  BY HeadTailProperties, EmptySeq, LenProperties, ElementOfSeq
<1>2. ASSUME NEW i \in DOMAIN Tail(q), NEW j \in DOMAIN Tail(q), i < j
      PROVE  Tail(q)[i] < Tail(q)[j]
  <2>1. /\ i \in Int /\ j \in Int
        /\ i + 1 \in DOMAIN q /\ j + 1 \in DOMAIN q /\ i + 1 < j + 1
    BY <1>1, <1>2
  <2>2. q[i + 1] < q[j + 1]
    BY <2>1 DEF Increasing
  <2> QED
    BY <1>1, <1>2, <2>2
<1>3. ASSUME NEW i \in DOMAIN Tail(q)
      PROVE  Head(q) < Tail(q)[i]
  <2>1. /\ i \in Int
        /\ 1 \in DOMAIN q /\ i + 1 \in DOMAIN q /\ 1 < i + 1
    BY <1>1
  <2>2. q[1] < q[i + 1]
    BY <2>1 DEF Increasing
  <2> QED
    BY <1>1, <2>2
<1> QED
  BY <1>2, <1>3 DEF Increasing

LEMMA IncreasingPrefix ==
    ASSUME NEW a \in Seq(Int), NEW b \in Seq(Int), Increasing(a \o b)
    PROVE  Increasing(a)
<1>1. /\ DOMAIN a = 1 .. Len(a) /\ Len(a) \in Nat /\ Len(b) \in Nat
      /\ DOMAIN (a \o b) = 1 .. (Len(a) + Len(b))
      /\ \A i \in 1 .. Len(a) : (a \o b)[i] = a[i]
  BY ConcatProperties, LenProperties
<1> SUFFICES ASSUME NEW i \in 1 .. Len(a), NEW j \in 1 .. Len(a), i < j
             PROVE  a[i] < a[j]
  BY <1>1 DEF Increasing
<1>2. (a \o b)[i] < (a \o b)[j]
  <2>1. i \in DOMAIN (a \o b) /\ j \in DOMAIN (a \o b)
    BY <1>1
  <2> QED
    BY <2>1 DEF Increasing
<1> QED
  BY <1>1, <1>2

\* q holds the numbers after n up to m, in order.
Span(q, n, m) == Len(q) = m - n /\ \A i \in 1 .. Len(q) : q[i] = n + i

LEMMA SpanAppend ==
    ASSUME NEW q \in Seq(Int), NEW n \in Int, NEW m \in Int, Span(q, n, m)
    PROVE  Span(Append(q, m + 1), n, m + 1)
BY DEF Span

LEMMA SpanHead ==
    ASSUME NEW q \in Seq(Int), NEW n \in Int, NEW m \in Int, Span(q, n, m), q # <<>>
    PROVE  Head(q) = n + 1 /\ Span(Tail(q), n + 1, m)
BY DEF Span

LEMMA SpanConcat ==
    ASSUME NEW a \in Seq(Int), NEW b \in Seq(Int), NEW n \in Int, NEW m \in Int, NEW k \in Int,
           Span(a, n, m), Span(b, m, k)
    PROVE  Span(a \o b, n, k)
<1>1. /\ Len(a \o b) = Len(a) + Len(b) /\ Len(a) \in Nat /\ Len(b) \in Nat
      /\ \A i \in 1 .. Len(a) + Len(b) :
             (a \o b)[i] = IF i <= Len(a) THEN a[i] ELSE b[i - Len(a)]
  BY ConcatProperties
<1>2. Len(a) = m - n /\ Len(b) = k - m
  BY DEF Span
<1>3. ASSUME NEW i \in 1 .. Len(a) + Len(b)
      PROVE  (a \o b)[i] = n + i
  <2>1. CASE i <= Len(a)
    BY <1>1, <2>1 DEF Span
  <2>2. CASE i > Len(a)
    <3>1. i - Len(a) \in 1 .. Len(b)
      BY <1>1, <2>2
    <3>2. b[i - Len(a)] = m + (i - Len(a))
      BY <3>1 DEF Span
    <3>3. (a \o b)[i] = b[i - Len(a)]
      BY <1>1, <2>2
    <3> QED
      BY <1>1, <1>2, <3>2, <3>3
  <2> QED
    BY <1>1, <2>1, <2>2
<1> QED
  BY <1>1, <1>2, <1>3 DEF Span

\* Requests that begin with the login and go up to k.
Ordered(q, k) ==
    /\ Increasing(q)
    /\ \A i \in DOMAIN q : q[i] <= k
    /\ q # <<>> => q[1] = Login

\* The requests r, up to k as well, are later than all of q.
Later(r, q, k) ==
    /\ Increasing(r)
    /\ \A j \in DOMAIN r : r[j] <= k /\ \A i \in DOMAIN q : q[i] < r[j]

LEMMA SeqElements ==
    ASSUME NEW q \in Seq(Int)
    PROVE  DOMAIN q = 1 .. Len(q) /\ Len(q) \in Nat /\ \A i \in DOMAIN q : q[i] \in Int
BY LenProperties, ElementOfSeq

LEMMA LaterAppend ==
    ASSUME NEW r \in Seq(Int), NEW q \in Seq(Int), NEW k \in Nat,
           Ordered(q, k), Later(r, q, k)
    PROVE  /\ Later(Append(r, k + 1), q, k + 1)
           /\ r # <<>> => Append(r, k + 1)[1] = r[1]
           /\ Append(r, k + 1) # <<>>
<1>1. \A i \in DOMAIN r : r[i] \in Int /\ r[i] < k + 1
  BY SeqElements DEF Later
<1>2. Increasing(Append(r, k + 1))
  BY <1>1, IncreasingAppend DEF Later
<1>3. ASSUME NEW j \in DOMAIN Append(r, k + 1)
      PROVE  \/ j \in DOMAIN r /\ Append(r, k + 1)[j] = r[j]
             \/ Append(r, k + 1)[j] = k + 1
  OBVIOUS
<1>4. \A i \in DOMAIN q : q[i] \in Int /\ q[i] <= k
  BY SeqElements DEF Ordered
<1> QED
  BY <1>1, <1>2, <1>3, <1>4 DEF Later

LEMMA LaterSend ==
    ASSUME NEW r \in Seq(Int), NEW q \in Seq(Int), NEW k \in Nat,
           Ordered(q, k), Later(r, q, k), r # <<>>, q = <<>> => r[1] = Login
    PROVE  /\ Ordered(Append(q, Head(r)), k)
           /\ Later(Tail(r), Append(q, Head(r)), k)
           /\ Append(q, Head(r)) # <<>>
<1>1. Head(r) = r[1] /\ 1 \in DOMAIN r /\ Head(r) \in Int /\ Tail(r) \in Seq(Int)
  BY HeadTailProperties, SeqElements, EmptySeq
<1>2. \A i \in DOMAIN q : q[i] \in Int /\ q[i] <= k /\ q[i] < Head(r)
  BY <1>1, SeqElements DEF Ordered, Later
<1>3. Increasing(Append(q, Head(r)))
  BY <1>1, <1>2, IncreasingAppend DEF Ordered
<1>4. ASSUME NEW i \in DOMAIN Append(q, Head(r))
      PROVE  \/ i \in DOMAIN q /\ Append(q, Head(r))[i] = q[i]
             \/ Append(q, Head(r))[i] = Head(r)
  BY <1>1
<1>5. Append(q, Head(r))[1] = Login
  BY <1>1 DEF Ordered
<1>6. /\ Increasing(Tail(r))
      /\ \A j \in DOMAIN Tail(r) : Head(r) < Tail(r)[j]
  BY IncreasingTail DEF Later
<1>7. \A j \in DOMAIN Tail(r) :
          Tail(r)[j] \in Int /\ \E l \in DOMAIN r : Tail(r)[j] = r[l]
  BY <1>1, SeqElements, HeadTailProperties
<1>8. Head(r) <= k
  BY <1>1 DEF Later
<1>9. Append(q, Head(r)) # <<>>
  BY <1>1
<1>10. Ordered(Append(q, Head(r)), k)
  BY <1>2, <1>3, <1>4, <1>5, <1>8 DEF Ordered
<1> QED
  BY <1>1, <1>2, <1>4, <1>6, <1>7, <1>9, <1>10 DEF Later

LEMMA OrderedPrefix ==
    ASSUME NEW a \in Seq(Int), NEW b \in Seq(Int), NEW k, Ordered(a \o b, k)
    PROVE  /\ Ordered(a, k)
           /\ \A r : Later(r, a \o b, k) => Later(r, a, k)
<1>1. /\ DOMAIN a \subseteq DOMAIN (a \o b)
      /\ \A i \in DOMAIN a : (a \o b)[i] = a[i]
  BY ConcatProperties, SeqElements
<1>2. Increasing(a)
  BY IncreasingPrefix DEF Ordered
<1>3. a # <<>> => a[1] = Login
  <2>1. a # <<>> => 1 \in DOMAIN a /\ a \o b # <<>>
    BY EmptySeq, SeqElements, ConcatProperties
  <2> QED
    BY <1>1, <2>1 DEF Ordered
<1> QED
  BY <1>1, <1>2, <1>3 DEF Ordered, Later

LEMMA NothingLater ==
    ASSUME NEW q, NEW k
    PROVE  Later(<<>>, q, k)
BY DEF Later, Increasing

----------------------------------------------------------------------------
(***************************************************************************)
(* Every action keeps the types.                                           *)
(***************************************************************************)
LEMMA SeqTypes ==
    /\ <<>> \in Requests /\ <<>> \in Packets /\ <<Login>> \in Requests
    /\ \A q \in Requests, x \in 0 .. MaxRequests : Append(q, x) \in Requests
    /\ \A q \in Packets, x \in 1 .. MaxPackets : Append(q, x) \in Packets
    /\ \A q \in Requests : q # <<>> => Tail(q) \in Requests /\ Head(q) \in 0 .. MaxRequests
    /\ \A q \in Packets : q # <<>> => Tail(q) \in Packets /\ Head(q) \in 1 .. MaxPackets
    /\ \A a, b \in Requests : a \o b \in Requests
    /\ \A a, b \in Packets : a \o b \in Packets
BY HeadTailProperties, ConcatProperties DEF Requests, Packets, Login

LEMMA WsStep ==
    ASSUME Types, NEW s \in Sockets,
           \/ FirstMessage(s) \/ Request(s) \/ Close(s)
           \/ SendOnClose \/ Test \/ Closed \/ Dies
    PROVE  Types'
<1> USE SeqTypes DEF Types, WsOK, ThrOK, TcpOK, ServerOK, wsVars, thrVars, tcpVars, serverVars
<1>1. CASE FirstMessage(s)
  <2>1. WsOK'
    <3>1. /\ \/ ws' = [ws EXCEPT ![s] = "ready"] \/ ws' = [ws EXCEPT ![s] = "refused"]
          /\ civcoms' = civcoms \cup {s} \/ civcoms' = civcoms
          /\ UNCHANGED <<asked, got, closing, ioRest, tested>>
      BY <1>1, Zenon DEF FirstMessage
    <3> QED
      BY <3>1
  <2>2. ThrOK'
    BY <1>1 DEF FirstMessage, ValidUsername
  <2>3. TcpOK'
    BY <1>1 DEF FirstMessage, ValidUsername
  <2>4. ServerOK'
    BY <1>1 DEF FirstMessage, ValidUsername
  <2> QED
    BY <2>1, <2>2, <2>3, <2>4
<1>2. CASE Request(s)
  <2>1. asked' \in [Sockets -> 0 .. MaxRequests] /\ asked'[s] \in 0 .. MaxRequests
    <3>1. asked[s] < MaxRequests /\ asked' = [asked EXCEPT ![s] = asked[s] + 1]
      BY <1>2 DEF Request
    <3>2. /\ [asked EXCEPT ![s] = asked[s] + 1] \in [Sockets -> 0 .. MaxRequests]
          /\ [asked EXCEPT ![s] = asked[s] + 1][s] \in 1 .. MaxRequests
      BY <3>1, OneMore
    <3> QED
      BY <3>1, <3>2
  <2>2. queue' \in [Sockets -> Requests]
    BY <1>2, <2>1 DEF Request
  <2>3. rest' \in [Sockets -> Requests]
    BY <1>2, <2>1 DEF Request
  <2> QED
    BY <1>2, <2>1, <2>2, <2>3 DEF Request
<1>3. CASE Close(s)
  <2>1. WsOK'
    <3>1. ws' \in [Sockets -> {"new", "ready", "refused", "closed"}]
      BY <1>3 DEF Close
    <3>2. closing' \in Sockets \cup {Nothing} /\ ioRest' \in Requests
      BY <1>3 DEF Close
    <3>3. got' \in [Sockets -> Packets]
      BY <1>3 DEF Close
    <3> QED
      BY <1>3, <3>1, <3>2, <3>3 DEF Close
  <2>2. ThrOK'
    BY <1>3 DEF Close, Emptied
  <2>3. TcpOK'
    BY <1>3 DEF Close
  <2>4. ServerOK'
    BY <1>3 DEF Close
  <2> QED
    BY <2>1, <2>2, <2>3, <2>4
<1>4. CASE SendOnClose
  <2>1. up' \in [Sockets -> Requests] /\ ioRest' \in Requests
    BY <1>4 DEF SendOnClose, ToServer, Nothing
  <2> QED
    BY <1>4, <2>1 DEF SendOnClose
<1>5. CASE Closed
  <2>1. closing \in Sockets
    BY <1>5 DEF Closed
  <2>2. socket' \in [Sockets -> {"none", "unconnected", "open", "closed"}]
    BY <1>5, <2>1 DEF Closed, SocketClosed
  <2>3. upEnd' \in [Sockets -> BOOLEAN]
    BY <1>5, <2>1 DEF Closed
  <2> QED
    BY <1>5, <2>1, <2>2, <2>3 DEF Closed, EntryRemoved
<1>6. CASE Test
  <2>1. closing \in Sockets
    BY <1>6 DEF Test
  <2> QED
    BY <1>6, <2>1 DEF Test
<1>7. CASE Dies
  BY <1>7 DEF Dies
<1> QED
  BY <1>1, <1>2, <1>3, <1>4, <1>5, <1>6, <1>7

LEMMA ThreadStep ==
    ASSUME Types, NEW s \in Sockets, CivCom(s)
    PROVE  Types'
<1> USE SeqTypes DEF Types, WsOK, ThrOK, TcpOK, ServerOK, wsVars, thrVars, tcpVars, serverVars,
                     At, Goto, Reading
<1>0. Touch(s) => stale' \subseteq Sockets
  BY DEF Touch
<1>a. ASSUME Finish(s)
      PROVE  /\ thr' = [thr EXCEPT ![s] = "dead"]
             /\ socket' \in [Sockets -> {"none", "unconnected", "open", "closed"}]
             /\ upEnd' \in [Sockets -> BOOLEAN]
  BY <1>a DEF Finish
<1>1. CASE Connect(s)
  <2>1. WsOK'
    BY <1>1, AppendType DEF Connect
  <2>2. ThrOK'
    BY <1>0, <1>1, AppendType DEF Connect
  <2>3. TcpOK'
    BY <1>1, AppendType DEF Connect
  <2>4. ServerOK'
    BY <1>1, AppendType DEF Connect
  <2> QED
    BY <2>1, <2>2, <2>3, <2>4
<1>2. CASE ConnectFails(s)
  BY <1>0, <1>2 DEF ConnectFails
<1>3. CASE TakeLogin(s)
  <2>1. WsOK'
    BY <1>3 DEF TakeLogin
  <2>2. ThrOK'
    <3>1. CASE handler[s]
      <4>1. queue' = [queue EXCEPT ![s] = <<Login>>] /\ rest' = [rest EXCEPT ![s] = <<Login>>]
        BY <1>3, <3>1 DEF TakeLogin
      <4>2. queue' \in [Sockets -> Requests] /\ rest' \in [Sockets -> Requests]
        BY <4>1
      <4>3. /\ thr' = [thr EXCEPT ![s] = "send"]
            /\ UNCHANGED <<buffer, handler, stopped, socket, stale>>
        BY <1>3, <3>1 DEF TakeLogin
      <4> QED
        BY <4>2, <4>3
    <3>2. CASE ~ handler[s]
      BY <1>3, <1>a, <3>2 DEF TakeLogin
    <3> QED
      BY <3>1, <3>2
  <2>3. TcpOK'
    BY <1>3, <1>a DEF TakeLogin
  <2>4. ServerOK'
    BY <1>3 DEF TakeLogin
  <2> QED
    BY <2>1, <2>2, <2>3, <2>4
<1>4. CASE SendNext(s)
  BY <1>4 DEF SendNext, ToServer
<1>5. CASE SendEnds(s)
  BY <1>5 DEF SendEnds, Forgotten
<1>6. CASE Clear(s)
  BY <1>6, <1>a DEF Clear, Cleared
<1>7. CASE ReadPacket(s)
  BY <1>7 DEF ReadPacket
<1>8. CASE Timeout(s)
  BY <1>8 DEF Timeout, ToClient, Emptied, ToSend
<1>9. CASE HangUp(s)
  BY <1>9 DEF HangUp, ToClient, Emptied
<1>10. CASE Return(s)
  BY <1>10, <1>a DEF Return
<1>11. CASE Shut(s)
  <2>1. /\ thr' = [thr EXCEPT ![s] = "dead"] /\ stale' \subseteq Sockets
        /\ UNCHANGED <<wsVars, queue, rest, buffer, up, down, downEnd, serverVars>>
    BY <1>0, <1>11 DEF Shut
  <2>2. /\ handler' \in [Sockets -> BOOLEAN] /\ stopped' \in [Sockets -> BOOLEAN]
        /\ socket' \in [Sockets -> {"none", "unconnected", "open", "closed"}]
        /\ upEnd' \in [Sockets -> BOOLEAN]
    <3>1. CASE socket[s] = "closed"
      BY <1>11, <3>1 DEF Shut
    <3>2. CASE socket[s] # "closed"
      <4>1. /\ handler' = [handler EXCEPT ![s] = FALSE]
            /\ stopped' = [stopped EXCEPT ![s] = TRUE]
            /\ socket' = [socket EXCEPT ![s] = "closed"]
            /\ upEnd' = [upEnd EXCEPT ![s] = @ \/ socket[s] = "open"]
        BY <1>11, <3>2 DEF Shut
      <4>2. handler' \in [Sockets -> BOOLEAN] /\ stopped' \in [Sockets -> BOOLEAN]
        BY <4>1
      <4>3. socket' \in [Sockets -> {"none", "unconnected", "open", "closed"}]
        BY <4>1
      <4>4. upEnd' \in [Sockets -> BOOLEAN]
        BY <4>1
      <4> QED
        BY <4>2, <4>3, <4>4
    <3> QED
      BY <3>1, <3>2
  <2> QED
    BY <2>1, <2>2
<1> QED
  BY <1>1, <1>2, <1>3, <1>4, <1>5, <1>6, <1>7, <1>8, <1>9, <1>10, <1>11 DEF CivCom

LEMMA ServerStep ==
    ASSUME Types,
           \/ Select \/ EndRound
           \/ \E s \in Sockets : ReadConnection(s) \/ Inform(s) \/ CloseServer(s)
    PROVE  Types'
<1> USE SeqTypes DEF Types, WsOK, ThrOK, TcpOK, ServerOK, wsVars, thrVars, tcpVars, serverVars
<1>1. CASE Select
  <2>1. backlog # <<>> => Head(backlog) \in Sockets /\ Tail(backlog) \in Seq(Sockets)
    BY HeadTailProperties
  <2>2. conn' \in [Sockets -> {"none", "backlog", "open", "established",
                              "closing", "gone"}]
    BY <1>1, <2>1 DEF Select
  <2>3. backlog' \in Seq(Sockets) /\ readable' \subseteq Sockets /\ behind' \subseteq Sockets
    <3>1. CASE backlog = <<>>
      BY <1>1, <3>1 DEF Select
    <3>2. CASE backlog # <<>>
      <4>1. /\ backlog' = Tail(backlog) /\ \/ behind' = behind
                                           \/ behind' = behind \cup {Head(backlog)}
            /\ readable' \subseteq Sockets
        BY <1>1, <3>2 DEF Select
      <4> QED
        BY <2>1, <3>2, <4>1
    <3> QED
      BY <3>1, <3>2
  <2> QED
    BY <1>1, <2>2, <2>3 DEF Select
<1>2. CASE EndRound
  BY <1>2 DEF EndRound
<1>3. ASSUME NEW s \in Sockets, Send(s)
      PROVE  down' \in [Sockets -> Packets] /\ given' \in [Sockets -> 0 .. MaxPackets]
  <2>1. given' \in [Sockets -> 0 .. MaxPackets] /\ given'[s] \in 1 .. MaxPackets
    <3>1. given[s] < MaxPackets /\ given' = [given EXCEPT ![s] = given[s] + 1]
      BY <1>3 DEF Send
    <3>2. /\ [given EXCEPT ![s] = given[s] + 1] \in [Sockets -> 0 .. MaxPackets]
          /\ [given EXCEPT ![s] = given[s] + 1][s] \in 1 .. MaxPackets
      BY <3>1, OneMore
    <3> QED
      BY <3>1, <3>2
  <2> QED
    BY <1>3, <2>1 DEF Send, ToProxy
<1>4. ASSUME NEW s \in Sockets, ReadConnection(s)
      PROVE  Types'
  <2>0. conn' \in [Sockets -> {"none", "backlog", "open", "established",
                              "closing", "gone"}]
    BY <1>4 DEF ReadConnection
  <2>1. up' \in [Sockets -> Requests] /\ recv' \in [Sockets -> Requests]
    <3>1. recv[s] \o up[s] \in Requests /\ up[s] \in Requests
      OBVIOUS
    <3>2. \/ up' = up /\ recv' = recv
          \/ /\ up' = [up EXCEPT ![s] = <<>>]
             /\ \/ recv' = [recv EXCEPT ![s] = up[s]]
                \/ recv' = [recv EXCEPT ![s] = recv[s] \o up[s]]
      BY <1>4 DEF ReadConnection
    <3>3. \A q \in Requests : [recv EXCEPT ![s] = q] \in [Sockets -> Requests]
      OBVIOUS
    <3>4. [up EXCEPT ![s] = <<>>] \in [Sockets -> Requests]
      OBVIOUS
    <3> QED
      <4>1. CASE up' = up /\ recv' = recv
        BY <4>1
      <4>2. CASE up' = [up EXCEPT ![s] = <<>>] /\ recv' = [recv EXCEPT ![s] = up[s]]
        BY <3>1, <3>3, <3>4, <4>2, Zenon
      <4>3. CASE up' = [up EXCEPT ![s] = <<>>] /\ recv' = [recv EXCEPT ![s] = recv[s] \o up[s]]
        BY <3>1, <3>3, <3>4, <4>3, Zenon
      <4> QED
        BY <3>2, <4>1, <4>2, <4>3
  <2>2. down' \in [Sockets -> Packets] /\ given' \in [Sockets -> 0 .. MaxPackets]
    BY <1>3, <1>4 DEF ReadConnection
  <2> QED
    BY <1>4, <2>0, <2>1, <2>2 DEF ReadConnection
<1>5. ASSUME NEW s \in Sockets, Inform(s)
      PROVE  Types'
  BY <1>3, <1>5 DEF Inform
<1>6. ASSUME NEW s \in Sockets, CloseServer(s)
      PROVE  Types'
  BY <1>6 DEF CloseServer
<1> QED
  BY <1>1, <1>2, <1>4, <1>5, <1>6

LEMMA TypesStep == Types /\ [Next]_vars => Types'
<1> SUFFICES ASSUME Types, [Next]_vars PROVE Types'
  OBVIOUS
<1>1. CASE UNCHANGED vars
  BY <1>1 DEF vars, wsVars, thrVars, tcpVars, serverVars, Types, WsOK, ThrOK, TcpOK, ServerOK
<1>2. CASE SendOnClose \/ Test \/ Closed \/ Dies
  <2>1. closing \in Sockets
    BY <1>2 DEF SendOnClose, Test, Closed, Dies, Types, WsOK
  <2> QED
    BY <1>2, <2>1, WsStep
<1> QED
  BY <1>1, <1>2, WsStep, ThreadStep, ServerStep DEF Next, Server

LEMMA InitTypes == Init => Types
<1> SUFFICES ASSUME Init PROVE Types
  OBVIOUS
<1> USE SeqTypes
<1>1. WsOK
  BY DEF Init, WsOK, Nothing
<1>2. ThrOK
  BY DEF Init, ThrOK
<1>3. TcpOK
  BY DEF Init, TcpOK
<1>4. ServerOK
  <2>1. <<>> \in Seq(Sockets)
    BY EmptySeq
  <2> QED
    BY <2>1, 0 \in 0 .. MaxPackets, MaxPackets \in Nat, Zenon DEF Init, ServerOK
<1> QED
  BY <1>1, <1>2, <1>3, <1>4 DEF Types

LEMMA TypesAlways == Spec => []Types
BY InitTypes, TypesStep, PTL DEF Spec

----------------------------------------------------------------------------
\* What on_close has found of self.socket is as it was, or the thread has
\* changed it meanwhile.
Looked ==
    /\ closing = Nothing => tested = "no"
    /\ tested # "no" =>
           \/ closing \in stale
           \/ tested = "set" <=> socket[closing] \in {"unconnected", "open"}

LEMMA LookedStep == Types /\ Looked /\ [Next]_vars => Looked'
<1> SUFFICES ASSUME Types, Looked, [Next]_vars PROVE Looked'
  OBVIOUS
<1> USE DEF Types, WsOK, ThrOK, Looked, wsVars, thrVars, Nothing
<1>1. CASE UNCHANGED <<closing, tested, socket, stale>>
  BY <1>1
<1>2. ASSUME NEW s \in Sockets, Close(s) PROVE Looked'
  BY <1>2 DEF Close
<1>3. CASE Test
  BY <1>3 DEF Test
<1>4. CASE Closed \/ Dies
  BY <1>4 DEF Closed, Dies
\* The steps of the thread that change the socket
<1>5. ASSUME NEW s \in Sockets, Touch(s), UNCHANGED <<closing, tested>>,
             \A t \in Sockets : t # s => socket'[t] = socket[t]
      PROVE  Looked'
  BY <1>5 DEF Touch
<1>6. ASSUME NEW s \in Sockets, Finish(s), UNCHANGED <<closing, tested, stale>>
      PROVE  Looked'
  <2>1. closing \in Sockets => socket'[closing] = socket[closing]
    BY <1>6 DEF Finish
  <2> QED
    BY <1>6, <2>1
<1>7. ASSUME NEW s \in Sockets, Connect(s) \/ ConnectFails(s) PROVE Looked'
  BY <1>5, <1>7 DEF Connect, ConnectFails
<1>8. ASSUME NEW s \in Sockets, Shut(s) PROVE Looked'
  <2>1. CASE socket[s] = "closed"
    BY <1>1, <1>8, <2>1 DEF Shut
  <2>2. CASE socket[s] # "closed"
    BY <1>5, <1>8, <2>2 DEF Shut
  <2> QED
    BY <2>1, <2>2
<1>9. ASSUME NEW s \in Sockets, TakeLogin(s) \/ Clear(s) \/ Return(s) PROVE Looked'
  BY <1>1, <1>6, <1>9 DEF TakeLogin, Clear, Return
<1>10. ASSUME NEW s \in Sockets,
              SendNext(s) \/ SendEnds(s) \/ ReadPacket(s) \/ Timeout(s) \/ HangUp(s)
       PROVE  Looked'
  BY <1>1, <1>10 DEF SendNext, SendEnds, ReadPacket, Timeout, HangUp
<1>11. ASSUME NEW s \in Sockets,
              FirstMessage(s) \/ Request(s) \/ Inform(s) \/ CloseServer(s)
       PROVE  Looked'
  BY <1>1, <1>11 DEF FirstMessage, Request, Inform, CloseServer
<1>12. CASE SendOnClose \/ Server
  BY <1>1, <1>12 DEF SendOnClose, Server, Select, EndRound, ReadConnection
<1>13. CASE UNCHANGED vars
  BY <1>1, <1>13 DEF vars
<1> QED
  BY <1>2, <1>3, <1>4, <1>7, <1>8, <1>9, <1>10, <1>11, <1>12, <1>13 DEF Next, CivCom

LEMMA LookedAlways == Spec => []Looked
<1>1. Init => Looked
  BY DEF Init, Looked
<1> QED
  BY <1>1, LookedStep, TypesAlways, PTL DEF Spec

\* Whatever becomes of the thread, of the connection and of the server, the
\* table holds names of open WebSockets only, so a user whose WebSocket is
\* closed is not refused by validate_username for longer than on_close takes,
\* unless the thread has changed self.socket between the look of on_close at it
\* and its use.
THEOREM EntriesAlwaysOfOpenSockets == Spec => []EntriesOfOpenSockets
<1>1. Init => EntriesOfOpenSockets
  BY DEF Init, EntriesOfOpenSockets
<1>2. Types /\ Looked /\ EntriesOfOpenSockets /\ [Next]_vars => EntriesOfOpenSockets'
  <2> SUFFICES ASSUME Types, Looked, EntriesOfOpenSockets, [Next]_vars
               PROVE  EntriesOfOpenSockets'
    OBVIOUS
  <2> USE DEF Types, WsOK, EntriesOfOpenSockets, wsVars, thrVars
  <2>1. CASE UNCHANGED <<ws, civcoms, closing>> /\ stale \subseteq stale'
    BY <2>1
  <2>2. ASSUME NEW s \in Sockets, FirstMessage(s) PROVE EntriesOfOpenSockets'
    <3>1. closing' = closing /\ stale' = stale
      BY <2>2 DEF FirstMessage
    <3>2. \/ ws' = [ws EXCEPT ![s] = "ready"] /\ civcoms' = civcoms \cup {s}
          \/ ws' = [ws EXCEPT ![s] = "refused"] /\ civcoms' = civcoms /\ ws[s] = "new"
      BY <2>2, Zenon DEF FirstMessage, ValidUsername
    <3>3. CASE ws' = [ws EXCEPT ![s] = "ready"] /\ civcoms' = civcoms \cup {s}
      BY <3>1, <3>3
    <3>4. CASE ws' = [ws EXCEPT ![s] = "refused"] /\ civcoms' = civcoms /\ ws[s] = "new"
      <4>1. s \in civcoms => s \in stale
        BY <2>2, <3>4 DEF FirstMessage, Nothing
      <4> QED
        BY <3>1, <3>4, <4>1
    <3> QED
      BY <3>2, <3>3, <3>4
  <2>3. ASSUME NEW s \in Sockets, Close(s) PROVE EntriesOfOpenSockets'
    <3>1. s \in civcoms => ws[s] = "ready" \/ s \in stale
      BY <2>3 DEF Close, Nothing
    <3> QED
      BY <2>3, <3>1 DEF Close, Nothing
  <2>4. CASE Closed
    BY <2>4 DEF Closed, EntryRemoved
  <2>5. CASE SendOnClose \/ Test
    BY <2>1, <2>5 DEF SendOnClose, Test
  <2>6. CASE Dies
    <3>1. closing \in stale
      BY <2>6 DEF Dies, Looked
    <3> QED
      BY <2>6, <3>1 DEF Dies
  <2>7. ASSUME NEW s \in Sockets, CivCom(s) PROVE EntriesOfOpenSockets'
    BY <2>1, <2>7 DEF CivCom, Connect, ConnectFails, TakeLogin, SendNext, SendEnds,
                      Clear, ReadPacket, Timeout, HangUp, Shut, Return, Touch
  <2>8. ASSUME NEW s \in Sockets, Request(s) \/ Inform(s) \/ CloseServer(s)
        PROVE  EntriesOfOpenSockets'
    BY <2>1, <2>8 DEF Request, Inform, CloseServer
  <2>9. CASE Server
    BY <2>1, <2>9 DEF Server, Select, EndRound, ReadConnection
  <2>10. CASE UNCHANGED vars
    BY <2>1, <2>10 DEF vars
  <2> QED
    BY <2>2, <2>3, <2>4, <2>5, <2>6, <2>7, <2>8, <2>9, <2>10 DEF Next
<1> QED
  BY <1>1, <1>2, TypesAlways, LookedAlways, PTL DEF Spec

----------------------------------------------------------------------------
(***************************************************************************)
(* One WebSocket with its thread and its connection.                       *)
(***************************************************************************)

\* All that the invariants below say of a socket depends on.
Local(s) == <<ws[s], asked[s], got[s], thr[s], queue[s], rest[s], buffer[s],
              handler[s], stopped[s], socket[s], up[s], upEnd[s], down[s], downEnd[s],
              conn[s], recv[s], given[s]>>

\* What the three parties know of each other.
Wiring(s) ==
    /\ ws[s] \in {"new", "refused"} => thr[s] = "none"
    /\ closing = s => ws[s] = "closed" /\ (tested = "set" => socket[s] # "none")
    /\ thr[s] \in {"none", "connect"} => conn[s] = "none" /\ socket[s] = "none"
    /\ ws[s] # "closed" =>
          /\ thr[s] \in {"login", "send", "clear", "read"} => socket[s] = "open"
          /\ thr[s] \in {"connect", "login"} => handler[s]
          /\ stopped[s] => thr[s] = "dead"
          /\ thr[s] = "close" /\ socket[s] = "open" => conn[s] = "gone"
          /\ upEnd[s] => conn[s] = "gone"
          /\ conn[s] \in {"closing", "gone"} => recv[s] # <<>>
    /\ downEnd[s] => conn[s] = "gone"
    /\ s \in readable /\ InUse(s) => up[s] # <<>> \/ upEnd[s]
    /\ conn[s] \in {"none", "backlog", "open"} => recv[s] = <<>>
    /\ conn[s] = "established" => recv[s] # <<>>

\* Packets on their way to the client, as long as they will get there.
PacketInv(s) ==
    LET n == Len(got[s])
        m == n + Len(buffer[s])
    IN  /\ n <= given[s] /\ Span(got[s], 0, n)
        /\ ws[s] # "closed" /\ thr[s] \notin {"close", "dead"} =>
              Span(buffer[s], n, m) /\ Span(down[s], m, given[s])

Sent(s) == recv[s] \o up[s]

\* Where the next request to be sent comes from, and that it is the next.
RequestInv(s) == ws[s] # "closed" =>
    /\ Ordered(Sent(s), asked[s])
    /\ thr[s] \in {"none", "connect", "login"} => Sent(s) = <<>>
    /\ thr[s] = "send" =>
          /\ Later(rest[s], Sent(s), asked[s])
          /\ Sent(s) = <<>> => rest[s] # <<>> /\ rest[s][1] = Login
    /\ thr[s] \in {"clear", "read"} => Sent(s) # <<>>
    /\ thr[s] = "read" => Later(queue[s], Sent(s), asked[s])

SocketInv(s) == Wiring(s) /\ PacketInv(s) /\ RequestInv(s)

\* Every connection waits once.
BacklogInv ==
    \A i \in 1 .. Len(backlog) :
        /\ conn[backlog[i]] = "backlog"
        /\ \A j \in 1 .. Len(backlog) : backlog[i] = backlog[j] => i = j

IInv == Types /\ Looked /\ BacklogInv /\ \A s \in Sockets : SocketInv(s)

\* A socket that a step leaves alone stays as good as it was.
LEMMA Elsewhere ==
    ASSUME NEW s, SocketInv(s), Local(s)' = Local(s),
           s \in readable' => s \in readable,
           closing' = s => closing = s /\ tested' = tested
    PROVE  SocketInv(s)'
<1>1. Wiring(s)'
  BY DEF SocketInv, Wiring, Local, InUse
<1>2. PacketInv(s)'
  BY DEF SocketInv, PacketInv, Local, Span
<1>3. RequestInv(s)'
  BY DEF SocketInv, RequestInv, Sent, Local
<1> QED
  BY <1>1, <1>2, <1>3 DEF SocketInv

\* The types of what belongs to one socket.
LEMMA LocalTypes ==
    ASSUME Types, NEW s \in Sockets
    PROVE  /\ ws[s] \in {"new", "ready", "refused", "closed"}
           /\ asked[s] \in Nat /\ given[s] \in Nat
           /\ got[s] \in Seq(Int) /\ buffer[s] \in Seq(Int) /\ down[s] \in Seq(Int)
           /\ queue[s] \in Seq(Int) /\ rest[s] \in Seq(Int)
           /\ up[s] \in Seq(Int) /\ recv[s] \in Seq(Int)
           /\ thr[s] \in {"none", "connect", "login", "send", "clear", "read", "close",
                            "dead"}
           /\ socket[s] \in {"none", "unconnected", "open", "closed"}
           /\ conn[s] \in {"none", "backlog", "open", "established", "closing", "gone"}
<1>1. Requests \subseteq Seq(Int) /\ Packets \subseteq Seq(Int)
  BY SeqMonotonic DEF Requests, Packets
<1> USE <1>1
<1>2. /\ ws[s] \in {"new", "ready", "refused", "closed"}
      /\ asked[s] \in Nat /\ got[s] \in Seq(Int)
  BY DEF Types, WsOK
<1>3. /\ buffer[s] \in Seq(Int) /\ queue[s] \in Seq(Int) /\ rest[s] \in Seq(Int)
      /\ thr[s] \in {"none", "connect", "login", "send", "clear", "read", "close", "dead"}
      /\ socket[s] \in {"none", "unconnected", "open", "closed"}
  BY DEF Types, ThrOK
<1>4. down[s] \in Seq(Int) /\ up[s] \in Seq(Int)
  BY DEF Types, TcpOK
<1>5. /\ recv[s] \in Seq(Int) /\ given[s] \in Nat
      /\ conn[s] \in {"none", "backlog", "open", "established", "closing", "gone"}
  BY DEF Types, ServerOK
<1> QED
  BY <1>2, <1>3, <1>4, <1>5

----------------------------------------------------------------------------
(* The handlers of a WebSocket. *)
LEMMA FirstMessageInv ==
    ASSUME Types, NEW s \in Sockets, SocketInv(s), FirstMessage(s)
    PROVE  SocketInv(s)'
<1>1. /\ ws[s] = "new" /\ thr[s] = "none" /\ closing = Nothing /\ conn[s] = "none"
      /\ ws'[s] = "ready" \/ (ws'[s] = "refused" /\ thr'[s] = "none")
      /\ ws'[s] # "closed"
      /\ ws'[s] = "ready" => thr'[s] = "connect" /\ handler'[s]
      /\ UNCHANGED <<asked, got, closing, queue, rest, buffer, stopped, socket, tcpVars,
                     serverVars>>
  BY DEF FirstMessage, SocketInv, Wiring, Types, WsOK, ThrOK
<1> USE DEF tcpVars, serverVars
<1>2. Wiring(s)'
  BY <1>1 DEF SocketInv, Wiring, InUse, Nothing
<1>3. PacketInv(s)'
  BY <1>1 DEF SocketInv, PacketInv, Span
<1>4. RequestInv(s)'
  BY <1>1 DEF SocketInv, RequestInv, Sent
<1> QED
  BY <1>2, <1>3, <1>4 DEF SocketInv

LEMMA RequestStepInv ==
    ASSUME Types, NEW s \in Sockets, SocketInv(s), Request(s)
    PROVE  SocketInv(s)'
<1>1. /\ ws[s] = "ready" /\ asked'[s] = asked[s] + 1
      /\ queue'[s] = Append(queue[s], asked[s] + 1)
      /\ rest'[s] = IF thr[s] = "send" THEN Append(rest[s], asked[s] + 1) ELSE rest[s]
      /\ UNCHANGED <<ws, got, closing, tested, thr, buffer, handler, stopped, socket, tcpVars,
                     serverVars>>
  BY DEF Request, Types, WsOK, ThrOK
<1> USE DEF tcpVars, serverVars
<1>2. Wiring(s)'
  BY <1>1 DEF SocketInv, Wiring, InUse, Nothing
<1>3. PacketInv(s)'
  BY <1>1 DEF SocketInv, PacketInv, Span
<1>4. RequestInv(s)'
  <2>1. Sent(s)' = Sent(s) /\ Sent(s) \in Seq(Int) /\ asked[s] \in Nat
    BY <1>1, LocalTypes, ConcatProperties DEF Sent
  <2>2. rest[s] \in Seq(Int) /\ queue[s] \in Seq(Int)
    BY LocalTypes
  <2>3. Ordered(Sent(s), asked[s]) /\ Ordered(Sent(s), asked[s] + 1)
    <3>1. Ordered(Sent(s), asked[s])
      BY <1>1 DEF SocketInv, RequestInv
    <3>2. \A i \in DOMAIN Sent(s) : Sent(s)[i] \in Int
      BY <2>1, SeqElements
    <3> QED
      BY <2>1, <3>1, <3>2 DEF Ordered
  <2>4. CASE thr[s] = "send"
    <3>1. Later(rest[s], Sent(s), asked[s])
      BY <1>1, <2>4 DEF SocketInv, RequestInv
    <3> QED
      <4>1. /\ Later(rest'[s], Sent(s), asked[s] + 1)
            /\ rest[s] # <<>> => rest'[s][1] = rest[s][1]
            /\ rest'[s] # <<>>
        <5> DEFINE r == Append(rest[s], asked[s] + 1)
        <5>1. rest'[s] = r
          BY <1>1, <2>4
        <5>2. /\ Later(r, Sent(s), asked[s] + 1)
              /\ rest[s] # <<>> => r[1] = rest[s][1]
              /\ r # <<>>
          BY <2>1, <2>2, <2>3, <3>1, LaterAppend
        <5> HIDE DEF r
        <5> QED
          BY <5>1, <5>2
      <4>2. Sent(s) = <<>> => rest[s] # <<>> /\ rest[s][1] = Login
        BY <1>1, <2>4 DEF SocketInv, RequestInv
      <4> QED
        BY <1>1, <2>1, <2>3, <2>4, <4>1, <4>2 DEF RequestInv
  <2>5. CASE thr[s] = "read"
    <3>1. Later(queue[s], Sent(s), asked[s])
      BY <1>1, <2>5 DEF SocketInv, RequestInv
    <3>2. Later(Append(queue[s], asked[s] + 1), Sent(s), asked[s] + 1)
      BY <2>1, <2>2, <2>3, <3>1, LaterAppend
    <3>3. Sent(s) # <<>>
      BY <1>1, <2>5 DEF SocketInv, RequestInv
    <3> QED
      BY <1>1, <2>1, <2>3, <2>5, <3>2, <3>3 DEF RequestInv
  <2>6. CASE thr[s] \notin {"send", "read"}
    BY <1>1, <2>1, <2>3, <2>6 DEF SocketInv, RequestInv
  <2> QED
    BY <2>4, <2>5, <2>6
<1> QED
  BY <1>2, <1>3, <1>4 DEF SocketInv

LEMMA CloseInv ==
    ASSUME Types, Looked, NEW s \in Sockets, SocketInv(s), Close(s)
    PROVE  SocketInv(s)'
<1>1. /\ ws'[s] = "closed" /\ got'[s] = <<>> /\ buffer'[s] = <<>>
      /\ tested' = "no"
      /\ UNCHANGED <<asked, thr, queue, rest, handler, socket, tcpVars, serverVars>>
  BY DEF Close, Emptied, Looked, Types, WsOK, ThrOK
<1> USE DEF tcpVars, serverVars
<1>2. Wiring(s)'
  BY <1>1 DEF SocketInv, Wiring, InUse
<1>3. PacketInv(s)'
  <2>1. /\ Span(got'[s], 0, 0) /\ Len(got'[s]) = 0
        /\ given'[s] \in Nat
    BY <1>1, LocalTypes DEF Span
  <2> QED
    BY <1>1, <2>1 DEF PacketInv
<1>4. RequestInv(s)'
  BY <1>1 DEF RequestInv
<1> QED
  BY <1>2, <1>3, <1>4 DEF SocketInv

LEMMA SendOnCloseInv ==
    ASSUME Types, SocketInv(closing), closing \in Sockets, SendOnClose
    PROVE  SocketInv(closing)'
<1> DEFINE s == closing
<1>1. /\ ws[s] = "closed"
      /\ closing' = closing
      /\ conn[s] = "gone" => up' = up
      /\ conn[s] # "gone" => up' = [up EXCEPT ![s] = Append(@, Head(ioRest))]
      /\ UNCHANGED <<ws, asked, got, tested, thrVars, upEnd, down, downEnd, serverVars>>
  BY DEF SendOnClose, ToServer, SocketInv, Wiring
<1>2. up'[s] = <<>> => up[s] = <<>>
  <2>1. up \in [Sockets -> Requests] /\ up[s] \in Seq(0 .. MaxRequests)
    BY DEF Types, TcpOK, Requests
  <2>2. Head(ioRest) \in 0 .. MaxRequests
    BY SeqTypes DEF SendOnClose, Types, WsOK
  <2>3. Append(up[s], Head(ioRest)) # <<>>
    BY <2>1, <2>2
  <2> QED
    BY <1>1, <2>1, <2>3
<1> USE DEF thrVars, serverVars
<1>3. Wiring(s)'
  BY <1>1, <1>2 DEF SocketInv, Wiring, InUse
<1>4. PacketInv(s)'
  BY <1>1 DEF SocketInv, PacketInv, Span
<1>5. RequestInv(s)'
  BY <1>1 DEF RequestInv
<1> QED
  BY <1>1, <1>3, <1>4, <1>5 DEF SocketInv

LEMMA TestInv ==
    ASSUME Types, SocketInv(closing), closing \in Sockets, Test, NEW s, s = closing
    PROVE  SocketInv(s)'
<1>1. /\ ws[s] = "closed" /\ closing' = closing
      /\ tested' = "set" => socket[s] # "none"
      /\ UNCHANGED <<ws, asked, got, thr, rest, buffer, handler, stopped, socket, tcpVars,
                     serverVars>>
  BY DEF Test, SocketInv, Wiring
<1> USE DEF tcpVars, serverVars
<1>2. Wiring(s)'
  BY <1>1 DEF SocketInv, Wiring, InUse
<1>3. PacketInv(s)'
  BY <1>1 DEF SocketInv, PacketInv, Span
<1>4. RequestInv(s)'
  BY <1>1 DEF RequestInv
<1> QED
  BY <1>2, <1>3, <1>4 DEF SocketInv

LEMMA DiesInv ==
    ASSUME Types, SocketInv(closing), closing \in Sockets, Dies, NEW s, s = closing
    PROVE  SocketInv(s)'
<1>1. /\ closing' = Nothing
      /\ UNCHANGED <<ws, asked, got, thrVars, tcpVars, serverVars>>
  BY DEF Dies
<1> USE DEF thrVars, tcpVars, serverVars
<1>2. Wiring(s)'
  BY <1>1 DEF SocketInv, Wiring, InUse, Nothing
<1>3. PacketInv(s)'
  BY <1>1 DEF SocketInv, PacketInv, Span
<1>4. RequestInv(s)'
  BY <1>1 DEF SocketInv, RequestInv, Sent
<1> QED
  BY <1>2, <1>3, <1>4 DEF SocketInv

LEMMA ClosedInv ==
    ASSUME Types, SocketInv(closing), closing \in Sockets, Closed, NEW s, s = closing
    PROVE  SocketInv(s)'
<1>1. /\ ws[s] = "closed"
      /\ upEnd[s] => upEnd'[s]
      /\ thr[s] \in {"none", "connect"} => socket'[s] = socket[s]
      /\ UNCHANGED <<ws, asked, got, thr, rest, buffer, up, downEnd, serverVars>>
      /\ closing' = Nothing
  BY DEF Closed, SocketClosed, SocketInv, Wiring, Types, TcpOK, ThrOK
<1> USE DEF serverVars
<1>2. Wiring(s)'
  BY <1>1 DEF SocketInv, Wiring, InUse, Nothing
<1>3. PacketInv(s)'
  BY <1>1 DEF SocketInv, PacketInv, Span
<1>4. RequestInv(s)'
  BY <1>1 DEF RequestInv
<1> QED
  BY <1>2, <1>3, <1>4 DEF SocketInv

----------------------------------------------------------------------------
(* The thread. *)
LEMMA ConnectInv ==
    ASSUME Types, NEW s \in Sockets, SocketInv(s), Connect(s) \/ ConnectFails(s)
    PROVE  SocketInv(s)'
<1>1. /\ thr[s] = "connect" /\ conn[s] = "none"
      /\ \/ thr'[s] = "login" /\ socket'[s] = "open" /\ conn'[s] = "backlog" /\ handler' = handler
         \/ /\ thr'[s] = "close" /\ socket'[s] = "unconnected" /\ conn'[s] = "none"
            /\ handler' = handler
      /\ UNCHANGED <<wsVars, queue, rest, buffer, stopped, tcpVars, readable, recv, given>>
  BY DEF Connect, ConnectFails, At, Goto, SocketInv, Wiring, Types, ThrOK, ServerOK, serverVars
<1> USE DEF wsVars, tcpVars
<1>2. Wiring(s)'
  BY <1>1 DEF SocketInv, Wiring, InUse
<1>3. PacketInv(s)'
  BY <1>1 DEF SocketInv, PacketInv, Span
<1>4. RequestInv(s)'
  BY <1>1 DEF SocketInv, RequestInv, Sent
<1> QED
  BY <1>2, <1>3, <1>4 DEF SocketInv

\* The thread ends.
LEMMA Finished ==
    ASSUME Types, NEW s \in Sockets, Finish(s)
    PROVE  /\ thr'[s] = "dead"
           /\ upEnd[s] => upEnd'[s]
           /\ socket'[s] # socket[s] => socket'[s] = "closed" /\ upEnd'[s] /\ socket[s] = "open"
           /\ socket[s] = "open" => socket'[s] # "none"
           /\ closing = s => socket'[s] = socket[s]
BY DEF Finish, Goto, Types, ThrOK, TcpOK

LEMMA LoginInv ==
    ASSUME Types, NEW s \in Sockets, SocketInv(s), TakeLogin(s)
    PROVE  SocketInv(s)'
<1>1. /\ thr[s] = "login"
      /\ \/ thr'[s] = "send" /\ rest'[s] = <<Login>> /\ UNCHANGED <<socket, upEnd>>
         \/ /\ thr'[s] = "dead" /\ ws[s] = "closed" /\ (upEnd[s] => upEnd'[s])
            /\ closing = s => socket'[s] = socket[s]
      /\ ws[s] # "closed" => socket[s] = "open"
      /\ UNCHANGED <<wsVars, buffer, handler, stopped, up, down, downEnd, serverVars>>
  <2>1. CASE handler[s]
    BY <2>1 DEF TakeLogin, At, Goto, SocketInv, Wiring, Types, ThrOK
  <2>2. CASE ~ handler[s]
    BY <2>2, Finished DEF TakeLogin, At, SocketInv, Wiring
  <2> QED
    BY <2>1, <2>2
<1> USE DEF wsVars, serverVars
<1>2. Later(<<Login>>, <<>>, asked[s])
  BY LocalTypes DEF Later, Increasing, Login
<1>3. Wiring(s)'
  BY <1>1 DEF SocketInv, Wiring, InUse
<1>4. PacketInv(s)'
  BY <1>1 DEF SocketInv, PacketInv, Span
<1>5. RequestInv(s)'
  <2>1. Sent(s)' = Sent(s) /\ UNCHANGED <<ws, asked>>
    BY <1>1 DEF Sent
  <2>2. ws[s] # "closed" => Ordered(Sent(s), asked[s]) /\ Sent(s) = <<>>
    BY <1>1 DEF SocketInv, RequestInv
  <2>3. <<Login>> # <<>> /\ <<Login>>[1] = Login
    OBVIOUS
  <2> QED
    BY <1>1, <1>2, <2>1, <2>2, <2>3 DEF RequestInv
<1> QED
  BY <1>3, <1>4, <1>5 DEF SocketInv

LEMMA SendNextInv ==
    ASSUME Types, NEW s \in Sockets, SocketInv(s), SendNext(s)
    PROVE  SocketInv(s)'
<1>1. /\ thr[s] = "send" /\ rest[s] # <<>> /\ rest'[s] = Tail(rest[s])
      /\ up'[s] = IF conn[s] = "gone" THEN up[s] ELSE Append(up[s], Head(rest[s]))
      /\ UNCHANGED <<wsVars, thr, queue, buffer, handler, stopped, socket, upEnd,
                     down, downEnd, serverVars>>
  BY DEF SendNext, ToServer, At, Types, ThrOK, TcpOK
<1> USE DEF wsVars, serverVars
<1>2. /\ rest[s] \in Seq(Int) /\ up[s] \in Seq(Int) /\ recv[s] \in Seq(Int)
      /\ asked[s] \in Nat /\ Head(rest[s]) \in Int
  BY <1>1, LocalTypes, HeadTailProperties
<1>3. Wiring(s)'
  <2>1. Append(up[s], Head(rest[s])) # <<>>
    BY <1>2, AppendNotEmpty
  <2> QED
    BY <1>1, <2>1 DEF SocketInv, Wiring, InUse
<1>4. PacketInv(s)'
  BY <1>1 DEF SocketInv, PacketInv, Span
<1>5. ASSUME ws[s] # "closed"
      PROVE  RequestInv(s)'
  <2>1. /\ Ordered(Sent(s), asked[s]) /\ Later(rest[s], Sent(s), asked[s])
        /\ Sent(s) = <<>> => rest[s][1] = Login
    BY <1>1, <1>5 DEF SocketInv, RequestInv
  <2>2. Sent(s) \in Seq(Int)
    BY <1>2, ConcatProperties DEF Sent
  <2>3. /\ Ordered(Append(Sent(s), Head(rest[s])), asked[s])
        /\ Later(Tail(rest[s]), Append(Sent(s), Head(rest[s])), asked[s])
        /\ Append(Sent(s), Head(rest[s])) # <<>>
    BY <1>1, <1>2, <2>1, <2>2, LaterSend
  <2>4. CASE conn[s] # "gone"
    <3>1. Sent(s)' = recv[s] \o Append(up[s], Head(rest[s]))
      BY <1>1, <2>4 DEF Sent
    <3>2. recv[s] \o Append(up[s], Head(rest[s])) = Append(recv[s] \o up[s], Head(rest[s]))
      BY <1>2, ConcatAppend, Zenon
    <3>3. thr'[s] = "send" /\ asked'[s] = asked[s] /\ rest'[s] = Tail(rest[s])
      BY <1>1
    <3>4. Sent(s)' = Append(Sent(s), Head(rest[s]))
      BY <3>1, <3>2 DEF Sent
    <3> QED
      BY <2>3, <3>3, <3>4 DEF RequestInv
  <2>5. CASE conn[s] = "gone"
    <3>1. Sent(s)' = Sent(s) /\ Sent(s) # <<>>
      <4>1. recv[s] # <<>>
        BY <1>5, <2>5 DEF SocketInv, Wiring
      <4>2. up'[s] = up[s] /\ recv'[s] = recv[s]
        BY <1>1, <2>5
      <4> QED
        BY <1>2, <4>1, <4>2, ConcatEqualIffEmpty DEF Sent
    <3>2. Later(Tail(rest[s]), Sent(s), asked[s])
      <4>1. /\ Increasing(Tail(rest[s]))
            /\ \A j \in DOMAIN Tail(rest[s]) : \E l \in DOMAIN rest[s] : Tail(rest[s])[j] = rest[s][l]
        BY <1>1, <1>2, <2>1, IncreasingTail, SeqElements, HeadTailProperties DEF Later
      <4> QED
        BY <2>1, <4>1 DEF Later
    <3>3. thr'[s] = "send" /\ asked'[s] = asked[s] /\ rest'[s] = Tail(rest[s])
      BY <1>1
    <3> QED
      BY <2>1, <3>1, <3>2, <3>3 DEF RequestInv
  <2> QED
    BY <2>4, <2>5
<1>6. ASSUME ws[s] = "closed"
      PROVE  RequestInv(s)'
  BY <1>1, <1>6 DEF RequestInv
<1> QED
  BY <1>3, <1>4, <1>5, <1>6 DEF SocketInv

LEMMA SendEndsInv ==
    ASSUME Types, NEW s \in Sockets, SocketInv(s), SendEnds(s)
    PROVE  SocketInv(s)'
<1>1. /\ thr[s] = "send" /\ thr'[s] = "clear"
      /\ rest[s] = <<>> \/ socket[s] # "open"
      /\ UNCHANGED <<wsVars, queue, buffer, handler, stopped, socket, tcpVars, serverVars>>
  BY DEF SendEnds, At, Goto, Types, ThrOK
<1> USE DEF wsVars, serverVars, tcpVars
<1>2. Wiring(s)'
  BY <1>1 DEF SocketInv, Wiring, InUse
<1>3. PacketInv(s)'
  BY <1>1 DEF SocketInv, PacketInv, Span
<1>4. RequestInv(s)'
  BY <1>1 DEF SocketInv, RequestInv, Sent, Wiring
<1> QED
  BY <1>2, <1>3, <1>4 DEF SocketInv

LEMMA ClearInv ==
    ASSUME Types, NEW s \in Sockets, SocketInv(s), Clear(s)
    PROVE  SocketInv(s)'
<1>1. /\ thr[s] = "clear" /\ queue'[s] = <<>>
      /\ \/ thr'[s] = "read" /\ UNCHANGED <<socket, upEnd>>
         \/ /\ thr'[s] = "dead" /\ ws[s] = "closed" /\ (upEnd[s] => upEnd'[s])
            /\ closing = s => socket'[s] = socket[s]
      /\ UNCHANGED <<wsVars, rest, buffer, handler, stopped, up, down, downEnd, serverVars>>
  <2>1. CASE stopped[s]
    BY <2>1, Finished DEF Clear, Cleared, At, SocketInv, Wiring, Types, ThrOK
  <2>2. CASE ~ stopped[s]
    BY <2>2 DEF Clear, Cleared, At, Goto, Types, ThrOK
  <2> QED
    BY <2>1, <2>2
<1> USE DEF wsVars, serverVars
<1>2. Wiring(s)'
  BY <1>1 DEF SocketInv, Wiring, InUse
<1>3. PacketInv(s)'
  BY <1>1 DEF SocketInv, PacketInv, Span
<1>4. RequestInv(s)'
  BY <1>1, NothingLater DEF SocketInv, RequestInv, Sent
<1> QED
  BY <1>2, <1>3, <1>4 DEF SocketInv

LEMMA ReadPacketInv ==
    ASSUME Types, NEW s \in Sockets, SocketInv(s), ReadPacket(s)
    PROVE  SocketInv(s)'
<1>1. /\ thr[s] = "read" /\ down[s] # <<>>
      /\ buffer'[s] = Append(buffer[s], Head(down[s]))
      /\ down'[s] = Tail(down[s])
      /\ UNCHANGED <<wsVars, thr, queue, rest, handler, stopped, socket, up, upEnd, downEnd,
                     serverVars>>
  BY DEF ReadPacket, Reading, At, Types, ThrOK, TcpOK
<1> USE DEF wsVars, serverVars
<1>2. Wiring(s)'
  BY <1>1 DEF SocketInv, Wiring, InUse
<1>3. PacketInv(s)'
  <2> DEFINE n == Len(got[s])
             m == n + Len(buffer[s])
  <2>1. /\ buffer[s] \in Seq(Int) /\ down[s] \in Seq(Int) /\ given[s] \in Int
        /\ n \in Int /\ m \in Int
    BY LocalTypes
  <2>2. CASE ws[s] # "closed"
    <3>1. Span(buffer[s], n, m) /\ Span(down[s], m, given[s])
      BY <1>1, <2>2 DEF SocketInv, PacketInv
    <3> HIDE DEF n, m
    <3>2. Span(buffer'[s], n, m + 1) /\ Span(down'[s], m + 1, given[s])
      BY <1>1, <2>1, <3>1, SpanHead, SpanAppend
    <3>3. n' = n /\ Len(buffer'[s]) = Len(buffer[s]) + 1
      BY <1>1, <2>1 DEF n
    <3>4. n' + Len(buffer'[s]) = m + 1
      BY <2>1, <3>3 DEF m
    <3> QED
      BY <1>1, <3>2, <3>3, <3>4 DEF SocketInv, PacketInv, n
  <2>3. CASE ws[s] = "closed"
    BY <1>1, <2>3 DEF SocketInv, PacketInv
  <2> QED
    BY <2>2, <2>3
<1>4. RequestInv(s)'
  BY <1>1 DEF SocketInv, RequestInv, Sent
<1> QED
  BY <1>2, <1>3, <1>4 DEF SocketInv

\* What the WebSocket has got when the thread has sent it the buffer.
LEMMA ToClientInv ==
    ASSUME Types, NEW s \in Sockets, SocketInv(s), ToClient(s), thr[s] = "read",
           ws'[s] = ws[s], given'[s] = given[s], down'[s] = down[s]
    PROVE  PacketInv(s)'
<1>1. /\ buffer'[s] = <<>>
      /\ got'[s] = IF ws[s] = "closed" THEN got[s] ELSE got[s] \o buffer[s]
  BY DEF ToClient, Emptied, Types, ThrOK, WsOK
<1>2. /\ buffer[s] \in Seq(Int) /\ down[s] \in Seq(Int) /\ given[s] \in Int
      /\ got[s] \in Seq(Int)
  BY LocalTypes
<1>3. CASE ws[s] # "closed"
  <2> DEFINE n == Len(got[s])
             m == n + Len(buffer[s])
  <2>1. Span(got[s], 0, n) /\ Span(buffer[s], n, m) /\ Span(down[s], m, given[s])
    BY <1>3 DEF SocketInv, PacketInv
  <2>2. n \in Int /\ m \in Int /\ Len(got'[s]) = m /\ Len(buffer'[s]) = 0
    BY <1>1, <1>2, <1>3, ConcatProperties
  <2> HIDE DEF n, m
  <2>3. Len(down[s]) = given[s] - m /\ Len(down[s]) \in Nat
    BY <1>2, <2>1, LenProperties DEF Span
  <2>4. Span(got'[s], 0, m)
    BY <1>1, <1>2, <1>3, <2>1, <2>2, SpanConcat
  <2>5. Span(buffer'[s], m, m)
    BY <1>1, <2>2 DEF Span
  <2>6. Len(got'[s]) + Len(buffer'[s]) = m /\ m <= given[s]
    BY <1>2, <2>2, <2>3
  <2> QED
    BY <2>1, <2>2, <2>4, <2>5, <2>6 DEF PacketInv
<1>4. CASE ws[s] = "closed"
  BY <1>1, <1>4 DEF SocketInv, PacketInv
<1> QED
  BY <1>3, <1>4

LEMMA TimeoutInv ==
    ASSUME Types, NEW s \in Sockets, SocketInv(s), Timeout(s)
    PROVE  SocketInv(s)'
<1>1. /\ thr[s] = "read" /\ thr'[s] = "send" /\ rest'[s] = queue[s]
      /\ UNCHANGED <<ws, asked, closing, tested, queue, handler, stopped, socket, tcpVars,
                     serverVars>>
  BY DEF Timeout, ToSend, Reading, At, Goto, Types, ThrOK
<1> USE DEF serverVars, tcpVars
<1>2. Wiring(s)'
  BY <1>1 DEF SocketInv, Wiring, InUse
<1>3. PacketInv(s)'
  BY <1>1, ToClientInv DEF Timeout
<1>4. RequestInv(s)'
  BY <1>1 DEF SocketInv, RequestInv, Sent
<1> QED
  BY <1>2, <1>3, <1>4 DEF SocketInv

LEMMA HangUpInv ==
    ASSUME Types, NEW s \in Sockets, SocketInv(s), HangUp(s)
    PROVE  SocketInv(s)'
<1>1. /\ thr[s] = "read" /\ thr'[s] = "close" /\ downEnd[s]
      /\ UNCHANGED <<ws, asked, closing, tested, handler, stopped, socket, tcpVars, serverVars>>
  BY DEF HangUp, Reading, At, Goto, Types, ThrOK
<1> USE DEF tcpVars, serverVars
<1>2. Wiring(s)'
  BY <1>1 DEF SocketInv, Wiring, InUse
<1>3. PacketInv(s)'
  BY <1>1, ToClientInv DEF HangUp
<1>4. RequestInv(s)'
  BY <1>1 DEF SocketInv, RequestInv, Sent
<1> QED
  BY <1>2, <1>3, <1>4 DEF SocketInv

LEMMA ShutInv ==
    ASSUME Types, NEW s \in Sockets, SocketInv(s), Shut(s) \/ Return(s)
    PROVE  SocketInv(s)'
<1>1. /\ thr'[s] = "dead" /\ thr[s] \notin {"none", "dead"}
      /\ upEnd[s] => upEnd'[s]
      /\ upEnd'[s] /\ ws[s] # "closed" => conn[s] = "gone"
      /\ closing = s => socket'[s] = socket[s] \/ socket'[s] = "closed"
      /\ UNCHANGED <<wsVars, rest, up, down, downEnd, serverVars>>
  <2>1. CASE Shut(s)
    BY <2>1 DEF Shut, At, Goto, SocketInv, Wiring, Types, ThrOK, TcpOK
  <2>2. CASE Return(s)
    BY <2>2, Finished DEF Return, At, SocketInv, Wiring
  <2> QED
    BY <2>1, <2>2
<1> USE DEF serverVars, wsVars
<1>2. Wiring(s)'
  BY <1>1 DEF SocketInv, Wiring, InUse
<1>3. PacketInv(s)'
  BY <1>1 DEF SocketInv, PacketInv
<1>4. RequestInv(s)'
  BY <1>1 DEF SocketInv, RequestInv, Sent
<1> QED
  BY <1>2, <1>3, <1>4 DEF SocketInv

----------------------------------------------------------------------------
(* The server. *)

\* A packet more for the client, if its side still listens.
LEMMA SendInv ==
    ASSUME Types, NEW s \in Sockets, SocketInv(s), Send(s),
           UNCHANGED <<wsVars, thrVars>>
    PROVE  PacketInv(s)'
<1> USE DEF wsVars, thrVars
<1>1. /\ given'[s] = given[s] + 1
      /\ down'[s] = IF socket[s] = "closed" THEN down[s] ELSE Append(down[s], given[s] + 1)
  BY DEF Send, ToProxy, Types, ServerOK, TcpOK
<1>2. /\ down[s] \in Seq(Int) /\ given[s] \in Int /\ Len(got[s]) \in Int
      /\ Len(buffer[s]) \in Int
  BY LocalTypes
<1>3. ws[s] # "closed" /\ thr[s] \notin {"close", "dead"} => socket[s] # "closed"
  BY LocalTypes DEF SocketInv, Wiring
<1>4. ASSUME NEW m \in Int, Span(down[s], m, given[s]), ws[s] # "closed",
             thr[s] \notin {"close", "dead"}
      PROVE  Span(down'[s], m, given[s] + 1)
  <2>1. down'[s] = Append(down[s], given[s] + 1)
    BY <1>1, <1>3, <1>4
  <2> QED
    BY <1>2, <1>4, <2>1, SpanAppend
<1>5. UNCHANGED <<ws, got, thr, buffer>>
  OBVIOUS
<1>6. PacketInv(s) /\ Len(got[s]) + Len(buffer[s]) \in Int /\ Len(got[s]) <= given[s] + 1
  <2>1. PacketInv(s)
    BY DEF SocketInv
  <2>2. Len(got[s]) <= given[s]
    BY <2>1 DEF PacketInv
  <2> QED
    BY <1>2, <2>1, <2>2
<1> QED
  BY <1>1, <1>4, <1>5, <1>6 DEF PacketInv

LEMMA ReadInv ==
    ASSUME Types, NEW s \in Sockets, SocketInv(s), ReadConnection(s)
    PROVE  SocketInv(s)'
<1>1. /\ s \in readable /\ s \notin readable'
      /\ UNCHANGED <<wsVars, thrVars, upEnd, downEnd>>
  BY DEF ReadConnection
<1>2. /\ up[s] \in Seq(Int) /\ recv[s] \in Seq(Int)
      /\ recv[s] \o <<>> = recv[s] /\ <<>> \o up[s] = up[s] /\ up[s] \o <<>> = up[s]
      /\ recv[s] \o up[s] \in Seq(Int) /\ (recv[s] \o up[s]) \o <<>> = recv[s] \o up[s]
      /\ recv[s] # <<>> => recv[s] \o up[s] # <<>>
  <2>1. up[s] \in Seq(Int) /\ recv[s] \in Seq(Int)
    BY LocalTypes
  <2>2. recv[s] \o up[s] \in Seq(Int)
    BY <2>1, ConcatProperties
  <2>3. recv[s] # <<>> => recv[s] \o up[s] # <<>>
    BY <2>1, ConcatEqualIffEmpty
  <2>4. \A q \in Seq(Int) : q \o <<>> = q /\ <<>> \o q = q
    BY ConcatEmptySeq
  <2> QED
    BY <2>1, <2>2, <2>3, <2>4
\* What the server reads moves from one place to the other.
<1>3. /\ Sent(s)' = Sent(s)
      /\ conn[s] \in {"open", "established", "closing"}
      /\ \/ conn'[s] \in {"established", "closing"} /\ recv'[s] # <<>>
         \/ conn'[s] = "closing" /\ ws[s] = "closed"
         \/ conn'[s] = conn[s] /\ recv'[s] = recv[s] /\ conn[s] = "closing"
      /\ PacketInv(s)'
  <2>1. CASE conn[s] = "open" /\ up[s] # <<>> /\ Send(s)
             /\ conn' = [conn EXCEPT ![s] =
                          IF ~ Duplicate(s) /\ LoginOnce(Tail(up[s]))
                            THEN "established" ELSE "closing"]
             /\ recv' = [recv EXCEPT ![s] = up[s]] /\ up' = [up EXCEPT ![s] = <<>>]
    <3>1. recv[s] = <<>> /\ recv'[s] = up[s] /\ up'[s] = <<>>
      BY <2>1 DEF SocketInv, Wiring, Types, ServerOK, TcpOK
    <3>2. conn'[s] \in {"established", "closing"}
      BY <2>1 DEF Types, ServerOK
    <3>3. PacketInv(s)'
      BY <1>1, <2>1, SendInv
    <3>4. Sent(s)' = Sent(s)
      BY <1>2, <3>1 DEF Sent
    <3> QED
      BY <2>1, <3>1, <3>2, <3>3, <3>4
  <2>2. CASE conn[s] = "established" /\ UNCHANGED <<down, given>>
             /\ recv' = [recv EXCEPT ![s] = @ \o up[s]] /\ up' = [up EXCEPT ![s] = <<>>]
             /\ conn' = [conn EXCEPT ![s] = IF LoginOnce(up[s]) THEN @ ELSE "closing"]
    <3>1. recv[s] # <<>> /\ recv'[s] = recv[s] \o up[s] /\ up'[s] = <<>>
      BY <2>2 DEF SocketInv, Wiring, Types, ServerOK, TcpOK
    <3>2. conn'[s] \in {"established", "closing"}
      BY <2>2 DEF Types, ServerOK
    <3>3. PacketInv(s)'
      BY <1>1, <2>2 DEF SocketInv, PacketInv, Span, wsVars, thrVars
    <3>4. Sent(s)' = Sent(s)
      BY <1>2, <3>1 DEF Sent
    <3> QED
      BY <1>2, <2>2, <3>1, <3>2, <3>3, <3>4
  <2>3. CASE InUse(s) /\ up[s] = <<>> /\ conn' = [conn EXCEPT ![s] = "closing"]
             /\ UNCHANGED <<up, down, recv, given>>
    <3>1. conn'[s] = "closing"
      BY <2>3 DEF Types, ServerOK
    <3>2. ws[s] = "closed"
      BY <1>1, <2>3 DEF SocketInv, Wiring, InUse
    <3>3. PacketInv(s)'
      BY <1>1, <2>3 DEF SocketInv, PacketInv, Span, wsVars, thrVars
    <3>4. Sent(s)' = Sent(s)
      BY <2>3 DEF Sent
    <3> QED
      BY <2>3, <3>1, <3>2, <3>3, <3>4 DEF InUse
  <2>4. CASE conn[s] = "closing" /\ UNCHANGED <<up, down, conn, recv, given>>
    <3>1. PacketInv(s)'
      BY <1>1, <2>4 DEF SocketInv, PacketInv, Span, wsVars, thrVars
    <3> QED
      BY <2>4, <3>1 DEF Sent
  <2> QED
    BY <2>1, <2>2, <2>3, <2>4, Zenon DEF ReadConnection
<1>4. Wiring(s)'
  BY <1>1, <1>3 DEF SocketInv, Wiring, InUse, wsVars, thrVars
<1>5. RequestInv(s)'
  BY <1>1, <1>3 DEF SocketInv, RequestInv, wsVars, thrVars
<1> QED
  BY <1>3, <1>4, <1>5 DEF SocketInv

LEMMA EndRoundInv ==
    ASSUME Types, NEW s \in Sockets, SocketInv(s), EndRound
    PROVE  SocketInv(s)'
<1>1. /\ conn'[s] = IF conn[s] = "closing" THEN "gone" ELSE conn[s]
      /\ downEnd'[s] <=> downEnd[s] \/ conn[s] = "closing"
      /\ up'[s] = IF conn[s] = "closing" THEN <<>> ELSE up[s]
      /\ readable = {} /\ readable' = {}
      /\ UNCHANGED <<wsVars, thrVars, upEnd, down, recv, given>>
  BY DEF EndRound
<1> USE DEF wsVars, thrVars
<1>2. Wiring(s)'
  BY <1>1 DEF SocketInv, Wiring, InUse
<1>3. PacketInv(s)'
  BY <1>1 DEF SocketInv, PacketInv, Span
<1>4. RequestInv(s)'
  <2>1. CASE conn[s] # "closing"
    BY <1>1, <2>1 DEF SocketInv, RequestInv, Sent
  <2>2. CASE conn[s] = "closing" /\ ws[s] # "closed"
    <3>1. up[s] \in Seq(Int) /\ recv[s] \in Seq(Int) /\ recv[s] # <<>>
      BY <2>2, LocalTypes DEF SocketInv, Wiring
    <3>2. Sent(s)' = recv[s]
      BY <1>1, <2>2, <3>1, ConcatEmptySeq DEF Sent
    <3>3. /\ Ordered(Sent(s), asked[s]) => Ordered(recv[s], asked[s])
          /\ \A r : Later(r, Sent(s), asked[s]) => Later(r, recv[s], asked[s])
          /\ Sent(s) # <<>>
      <4>1. Ordered(Sent(s), asked[s])
        BY <2>2 DEF SocketInv, RequestInv
      <4>2. Sent(s) # <<>>
        BY <3>1, ConcatEqualIffEmpty DEF Sent
      <4> QED
        BY <3>1, <4>1, <4>2, OrderedPrefix DEF Sent
    <3> QED
      BY <1>1, <2>2, <3>1, <3>2, <3>3 DEF SocketInv, RequestInv
  <2>3. CASE ws[s] = "closed"
    BY <1>1, <2>3 DEF RequestInv
  <2> QED
    BY <2>1, <2>2, <2>3
<1> QED
  BY <1>2, <1>3, <1>4 DEF SocketInv

LEMMA InformInv ==
    ASSUME Types, NEW s \in Sockets, SocketInv(s), Inform(s) \/ CloseServer(s)
    PROVE  SocketInv(s)'
<1>1. /\ conn[s] = "established" /\ conn'[s] \in {"established", "closing"}
      /\ UNCHANGED <<wsVars, thrVars, up, upEnd, downEnd, readable, recv>>
  BY DEF Inform, CloseServer, Types, ServerOK, tcpVars
<1>2. PacketInv(s)'
  <2>1. CASE Inform(s)
    BY <1>1, <2>1, SendInv DEF Inform
  <2>2. CASE CloseServer(s)
    BY <1>1, <2>2 DEF CloseServer, SocketInv, PacketInv, Span, wsVars, thrVars, tcpVars
  <2> QED
    BY <2>1, <2>2
<1> USE DEF wsVars, thrVars
<1>3. Wiring(s)'
  BY <1>1 DEF SocketInv, Wiring, InUse
<1>4. RequestInv(s)'
  BY <1>1 DEF SocketInv, RequestInv, Sent
<1> QED
  BY <1>2, <1>3, <1>4 DEF SocketInv

LEMMA SelectInv ==
    ASSUME Types, BacklogInv, NEW s \in Sockets, SocketInv(s), Select
    PROVE  SocketInv(s)'
<1>1. backlog # <<>> => Head(backlog) \in Sockets /\ conn[Head(backlog)] = "backlog"
  BY EmptySeq, HeadTailProperties DEF BacklogInv, Types, ServerOK
<1>2. /\ conn'[s] = conn[s] \/ (conn[s] = "backlog" /\ conn'[s] = "open")
      /\ s \in readable' => InUse(s) /\ (up[s] # <<>> \/ upEnd[s])
      /\ UNCHANGED <<wsVars, thrVars, tcpVars, recv, given>>
  BY <1>1 DEF Select, Types, ServerOK
<1> USE DEF wsVars, thrVars, tcpVars
<1>3. Wiring(s)'
  BY <1>2 DEF SocketInv, Wiring, InUse
<1>4. PacketInv(s)'
  BY <1>2 DEF SocketInv, PacketInv, Span
<1>5. RequestInv(s)'
  BY <1>2 DEF SocketInv, RequestInv, Sent
<1> QED
  BY <1>3, <1>4, <1>5 DEF SocketInv

----------------------------------------------------------------------------
(***************************************************************************)
(* All sockets together.                                                   *)
(***************************************************************************)
Untouched(t) ==
    /\ Local(t)' = Local(t)
    /\ t \in readable' => t \in readable
    /\ closing' = t => closing = t /\ tested' = tested

LEMMA WsElsewhere ==
    ASSUME Types, NEW s \in Sockets, NEW t \in Sockets, t # s,
           \/ FirstMessage(s) \/ Request(s) \/ Close(s)
           \/ closing = s /\ (SendOnClose \/ Test \/ Closed \/ Dies)
    PROVE  Untouched(t)
<1> USE DEF Types, WsOK, ThrOK, TcpOK, wsVars, thrVars, tcpVars, serverVars, Untouched, Local, Nothing
<1>1. CASE FirstMessage(s)
  BY <1>1 DEF FirstMessage
<1>2. CASE Request(s)
  BY <1>2 DEF Request
<1>3. CASE Close(s)
  <2>1. closing' # t
    BY <1>3 DEF Close
  <2> QED
    BY <1>3, <2>1 DEF Close
<1>4. CASE closing = s /\ SendOnClose
  BY <1>4 DEF SendOnClose, ToServer
<1>5. CASE closing = s /\ Closed
  BY <1>5 DEF Closed
<1>6. CASE closing = s /\ (Test \/ Dies)
  BY <1>6 DEF Test, Dies
<1> QED
  BY <1>1, <1>2, <1>3, <1>4, <1>5, <1>6

LEMMA ThreadElsewhere ==
    ASSUME Types, NEW s \in Sockets, NEW t \in Sockets, t # s, CivCom(s)
    PROVE  Untouched(t)
<1> USE DEF Types, WsOK, ThrOK, TcpOK, ServerOK, wsVars, thrVars, tcpVars, serverVars,
            Untouched, Local, At, Goto
<1>0. ASSUME Finish(s)
      PROVE  UNCHANGED <<thr[t], socket[t], upEnd[t]>>
  BY <1>0 DEF Finish
<1>1. CASE Connect(s)
  BY <1>1 DEF Connect
<1>2. CASE ConnectFails(s)
  BY <1>2 DEF ConnectFails
<1>3. CASE TakeLogin(s)
  BY <1>0, <1>3 DEF TakeLogin
<1>4. CASE SendNext(s)
  BY <1>4 DEF SendNext, ToServer
<1>5. CASE SendEnds(s)
  BY <1>5 DEF SendEnds
<1>6. CASE Clear(s)
  BY <1>0, <1>6 DEF Clear
<1>7. CASE ReadPacket(s)
  BY <1>7 DEF ReadPacket
<1>8. CASE Timeout(s)
  BY <1>8 DEF Timeout, ToClient
<1>9. CASE HangUp(s)
  BY <1>9 DEF HangUp, ToClient
<1>10. CASE Return(s)
  BY <1>0, <1>10 DEF Return
<1>11. CASE Shut(s)
  BY <1>11 DEF Shut
<1> QED
  BY <1>1, <1>2, <1>3, <1>4, <1>5, <1>6, <1>7, <1>8, <1>9, <1>10, <1>11 DEF CivCom

LEMMA ServerElsewhere ==
    ASSUME Types, NEW s \in Sockets, NEW t \in Sockets, t # s,
           ReadConnection(s) \/ Inform(s) \/ CloseServer(s)
    PROVE  Untouched(t)
<1> USE DEF Types, TcpOK, ServerOK, wsVars, thrVars, tcpVars, Untouched, Local
<1>1. ASSUME Send(s)
      PROVE  down'[t] = down[t] /\ given'[t] = given[t]
  BY <1>1 DEF Send, ToProxy
<1>2. CASE ReadConnection(s)
  <2>1. /\ conn'[t] = conn[t] /\ up'[t] = up[t] /\ recv'[t] = recv[t]
        /\ down'[t] = down[t] /\ given'[t] = given[t]
    BY <1>1, <1>2 DEF ReadConnection
  <2> QED
    BY <1>2, <2>1 DEF ReadConnection
<1>3. CASE Inform(s)
  BY <1>1, <1>3 DEF Inform
<1>4. CASE CloseServer(s)
  BY <1>4 DEF CloseServer
<1> QED
  BY <1>2, <1>3, <1>4

LEMMA SocketsStep ==
    ASSUME IInv, [Next]_vars, NEW t \in Sockets
    PROVE  SocketInv(t)'
<1>1. Types /\ Looked /\ SocketInv(t) /\ BacklogInv
  BY DEF IInv
<1>2. ASSUME NEW s \in Sockets, FirstMessage(s) \/ Request(s) \/ Close(s)
      PROVE  SocketInv(t)'
  <2>1. CASE t = s
    BY <1>1, <1>2, <2>1, FirstMessageInv, RequestStepInv, CloseInv
  <2>2. CASE t # s
    BY <1>1, <1>2, <2>2, WsElsewhere, Elsewhere DEF Untouched
  <2> QED
    BY <2>1, <2>2
<1>3. CASE SendOnClose \/ Test \/ Closed \/ Dies
  <2>1. closing \in Sockets
    BY <1>1, <1>3 DEF SendOnClose, Test, Closed, Dies, Types, WsOK
  <2>2. PICK s \in Sockets : s = closing
    BY <2>1
  <2>3. CASE t = s
    <3>1. CASE SendOnClose
      <4>1. closing' = closing
        BY <3>1 DEF SendOnClose
      <4>2. SocketInv(closing)'
        BY <1>1, <2>1, <2>2, <2>3, <3>1, SendOnCloseInv
      <4>3. Wiring(t)' /\ PacketInv(t)' /\ RequestInv(t)'
        <5>1. closing' = t
          BY <2>2, <2>3, <4>1
        <5> QED
          BY <4>2, <5>1, Zenon DEF SocketInv, Wiring, PacketInv, RequestInv, Sent, InUse
      <4> QED
        BY <4>3 DEF SocketInv
    <3>2. CASE Closed
      BY <1>1, <2>1, <2>2, <2>3, <3>2, ClosedInv
    <3>3. CASE Test \/ Dies
      BY <1>1, <2>1, <2>2, <2>3, <3>3, TestInv, DiesInv
    <3> QED
      BY <1>3, <3>1, <3>2, <3>3
  <2>4. CASE t # s
    BY <1>1, <1>3, <2>2, <2>4, WsElsewhere, Elsewhere DEF Untouched
  <2> QED
    BY <2>3, <2>4
<1>4. ASSUME NEW s \in Sockets, CivCom(s)
      PROVE  SocketInv(t)'
  <2>1. CASE t = s
    BY <1>1, <1>4, <2>1, ConnectInv, LoginInv, SendNextInv, SendEndsInv, ClearInv,
       ReadPacketInv, TimeoutInv, HangUpInv, ShutInv DEF CivCom
  <2>2. CASE t # s
    BY <1>1, <1>4, <2>2, ThreadElsewhere, Elsewhere DEF Untouched
  <2> QED
    BY <2>1, <2>2
<1>5. ASSUME NEW s \in Sockets, ReadConnection(s) \/ Inform(s) \/ CloseServer(s)
      PROVE  SocketInv(t)'
  <2>1. CASE t = s
    BY <1>1, <1>5, <2>1, ReadInv, InformInv
  <2>2. CASE t # s
    BY <1>1, <1>5, <2>2, ServerElsewhere, Elsewhere DEF Untouched
  <2> QED
    BY <2>1, <2>2
<1>6. CASE Select \/ EndRound
  BY <1>1, <1>6, SelectInv, EndRoundInv
<1>7. CASE UNCHANGED vars
  BY <1>1, <1>7, Elsewhere DEF vars, wsVars, thrVars, tcpVars, serverVars, Local
<1> QED
  BY <1>2, <1>3, <1>4, <1>5, <1>6, <1>7 DEF Next, Server

\* The backlog is left alone, and so is every connection that waits in it.
LEMMA BacklogLeft ==
    ASSUME Types, BacklogInv, backlog' = backlog,
           \A s \in Sockets : conn[s] = "backlog" => conn'[s] = "backlog"
    PROVE  BacklogInv'
<1>1. \A i \in 1 .. Len(backlog) : backlog[i] \in Sockets
  BY ElementOfSeq DEF Types, ServerOK
<1> QED
  BY <1>1 DEF BacklogInv

LEMMA BacklogStep == IInv /\ [Next]_vars => BacklogInv'
<1> SUFFICES ASSUME IInv, [Next]_vars PROVE BacklogInv'
  OBVIOUS
<1>1. Types /\ BacklogInv
  BY DEF IInv
<1>2. CASE UNCHANGED <<conn, backlog>>
  BY <1>1, <1>2, BacklogLeft
<1>3. ASSUME NEW s \in Sockets, Connect(s)
      PROVE  BacklogInv'
  <2>1. conn[s] = "none"
    BY <1>3 DEF IInv, SocketInv, Wiring, Connect, At
  <2>2. backlog' = Append(backlog, s) /\ conn' = [conn EXCEPT ![s] = "backlog"]
    BY <1>3 DEF Connect
  <2>3. backlog \in Seq(Sockets) /\ conn'[s] = "backlog"
        /\ \A t \in Sockets : t # s => conn'[t] = conn[t]
    BY <1>1, <2>2 DEF Types, ServerOK
  <2>4. ASSUME NEW i \in 1 .. Len(backlog)
        PROVE  backlog[i] \in Sockets /\ backlog[i] # s /\ conn'[backlog[i]] = "backlog"
    BY <1>1, <2>1, <2>3, ElementOfSeq DEF BacklogInv
  <2>5. /\ Len(backlog') = Len(backlog) + 1 /\ Len(backlog) \in Nat
        /\ backlog'[Len(backlog) + 1] = s
        /\ \A i \in 1 .. Len(backlog) : backlog'[i] = backlog[i]
    BY <2>2, <2>3
  <2> QED
    BY <1>1, <2>3, <2>4, <2>5 DEF BacklogInv
<1>4. CASE Select
  <2>1. CASE backlog = <<>>
    BY <1>2, <1>4, <2>1 DEF Select
  <2>2. CASE backlog # <<>>
    <3>1. backlog' = Tail(backlog) /\ conn' = [conn EXCEPT ![Head(backlog)] = "open"]
      BY <1>4, <2>2 DEF Select
    <3>2. /\ Len(backlog) \in Nat \ {0} /\ Len(backlog') = Len(backlog) - 1
          /\ \A i \in 1 .. Len(backlog') : backlog'[i] = backlog[i + 1]
          /\ Head(backlog) = backlog[1]
      BY <1>1, <2>2, <3>1, HeadTailProperties, EmptySeq DEF Types, ServerOK
    <3>3. \A i \in 1 .. Len(backlog) : backlog[i] \in Sockets
      BY <1>1, ElementOfSeq DEF Types, ServerOK
    <3>4. \A t \in Sockets : t # backlog[1] => conn'[t] = conn[t]
      BY <1>1, <3>1, <3>2 DEF Types, ServerOK
    <3>5. ASSUME NEW i \in 1 .. Len(backlog')
          PROVE  conn'[backlog'[i]] = "backlog"
      <4>1. i + 1 \in 1 .. Len(backlog) /\ 1 \in 1 .. Len(backlog) /\ i + 1 # 1
        BY <3>2
      <4>2. backlog[i + 1] # backlog[1] /\ conn[backlog[i + 1]] = "backlog"
        BY <1>1, <4>1 DEF BacklogInv
      <4> QED
        BY <3>2, <3>3, <3>4, <4>1, <4>2
    <3>6. ASSUME NEW i \in 1 .. Len(backlog'), NEW j \in 1 .. Len(backlog'),
                 backlog'[i] = backlog'[j]
          PROVE  i = j
      <4>1. i + 1 \in 1 .. Len(backlog) /\ j + 1 \in 1 .. Len(backlog)
        BY <3>2
      <4>2. backlog[i + 1] = backlog[j + 1]
        BY <3>2, <3>6
      <4>3. i + 1 = j + 1
        BY <1>1, <4>1, <4>2 DEF BacklogInv
      <4> QED
        BY <3>2, <4>3
    <3> QED
      BY <3>5, <3>6 DEF BacklogInv
  <2> QED
    BY <2>1, <2>2
<1>5. CASE EndRound
  BY <1>1, <1>5, BacklogLeft DEF EndRound, Types, ServerOK
<1>6. ASSUME NEW s \in Sockets, ReadConnection(s) \/ CloseServer(s)
      PROVE  BacklogInv'
  <2>1. conn[s] # "backlog" /\ backlog' = backlog
    BY <1>6 DEF ReadConnection, CloseServer, InUse
  <2>2. \A t \in Sockets : t # s => conn'[t] = conn[t]
    BY <1>1, <1>6, ServerElsewhere DEF Untouched, Local
  <2> QED
    BY <1>1, <2>1, <2>2, BacklogLeft
<1>7. ASSUME NEW s \in Sockets, FirstMessage(s) \/ Request(s) \/ Close(s) \/ Inform(s)
      PROVE  BacklogInv'
  BY <1>2, <1>7 DEF FirstMessage, Request, Close, Inform, serverVars
<1>8. CASE SendOnClose \/ Test \/ Closed \/ Dies
  BY <1>2, <1>8 DEF SendOnClose, Test, Closed, Dies, serverVars
<1>9. ASSUME NEW s \in Sockets, CivCom(s), ~ Connect(s)
      PROVE  BacklogInv'
  BY <1>2, <1>9 DEF CivCom, ConnectFails, TakeLogin, SendNext, SendEnds, Clear,
                    ReadPacket, Timeout, HangUp, Shut, Return, serverVars
<1>10. CASE UNCHANGED vars
  BY <1>2, <1>10 DEF vars, serverVars
<1> QED
  BY <1>3, <1>4, <1>5, <1>6, <1>7, <1>8, <1>9, <1>10 DEF Next, Server

LEMMA InitIInv == Init => IInv
<1> SUFFICES ASSUME Init PROVE IInv
  OBVIOUS
<1>1. BacklogInv
  BY DEF Init, BacklogInv
<1>2. ASSUME NEW s \in Sockets
      PROVE  SocketInv(s)
  <2>1. /\ got[s] = <<>> /\ buffer[s] = <<>> /\ down[s] = <<>> /\ given[s] = 0
        /\ recv[s] = <<>> /\ up[s] = <<>> /\ asked[s] = 0 /\ ws[s] = "new"
        /\ thr[s] = "none" /\ conn[s] = "none" /\ socket[s] = "none" /\ ~ downEnd[s]
        /\ ~ upEnd[s] /\ ~ stopped[s] /\ readable = {} /\ closing = 0
    BY DEF Init, Nothing
  <2>2. Wiring(s)
    BY <2>1 DEF Wiring, InUse
  <2>3. PacketInv(s)
    <3>1. Len(<<>>) = 0
      OBVIOUS
    <3>2. Span(<<>>, 0, 0)
      BY DEF Span
    <3> QED
      BY <2>1, <3>1, <3>2 DEF PacketInv
  <2>4. Sent(s) = <<>>
    BY <2>1 DEF Sent
  <2>5. RequestInv(s)
    BY <2>1, <2>4 DEF RequestInv, Ordered, Increasing
  <2> QED
    BY <2>2, <2>3, <2>5 DEF SocketInv
<1>3. Looked
  BY DEF Init, Looked
<1> QED
  BY <1>1, <1>2, <1>3, InitTypes DEF IInv

\* The conjunction that carries the theorems below.
THEOREM Invariant == Spec => []IInv
<1>1. IInv /\ [Next]_vars => IInv'
  BY TypesStep, LookedStep, SocketsStep, BacklogStep DEF IInv
<1> QED
  BY <1>1, InitIInv, PTL DEF Spec

\* The client has every packet up to some point, once and in order, through
\* the server's connection, the buffer of the thread and the WebSocket,
\* whichever of them is closed when.
THEOREM PacketsAlwaysInOrder == Spec => []PacketsInOrder
<1>1. IInv => PacketsInOrder
  <2> SUFFICES ASSUME IInv, NEW s \in Sockets
               PROVE  \E n \in 0 .. given[s] : got[s] = [i \in 1 .. n |-> i]
    BY DEF PacketsInOrder
  <2> DEFINE n == Len(got[s])
  <2>1. /\ n <= given[s] /\ n \in Nat /\ given[s] \in Nat
        /\ \A i \in 1 .. n : got[s][i] = i
        /\ got[s] \in Seq(Int)
    <3>1. PacketInv(s) /\ got[s] \in Seq(Int) /\ given[s] \in Nat
      BY LocalTypes DEF IInv, SocketInv
    <3>2. n <= given[s] /\ Span(got[s], 0, n)
      BY <3>1 DEF PacketInv
    <3> QED
      BY <3>1, <3>2 DEF Span
  <2>2. got[s] = [i \in 1 .. n |-> i]
    <3>1. got[s] = [i \in 1 .. n |-> got[s][i]]
      BY <2>1, LenProperties
    <3> HIDE DEF n
    <3> QED
      BY <2>1, <3>1
  <2> QED
    BY <2>1, <2>2
<1> QED
  BY <1>1, Invariant, PTL

\* As long as its WebSocket is open, the server is sent the login and then
\* requests in the client's order and none twice, although two loops of two
\* threads send from the queue, and the thread empties it without looking.
THEOREM RequestsAlwaysInOrder == Spec => []RequestsInOrder
<1>1. IInv => RequestsInOrder
  BY DEF IInv, SocketInv, RequestInv, Sent, Ordered, RequestsInOrder
<1> QED
  BY <1>1, Invariant, PTL

----------------------------------------------------------------------------
(***************************************************************************)
(* The connections of one user.  Only one WebSocket has an entry, so when  *)
(* it is open the connections of the others are silent for good or closed  *)
(* by the proxy, and those that were not silent come before it in the      *)
(* server's backlog.                                                       *)
(***************************************************************************)

\* The server has been told something on the connection of t.
Said(t) == recv[t] # <<>> \/ up[t] # <<>>

\* It has not, and will not be: the thread finds no handler to take a login from.
Silent(t) ==
    ~ handler[t] /\ ~ Said(t) /\ thr[t] \in {"none", "connect", "login", "close", "dead"}

\* It will not be told more, and can see that.
Over(t) == ~ handler[t] /\ socket[t] = "closed" /\ upEnd[t] /\ conn[t] # "none"

\* There is one entry at a time, that of the WebSocket that is open or being closed.
OneEntry ==
    /\ \A s \in Sockets : ws[s] = "ready" => civcoms = {s} /\ closing = Nothing
    /\ closing # Nothing => civcoms = {closing}

\* Whoever has no entry has nothing to say any more, unless on_close found the
\* socket unset and the thread connects after that.
NoEntry(t) == t \notin civcoms => Silent(t) \/ Over(t) \/ t \in stale

\* How far a connection may be when its thread is where it is.
Ends(t) ==
    /\ conn[t] = "none" => /\ thr[t] \in {"none", "connect", "close", "dead"} /\ ~ Said(t)
                           /\ socket[t] # "open"
    /\ conn[t] # "none" => socket[t] = "open" \/ (socket[t] = "closed" /\ upEnd[t])
    /\ thr[t] \in {"none", "connect", "login"} =>
           ~ Said(t) /\ queue[t] = <<>> /\ (closing = t => ioRest = <<>>)
    /\ recv[t] = <<>> => given[t] = 0

\* Between two rounds nothing is left to read and no connection to close.
Rounds == inRound \/ (readable = {} /\ \A s \in Sockets : conn[s] # "closing")

Waits(t) == conn[t] = "backlog" => \E i \in 1 .. Len(backlog) : backlog[i] = t

\* Before s can be read, the server will have closed the connection of t.
Spent(s, t) ==
    \/ conn[t] = "gone"
    \/ /\ inRound /\ s \notin readable /\ up[t] = <<>>
       /\ conn[t] = "closing" \/ (InUse(t) /\ t \in readable)

\* The connection of an earlier socket t comes before that of s.
Before(t, s) ==
    ws[s] = "ready" /\ Said(t) /\ t \notin stale =>
        /\ conn[s] = "backlog" =>
               \A i, j \in 1 .. Len(backlog) : backlog[i] = t /\ backlog[j] = s => i < j
        /\ conn[s] = "open" /\ s \notin behind => Spent(s, t)

----------------------------------------------------------------------------
\* What is said of the table and of the rounds of the server.
LEMMA OneEntryStep == IInv /\ OneEntry /\ EntriesOfOpenSockets /\ [Next]_vars => OneEntry'
<1> SUFFICES ASSUME IInv, OneEntry, EntriesOfOpenSockets, [Next]_vars PROVE OneEntry'
  OBVIOUS
<1>0. Types
  BY DEF IInv
<1> USE <1>0 DEF Types, WsOK, OneEntry, wsVars, Nothing
<1>1. CASE UNCHANGED <<ws, civcoms, closing>>
  BY <1>1
<1>2. ASSUME NEW s \in Sockets, FirstMessage(s) PROVE OneEntry'
  <2>1. closing = Nothing /\ closing' = closing
    BY <1>2 DEF FirstMessage
  <2>2. \/ /\ civcoms = {} /\ civcoms' = civcoms \cup {s}
           /\ ws' = [ws EXCEPT ![s] = "ready"]
        \/ civcoms' = civcoms /\ ws' = [ws EXCEPT ![s] = "refused"]
    BY <1>2, Zenon DEF FirstMessage, ValidUsername
  <2> QED
    BY <2>1, <2>2
<1>3. ASSUME NEW s \in Sockets, Close(s) PROVE OneEntry'
  <2>1. /\ closing = Nothing /\ civcoms' = civcoms /\ ws' = [ws EXCEPT ![s] = "closed"]
        /\ closing' = IF ws[s] = "ready" THEN s ELSE closing
    BY <1>3 DEF Close
  <2> QED
    BY <2>1
<1>4. CASE Closed
  BY <1>4 DEF Closed, EntryRemoved
<1>5. CASE SendOnClose \/ Test \/ Dies
  BY <1>1, <1>5 DEF SendOnClose, Test, Dies
<1>6. ASSUME NEW s \in Sockets, CivCom(s) PROVE OneEntry'
  BY <1>1, <1>6 DEF CivCom, Connect, ConnectFails, TakeLogin, SendNext, SendEnds,
                    Clear, ReadPacket, Timeout, HangUp, Shut, Return
<1>7. ASSUME NEW s \in Sockets, Request(s) \/ Inform(s) \/ CloseServer(s)
      PROVE  OneEntry'
  BY <1>1, <1>7 DEF Request, Inform, CloseServer
<1>8. CASE Server
  BY <1>1, <1>8 DEF Server, Select, EndRound, ReadConnection
<1>9. CASE UNCHANGED vars
  BY <1>1, <1>9 DEF vars
<1> QED
  BY <1>2, <1>3, <1>4, <1>5, <1>6, <1>7, <1>8, <1>9 DEF Next

LEMMA RoundsStep == IInv /\ Rounds /\ [Next]_vars => Rounds'
<1> SUFFICES ASSUME IInv, Rounds, [Next]_vars PROVE Rounds'
  OBVIOUS
<1>0. Types
  BY DEF IInv
<1> USE <1>0 DEF Types, ServerOK, Rounds, serverVars
<1>1. CASE UNCHANGED <<conn, readable, inRound>>
  BY <1>1
<1>2. ASSUME NEW s \in Sockets, Connect(s) PROVE Rounds'
  BY <1>2 DEF Connect
<1>3. CASE Select
  BY <1>3 DEF Select
<1>4. CASE EndRound
  BY <1>4 DEF EndRound
<1>5. ASSUME NEW s \in Sockets, ReadConnection(s) \/ CloseServer(s) PROVE Rounds'
  <2>1. inRound /\ inRound' = inRound
    BY <1>5 DEF ReadConnection, CloseServer
  <2> QED
    BY <2>1
<1>6. ASSUME NEW s \in Sockets, FirstMessage(s) \/ Request(s) \/ Close(s) \/ Inform(s)
      PROVE  Rounds'
  BY <1>1, <1>6 DEF FirstMessage, Request, Close, Inform
<1>7. CASE SendOnClose \/ Test \/ Closed \/ Dies
  BY <1>1, <1>7 DEF SendOnClose, Test, Closed, Dies
<1>8. ASSUME NEW s \in Sockets, CivCom(s), ~ Connect(s) PROVE Rounds'
  BY <1>1, <1>8 DEF CivCom, ConnectFails, TakeLogin, SendNext, SendEnds,
                    Clear, ReadPacket, Timeout, HangUp, Shut, Return
<1>9. CASE UNCHANGED vars
  BY <1>1, <1>9 DEF vars
<1> QED
  BY <1>2, <1>3, <1>4, <1>5, <1>6, <1>7, <1>8, <1>9 DEF Next, Server

\* How the backlog may change.
LEMMA BacklogChange ==
    ASSUME IInv, [Next]_vars
    PROVE  \/ backlog' = backlog
           \/ \E s \in Sockets : Connect(s) /\ backlog' = Append(backlog, s)
           \/ Select /\ backlog # <<>> /\ backlog' = Tail(backlog)
<1> USE DEF serverVars
<1>1. ASSUME NEW s \in Sockets, CivCom(s), ~ Connect(s) PROVE backlog' = backlog
  BY <1>1 DEF CivCom, ConnectFails, TakeLogin, SendNext, SendEnds,
              Clear, ReadPacket, Timeout, HangUp, Shut, Return
<1>2. ASSUME NEW s \in Sockets, Connect(s) PROVE backlog' = Append(backlog, s)
  BY <1>2 DEF Connect
<1>3. CASE Select
  BY <1>3 DEF Select
<1>4. CASE EndRound \/ \E s \in Sockets : ReadConnection(s) \/ Inform(s) \/ CloseServer(s)
  BY <1>4 DEF EndRound, ReadConnection, Inform, CloseServer
<1>5. CASE \/ \E s \in Sockets : FirstMessage(s) \/ Request(s) \/ Close(s)
           \/ SendOnClose \/ Test \/ Closed \/ Dies \/ UNCHANGED vars
  BY <1>5 DEF FirstMessage, Request, Close, SendOnClose, Test, Closed, Dies, vars
<1> QED
  BY <1>1, <1>2, <1>3, <1>4, <1>5 DEF Next, Server

LEMMA WaitsStep ==
    ASSUME IInv, NEW t \in Sockets, Waits(t), [Next]_vars
    PROVE  Waits(t)'
<1>0. Types /\ BacklogInv /\ backlog \in Seq(Sockets) /\ Len(backlog) \in Nat
  BY LenProperties DEF IInv, Types, ServerOK
<1> USE <1>0 DEF Types, ServerOK, serverVars
<1>1. CASE UNCHANGED backlog /\ (conn'[t] = "backlog" => conn[t] = "backlog")
  BY <1>1 DEF Waits
<1>2. ASSUME NEW s \in Sockets, Connect(s) PROVE Waits(t)'
  <2>1. backlog' = Append(backlog, s) /\ conn' = [conn EXCEPT ![s] = "backlog"]
    BY <1>2 DEF Connect
  <2>2. /\ Len(backlog') = Len(backlog) + 1 /\ backlog'[Len(backlog) + 1] = s
        /\ \A i \in 1 .. Len(backlog) : backlog'[i] = backlog[i]
    BY <2>1
  <2>3. CASE t = s
    <3>1. Len(backlog) + 1 \in 1 .. Len(backlog')
      BY <2>2
    <3> QED
      BY <2>2, <2>3, <3>1 DEF Waits
  <2>4. CASE t # s
    <3>1. conn'[t] = conn[t] /\ 1 .. Len(backlog) \subseteq 1 .. Len(backlog')
      BY <2>1, <2>2, <2>4
    <3> QED
      BY <2>2, <3>1 DEF Waits
  <2> QED
    BY <2>3, <2>4
<1>3. CASE Select
  <2>1. CASE backlog = <<>>
    BY <1>1, <1>3, <2>1 DEF Select
  <2>2. CASE backlog # <<>>
    <3>1. backlog' = Tail(backlog) /\ conn' = [conn EXCEPT ![Head(backlog)] = "open"]
      BY <1>3, <2>2 DEF Select
    <3>2. /\ Len(backlog) \in Nat \ {0} /\ Len(backlog') = Len(backlog) - 1
          /\ \A i \in 1 .. Len(backlog') : backlog'[i] = backlog[i + 1]
          /\ Head(backlog) = backlog[1]
      BY <2>2, <3>1, HeadTailProperties, EmptySeq
    <3>3. CASE t = Head(backlog)
      BY <3>1, <3>3 DEF Waits
    <3>4. CASE t # Head(backlog) /\ conn[t] = "backlog"
      <4>1. PICK i \in 1 .. Len(backlog) : backlog[i] = t
        BY <3>4 DEF Waits
      <4>2. i # 1
        BY <3>2, <3>4, <4>1
      <4>3. i - 1 \in 1 .. Len(backlog') /\ (i - 1) + 1 = i
        BY <3>2, <4>1, <4>2
      <4>4. backlog'[i - 1] = t
        BY <3>2, <4>1, <4>3
      <4> QED
        BY <4>3, <4>4 DEF Waits
    <3>5. CASE t # Head(backlog) /\ conn[t] # "backlog"
      BY <3>1, <3>5 DEF Waits
    <3> QED
      BY <3>3, <3>4, <3>5
  <2> QED
    BY <2>1, <2>2
<1>4. CASE EndRound
  BY <1>1, <1>4 DEF EndRound
<1>5. ASSUME NEW s \in Sockets, ReadConnection(s) \/ CloseServer(s)
      PROVE  Waits(t)'
  <2>1. backlog' = backlog
    BY <1>5 DEF ReadConnection, CloseServer
  <2>2. conn'[t] = "backlog" => conn[t] = "backlog"
    <3>1. CASE t = s
      <4>1. \/ conn' = conn
            \/ \E c \in {"established", "closing"} : conn' = [conn EXCEPT ![s] = c]
        <5>1. conn[s] = "established" \/ conn[s] # "established"
          OBVIOUS
        <5> QED
          BY <1>5, <3>1 DEF ReadConnection, CloseServer
      <4> QED
        BY <3>1, <4>1
    <3>2. CASE t # s
      BY <1>5, <3>2, ServerElsewhere DEF Untouched, Local
    <3> QED
      BY <3>1, <3>2
  <2> QED
    BY <1>1, <2>1, <2>2
<1>6. ASSUME NEW s \in Sockets, FirstMessage(s) \/ Request(s) \/ Close(s) \/ Inform(s)
      PROVE  Waits(t)'
  BY <1>1, <1>6 DEF FirstMessage, Request, Close, Inform
<1>7. CASE SendOnClose \/ Test \/ Closed \/ Dies
  BY <1>1, <1>7 DEF SendOnClose, Test, Closed, Dies
<1>8. ASSUME NEW s \in Sockets, CivCom(s), ~ Connect(s) PROVE Waits(t)'
  BY <1>1, <1>8 DEF CivCom, ConnectFails, TakeLogin, SendNext, SendEnds,
                    Clear, ReadPacket, Timeout, HangUp, Shut, Return
<1>9. CASE UNCHANGED vars
  BY <1>1, <1>9 DEF vars
<1> QED
  BY <1>2, <1>3, <1>4, <1>5, <1>6, <1>7, <1>8, <1>9 DEF Next, Server

----------------------------------------------------------------------------
\* What is said of one connection.
Own(t) == Ends(t) /\ NoEntry(t)

LEMMA OwnElsewhere ==
    ASSUME NEW t, Own(t), Untouched(t), closing' = t => ioRest' = ioRest,
           t \notin civcoms' => t \notin civcoms, stale \subseteq stale'
    PROVE  Own(t)'
BY DEF Own, Ends, NoEntry, Silent, Over, Said, Untouched, Local

LEMMA OwnWs ==
    ASSUME IInv, OneEntry, EntriesOfOpenSockets, NEW t \in Sockets, Own(t),
           FirstMessage(t) \/ Request(t) \/ Close(t)
    PROVE  Own(t)'
<1>0. Types /\ SocketInv(t)
  BY DEF IInv
<1> USE <1>0 DEF Types, WsOK, ThrOK, tcpVars, serverVars, Nothing
<1>1. CASE FirstMessage(t)
  <2>1. /\ ws[t] = "new" /\ thr[t] = "none" /\ conn[t] = "none" /\ closing = Nothing
        /\ \/ t \in civcoms' /\ thr'[t] = "connect"
           \/ UNCHANGED <<civcoms, thr, handler>>
        /\ UNCHANGED <<closing, ioRest, queue, socket, stale, up, upEnd, conn, recv, given>>
    BY <1>1 DEF FirstMessage, SocketInv, Wiring
  <2> QED
    BY <2>1 DEF Own, Ends, NoEntry, Silent, Over, Said
<1>2. CASE Request(t)
  <2>1. /\ got[t] # <<>> /\ closing = Nothing
        /\ UNCHANGED <<civcoms, closing, ioRest, thr, handler, socket, stale, up, upEnd, conn,
                       recv, given>>
    BY <1>2 DEF Request
  <2>2. given[t] # 0
    <3>1. got[t] \in Seq(Int) /\ given[t] \in Nat /\ Len(got[t]) <= given[t]
      BY LocalTypes DEF SocketInv, PacketInv
    <3>2. Len(got[t]) \in Nat \ {0}
      BY <2>1, <3>1, EmptySeq, LenProperties
    <3> QED
      BY <3>1, <3>2
  <2>3. thr[t] \notin {"none", "connect", "login"}
    BY <2>2 DEF Own, Ends, Said
  <2> QED
    BY <2>1, <2>3 DEF Own, Ends, NoEntry, Silent, Over, Said
<1>3. CASE Close(t)
  <2>1. /\ \/ ioRest' = <<>> \/ ioRest' = queue[t] \/ closing' # t
        /\ UNCHANGED <<civcoms, thr, queue, handler, socket, stale, up, upEnd, conn, recv, given>>
    BY <1>3 DEF Close
  <2> QED
    BY <2>1 DEF Own, Ends, NoEntry, Silent, Over, Said
<1> QED
  BY <1>1, <1>2, <1>3

LEMMA OwnOnClose ==
    ASSUME IInv, OneEntry, NEW t \in Sockets, t = closing, Own(t), SendOnClose \/ Test \/ Closed \/ Dies
    PROVE  Own(t)'
<1>0. Types /\ SocketInv(t) /\ closing # Nothing /\ t \in civcoms
  BY DEF IInv, OneEntry, SendOnClose, Test, Closed, Dies
<1> USE <1>0 DEF Types, WsOK, ThrOK, TcpOK, thrVars, serverVars, Nothing
<1>1. CASE SendOnClose
  <2>1. /\ ioRest # <<>> /\ socket[t] = "open"
        /\ UNCHANGED <<civcoms, closing, thr, queue, handler, socket, upEnd, conn, recv, given>>
    BY <1>1 DEF SendOnClose
  <2>2. conn[t] # "none" /\ thr[t] \notin {"none", "connect", "login"}
    BY <2>1 DEF Own, Ends
  <2> QED
    BY <2>1, <2>2 DEF Own, Ends, NoEntry, Silent, Over, Said
<1>2. CASE Closed
  <2>1. /\ closing' = 0 /\ handler'[t] = FALSE /\ ioRest' = ioRest
        /\ UNCHANGED <<thr, queue, stale, up, conn, recv, given>>
    BY <1>2 DEF Closed
  <2>2. t # closing'
    BY <2>1
  <2>3. /\ socket'[t] = socket[t] \/ socket'[t] = "closed"
        /\ upEnd'[t] <=> upEnd[t] \/ (socket[t] = "open" /\ socket'[t] = "closed")
    BY <1>2 DEF Closed, SocketClosed
  <2>4. t \in stale \/ socket'[t] # "open"
    <3>1. t \in stale \/ (tested = "set" <=> socket[t] \in {"unconnected", "open"})
      BY <1>2 DEF Closed, Looked, IInv
    <3>2. tested = "set" => socket'[t] = "closed"
      BY <1>2 DEF Closed, SocketClosed
    <3> QED
      BY <2>3, <3>1, <3>2
  <2>5. Ends(t)'
    BY <2>1, <2>2, <2>3 DEF Own, Ends, Said
  <2>6. conn[t] = "none" => Silent(t)'
    BY <2>1 DEF Own, Ends, Silent, Said
  <2>7. conn[t] # "none" /\ t \notin stale => Over(t)'
    BY <2>1, <2>3, <2>4 DEF Own, Ends, Over
  <2> QED
    BY <2>1, <2>5, <2>6, <2>7 DEF Own, NoEntry
<1>3. CASE Test
  <2>1. /\ closing' = closing /\ ioRest' = <<>> /\ queue'[t] = <<>>
        /\ UNCHANGED <<civcoms, thr, handler, socket, stale, up, upEnd, conn, recv, given>>
    BY <1>3 DEF Test, tcpVars, serverVars
  <2> QED
    BY <2>1 DEF Own, Ends, NoEntry, Silent, Over, Said
<1>4. CASE Dies
  <2>1. /\ closing' = 0
        /\ UNCHANGED <<civcoms, thr, queue, handler, socket, stale, up, upEnd, conn, recv, given>>
    BY <1>4 DEF Dies, thrVars, tcpVars, serverVars
  <2> QED
    BY <2>1 DEF Own, Ends, NoEntry, Silent, Over, Said
<1> QED
  BY <1>1, <1>2, <1>3, <1>4

LEMMA OwnThread ==
    ASSUME IInv, NEW t \in Sockets, Own(t), CivCom(t)
    PROVE  Own(t)'
<1>0. Types /\ SocketInv(t)
  BY DEF IInv
<1> USE <1>0 DEF Types, ThrOK, TcpOK, ServerOK, wsVars, tcpVars, serverVars, At, Goto, Reading,
                 Own, Ends, NoEntry, Silent, Over, Said
\* The socket is closed, or the thread ends where on_close is not over.
<1>0a. ASSUME Finish(t), conn[t] # "none", thr[t] \notin {"none", "connect"},
              thr[t] = "login" \/ queue'[t] = <<>>, queue' = queue \/ thr[t] # "login",
              UNCHANGED <<wsVars, handler, stale, up, serverVars>>
       PROVE  Own(t)'
  <2>1. /\ thr'[t] = "dead"
        /\ upEnd[t] => upEnd'[t]
        /\ socket'[t] # socket[t] => socket'[t] = "closed" /\ upEnd'[t] /\ socket[t] = "open"
    BY <1>0a, Finished
  <2>2. Ends(t)'
    BY <1>0a, <2>1
  <2>3. NoEntry(t)'
    BY <1>0a, <2>1
  <2> QED
    BY <2>2, <2>3
<1>1. CASE Connect(t)
  <2>1. /\ thr[t] = "connect" /\ thr'[t] = "login"
        /\ socket'[t] = "open" /\ conn'[t] = "backlog" /\ conn[t] = "none"
        /\ stale \subseteq stale'
        /\ UNCHANGED <<wsVars, queue, handler, up, upEnd, recv, given>>
    BY <1>1 DEF Connect, Touch, SocketInv, Wiring
  <2> QED
    BY <2>1
<1>2. CASE ConnectFails(t)
  <2>1. /\ thr[t] = "connect" /\ thr'[t] = "close"
        /\ socket'[t] = "unconnected" /\ conn[t] = "none"
        /\ stale \subseteq stale'
        /\ UNCHANGED <<wsVars, queue, handler, up, upEnd, conn, recv, given>>
    BY <1>2 DEF ConnectFails, Touch, SocketInv, Wiring
  <2> QED
    BY <2>1
<1>3. CASE TakeLogin(t)
  <2>1. CASE handler[t]
    <3>1. /\ thr[t] = "login" /\ thr'[t] = "send"
          /\ UNCHANGED <<civcoms, closing, ioRest, handler, socket, stale, up, upEnd, conn,
                         recv, given>>
      BY <1>3, <2>1 DEF TakeLogin
    <3> QED
      BY <2>1, <3>1
  <2>2. CASE ~ handler[t]
    BY <1>0a, <1>3, <2>2 DEF TakeLogin
  <2> QED
    BY <2>1, <2>2
<1>4. CASE SendNext(t)
  <2>1. /\ thr[t] = "send" /\ socket[t] = "open"
        /\ UNCHANGED <<civcoms, closing, ioRest, thr, queue, handler, socket, stale, upEnd,
                       conn, recv, given>>
    BY <1>4 DEF SendNext
  <2> QED
    BY <2>1
<1>5. CASE SendEnds(t)
  BY <1>5 DEF SendEnds
<1>6. CASE Clear(t)
  <2>1. /\ thr[t] = "clear" /\ queue'[t] = <<>>
        /\ UNCHANGED <<wsVars, handler, stale, up, conn, recv, given>>
    BY <1>6 DEF Clear, Cleared
  <2>2. CASE stopped[t]
    BY <1>0a, <1>6, <2>1, <2>2 DEF Clear
  <2>3. CASE ~ stopped[t]
    BY <1>6, <2>1, <2>3 DEF Clear
  <2> QED
    BY <2>2, <2>3
<1>7. CASE ReadPacket(t)
  BY <1>7 DEF ReadPacket
<1>8. CASE Timeout(t)
  BY <1>8 DEF Timeout
<1>9. CASE HangUp(t)
  BY <1>9 DEF HangUp
<1>10. CASE Return(t)
  BY <1>0a, <1>10 DEF Return
<1>11. CASE Shut(t)
  <2>1. /\ thr[t] = "close" /\ thr'[t] = "dead" /\ stale \subseteq stale'
        /\ UNCHANGED <<wsVars, queue, up, conn, recv, given>>
        /\ handler'[t] => handler[t]
        /\ upEnd[t] => upEnd'[t]
        /\ socket'[t] = "closed"
        /\ socket[t] = "open" => upEnd'[t]
    BY <1>11 DEF Shut, Touch
  <2> QED
    BY <2>1
<1> QED
  BY <1>1, <1>2, <1>3, <1>4, <1>5, <1>6, <1>7, <1>8, <1>9, <1>10, <1>11 DEF CivCom

LEMMA OwnServer ==
    ASSUME IInv, NEW t \in Sockets, Own(t),
           Select \/ EndRound \/ ReadConnection(t) \/ Inform(t) \/ CloseServer(t)
    PROVE  Own(t)'
<1>0. Types /\ BacklogInv /\ SocketInv(t)
  BY DEF IInv
<1> USE <1>0 DEF Types, TcpOK, ServerOK, wsVars, thrVars, tcpVars,
                 Own, Ends, NoEntry, Silent, Over, Said
<1>1. CASE Select
  <2>1. backlog # <<>> => Head(backlog) \in Sockets /\ conn[Head(backlog)] = "backlog"
    BY EmptySeq, HeadTailProperties DEF BacklogInv
  <2>2. /\ conn'[t] = conn[t] \/ (conn[t] = "backlog" /\ conn'[t] = "open")
        /\ UNCHANGED <<wsVars, thrVars, tcpVars, recv, given>>
    BY <1>1, <2>1 DEF Select
  <2> QED
    BY <2>2
<1>2. CASE EndRound
  <2>1. /\ conn'[t] = IF conn[t] = "closing" THEN "gone" ELSE conn[t]
        /\ up'[t] = up[t] \/ up'[t] = <<>>
        /\ UNCHANGED <<wsVars, thrVars, upEnd, recv, given>>
    BY <1>2 DEF EndRound
  <2> QED
    BY <2>1
<1>3. CASE ReadConnection(t)
  <2>1. conn[t] # "none" /\ conn'[t] # "none"
    BY <1>3 DEF ReadConnection, InUse
  <2>2. UNCHANGED <<wsVars, thrVars, upEnd>>
    BY <1>3 DEF ReadConnection
  <2>3. CASE up[t] # <<>> /\ InUse(t)
    <3>1. recv'[t] # <<>>
      <4>1. up[t] \in Seq(Int) /\ recv[t] \in Seq(Int)
        BY LocalTypes
      <4>2. recv'[t] = up[t] \/ recv'[t] = recv[t] \o up[t]
        BY <1>3, <2>3 DEF ReadConnection, InUse
      <4> QED
        BY <2>3, <4>1, <4>2, ConcatEqualIffEmpty
    <3>2. Said(t)
      BY <2>3
    <3> QED
      BY <2>1, <2>2, <3>1, <3>2
  <2>4. CASE ~ (up[t] # <<>> /\ InUse(t))
    <3>1. UNCHANGED <<up, recv, given>>
      BY <1>3, <2>4 DEF ReadConnection, InUse
    <3> QED
      BY <2>1, <2>2, <3>1
  <2> QED
    BY <2>3, <2>4
<1>4. CASE Inform(t) \/ CloseServer(t)
  <2>1. conn[t] = "established" /\ recv[t] # <<>> /\ conn'[t] # "none"
    BY <1>4 DEF Inform, CloseServer, SocketInv, Wiring
  <2>2. UNCHANGED <<wsVars, thrVars, up, upEnd, recv>>
    BY <1>4 DEF Inform, CloseServer
  <2> QED
    BY <2>1, <2>2
<1> QED
  BY <1>1, <1>2, <1>3, <1>4

LEMMA OwnStep ==
    ASSUME IInv, OneEntry, EntriesOfOpenSockets, [Next]_vars, NEW t \in Sockets, Own(t)
    PROVE  Own(t)'
<1>0. Types /\ closing \in Sockets \cup {Nothing} /\ Nothing \notin Sockets
  BY DEF IInv, Types, WsOK, Nothing
<1>1. ASSUME NEW s \in Sockets, FirstMessage(s) \/ Request(s) \/ Close(s)
      PROVE  Own(t)'
  <2>1. CASE t = s
    BY <1>1, <2>1, OwnWs
  <2>2. CASE t # s
    <3>1. closing' # t /\ (t \notin civcoms' => t \notin civcoms) /\ stale' = stale
      BY <1>0, <1>1, <2>2 DEF FirstMessage, Request, Close
    <3> QED
      BY <1>0, <1>1, <2>2, <3>1, WsElsewhere, OwnElsewhere
  <2> QED
    BY <2>1, <2>2
<1>2. CASE SendOnClose \/ Test \/ Closed \/ Dies
  <2>1. closing \in Sockets
    BY <1>0, <1>2 DEF SendOnClose, Test, Closed, Dies
  <2>2. CASE t = closing
    BY <1>2, <2>2, OwnOnClose
  <2>3. CASE t # closing
    <3>1. closing' # t /\ (t \notin civcoms' => t \notin civcoms) /\ stale' = stale
      BY <1>0, <1>2, <2>3 DEF SendOnClose, Test, Closed, Dies, EntryRemoved, thrVars
    <3> QED
      BY <1>0, <1>2, <2>1, <2>3, <3>1, WsElsewhere, OwnElsewhere
  <2> QED
    BY <2>2, <2>3
<1>3. ASSUME NEW s \in Sockets, CivCom(s)
      PROVE  Own(t)'
  <2>1. CASE t = s
    BY <1>3, <2>1, OwnThread
  <2>2. CASE t # s
    <3>1. UNCHANGED <<closing, ioRest, civcoms>> /\ stale \subseteq stale'
      BY <1>3 DEF CivCom, Connect, ConnectFails, TakeLogin, SendNext, SendEnds, Clear,
                  ReadPacket, Timeout, HangUp, Shut, Return, Touch, wsVars
    <3> QED
      BY <1>0, <1>3, <2>2, <3>1, ThreadElsewhere, OwnElsewhere
  <2> QED
    BY <2>1, <2>2
<1>4. ASSUME NEW s \in Sockets, ReadConnection(s) \/ Inform(s) \/ CloseServer(s)
      PROVE  Own(t)'
  <2>1. CASE t = s
    BY <1>4, <2>1, OwnServer
  <2>2. CASE t # s
    <3>1. UNCHANGED <<closing, ioRest, civcoms, stale>>
      BY <1>4 DEF ReadConnection, Inform, CloseServer, wsVars, thrVars
    <3> QED
      BY <1>0, <1>4, <2>2, <3>1, ServerElsewhere, OwnElsewhere
  <2> QED
    BY <2>1, <2>2
<1>5. CASE Select \/ EndRound
  BY <1>5, OwnServer
<1>6. CASE UNCHANGED vars
  BY <1>6 DEF vars, wsVars, thrVars, tcpVars, serverVars, Own, Ends, NoEntry, Silent, Over, Said
<1> QED
  BY <1>1, <1>2, <1>3, <1>4, <1>5, <1>6 DEF Next, Server

----------------------------------------------------------------------------
\* What is said of two connections.
LEMMA BeforeElsewhere ==
    ASSUME NEW s, NEW t, Before(t, s),
           ws'[s] = "ready" => ws[s] = "ready",
           Said(t)' => Said(t), stale \subseteq stale',
           conn'[s] \in {"backlog", "open"} => conn'[s] = conn[s],
           backlog' = backlog, behind' = behind,
           conn'[s] = "open" => (Spent(s, t) => Spent(s, t)')
    PROVE  Before(t, s)'
BY DEF Before

\* The sockets whose WebSocket has no entry: their connections are over.
LEMMA Others ==
    ASSUME OneEntry, NEW s \in Sockets, NEW t \in Sockets, t # s, Own(t),
           ws[s] = "ready", Said(t), t \notin stale
    PROVE  Over(t) /\ closing = Nothing
BY DEF OneEntry, Own, NoEntry, Silent

LEMMA BeforeThread ==
    ASSUME IInv, OneEntry, NEW s \in Sockets, NEW t \in Sockets, t # s,
           Own(t), Before(t, s), NEW u \in Sockets, CivCom(u)
    PROVE  Before(t, s)'
<1>0. /\ Types /\ BacklogInv /\ backlog \in Seq(Sockets) /\ Len(backlog) \in Nat
      /\ ws' = ws /\ behind' = behind /\ recv' = recv /\ readable' = readable
      /\ inRound' = inRound /\ stale \subseteq stale'
  BY LenProperties DEF IInv, Types, ServerOK, CivCom, Connect, ConnectFails, TakeLogin,
     SendNext, SendEnds, Clear, ReadPacket, Timeout, HangUp, Shut, Return, Touch, wsVars,
     serverVars
<1>1. CASE Connect(u)
  <2>1. /\ backlog' = Append(backlog, u) /\ conn' = [conn EXCEPT ![u] = "backlog"]
        /\ up' = up /\ conn[u] = "none" /\ thr[u] = "connect"
    BY <1>1 DEF Connect, At, tcpVars, IInv, SocketInv, Wiring
  <2>2. /\ Len(backlog') = Len(backlog) + 1 /\ backlog'[Len(backlog) + 1] = u
        /\ \A i \in 1 .. Len(backlog) : backlog'[i] = backlog[i] /\ backlog[i] # u
    <3>1. \A i \in 1 .. Len(backlog) : backlog[i] # u
      BY <1>0, <2>1 DEF BacklogInv
    <3> QED
      BY <1>0, <2>1, <3>1
  <2>3. Said(t)' = Said(t)
    BY <1>0, <2>1 DEF Said
  <2>4. CASE u = t
    BY <2>1, <2>3, <2>4 DEF Own, Ends, Before
  <2>5. CASE u # t
    <3>1. CASE u = s
      <4>1. conn'[s] = "backlog"
        BY <1>0, <2>1, <3>1 DEF Types, ServerOK
      <4>2. ASSUME NEW i \in 1 .. Len(backlog'), NEW j \in 1 .. Len(backlog'),
                   backlog'[i] = t, backlog'[j] = s
            PROVE  i < j
        <5>1. j = Len(backlog) + 1 /\ i # Len(backlog) + 1
          BY <1>0, <2>2, <2>5, <3>1, <4>2
        <5> QED
          BY <1>0, <2>2, <5>1
      <4> QED
        BY <4>1, <4>2 DEF Before
    <3>2. CASE u # s
      <4>1. conn'[s] = conn[s] /\ conn'[t] = conn[t]
        BY <2>1, <2>5, <3>2
      <4>2. ASSUME conn[s] = "backlog", ws[s] = "ready", Said(t), t \notin stale,
                   NEW i \in 1 .. Len(backlog'), NEW j \in 1 .. Len(backlog'),
                   backlog'[i] = t, backlog'[j] = s
            PROVE  i < j
        <5>1. i \in 1 .. Len(backlog) /\ j \in 1 .. Len(backlog)
          BY <1>0, <2>2, <2>5, <3>2, <4>2
        <5> QED
          BY <2>2, <4>2, <5>1 DEF Before
      <4>3. Spent(s, t)' = Spent(s, t)
        BY <1>0, <2>1, <4>1 DEF Spent, InUse
      <4> QED
        BY <1>0, <2>3, <4>1, <4>2, <4>3 DEF Before
    <3> QED
      BY <3>1, <3>2
  <2> QED
    BY <2>4, <2>5
<1>2. CASE ~ Connect(u)
  <2>1. backlog' = backlog /\ conn' = conn
    BY <1>2 DEF CivCom, ConnectFails, TakeLogin, SendNext, SendEnds, Clear,
                ReadPacket, Timeout, HangUp, Shut, Return, serverVars
  <2>2. CASE ws[s] = "ready" /\ Said(t) /\ t \notin stale
    <3>1. Over(t)
      BY <2>2, Others
    <3>2. up'[t] = up[t]
      <4>1. CASE u = t
        BY <1>2, <3>1, <4>1 DEF CivCom, ConnectFails, TakeLogin, SendNext, SendEnds, Clear,
                ReadPacket, Timeout, HangUp, Shut, Return, Over, tcpVars
      <4>2. CASE u # t
        BY <1>0, <4>2, ThreadElsewhere DEF Untouched, Local
      <4> QED
        BY <4>1, <4>2
    <3> QED
      BY <1>0, <2>1, <3>2, BeforeElsewhere DEF Said, Spent, InUse
  <2>3. CASE ws[s] # "ready" \/ t \in stale
    BY <1>0, <2>3 DEF Before
  <2>4. CASE ~ Said(t)
    <3>1. CASE ws[s] = "ready" /\ t \notin stale
      <4>1. t \notin civcoms
        BY <3>1 DEF OneEntry
      <4>2. Silent(t) \/ Over(t)
        BY <3>1, <4>1 DEF Own, NoEntry
      <4>3. up'[t] = up[t]
        <5>1. CASE u = t
          BY <1>2, <4>2, <5>1 DEF CivCom, ConnectFails, TakeLogin, SendNext, SendEnds, Clear,
                ReadPacket, Timeout, HangUp, Shut, Return, Over, Silent, At, tcpVars
        <5>2. CASE u # t
          BY <1>0, <5>2, ThreadElsewhere DEF Untouched, Local
        <5> QED
          BY <5>1, <5>2
      <4>4. ~ Said(t)'
        BY <1>0, <2>4, <4>3 DEF Said
      <4> QED
        BY <4>4 DEF Before
    <3> QED
      BY <2>3, <3>1
  <2> QED
    BY <2>2, <2>3, <2>4
<1> QED
  BY <1>1, <1>2

\* The round in which s is accepted.
LEMMA BeforeSelect ==
    ASSUME IInv, OneEntry, Rounds, NEW s \in Sockets, NEW t \in Sockets, t # s,
           Own(t), Waits(t), Before(t, s), Select
    PROVE  Before(t, s)'
<1>0. /\ Types /\ BacklogInv /\ backlog \in Seq(Sockets) /\ Len(backlog) \in Nat
      /\ conn \in [Sockets -> {"none", "backlog", "open", "established", "closing", "gone"}]
  BY LenProperties DEF IInv, Types, ServerOK
<1>1. /\ ~ inRound /\ inRound'
      /\ readable' = {u \in Sockets : InUse(u) /\ (up[u] # <<>> \/ upEnd[u])}
      /\ UNCHANGED <<ws, stale, up, upEnd, recv>>
  BY DEF Select, wsVars, thrVars, tcpVars
<1> SUFFICES ASSUME ws[s] = "ready", Said(t), t \notin stale
             PROVE  Before(t, s)'
  BY <1>1 DEF Before, Said
<1>2. Over(t)
  BY Others
<1>3. Spent(s, t) => conn[t] = "gone"
  BY <1>1 DEF Spent
<1>4. CASE backlog = <<>>
  <2>1. UNCHANGED <<conn, backlog, behind>>
    BY <1>4 DEF Select
  <2> QED
    BY <1>1, <1>3, <2>1, BeforeElsewhere DEF Said, Spent
<1>5. CASE backlog # <<>>
  <2>1. /\ conn' = [conn EXCEPT ![Head(backlog)] = "open"] /\ backlog' = Tail(backlog)
        /\ behind \subseteq behind'
        /\ (\E u \in readable' : up[u] # <<>>) => Head(backlog) \in behind'
    BY <1>1, <1>5 DEF Select
  <2>2. /\ Len(backlog) \in Nat \ {0} /\ Len(backlog') = Len(backlog) - 1
        /\ \A i \in 1 .. Len(backlog') : backlog'[i] = backlog[i + 1]
        /\ Head(backlog) = backlog[1] /\ Head(backlog) \in Sockets
    BY <1>0, <1>5, <2>1, HeadTailProperties, EmptySeq
  <2>3. conn[Head(backlog)] = "backlog"
    BY <1>0, <2>2 DEF BacklogInv
  <2>4. ASSUME conn'[s] = "backlog",
               NEW i \in 1 .. Len(backlog'), NEW j \in 1 .. Len(backlog'),
               backlog'[i] = t, backlog'[j] = s
        PROVE  i < j
    <3>1. conn[s] = "backlog"
      BY <1>0, <2>1, <2>4
    <3>2. i + 1 \in 1 .. Len(backlog) /\ j + 1 \in 1 .. Len(backlog)
      BY <2>2
    <3>3. backlog[i + 1] = t /\ backlog[j + 1] = s
      BY <2>2, <2>4
    <3>4. i + 1 < j + 1
      BY <3>1, <3>2, <3>3 DEF Before
    <3> QED
      BY <2>2, <3>4
  <2>5. ASSUME conn'[s] = "open", s \notin behind'
        PROVE  Spent(s, t)'
    <3>1. CASE s = Head(backlog)
      <4>1. s \notin readable'
        BY <1>1, <2>3, <3>1 DEF InUse
      <4>2. conn[t] # "backlog"
        <5> SUFFICES ASSUME conn[t] = "backlog" PROVE FALSE
          OBVIOUS
        <5>1. PICK i \in 1 .. Len(backlog) : backlog[i] = t
          BY DEF Waits
        <5>2. 1 \in 1 .. Len(backlog) /\ backlog[1] = s
          BY <2>2, <3>1
        <5>3. i < 1
          BY <2>3, <3>1, <5>1, <5>2 DEF Before
        <5> QED
          BY <5>3
      <4>3. conn'[t] = conn[t]
        BY <2>1, <3>1
      <4>4. conn[t] # "closing" /\ conn[t] # "none"
        BY <1>1, <1>2 DEF Rounds, Over
      <4>5. CASE InUse(t)
        <5>1. t \in readable'
          BY <1>1, <1>2, <4>5 DEF Over
        <5>2. up[t] = <<>>
          BY <2>1, <2>5, <3>1, <5>1
        <5> QED
          BY <1>1, <4>1, <4>3, <4>5, <5>1, <5>2 DEF Spent, InUse
      <4>6. CASE conn[t] = "gone"
        BY <4>3, <4>6 DEF Spent
      <4> QED
        BY <1>0, <4>2, <4>4, <4>5, <4>6 DEF InUse
    <3>2. CASE s # Head(backlog)
      <4>1. conn[s] = "open" /\ s \notin behind
        BY <2>1, <2>5, <3>2
      <4>2. conn[t] = "gone"
        BY <1>3, <4>1 DEF Before
      <4>3. conn'[t] = "gone"
        BY <2>1, <2>3, <4>2
      <4> QED
        BY <4>3 DEF Spent
    <3> QED
      BY <3>1, <3>2
  <2> QED
    BY <2>4, <2>5 DEF Before
<1> QED
  BY <1>4, <1>5

LEMMA BeforeServer ==
    ASSUME IInv, NEW s \in Sockets, NEW t \in Sockets, t # s, Before(t, s),
           \/ EndRound
           \/ \E u \in Sockets : ReadConnection(u) \/ Inform(u) \/ CloseServer(u)
    PROVE  Before(t, s)'
<1>0. /\ Types
      /\ conn \in [Sockets -> {"none", "backlog", "open", "established", "closing", "gone"}]
      /\ up \in [Sockets -> Requests]
  BY DEF IInv, Types, TcpOK, ServerOK
<1>1. CASE EndRound
  <2>1. /\ conn'[s] = IF conn[s] = "closing" THEN "gone" ELSE conn[s]
        /\ conn'[t] = IF conn[t] = "closing" THEN "gone" ELSE conn[t]
        /\ up'[t] = up[t] \/ up'[t] = <<>>
        /\ readable = {}
        /\ UNCHANGED <<ws, stale, backlog, recv, behind>>
    BY <1>1 DEF EndRound, wsVars, thrVars
  <2>2. Spent(s, t) => Spent(s, t)'
    BY <2>1 DEF Spent, InUse
  <2> QED
    BY <2>1, <2>2, BeforeElsewhere DEF Said
<1>2. ASSUME NEW u \in Sockets, ReadConnection(u)
      PROVE  Before(t, s)'
  <2>1. /\ readable' = readable \ {u} /\ u \in readable
        /\ UNCHANGED <<ws, stale, backlog, behind, inRound>>
    BY <1>2 DEF ReadConnection, wsVars, thrVars
  <2>2. \A v \in Sockets : v # u => UNCHANGED <<conn[v], up[v], recv[v]>>
    BY <1>0, <1>2, ServerElsewhere DEF Untouched, Local
  <2>3. CASE u = s
    <3>1. conn[s] # "backlog" /\ conn'[s] # "open" /\ conn'[s] # "backlog"
      <4>1. CASE conn[s] = "open"
        BY <1>0, <1>2, <2>3, <4>1 DEF ReadConnection
      <4>2. CASE conn[s] # "open"
        BY <1>0, <1>2, <2>3, <4>2 DEF ReadConnection, InUse
      <4> QED
        BY <4>1, <4>2
    <3> QED
      BY <3>1 DEF Before
  <2>4. CASE u = t
    <3>1. Said(t)' => Said(t)
      BY <1>0, <1>2, <2>4 DEF ReadConnection, Said
    <3>2. Spent(s, t) => Spent(s, t)'
      <4>1. CASE conn[t] = "gone"
        BY <1>2, <2>4, <4>1 DEF ReadConnection, InUse
      <4>2. CASE up[t] = <<>> /\ Spent(s, t) /\ conn[t] # "gone"
        <5>1. up' = up /\ conn'[t] = "closing"
          BY <1>0, <1>2, <2>4, <4>2 DEF ReadConnection
        <5>2. inRound' /\ s \notin readable'
          BY <2>1, <4>2 DEF Spent
        <5> QED
          BY <4>2, <5>1, <5>2 DEF Spent
      <4> QED
        BY <4>1, <4>2 DEF Spent
    <3> QED
      BY <2>1, <2>2, <2>4, <3>1, <3>2, BeforeElsewhere
  <2>5. CASE u # s /\ u # t
    <3>1. Spent(s, t) => Spent(s, t)'
      BY <2>1, <2>2, <2>5 DEF Spent, InUse
    <3> QED
      BY <2>1, <2>2, <2>5, <3>1, BeforeElsewhere DEF Said
  <2> QED
    BY <2>3, <2>4, <2>5
<1>3. ASSUME NEW u \in Sockets, Inform(u)
      PROVE  Before(t, s)'
  <2>1. UNCHANGED <<ws, stale, up, conn, backlog, readable, inRound, recv, behind>>
    BY <1>3 DEF Inform, wsVars, thrVars
  <2> QED
    BY <2>1, BeforeElsewhere DEF Said, Spent, InUse
<1>4. ASSUME NEW u \in Sockets, CloseServer(u)
      PROVE  Before(t, s)'
  <2>1. /\ conn[u] = "established" /\ conn' = [conn EXCEPT ![u] = "closing"]
        /\ UNCHANGED <<ws, stale, up, backlog, readable, inRound, recv, behind>>
    BY <1>4 DEF CloseServer, wsVars, thrVars, tcpVars
  <2>2. Spent(s, t) => Spent(s, t)'
    BY <1>0, <2>1 DEF Spent, InUse
  <2>3. conn'[s] \in {"backlog", "open"} => conn'[s] = conn[s]
    BY <1>0, <2>1
  <2> QED
    BY <2>1, <2>2, <2>3, BeforeElsewhere DEF Said
<1> QED
  BY <1>1, <1>2, <1>3, <1>4

LEMMA BeforeWs ==
    ASSUME IInv, OneEntry, NEW s \in Sockets, NEW t \in Sockets, t # s, Before(t, s),
           \/ \E u \in Sockets : FirstMessage(u) \/ Request(u) \/ Close(u)
           \/ SendOnClose \/ Test \/ Closed \/ Dies
    PROVE  Before(t, s)'
<1>0. /\ ws \in [Sockets -> {"new", "ready", "refused", "closed"}]
      /\ \A u \in Sockets : ws[u] = "new" => conn[u] = "none"
  BY DEF IInv, Types, WsOK, SocketInv, Wiring
<1>1. UNCHANGED <<stale, conn, backlog, readable, inRound, recv, behind>>
  BY DEF FirstMessage, Request, Close, SendOnClose, Test, Closed, Dies, thrVars, serverVars
<1>2. ASSUME NEW u \in Sockets, FirstMessage(u) \/ Request(u) \/ Close(u)
      PROVE  Before(t, s)'
  <2>1. up' = up /\ (ws'[s] = "ready" => ws[s] \in {"new", "ready"})
    BY <1>0, <1>2 DEF FirstMessage, Request, Close, tcpVars
  <2>2. CASE ws[s] = "new"
    BY <1>0, <1>1, <2>2 DEF Before
  <2>3. CASE ws[s] # "new"
    BY <1>1, <2>1, <2>3, BeforeElsewhere DEF Said, Spent, InUse
  <2> QED
    BY <2>2, <2>3
<1>3. CASE SendOnClose \/ Test \/ Closed \/ Dies
  <2>1. ws' = ws /\ closing # Nothing
    BY <1>3 DEF SendOnClose, Test, Closed, Dies
  <2> QED
    BY <2>1 DEF OneEntry, Before
<1> QED
  BY <1>2, <1>3

----------------------------------------------------------------------------
\* The connections of a user come to the server in turn.
InTurn ==
    /\ EntriesOfOpenSockets /\ OneEntry /\ Rounds
    /\ \A t \in Sockets : Own(t) /\ Waits(t)
    /\ \A s \in Sockets : \A t \in Sockets \ {s} : Before(t, s)

LEMMA InitInTurn == Init => InTurn
<1> SUFFICES ASSUME Init PROVE InTurn
  OBVIOUS
<1>1. EntriesOfOpenSockets /\ OneEntry /\ Rounds
  BY DEF Init, EntriesOfOpenSockets, OneEntry, Rounds, Nothing
<1>2. ASSUME NEW t \in Sockets
      PROVE  Own(t) /\ Waits(t)
  BY DEF Init, Own, Ends, NoEntry, Silent, Said, Waits
<1>3. ASSUME NEW s \in Sockets, NEW t \in Sockets
      PROVE  Before(t, s)
  BY DEF Init, Before
<1> QED
  BY <1>1, <1>2, <1>3 DEF InTurn

LEMMA InTurnStep ==
    ASSUME IInv, InTurn, EntriesOfOpenSockets', [Next]_vars
    PROVE  InTurn'
<1>1. OneEntry' /\ Rounds'
  BY OneEntryStep, RoundsStep DEF InTurn
<1>2. ASSUME NEW t \in Sockets
      PROVE  Own(t)' /\ Waits(t)'
  BY OwnStep, WaitsStep DEF InTurn
<1>3. ASSUME NEW s \in Sockets, NEW t \in Sockets \ {s}
      PROVE  Before(t, s)'
  <2>1. OneEntry /\ Rounds /\ Own(t) /\ Waits(t) /\ Before(t, s) /\ t # s
    BY DEF InTurn
  <2>2. CASE \E u \in Sockets : CivCom(u)
    BY <2>1, <2>2, BeforeThread
  <2>3. CASE Select
    BY <2>1, <2>3, BeforeSelect
  <2>4. CASE EndRound \/ \E u \in Sockets : ReadConnection(u) \/ Inform(u) \/ CloseServer(u)
    BY <2>1, <2>4, BeforeServer
  <2>5. CASE \/ \E u \in Sockets : FirstMessage(u) \/ Request(u) \/ Close(u)
             \/ SendOnClose \/ Test \/ Closed \/ Dies
    BY <2>1, <2>5, BeforeWs
  <2>6. CASE UNCHANGED vars
    BY <2>1, <2>6, BeforeElsewhere
       DEF vars, wsVars, thrVars, tcpVars, serverVars, Said, Spent, InUse
  <2> QED
    BY <2>2, <2>3, <2>4, <2>5, <2>6 DEF Next, Server
<1> QED
  BY <1>1, <1>2, <1>3 DEF InTurn

\* In what the server is sent on one connection, the login comes once.
LEMMA OneLogin ==
    ASSUME NEW q \in Seq(Int), NEW k, Ordered(q, k), q # <<>>
    PROVE  LoginOnce(Tail(q))
<1>1. /\ Tail(q) \in Seq(Int) /\ Head(q) = q[1]
      /\ DOMAIN Tail(q) = 1 .. Len(Tail(q))
  BY HeadTailProperties, SeqElements, EmptySeq
<1>2. \A i \in DOMAIN Tail(q) : Head(q) < Tail(q)[i]
  BY IncreasingTail DEF Ordered
<1>3. Head(q) = 0
  BY <1>1 DEF Ordered, Login
<1>4. ASSUME NEW r, \A i \in 1 .. Len(r) : 0 < r[i]
      PROVE  LoginOnce(r)
  BY <1>4 DEF LoginOnce, Contains, Login
<1> QED
  BY <1>1, <1>2, <1>3, <1>4

\* The first read of a connection finds its login at the front, and not again.
LEMMA FirstRead ==
    ASSUME IInv, NEW s \in Sockets, ws[s] # "closed", conn[s] = "open", up[s] # <<>>
    PROVE  LoginOnce(Tail(up[s]))
<1>1. up[s] \in Seq(Int) /\ recv[s] = <<>>
  BY LocalTypes DEF IInv, SocketInv, Wiring
<1>2. Sent(s) = up[s]
  BY <1>1, ConcatEmptySeq DEF Sent
<1>3. Ordered(up[s], asked[s])
  BY <1>2 DEF IInv, SocketInv, RequestInv
<1> QED
  BY <1>1, <1>3, OneLogin

\* A user is refused as already connected only if the server still had to
\* read requests of his old connection when it accepted the new one: where it
\* has not, the old one is closed in the round that accepts the new one, so
\* before the login of the new one is read.  (Or the old page was closed while
\* its thread connected, and its login is on the way.)
THEOREM RefusedAlwaysBehindRequests == Spec => RefusedOnlyBehindRequests
<1>1. IInv /\ InTurn /\ [Next]_vars =>
          [\A s \in Sockets :
               ws[s] = "ready" /\ conn[s] = "open" /\ conn'[s] = "closing"
                   => s \in behind \/ \E t \in stale : t # s]_vars
  <2> SUFFICES ASSUME IInv, InTurn, [Next]_vars, NEW s \in Sockets,
                      ws[s] = "ready", conn[s] = "open", conn'[s] = "closing",
                      s \notin behind, \A t \in stale : t = s
               PROVE  FALSE
    OBVIOUS
  <2>1. Types /\ BacklogInv /\ SocketInv(s)
    BY DEF IInv
  <2>2. CASE ReadConnection(s)
    <3>1. s \in readable
      BY <2>2 DEF ReadConnection
    <3>2. up[s] # <<>>
      BY <2>1, <3>1 DEF SocketInv, Wiring, InUse
    <3>3. Duplicate(s)
      <4>1. LoginOnce(Tail(up[s]))
        BY <3>2, FirstRead
      <4> QED
        BY <2>1, <2>2, <3>2, <4>1 DEF ReadConnection, Types, ServerOK
    <3>4. PICK t \in Sockets \ {s} : conn[t] \in {"established", "closing"} /\ recv[t] # <<>>
      BY <3>3 DEF Duplicate, Named
    <3>5. Spent(s, t)
      BY <3>4 DEF InTurn, Before, Said
    <3> QED
      BY <3>1, <3>4, <3>5 DEF Spent
  <2>3. ASSUME NEW u \in Sockets, u # s,
               ReadConnection(u) \/ Inform(u) \/ CloseServer(u)
        PROVE  FALSE
    BY <2>1, <2>3, ServerElsewhere DEF Untouched, Local
  <2>4. CASE Inform(s) \/ CloseServer(s)
    BY <2>4 DEF Inform, CloseServer
  <2>5. ASSUME NEW u \in Sockets, CivCom(u)
        PROVE  FALSE
    BY <2>1, <2>5 DEF CivCom, Connect, ConnectFails, TakeLogin, SendNext, SendEnds, Clear,
       ReadPacket, Timeout, HangUp, Shut, Return, serverVars, Types, ServerOK
  <2>6. CASE \/ \E u \in Sockets : FirstMessage(u) \/ Request(u) \/ Close(u)
             \/ SendOnClose \/ Test \/ Closed \/ Dies \/ UNCHANGED vars
    BY <2>6 DEF FirstMessage, Request, Close, SendOnClose, Test, Closed, Dies, serverVars, vars
  <2>7. CASE Select
    BY <2>1, <2>7 DEF Select, Types, ServerOK
  <2>8. CASE EndRound
    BY <2>1, <2>8 DEF EndRound
  <2> QED
    BY <2>2, <2>3, <2>4, <2>5, <2>6, <2>7, <2>8 DEF Next, Server
<1>2. Spec => [](IInv /\ InTurn)
  <2>1. (IInv /\ InTurn) /\ EntriesOfOpenSockets' /\ [Next]_vars => InTurn'
    BY InTurnStep
  <2> QED
    BY <2>1, InitInTurn, Invariant, EntriesAlwaysOfOpenSockets, PTL DEF Spec
<1> QED
  BY <1>1, <1>2, PTL DEF Spec, RefusedOnlyBehindRequests
=============================================================================
