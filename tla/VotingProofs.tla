---------------------------- MODULE VotingProofs ----------------------------
(***************************************************************************)
(* Theorems about module Voting, for any number of connections and votes:  *)
(* what is counted is what those present have last said, a player is       *)
(* removed by a majority only, and a vote fails early only when it is lost.*)
(***************************************************************************)
EXTENDS Voting, TLAPS, SequenceTheorems, FiniteSetTheorems

USE ConnsAssumption, PercentAssumption, BoundsAssumption

(***************************************************************************)
(* The inductive invariant.                                                *)
(***************************************************************************)

\* Vote numbers grow along the list, and each caller has one vote.
Proper(vs) ==
    /\ vs \in Seq(Votes)
    /\ \A i, j \in DOMAIN vs : i < j =>
          vs[i].no < vs[j].no /\ vs[i].caller # vs[j].caller

\* A loop in ls has still to take back c's cast in vote n.
Owed(ls, c, n) ==
    \E k \in DOMAIN ls : ls[k].who = c /\ 0 < ls[k].at /\ ls[k].at <= n

\* The vote v says of those in att what they say, and has nothing of others but
\* what those in cls, and the loops in ls, have still to take back.
Good(v, att, cls, ls) ==
    /\ v.caller \in att \cup cls
    /\ \A c \in Conns :
          /\ c \in att => v.said[c] = v.casts[c]
          /\ c \notin att \cup cls => v.said[c] = "none"
          /\ v.casts[c] # "none" => c \in att \cup cls \/ Owed(ls, c, v.no)

AllGood(vs, att, cls, ls) == \A i \in DOMAIN vs : Good(vs[i], att, cls, ls)

Types ==
    /\ started \in BOOLEAN /\ freed \in BOOLEAN
    /\ attached \subseteq Conns /\ demoted \subseteq attached
    /\ Proper(votes)
    /\ last \in 0 .. MaxVotes /\ \A i \in DOMAIN votes : votes[i].no <= last
    /\ loops \in Seq(Loops)
    /\ \A k \in DOMAIN loops : loops[k].who \notin attached
    /\ closing \in Seq(Conns \ attached)

IInv == Types /\ AllGood(votes, attached, Range(closing), loops)

-----------------------------------------------------------------------------
(***************************************************************************)
(* The list of votes.                                                      *)
(***************************************************************************)
LEMMA RemoveAtFacts ==
    ASSUME NEW S, NEW q \in Seq(S), NEW i \in DOMAIN q
    PROVE  /\ RemoveAt(q, i) \in Seq(S)
           /\ Len(RemoveAt(q, i)) = Len(q) - 1
           /\ \A j \in 1 .. Len(q) - 1 :
                 RemoveAt(q, i)[j] = IF j < i THEN q[j] ELSE q[j + 1]
<1>1. i \in 1 .. Len(q) /\ Len(q) \in Nat
  OBVIOUS
<1> DEFINE a == SubSeq(q, 1, i - 1)
           b == SubSeq(q, i + 1, Len(q))
<1>2. a \in Seq(S) /\ Len(a) = i - 1 /\ \A j \in 1 .. i - 1 : a[j] = q[j]
  BY <1>1, SubSeqProperties
<1>3. b \in Seq(S) /\ Len(b) = Len(q) - i /\ \A j \in 1 .. Len(q) - i : b[j] = q[i + j]
  BY <1>1, SubSeqProperties
<1>4. RemoveAt(q, i) = a \o b
  BY DEF RemoveAt
<1> HIDE DEF a, b
<1>5. /\ a \o b \in Seq(S) /\ Len(a \o b) = Len(a) + Len(b)
      /\ \A j \in 1 .. Len(a) + Len(b) :
            (a \o b)[j] = IF j <= Len(a) THEN a[j] ELSE b[j - Len(a)]
  BY <1>2, <1>3, ConcatProperties
<1>6. ASSUME NEW j \in 1 .. Len(q) - 1
      PROVE  (a \o b)[j] = IF j < i THEN q[j] ELSE q[j + 1]
  <2>0. Len(a) = i - 1 /\ Len(b) = Len(q) - i
    BY <1>2, <1>3
  <2>a. ASSUME NEW m \in Nat, NEW k \in 1 .. m, NEW e \in 1 .. m - 1
        PROVE  /\ e \in 1 .. (k - 1) + (m - k)
               /\ e < k => e <= k - 1 /\ e \in 1 .. k - 1
               /\ ~ (e < k) => /\ ~ (e <= k - 1) /\ e - (k - 1) \in 1 .. m - k
                               /\ k + (e - (k - 1)) = e + 1
    OBVIOUS
  <2>b. /\ j \in 1 .. Len(a) + Len(b)
        /\ j < i => j <= Len(a) /\ j \in 1 .. i - 1
        /\ ~ (j < i) => /\ ~ (j <= Len(a)) /\ j - Len(a) \in 1 .. Len(q) - i
                        /\ i + (j - Len(a)) = j + 1
    BY <1>1, <2>0, <2>a
  <2>c. (a \o b)[j] = IF j <= Len(a) THEN a[j] ELSE b[j - Len(a)]
    BY <1>5, <2>b
  <2>1. CASE j < i
    <3>1. (a \o b)[j] = a[j] /\ a[j] = q[j]
      BY <1>2, <2>b, <2>c, <2>1
    <3> QED
      BY <2>1, <3>1
  <2>2. CASE ~ (j < i)
    <3>1. (a \o b)[j] = b[j - Len(a)] /\ b[j - Len(a)] = q[i + (j - Len(a))]
      BY <1>3, <2>b, <2>c, <2>2
    <3> QED
      BY <2>b, <2>2, <3>1
  <2> QED
    BY <2>1, <2>2
<1>7. Len(RemoveAt(q, i)) = Len(q) - 1
  <2>1. Len(RemoveAt(q, i)) = (i - 1) + (Len(q) - i)
    BY <1>2, <1>3, <1>4, <1>5
  <2> QED
    BY <1>1, <2>1
<1> QED
  BY <1>4, <1>5, <1>6, <1>7

\* A vote that is taken off the list leaves a proper list of the others.
LEMMA Shorter ==
    ASSUME NEW vs, Proper(vs), NEW i \in DOMAIN vs
    PROVE  /\ Proper(RemoveAt(vs, i))
           /\ \A j \in DOMAIN RemoveAt(vs, i) :
                 \E k \in DOMAIN vs : RemoveAt(vs, i)[j] = vs[k] /\ k # i
           /\ \A j \in DOMAIN RemoveAt(vs, i) :
                 RemoveAt(vs, i)[j].caller # vs[i].caller
<1> DEFINE us == RemoveAt(vs, i)
           o(j) == IF j < i THEN j ELSE j + 1
<1>1. vs \in Seq(Votes) /\ DOMAIN vs = 1 .. Len(vs) /\ Len(vs) \in Nat
  BY DEF Proper
<1>2. /\ us \in Seq(Votes) /\ DOMAIN us = 1 .. Len(vs) - 1
      /\ \A j \in DOMAIN us : us[j] = vs[o(j)]
  <2>1. /\ us \in Seq(Votes) /\ Len(us) = Len(vs) - 1
        /\ \A j \in 1 .. Len(vs) - 1 : us[j] = IF j < i THEN vs[j] ELSE vs[j + 1]
    BY <1>1, RemoveAtFacts
  <2>2. DOMAIN us = 1 .. Len(vs) - 1
    BY <2>1, <1>1
  <2> QED
    BY <2>1, <2>2
<1> HIDE DEF us
<1>3. \A j \in 1 .. Len(vs) - 1 : o(j) \in DOMAIN vs /\ o(j) # i
  BY <1>1
<1>4. \A j, k \in 1 .. Len(vs) - 1 : j < k => o(j) < o(k)
  BY <1>1
<1> HIDE DEF o
<1>5. Proper(us)
  <2>1. ASSUME NEW j \in DOMAIN us, NEW k \in DOMAIN us, j < k
        PROVE  us[j].no < us[k].no /\ us[j].caller # us[k].caller
    <3>1. o(j) \in DOMAIN vs /\ o(k) \in DOMAIN vs /\ o(j) < o(k)
      BY <1>2, <1>3, <1>4, <2>1
    <3>2. vs[o(j)].no < vs[o(k)].no /\ vs[o(j)].caller # vs[o(k)].caller
      BY <3>1 DEF Proper
    <3> QED
      BY <1>2, <3>2
  <2> QED
    BY <1>2, <2>1 DEF Proper
<1>6. \A j \in DOMAIN us : \E k \in DOMAIN vs : us[j] = vs[k] /\ k # i
  BY <1>2, <1>3
<1>7. \A j \in DOMAIN us : us[j].caller # vs[i].caller
  <2> SUFFICES ASSUME NEW j \in DOMAIN us
               PROVE  us[j].caller # vs[i].caller
    OBVIOUS
  <2>1. PICK k \in DOMAIN vs : us[j] = vs[k] /\ k # i
    BY <1>6
  <2>2. k < i \/ i < k
    BY <1>1, <2>1
  <2> QED
    BY <2>1, <2>2 DEF Proper
<1> QED
  BY <1>5, <1>6, <1>7 DEF us

LEMMA ShorterByCaller ==
    ASSUME NEW vs, Proper(vs), NEW c
    PROVE  /\ Proper(WithoutVoteOf(vs, c))
           /\ \A j \in DOMAIN WithoutVoteOf(vs, c) :
                 /\ \E k \in DOMAIN vs : WithoutVoteOf(vs, c)[j] = vs[k]
                 /\ WithoutVoteOf(vs, c)[j].caller # c
<1> DEFINE called == {i \in DOMAIN vs : vs[i].caller = c}
<1>1. CASE called = {}
  <2>1. WithoutVoteOf(vs, c) = vs
    BY <1>1 DEF WithoutVoteOf
  <2> QED
    BY <1>1, <2>1
<1>2. CASE called # {}
  <2> DEFINE i == CHOOSE i \in called : TRUE
  <2>1. i \in called
    BY <1>2
  <2>2. WithoutVoteOf(vs, c) = RemoveAt(vs, i)
    BY <1>2 DEF WithoutVoteOf
  <2> HIDE DEF i
  <2>3. i \in DOMAIN vs /\ vs[i].caller = c
    BY <2>1
  <2> QED
    BY <2>2, <2>3, Shorter
<1> QED
  BY <1>1, <1>2

\* The first vote has the least number.
LEMMA FirstIsLeast ==
    ASSUME NEW vs, Proper(vs), NEW j \in DOMAIN vs
    PROVE  First(vs) \in 1 .. vs[j].no
<1>1. /\ vs \in Seq(Votes) /\ DOMAIN vs = 1 .. Len(vs) /\ Len(vs) \in Nat
      /\ 1 \in DOMAIN vs /\ vs # <<>>
  BY DEF Proper
<1>2. First(vs) = vs[1].no
  BY <1>1 DEF First
<1>3. vs[1] \in Votes /\ vs[j] \in Votes
  BY <1>1
<1>4. vs[1].no \in Nat \ {0} /\ vs[j].no \in Nat
  BY <1>3 DEF Votes
<1>5. j = 1 \/ vs[1].no < vs[j].no
  BY <1>1 DEF Proper
<1> QED
  BY <1>2, <1>4, <1>5

LEMMA FirstType ==
    ASSUME NEW vs, Proper(vs)
    PROVE  First(vs) \in 0 .. MaxVotes
<1>1. CASE vs = <<>>
  BY <1>1 DEF First, End
<1>2. CASE vs # <<>>
  <2>1. vs \in Seq(Votes) /\ vs[1] \in Votes /\ First(vs) = vs[1].no
    BY <1>2 DEF Proper, First
  <2> QED
    BY <2>1 DEF Votes
<1> QED
  BY <1>1, <1>2

LEMMA Replaced ==
    ASSUME NEW S, NEW q \in Seq(S), NEW i \in DOMAIN q, NEW x \in S
    PROVE  /\ [q EXCEPT ![i] = x] \in Seq(S)
           /\ DOMAIN [q EXCEPT ![i] = x] = DOMAIN q
           /\ [q EXCEPT ![i] = x][i] = x
           /\ \A j \in DOMAIN q : j # i => [q EXCEPT ![i] = x][j] = q[j]
OBVIOUS

\* The same list, but for the i-th vote.
Changed(us, vs, i) ==
    /\ us \in Seq(Votes) /\ DOMAIN us = DOMAIN vs
    /\ \A j \in DOMAIN vs : j # i => us[j] = vs[j]
    /\ us[i].no = vs[i].no /\ us[i].caller = vs[i].caller
    /\ us[i].removes = vs[i].removes

LEMMA ChangedProper ==
    ASSUME NEW vs, Proper(vs), NEW i \in DOMAIN vs, NEW us, Changed(us, vs, i)
    PROVE  Proper(us)
<1>1. \A j \in DOMAIN vs : us[j].no = vs[j].no /\ us[j].caller = vs[j].caller
  BY DEF Changed
<1> QED
  BY <1>1 DEF Changed, Proper

\* What connection_vote makes of the list.
Recast(vs, i, c, b) == [vs EXCEPT ![i].casts[c] = b, ![i].said[c] = b]

LEMMA CastFacts ==
    ASSUME NEW vs, Proper(vs), NEW i \in DOMAIN vs, NEW c \in Conns, NEW b \in Ballots,
           NEW us, us = Recast(vs, i, c, b)
    PROVE  /\ Changed(us, vs, i) /\ us[i].turns = vs[i].turns
           /\ us[i].casts = [vs[i].casts EXCEPT ![c] = b]
           /\ us[i].said = [vs[i].said EXCEPT ![c] = b]
<1>1. /\ vs \in Seq(Votes) /\ vs[i] \in Votes
      /\ DOMAIN vs = 1 .. Len(vs) /\ Len(vs) \in Nat
  BY DEF Proper
<1> DEFINE v == [[vs[i] EXCEPT !.casts[c] = b] EXCEPT !.said[c] = b]
<1>2. us = [vs EXCEPT ![i] = v]
  BY <1>1 DEF Recast
<1>3. /\ v \in Votes /\ v.no = vs[i].no /\ v.caller = vs[i].caller
      /\ v.removes = vs[i].removes /\ v.turns = vs[i].turns
      /\ v.casts = [vs[i].casts EXCEPT ![c] = b]
      /\ v.said = [vs[i].said EXCEPT ![c] = b]
  BY <1>1 DEF Votes
<1> HIDE DEF v
<1>4. us \in Seq(Votes) /\ DOMAIN us = DOMAIN vs /\ us[i] = v
      /\ \A j \in DOMAIN vs : j # i => us[j] = vs[j]
  <2>1. v \in Votes
    BY <1>3
  <2> QED
    BY <1>1, <1>2, <2>1, Replaced
<1> QED
  BY <1>3, <1>4 DEF Changed

\* What the loop of cancel_connection_votes makes of it.
Uncast(vs, i, c) == [vs EXCEPT ![i].casts[c] = "none"]

LEMMA UncastFacts ==
    ASSUME NEW vs, Proper(vs), NEW i \in DOMAIN vs, NEW c \in Conns,
           NEW us, us = Uncast(vs, i, c)
    PROVE  /\ Changed(us, vs, i) /\ us[i].turns = vs[i].turns
           /\ us[i].casts = [vs[i].casts EXCEPT ![c] = "none"]
           /\ us[i].said = vs[i].said
<1>1. /\ vs \in Seq(Votes) /\ vs[i] \in Votes
      /\ DOMAIN vs = 1 .. Len(vs) /\ Len(vs) \in Nat
  BY DEF Proper
<1> DEFINE v == [vs[i] EXCEPT !.casts[c] = "none"]
<1>2. us = [vs EXCEPT ![i] = v]
  BY <1>1 DEF Uncast
<1>3. /\ v \in Votes /\ v.no = vs[i].no /\ v.caller = vs[i].caller
      /\ v.removes = vs[i].removes /\ v.turns = vs[i].turns
      /\ v.casts = [vs[i].casts EXCEPT ![c] = "none"]
      /\ v.said = vs[i].said
  BY <1>1 DEF Votes, Ballots
<1> HIDE DEF v
<1>4. us \in Seq(Votes) /\ DOMAIN us = DOMAIN vs /\ us[i] = v
      /\ \A j \in DOMAIN vs : j # i => us[j] = vs[j]
  <2>1. v \in Votes
    BY <1>3
  <2> QED
    BY <1>1, <1>2, <2>1, Replaced
<1> QED
  BY <1>3, <1>4 DEF Changed

\* What voting_turn makes of it.
Aged(vs, i) == [vs EXCEPT ![i].turns = Older(@)]

LEMMA OlderFacts ==
    ASSUME NEW vs, Proper(vs), NEW i \in DOMAIN vs,
           NEW us, us = Aged(vs, i)
    PROVE  /\ Changed(us, vs, i)
           /\ us[i].turns = Older(vs[i].turns)
           /\ us[i].casts = vs[i].casts /\ us[i].said = vs[i].said
<1>1. /\ vs \in Seq(Votes) /\ vs[i] \in Votes
      /\ DOMAIN vs = 1 .. Len(vs) /\ Len(vs) \in Nat
  BY DEF Proper
<1> DEFINE v == [vs[i] EXCEPT !.turns = Older(vs[i].turns)]
<1>2. us = [vs EXCEPT ![i] = v]
  BY <1>1 DEF Aged
<1>3. /\ v \in Votes /\ v.no = vs[i].no /\ v.caller = vs[i].caller
      /\ v.removes = vs[i].removes /\ v.turns = Older(vs[i].turns)
      /\ v.casts = vs[i].casts /\ v.said = vs[i].said
  <2>1. vs[i].turns \in 0 .. 2
    BY <1>1 DEF Votes
  <2>2. Older(vs[i].turns) \in 0 .. 2
    BY <2>1 DEF Older
  <2> QED
    BY <1>1, <2>2 DEF Votes
<1> HIDE DEF v
<1>4. us \in Seq(Votes) /\ DOMAIN us = DOMAIN vs /\ us[i] = v
      /\ \A j \in DOMAIN vs : j # i => us[j] = vs[j]
  <2>1. v \in Votes
    BY <1>3
  <2> QED
    BY <1>1, <1>2, <2>1, Replaced
<1> QED
  BY <1>3, <1>4 DEF Changed

-----------------------------------------------------------------------------
(***************************************************************************)
(* What the handlers do to good votes.                                     *)
(***************************************************************************)
LEMMA OwedAppend ==
    ASSUME NEW stack \in Seq(Loops), NEW l \in Loops, NEW c, NEW n
    PROVE  /\ Owed(stack, c, n) => Owed(Append(stack, l), c, n)
           /\ l.who = c /\ 0 < l.at /\ l.at <= n => Owed(Append(stack, l), c, n)
<1>1. /\ Len(stack) \in Nat /\ DOMAIN stack = 1 .. Len(stack)
      /\ DOMAIN Append(stack, l) = 1 .. Len(stack) + 1
      /\ \A k \in 1 .. Len(stack) : Append(stack, l)[k] = stack[k]
      /\ Append(stack, l)[Len(stack) + 1] = l
  OBVIOUS
<1>2. Len(stack) + 1 \in DOMAIN Append(stack, l)
      /\ \A k \in DOMAIN stack : k \in DOMAIN Append(stack, l)
  BY <1>1
<1> QED
  BY <1>1, <1>2 DEF Owed

\* The connection that is detached leaves nothing in the votes but the casts
\* that the new loop takes back.
LEMMA DetachGood ==
    ASSUME attached \subseteq Conns, demoted \subseteq attached,
           NEW c \in Conns, NEW vs, Proper(vs), NEW stack \in Seq(Loops),
           \A k \in DOMAIN stack : stack[k].who \notin attached,
           NEW cls, NEW cls2, cls2 \subseteq cls, cls \subseteq cls2 \cup {c},
           AllGood(vs, attached, cls, stack),
           Detach(c, vs, stack)
    PROVE  /\ Proper(votes')
           /\ AllGood(votes', attached', cls2, loops')
           /\ \A j \in DOMAIN votes' : \E k \in DOMAIN vs : votes'[j].no = vs[k].no
           /\ loops' \in Seq(Loops)
           /\ \A k \in DOMAIN loops' : loops'[k].who \notin attached'
           /\ attached' \subseteq attached /\ demoted' \subseteq attached'
<1> DEFINE others == WithoutVoteOf(vs, c)
           l == [who |-> c, at |-> First(others)]
<1>1. /\ Proper(others)
      /\ \A j \in DOMAIN others : /\ \E k \in DOMAIN vs : others[j] = vs[k]
                                  /\ others[j].caller # c
  BY ShorterByCaller
<1>2. /\ attached' = attached \ {c} /\ demoted' = demoted \ {c}
      /\ votes' = [i \in DOMAIN others |-> [others[i] EXCEPT !.said[c] = "none"]]
      /\ loops' = Append(stack, l)
  BY DEF Detach
<1>3. l \in Loops /\ l.who = c
  BY <1>1, FirstType DEF Loops
<1>4. \A j \in DOMAIN others : l.at \in 1 .. others[j].no
  BY <1>1, FirstIsLeast
<1> HIDE DEF others, l
<1>5. /\ others \in Seq(Votes) /\ Len(others) \in Nat
      /\ DOMAIN others = 1 .. Len(others)
  BY <1>1 DEF Proper
<1>6. ASSUME NEW j \in DOMAIN others
      PROVE  /\ votes'[j] \in Votes
             /\ votes'[j].no = others[j].no /\ votes'[j].caller = others[j].caller
             /\ votes'[j].casts = others[j].casts
             /\ \A d \in Conns : votes'[j].said[d] =
                                    IF d = c THEN "none" ELSE others[j].said[d]
  <2>1. others[j] \in Votes
    BY <1>5
  <2> DEFINE v == [others[j] EXCEPT !.said[c] = "none"]
  <2>3. /\ v \in Votes
        /\ v.no = others[j].no /\ v.caller = others[j].caller
        /\ v.casts = others[j].casts
        /\ v.said = [others[j].said EXCEPT ![c] = "none"]
    BY <2>1 DEF Votes, Ballots
  <2>2. votes'[j] = v
    BY <1>2
  <2>4. others[j].said \in [Conns -> Ballots]
    BY <2>1 DEF Votes
  <2> HIDE DEF v
  <2> QED
    BY <2>2, <2>3, <2>4
<1>7. DOMAIN votes' = DOMAIN others /\ votes' \in Seq(Votes)
  <2>1. DOMAIN votes' = 1 .. Len(others) /\ Len(others) \in Nat
    BY <1>2, <1>5
  <2>2. \A j \in 1 .. Len(others) : votes'[j] \in Votes
    BY <1>5, <1>6
  <2>3. votes' = [j \in 1 .. Len(others) |-> votes'[j]]
    BY <1>2, <1>5
  <2> QED
    BY <1>5, <2>1, <2>2, <2>3
<1>8. Proper(votes')
  BY <1>1, <1>6, <1>7 DEF Proper
<1>9. loops' \in Seq(Loops)
  BY <1>2, <1>3
<1>10. \A k \in DOMAIN loops' : loops'[k].who \notin attached'
  <2>1. /\ Len(stack) \in Nat /\ DOMAIN stack = 1 .. Len(stack)
        /\ DOMAIN loops' = 1 .. Len(stack) + 1
        /\ \A k \in 1 .. Len(stack) : loops'[k] = stack[k]
        /\ loops'[Len(stack) + 1] = l
    BY <1>2, <1>3
  <2> QED
    BY <1>2, <1>3, <2>1
<1>11. ASSUME NEW j \in DOMAIN votes'
       PROVE  /\ Good(votes'[j], attached', cls2, loops')
              /\ \E k \in DOMAIN vs : votes'[j].no = vs[k].no
  <2>1. j \in DOMAIN others
    BY <1>7
  <2>2. PICK k \in DOMAIN vs : others[j] = vs[k]
    BY <1>1, <2>1
  <2>3. Good(others[j], attached, cls, stack)
    BY <2>2 DEF AllGood
  <2>4. votes'[j].caller \in attached' \cup cls2
    <3>1. others[j].caller \in attached \cup cls
      BY <2>3 DEF Good
    <3>2. votes'[j].caller = others[j].caller /\ others[j].caller # c
      BY <1>1, <1>6, <2>1
    <3> QED
      BY <1>2, <3>1, <3>2
  <2>5. ASSUME NEW d \in Conns, votes'[j].casts[d] # "none"
        PROVE  d \in attached' \cup cls2 \/ Owed(loops', d, votes'[j].no)
    <3>1. d \in attached \cup cls \/ Owed(stack, d, others[j].no)
      BY <1>6, <2>1, <2>3, <2>5 DEF Good
    <3>2. CASE d = c
      <4>1. 0 < l.at /\ l.at <= others[j].no
        <5>1. others[j] \in Votes /\ l.at \in 1 .. others[j].no
          BY <1>4, <1>5, <2>1
        <5> QED
          BY <5>1 DEF Votes
      <4> QED
        BY <1>2, <1>3, <1>6, <2>1, <3>2, <4>1, OwedAppend
    <3>3. CASE d # c
      BY <1>2, <1>3, <1>6, <2>1, <3>1, <3>3, OwedAppend
    <3> QED
      BY <3>2, <3>3
  <2>6. ASSUME NEW d \in Conns
        PROVE  /\ d \in attached' => votes'[j].said[d] = votes'[j].casts[d]
               /\ d \notin attached' \cup cls2 => votes'[j].said[d] = "none"
    <3>1. /\ d \in attached => others[j].said[d] = others[j].casts[d]
          /\ d \notin attached \cup cls => others[j].said[d] = "none"
      BY <2>3 DEF Good
    <3>2. /\ votes'[j].casts[d] = others[j].casts[d]
          /\ votes'[j].said[d] = IF d = c THEN "none" ELSE others[j].said[d]
      BY <1>6, <2>1
    <3> QED
      BY <1>2, <3>1, <3>2
  <2>7. Good(votes'[j], attached', cls2, loops')
    BY <2>4, <2>5, <2>6 DEF Good
  <2> QED
    BY <1>6, <2>1, <2>2, <2>7
<1> QED
  BY <1>2, <1>8, <1>9, <1>10, <1>11 DEF AllGood

\* A check leaves good votes, whatever its command does.
LEMMA CheckVoteGood ==
    ASSUME attached \subseteq Conns, demoted \subseteq attached,
           NEW vs, Proper(vs), NEW i \in DOMAIN vs, NEW stack \in Seq(Loops),
           \A k \in DOMAIN stack : stack[k].who \notin attached,
           NEW cls,
           \A j \in DOMAIN vs : Good(vs[j], attached, cls, stack),
           CheckVote(vs, i, stack)
    PROVE  /\ Proper(votes')
           /\ \A j \in DOMAIN votes' : /\ Good(votes'[j], attached', cls, loops')
                                       /\ \E k \in DOMAIN vs : votes'[j].no = vs[k].no
           /\ loops' \in Seq(Loops)
           /\ \A k \in DOMAIN loops' : loops'[k].who \notin attached'
           /\ attached' \subseteq attached /\ demoted' \subseteq attached'
           /\ freed' = freed \/ freed' \in BOOLEAN
<1>1. CASE ~ Resolves(vs[i])
  BY <1>1 DEF CheckVote
<1>2. CASE Resolves(vs[i]) /\ (~ EnoughYes(vs[i]) \/ vs[i].removes \notin attached)
  <2>1. /\ votes' = RemoveAt(vs, i) /\ loops' = stack
        /\ attached' = attached /\ demoted' = demoted /\ freed' \in BOOLEAN
    BY <1>2 DEF CheckVote
  <2>2. /\ Proper(votes')
        /\ \A j \in DOMAIN votes' : \E k \in DOMAIN vs : votes'[j] = vs[k]
    BY <2>1, Shorter
  <2> QED
    BY <2>1, <2>2
<1>3. CASE Resolves(vs[i]) /\ EnoughYes(vs[i]) /\ vs[i].removes \in attached
  <2> DEFINE us == RemoveAt(vs, i)
             c == vs[i].removes
  <2>1. Detach(c, us, stack) /\ freed' = freed
    BY <1>3 DEF CheckVote
  <2>2. /\ Proper(us)
        /\ \A j \in DOMAIN us : \E k \in DOMAIN vs : us[j] = vs[k]
    BY Shorter
  <2>3. c \in Conns
    BY <1>3
  <2> HIDE DEF us, c
  <2>4. AllGood(us, attached, cls, stack)
    BY <2>2 DEF AllGood
  <2>5. /\ Proper(votes')
        /\ AllGood(votes', attached', cls, loops')
        /\ \A j \in DOMAIN votes' : \E k \in DOMAIN us : votes'[j].no = us[k].no
        /\ loops' \in Seq(Loops)
        /\ \A k \in DOMAIN loops' : loops'[k].who \notin attached'
        /\ attached' \subseteq attached /\ demoted' \subseteq attached'
    BY <2>1, <2>2, <2>3, <2>4, DetachGood
  <2>6. \A j \in DOMAIN votes' : \E k \in DOMAIN vs : votes'[j].no = vs[k].no
    BY <2>2, <2>5
  <2> QED
    BY <2>1, <2>5, <2>6 DEF AllGood
<1> QED
  BY <1>1, <1>2, <1>3

-----------------------------------------------------------------------------
(***************************************************************************)
(* Each loop moves its iterator on before it changes a vote.               *)
(***************************************************************************)
Top == loops[Len(loops)]
NextAt(i) == IF i = Len(votes) THEN End ELSE votes[i + 1].no
Moved(i) == Append(Front(loops), [Top EXCEPT !.at = NextAt(i)])

LEMMA Below ==
    ASSUME NEW n \in Nat, NEW k \in 1 .. n, k # n
    PROVE  k \in 1 .. n - 1
OBVIOUS

LEMMA MovedFacts ==
    ASSUME Types, loops # <<>>, NEW i \in DOMAIN votes
    PROVE  /\ Top \in Loops /\ Top.who \notin attached
           /\ Moved(i) \in Seq(Loops) /\ Len(Moved(i)) = Len(loops)
           /\ \A k \in DOMAIN loops : k # Len(loops) => Moved(i)[k] = loops[k]
           /\ Moved(i)[Len(loops)].who = Top.who
           /\ Moved(i)[Len(loops)].at = NextAt(i)
           /\ \A k \in DOMAIN Moved(i) : Moved(i)[k].who \notin attached
<1>1. /\ loops \in Seq(Loops) /\ Len(loops) \in Nat \ {0}
      /\ DOMAIN loops = 1 .. Len(loops)
      /\ \A k \in DOMAIN loops : loops[k].who \notin attached
  BY EmptySeq, LenProperties DEF Types
<1>2. Top \in Loops /\ Top.who \notin attached
  BY <1>1 DEF Top
<1>3. NextAt(i) \in 0 .. MaxVotes
  <2>1. /\ votes \in Seq(Votes) /\ DOMAIN votes = 1 .. Len(votes) /\ Len(votes) \in Nat
    BY DEF Types, Proper
  <2>2. CASE i = Len(votes)
    BY <2>2 DEF NextAt, End
  <2>3. CASE i # Len(votes)
    <3>1. votes[i + 1] \in Votes
      BY <2>1, <2>3
    <3> QED
      BY <2>3, <3>1 DEF NextAt, Votes
  <2> QED
    BY <2>2, <2>3
<1> DEFINE l == [Top EXCEPT !.at = NextAt(i)]
           f == Front(loops)
<1>4. l \in Loops /\ l.who = Top.who /\ l.at = NextAt(i)
  BY <1>2, <1>3 DEF Loops
<1>5. /\ f \in Seq(Loops) /\ Len(f) = Len(loops) - 1
      /\ \A k \in 1 .. Len(loops) - 1 : f[k] = loops[k]
  <2>1. f = SubSeq(loops, 1, Len(loops) - 1)
    BY DEF Front
  <2> QED
    BY <1>1, <2>1, SubSeqProperties
<1>6. Moved(i) = Append(f, l)
  BY DEF Moved
<1> HIDE DEF l, f
<1>7. /\ Moved(i) \in Seq(Loops) /\ Len(Moved(i)) = Len(loops)
      /\ \A k \in 1 .. Len(loops) - 1 : Moved(i)[k] = loops[k]
      /\ Moved(i)[Len(loops)] = l
      /\ DOMAIN Moved(i) = 1 .. Len(loops)
  <2>1. Len(f) + 1 = Len(loops) /\ Len(f) \in Nat
    BY <1>1, <1>5
  <2>2. /\ Append(f, l) \in Seq(Loops) /\ Len(Append(f, l)) = Len(f) + 1
        /\ \A k \in 1 .. Len(f) : Append(f, l)[k] = f[k]
        /\ Append(f, l)[Len(f) + 1] = l
        /\ DOMAIN Append(f, l) = 1 .. Len(f) + 1
    BY <1>4, <1>5
  <2> QED
    BY <1>5, <1>6, <2>1, <2>2
<1>8. \A k \in DOMAIN Moved(i) : Moved(i)[k].who \notin attached
  <2> SUFFICES ASSUME NEW k \in 1 .. Len(loops)
               PROVE  Moved(i)[k].who \notin attached
    BY <1>7
  <2>1. CASE k = Len(loops)
    BY <1>2, <1>4, <1>7, <2>1
  <2>2. CASE k # Len(loops)
    <3>1. k \in 1 .. Len(loops) - 1 /\ k \in DOMAIN loops
      BY <1>1, <2>2, Below
    <3> QED
      BY <1>1, <1>7, <3>1
  <2> QED
    BY <2>1, <2>2
<1>9. \A k \in DOMAIN loops : k # Len(loops) => Moved(i)[k] = loops[k]
  <2> SUFFICES ASSUME NEW k \in 1 .. Len(loops), k # Len(loops)
               PROVE  Moved(i)[k] = loops[k]
    BY <1>1
  <2>1. k \in 1 .. Len(loops) - 1
    BY <1>1, Below
  <2> QED
    BY <1>7, <2>1
<1> QED
  BY <1>1, <1>2, <1>4, <1>7, <1>8, <1>9

\* What the loop owed it still owes, but for the vote it is at.
LEMMA MovedOwes ==
    ASSUME Types, loops # <<>>, NEW i \in DOMAIN votes, votes[i].no = Top.at,
           NEW j \in DOMAIN votes, NEW c, Owed(loops, c, votes[j].no)
    PROVE  Owed(Moved(i), c, votes[j].no) \/ (j = i /\ c = Top.who)
<1>1. /\ loops \in Seq(Loops) /\ Len(loops) \in Nat \ {0}
      /\ DOMAIN loops = 1 .. Len(loops)
  BY EmptySeq, LenProperties DEF Types
<1>2. /\ votes \in Seq(Votes) /\ DOMAIN votes = 1 .. Len(votes) /\ Len(votes) \in Nat
      /\ \A k \in DOMAIN votes : votes[k] \in Votes
  BY DEF Types, Proper
<1>3. PICK k \in DOMAIN loops :
         loops[k].who = c /\ 0 < loops[k].at /\ loops[k].at <= votes[j].no
  BY DEF Owed
<1>4. DOMAIN Moved(i) = 1 .. Len(loops)
  BY <1>1, MovedFacts
<1>5. CASE k # Len(loops)
  <2>1. Moved(i)[k] = loops[k] /\ k \in DOMAIN Moved(i)
    BY <1>1, <1>4, <1>5, MovedFacts
  <2> QED
    BY <1>3, <2>1 DEF Owed
<1>6. CASE k = Len(loops)
  <2>1. c = Top.who /\ votes[i].no <= votes[j].no
    BY <1>3, <1>6 DEF Top
  <2>2. CASE j < i
    <3>1. votes[j].no < votes[i].no
      BY <2>2 DEF Types, Proper
    <3>2. votes[j].no \in Int /\ votes[i].no \in Int
      BY <1>2 DEF Votes
    <3> QED
      BY <2>1, <3>1, <3>2
  <2>3. CASE i < j
    <3>1. i # Len(votes) /\ i + 1 \in DOMAIN votes /\ (i + 1 = j \/ i + 1 < j)
      BY <1>2, <2>3
    <3>2. votes[i + 1].no \in Nat \ {0} /\ votes[j].no \in Nat
      BY <1>2, <3>1 DEF Votes
    <3>3. votes[i + 1].no <= votes[j].no
      BY <3>1, <3>2 DEF Types, Proper
    <3>4. NextAt(i) = votes[i + 1].no
      BY <3>1 DEF NextAt
    <3>5. /\ Len(loops) \in DOMAIN Moved(i)
          /\ Moved(i)[Len(loops)].who = c /\ Moved(i)[Len(loops)].at = NextAt(i)
      BY <1>1, <1>4, <2>1, MovedFacts
    <3>6. 0 < Moved(i)[Len(loops)].at /\ Moved(i)[Len(loops)].at <= votes[j].no
      BY <3>2, <3>3, <3>4, <3>5
    <3> QED
      BY <3>5, <3>6 DEF Owed
  <2>4. CASE i = j
    BY <2>1, <2>4
  <2> QED
    BY <1>2, <2>2, <2>3, <2>4
<1> QED
  BY <1>5, <1>6

\* The list us on which the body of the loop runs its check.
Visited(us, i) ==
    /\ Changed(us, votes, i)
    /\ us[i].said = votes[i].said
    /\ \/ /\ us[i].casts = votes[i].casts
          /\ Top.who \in Conns => votes[i].casts[Top.who] = "none"
       \/ Top.who \in Conns /\ us[i].casts = [votes[i].casts EXCEPT ![Top.who] = "none"]

LEMMA VisitFacts ==
    ASSUME Types, NEW i \in DOMAIN votes, VisitVote(i)
    PROVE  /\ loops # <<>> /\ ~ freed /\ votes[i].no = Top.at
           /\ UNCHANGED <<started, last, closing>>
           /\ \/ /\ loops' = Moved(i)
                 /\ Top.who \in Conns /\ votes[i].casts[Top.who] = "none"
                 /\ UNCHANGED <<attached, demoted, votes, freed>>
              \/ \E us : /\ Visited(us, i) /\ CheckVote(us, i, Moved(i))
                         /\ us[i].turns = IF Top.who = Turn THEN Older(votes[i].turns)
                                          ELSE votes[i].turns
<1>1. /\ loops # <<>> /\ ~ freed /\ votes[i].no = Top.at
      /\ UNCHANGED <<started, last, closing>>
      /\ Body(Top.who, i, Moved(i))
  BY DEF VisitVote, Top, Moved, NextAt
<1>2. Top.who \in Conns \cup {Turn}
  BY <1>1, MovedFacts DEF Loops
<1>3. CASE Top.who = Turn
  <2>1. CheckVote(Aged(votes, i), i, Moved(i))
    BY <1>1, <1>3 DEF Body, Aged
  <2> DEFINE us == Aged(votes, i)
  <2>a. us = Aged(votes, i) /\ Proper(votes)
    BY DEF Types
  <2> HIDE DEF us
  <2>2. /\ Changed(us, votes, i) /\ us[i].turns = Older(votes[i].turns)
        /\ us[i].casts = votes[i].casts /\ us[i].said = votes[i].said
    BY <2>a, OlderFacts
  <2>3. Top.who \notin Conns
    BY <1>3 DEF Turn
  <2>4. Visited(us, i)
    BY <2>2, <2>3 DEF Visited
  <2> QED
    BY <1>1, <1>3, <2>1, <2>2, <2>4 DEF us
<1>4. CASE Top.who # Turn /\ votes[i].casts[Top.who] = "none"
  BY <1>1, <1>2, <1>4 DEF Body
<1>5. CASE Top.who # Turn /\ votes[i].casts[Top.who] # "none"
  <2>1. CheckVote(Uncast(votes, i, Top.who), i, Moved(i))
    BY <1>1, <1>5 DEF Body, Uncast
  <2> DEFINE us == Uncast(votes, i, Top.who)
  <2>2. Top.who \in Conns
    BY <1>2, <1>5
  <2>a. us = Uncast(votes, i, Top.who) /\ Proper(votes)
    BY DEF Types
  <2> HIDE DEF us
  <2>3. /\ Changed(us, votes, i) /\ us[i].turns = votes[i].turns
        /\ us[i].casts = [votes[i].casts EXCEPT ![Top.who] = "none"]
        /\ us[i].said = votes[i].said
    <3>1. ASSUME NEW w \in Conns, us = Uncast(votes, i, w)
          PROVE  /\ Changed(us, votes, i) /\ us[i].turns = votes[i].turns
                 /\ us[i].casts = [votes[i].casts EXCEPT ![w] = "none"]
                 /\ us[i].said = votes[i].said
      BY <2>a, <3>1, UncastFacts
    <3> QED
      BY <2>2, <2>a, <3>1, Zenon
  <2>4. Visited(us, i)
    BY <2>2, <2>3 DEF Visited
  <2> QED
    BY <1>1, <1>5, <2>1, <2>3, <2>4 DEF us
<1> QED
  BY <1>3, <1>4, <1>5

-----------------------------------------------------------------------------
(***************************************************************************)
(* The invariant is inductive.                                             *)
(***************************************************************************)
LEMMA InitIInv == Init => IInv
<1> SUFFICES ASSUME Init PROVE IInv
  OBVIOUS
<1>1. Proper(votes) /\ DOMAIN votes = {}
  BY DEF Init, Proper
<1>2. loops \in Seq(Loops) /\ DOMAIN loops = {} /\ closing \in Seq(Conns \ attached)
  BY DEF Init
<1>3. /\ started \in BOOLEAN /\ freed \in BOOLEAN
      /\ attached \subseteq Conns /\ demoted \subseteq attached
  BY DEF Init
<1>4. last \in 0 .. MaxVotes
  BY DEF Init
<1> QED
  BY <1>1, <1>2, <1>3, <1>4 DEF IInv, Types, AllGood

LEMMA SeqWider ==
    ASSUME NEW S, NEW T, S \subseteq T, NEW q \in Seq(S)
    PROVE  q \in Seq(T)
<1>1. Len(q) \in Nat /\ q = [i \in 1 .. Len(q) |-> q[i]] /\ \A i \in 1 .. Len(q) : q[i] \in T
  BY LenProperties, ElementOfSeq
<1> QED
  BY <1>1

\* Nothing is under way between two handlers.
LEMMA IdleFacts ==
    ASSUME IInv, Idle
    PROVE  /\ closing = <<>> /\ Range(closing) = {} /\ loops = <<>> /\ DOMAIN loops = {}
           /\ loops \in Seq(Loops)
           /\ \A i \in DOMAIN votes : Good(votes[i], attached, {}, <<>>)
<1>1. closing = <<>> /\ loops = <<>>
  BY DEF Idle
<1>2. Range(closing) = {} /\ DOMAIN loops = {}
  BY <1>1 DEF Range
<1> QED
  BY <1>1, <1>2 DEF IInv, Types, AllGood

\* What a step has to keep, when connections leave at most.
LEMMA Kept ==
    ASSUME Types, started' \in BOOLEAN, freed' \in BOOLEAN,
           attached' \subseteq attached, demoted' \subseteq attached',
           Proper(votes'), loops' \in Seq(Loops), closing' = closing,
           \A k \in DOMAIN loops' : loops'[k].who \notin attached',
           last' \in 0 .. MaxVotes, \A j \in DOMAIN votes' : votes'[j].no <= last',
           \A j \in DOMAIN votes' :
               Good(votes'[j], attached', Range(closing), loops')
    PROVE  IInv'
<1>1. closing' \in Seq(Conns \ attached')
  BY SeqWider DEF Types
<1> QED
  BY <1>1 DEF IInv, Types, AllGood

LEMMA DetachKeeps ==
    ASSUME IInv, Idle, NEW c \in Conns, Detach(c, votes, <<>>),
           UNCHANGED <<started, last, closing, freed>>
    PROVE  IInv'
<1>1. /\ Range(closing) = {} /\ <<>> \in Seq(Loops) /\ DOMAIN <<>> = {}
      /\ \A i \in DOMAIN votes : Good(votes[i], attached, {}, <<>>)
  BY IdleFacts
<1>2. attached \subseteq Conns /\ demoted \subseteq attached /\ Proper(votes)
  BY DEF IInv, Types, AllGood
<1>3. /\ \A k \in DOMAIN <<>> : <<>>[k].who \notin attached
      /\ AllGood(votes, attached, {}, <<>>)
  BY <1>1 DEF AllGood
<1>4. /\ Proper(votes')
      /\ AllGood(votes', attached', {}, loops')
      /\ \A j \in DOMAIN votes' : \E k \in DOMAIN votes : votes'[j].no = votes[k].no
      /\ loops' \in Seq(Loops)
      /\ \A k \in DOMAIN loops' : loops'[k].who \notin attached'
      /\ attached' \subseteq attached /\ demoted' \subseteq attached'
  BY <1>1, <1>2, <1>3, DetachGood
<1>5. \A j \in DOMAIN votes' : votes'[j].no <= last'
  BY <1>4 DEF IInv, Types, AllGood
<1>6. Types /\ started' \in BOOLEAN /\ freed' \in BOOLEAN /\ last' \in 0 .. MaxVotes
  BY DEF IInv, Types, AllGood
<1> QED
  BY <1>1, <1>4, <1>5, <1>6, Kept DEF AllGood

LEMMA CheckKeeps ==
    ASSUME IInv, NEW us, Proper(us), NEW i \in DOMAIN us, NEW stack \in Seq(Loops),
           \A k \in DOMAIN stack : stack[k].who \notin attached,
           \A j \in DOMAIN us : Good(us[j], attached, Range(closing), stack),
           CheckVote(us, i, stack),
           UNCHANGED <<started, closing>>,
           last' \in 0 .. MaxVotes, \A j \in DOMAIN us : us[j].no <= last'
    PROVE  IInv'
<1>1. attached \subseteq Conns /\ demoted \subseteq attached /\ Types
  BY DEF IInv, Types, AllGood
<1>2. /\ Proper(votes')
      /\ \A j \in DOMAIN votes' : /\ Good(votes'[j], attached', Range(closing), loops')
                                  /\ \E k \in DOMAIN us : votes'[j].no = us[k].no
      /\ loops' \in Seq(Loops)
      /\ \A k \in DOMAIN loops' : loops'[k].who \notin attached'
      /\ attached' \subseteq attached /\ demoted' \subseteq attached'
      /\ freed' = freed \/ freed' \in BOOLEAN
  BY <1>1, CheckVoteGood
<1>3. \A j \in DOMAIN votes' : votes'[j].no <= last'
  BY <1>2
<1>4. started' \in BOOLEAN /\ freed' \in BOOLEAN
  BY <1>2 DEF IInv, Types, AllGood
<1> QED
  BY <1>1, <1>2, <1>3, <1>4, Kept

\* The ballot of one who is there.
LEMMA CastGood ==
    ASSUME NEW vs, Proper(vs), NEW i \in DOMAIN vs, NEW c \in Conns, c \in attached,
           NEW b \in Ballots, NEW cls, NEW ls, Good(vs[i], attached, cls, ls),
           NEW us, us = Recast(vs, i, c, b)
    PROVE  Good(us[i], attached, cls, ls)
<1>1. /\ us[i].no = vs[i].no /\ us[i].caller = vs[i].caller
      /\ us[i].casts = [vs[i].casts EXCEPT ![c] = b]
      /\ us[i].said = [vs[i].said EXCEPT ![c] = b]
  BY CastFacts DEF Changed
<1>2. vs[i].casts \in [Conns -> Ballots] /\ vs[i].said \in [Conns -> Ballots]
  <2>1. vs[i] \in Votes
    BY DEF Proper
  <2> QED
    BY <2>1 DEF Votes
<1>3. ASSUME NEW d \in Conns
      PROVE  /\ us[i].casts[d] = IF d = c THEN b ELSE vs[i].casts[d]
             /\ us[i].said[d] = IF d = c THEN b ELSE vs[i].said[d]
  BY <1>1, <1>2
<1> QED
  BY <1>1, <1>3 DEF Good

LEMMA CallVoteKeeps ==
    ASSUME IInv, NEW c \in Conns, NEW removes \in Targets \cup {Nobody},
           CallVote(c, removes)
    PROVE  IInv'
<1> DEFINE others == WithoutVoteOf(votes, c)
           blank == [d \in Conns |-> "none"]
           new == [no |-> last + 1, caller |-> c, removes |-> removes,
                   turns |-> 0, casts |-> blank, said |-> blank]
           vs == Append(others, new)
           n == Len(others) + 1
           us == Recast(vs, n, c, "yes")
<1>1. /\ Idle /\ last < MaxVotes /\ c \in attached /\ last' = last + 1
      /\ CheckVote(us, n, <<>>)
      /\ UNCHANGED <<started, closing>>
  BY DEF CallVote, Cast, CanVote, Recast
<1>2. /\ Proper(votes) /\ last \in Nat /\ \A j \in DOMAIN votes : votes[j].no <= last
  BY DEF IInv, Types, AllGood
<1>3. /\ Proper(others)
      /\ \A j \in DOMAIN others : /\ \E k \in DOMAIN votes : others[j] = votes[k]
                                  /\ others[j].caller # c
  BY <1>2, ShorterByCaller
<1>4. /\ Range(closing) = {} /\ <<>> \in Seq(Loops) /\ DOMAIN <<>> = {}
      /\ \A k \in DOMAIN votes : Good(votes[k], attached, {}, <<>>)
  BY <1>1, IdleFacts
<1>5. new \in Votes
  <2>1. blank \in [Conns -> Ballots]
    BY DEF Ballots
  <2>2. last + 1 \in 1 .. MaxVotes
    BY <1>1, <1>2
  <2> HIDE DEF blank
  <2> QED
    BY <2>1, <2>2 DEF Votes
<1>6. new.no = last + 1 /\ new.caller = c /\ new.casts = blank /\ new.said = blank
  OBVIOUS
<1> HIDE DEF others, new
<1>7. others \in Seq(Votes) /\ Len(others) \in Nat /\ DOMAIN others = 1 .. Len(others)
  BY <1>3 DEF Proper
<1>8. /\ vs \in Seq(Votes) /\ DOMAIN vs = 1 .. n /\ vs[n] = new
      /\ \A j \in DOMAIN others : vs[j] = others[j]
  BY <1>5, <1>7
<1>9. n \in DOMAIN vs /\ \A j \in DOMAIN vs : j # n => j \in DOMAIN others
  BY <1>7, <1>8
<1> HIDE DEF n, vs
<1>10. \A j \in DOMAIN others : others[j].no < last + 1 /\ others[j].caller # c
  <2> SUFFICES ASSUME NEW j \in DOMAIN others
               PROVE  others[j].no < last + 1
    BY <1>3
  <2>1. others[j].no <= last /\ others[j] \in Votes
    BY <1>2, <1>3, <1>7
  <2> QED
    BY <1>2, <2>1 DEF Votes
<1>11. Proper(vs)
  <2> SUFFICES ASSUME NEW j \in DOMAIN vs, NEW k \in DOMAIN vs, j < k
               PROVE  vs[j].no < vs[k].no /\ vs[j].caller # vs[k].caller
    BY <1>8 DEF Proper
  <2>1. j # n
    BY <1>7, <1>8 DEF n
  <2>2. j \in DOMAIN others /\ vs[j] = others[j]
    BY <1>8, <1>9, <2>1
  <2>3. CASE k = n
    BY <1>6, <1>8, <1>10, <2>2, <2>3
  <2>4. CASE k # n
    <3>1. k \in DOMAIN others /\ vs[k] = others[k]
      BY <1>8, <1>9, <2>4
    <3> QED
      BY <1>3, <2>2, <3>1 DEF Proper
  <2> QED
    BY <2>3, <2>4
<1>12. Good(new, attached, {}, <<>>)
  BY <1>1, <1>6 DEF Good
<1>13. \A j \in DOMAIN vs : Good(vs[j], attached, {}, <<>>)
  BY <1>3, <1>4, <1>8, <1>9, <1>12
<1>14. \A j \in DOMAIN vs : vs[j].no <= last + 1
  <2> SUFFICES ASSUME NEW j \in DOMAIN vs
               PROVE  vs[j].no <= last + 1
    OBVIOUS
  <2>1. CASE j = n
    BY <1>2, <1>6, <1>8, <2>1
  <2>2. CASE j # n
    <3>1. j \in DOMAIN others /\ vs[j] = others[j] /\ others[j] \in Votes
      BY <1>7, <1>8, <1>9, <2>2
    <3>2. vs[j].no < last + 1 /\ vs[j].no \in Nat
      BY <1>10, <3>1 DEF Votes
    <3> QED
      BY <1>2, <3>2
  <2> QED
    BY <2>1, <2>2
<1>15. "yes" \in Ballots
  BY DEF Ballots
<1>16. Changed(us, vs, n)
  BY <1>9, <1>11, <1>15, CastFacts
<1>17. Good(us[n], attached, {}, <<>>)
  BY <1>1, <1>9, <1>11, <1>13, <1>15, CastGood
<1> HIDE DEF us
<1>18. /\ Proper(us) /\ DOMAIN us = DOMAIN vs
       /\ \A j \in DOMAIN us : us[j].no = vs[j].no
       /\ \A j \in DOMAIN us : Good(us[j], attached, Range(closing), <<>>)
  BY <1>4, <1>9, <1>11, <1>13, <1>16, <1>17, ChangedProper DEF Changed
<1>19. \A k \in DOMAIN <<>> : <<>>[k].who \notin attached
  BY <1>4
<1>20. last' \in 0 .. MaxVotes /\ \A j \in DOMAIN us : us[j].no <= last'
  BY <1>1, <1>2, <1>14, <1>18
<1> QED
  BY <1>1, <1>4, <1>9, <1>18, <1>19, <1>20, CheckKeeps

LEMMA SubmitVoteKeeps ==
    ASSUME IInv, NEW c \in Conns, NEW i \in DOMAIN votes,
           NEW b \in Ballots \ {"none"}, SubmitVote(c, i, b)
    PROVE  IInv'
<1> DEFINE us == Recast(votes, i, c, b)
<1>1. /\ Idle /\ c \in attached /\ last' = last
      /\ CheckVote(us, i, <<>>)
      /\ UNCHANGED <<started, closing>>
  BY DEF SubmitVote, Cast, CanVote, Recast
<1>2. /\ Proper(votes) /\ last \in 0 .. MaxVotes
      /\ \A j \in DOMAIN votes : votes[j].no <= last
  BY DEF IInv, Types, AllGood
<1>3. /\ Range(closing) = {} /\ <<>> \in Seq(Loops) /\ DOMAIN <<>> = {}
      /\ \A k \in DOMAIN votes : Good(votes[k], attached, {}, <<>>)
  BY <1>1, IdleFacts
<1>4. Changed(us, votes, i)
  BY <1>2, CastFacts
<1>5. Good(us[i], attached, {}, <<>>)
  BY <1>1, <1>2, <1>3, CastGood
<1> HIDE DEF us
<1>6. /\ Proper(us) /\ DOMAIN us = DOMAIN votes
      /\ \A j \in DOMAIN us : us[j].no = votes[j].no
      /\ \A j \in DOMAIN us : Good(us[j], attached, Range(closing), <<>>)
  BY <1>2, <1>3, <1>4, <1>5, ChangedProper DEF Changed
<1>7. \A k \in DOMAIN <<>> : <<>>[k].who \notin attached
  BY <1>3
<1> QED
  BY <1>1, <1>2, <1>3, <1>6, <1>7, CheckKeeps

\* A vote on which the body has run is good with the iterator moved on.
LEMMA VisitedGood ==
    ASSUME IInv, NEW i \in DOMAIN votes, loops # <<>>, votes[i].no = Top.at,
           NEW us, Visited(us, i)
    PROVE  \A j \in DOMAIN us : Good(us[j], attached, Range(closing), Moved(i))
<1> SUFFICES ASSUME NEW j \in DOMAIN us
             PROVE  Good(us[j], attached, Range(closing), Moved(i))
  OBVIOUS
<1>1. /\ Types /\ DOMAIN us = DOMAIN votes
      /\ us[j].no = votes[j].no /\ us[j].caller = votes[j].caller
      /\ us[j].said = votes[j].said
      /\ j # i => us[j] = votes[j]
  BY DEF IInv, Visited, Changed, AllGood
<1>2. Good(votes[j], attached, Range(closing), loops)
  BY <1>1 DEF IInv, AllGood
<1>3. Top.who \notin attached
  BY <1>1, MovedFacts
<1>4. votes[j] \in Votes
  BY <1>1 DEF Types, Proper
<1>5. votes[j].casts \in [Conns -> Ballots]
  BY <1>4 DEF Votes
<1>6. ASSUME NEW d \in Conns
      PROVE  /\ us[j].casts[d] # "none" =>
                    us[j].casts[d] = votes[j].casts[d] /\ (j # i \/ d # Top.who)
             /\ d \in attached => us[j].casts[d] = votes[j].casts[d]
  <2>1. CASE j # i
    BY <1>1, <2>1
  <2>2. CASE j = i /\ us[i].casts = votes[i].casts
                   /\ (Top.who \in Conns => votes[i].casts[Top.who] = "none")
    BY <2>2
  <2>3. CASE j = i /\ us[i].casts = [votes[i].casts EXCEPT ![Top.who] = "none"]
    BY <1>3, <1>5, <2>3
  <2> QED
    BY <2>1, <2>2, <2>3 DEF Visited
<1>7. ASSUME NEW d \in Conns, us[j].casts[d] # "none"
      PROVE  d \in attached \cup Range(closing) \/ Owed(Moved(i), d, us[j].no)
  <2>1. votes[j].casts[d] # "none" /\ (j # i \/ d # Top.who)
    BY <1>6, <1>7
  <2>2. d \in attached \cup Range(closing) \/ Owed(loops, d, votes[j].no)
    BY <1>2, <2>1 DEF Good
  <2> QED
    BY <1>1, <2>1, <2>2, MovedOwes
<1>8. ASSUME NEW d \in Conns
      PROVE  /\ d \in attached => us[j].said[d] = us[j].casts[d]
             /\ d \notin attached \cup Range(closing) => us[j].said[d] = "none"
  BY <1>1, <1>2, <1>6 DEF Good
<1>9. us[j].caller \in attached \cup Range(closing)
  BY <1>1, <1>2 DEF Good
<1> QED
  BY <1>7, <1>8, <1>9 DEF Good

LEMMA VisitVoteKeeps ==
    ASSUME IInv, NEW i \in DOMAIN votes, VisitVote(i)
    PROVE  IInv'
<1>1. /\ Types /\ Proper(votes) /\ last \in 0 .. MaxVotes
      /\ attached \subseteq Conns /\ demoted \subseteq attached
      /\ \A j \in DOMAIN votes : votes[j].no <= last
  BY DEF IInv, Types, AllGood
<1>2. /\ loops # <<>> /\ ~ freed /\ votes[i].no = Top.at
      /\ UNCHANGED <<started, last, closing>>
      /\ \/ /\ loops' = Moved(i)
            /\ Top.who \in Conns /\ votes[i].casts[Top.who] = "none"
            /\ UNCHANGED <<attached, demoted, votes, freed>>
         \/ \E us : Visited(us, i) /\ CheckVote(us, i, Moved(i))
  BY <1>1, VisitFacts
<1>3. Moved(i) \in Seq(Loops) /\ \A k \in DOMAIN Moved(i) : Moved(i)[k].who \notin attached
  BY <1>1, <1>2, MovedFacts
<1>4. ASSUME /\ loops' = Moved(i)
             /\ Top.who \in Conns /\ votes[i].casts[Top.who] = "none"
             /\ UNCHANGED <<attached, demoted, votes, freed>>
      PROVE  IInv'
  <2>1. Changed(votes, votes, i)
    BY <1>1 DEF Changed, Proper
  <2>2. Visited(votes, i)
    BY <1>4, <2>1 DEF Visited
  <2>3. \A j \in DOMAIN votes : Good(votes[j], attached, Range(closing), Moved(i))
    BY <1>2, <2>2, VisitedGood
  <2>4. started' \in BOOLEAN /\ freed' \in BOOLEAN
    BY <1>1, <1>2, <1>4 DEF Types
  <2> QED
    BY <1>1, <1>2, <1>3, <1>4, <2>3, <2>4, Kept
<1>5. ASSUME NEW us, Visited(us, i), CheckVote(us, i, Moved(i))
      PROVE  IInv'
  <2>1. Changed(us, votes, i)
    BY <1>5 DEF Visited
  <2>2. Proper(us) /\ DOMAIN us = DOMAIN votes /\ \A j \in DOMAIN us : us[j].no = votes[j].no
    BY <1>1, <2>1, ChangedProper DEF Changed
  <2>3. \A j \in DOMAIN us : Good(us[j], attached, Range(closing), Moved(i))
    BY <1>2, <1>5, VisitedGood
  <2>4. \A j \in DOMAIN us : us[j].no <= last'
    BY <1>1, <1>2, <2>2
  <2> QED
    BY <1>1, <1>2, <1>3, <1>5, <2>2, <2>3, <2>4, CheckKeeps
<1> QED
  BY <1>2, <1>4, <1>5

\* really_close_connections: what those who left had said, they still have to
\* take back.
LEMMA LoseConnectionsKeeps ==
    ASSUME IInv, NEW cs \in SUBSET attached, LoseConnections(cs)
    PROVE  IInv'
<1>1. /\ Idle /\ attached' = attached \ cs /\ demoted' = demoted \ cs
      /\ closing' \in SetToSeqs(cs)
      /\ UNCHANGED <<started, votes, last, loops, freed>>
  BY DEF LoseConnections
<1>2. Types
  BY DEF IInv, AllGood
<1>3. cs \subseteq Conns /\ IsFiniteSet(cs)
  BY <1>2, FS_Subset DEF Types
<1> DEFINE n == Cardinality(cs)
<1>4. n \in Nat
  BY <1>3, FS_CardinalityType
<1>5. /\ closing' \in [1 .. n -> cs]
      /\ \A i, j \in 1 .. n : i # j => closing'[i] # closing'[j]
  BY <1>1 DEF SetToSeqs
<1>6. closing' \in Seq(Conns \ attached')
  <2>1. closing' \in Seq(cs)
    BY <1>4, <1>5
  <2>2. cs \subseteq Conns \ attached'
    BY <1>1, <1>3
  <2> QED
    BY <2>1, <2>2, SeqWider
<1>7. Range(closing') = cs
  <2>1. closing' \in Injection(1 .. n, cs)
    BY <1>5 DEF Injection, IsInjective
  <2>2. IsFiniteSet(1 .. n) /\ Cardinality(1 .. n) = n
    BY <1>4, FS_Interval
  <2>3. closing' \in Surjection(1 .. n, cs)
    BY <1>3, <2>1, <2>2, FS_Injection
  <2> QED
    BY <2>3 DEF Surjection, Range
<1>8. ASSUME NEW j \in DOMAIN votes
      PROVE  Good(votes[j], attached', cs, loops)
  <2>1. Good(votes[j], attached, {}, loops)
    BY <1>1, IdleFacts
  <2> QED
    BY <1>1, <2>1 DEF Good
<1>9. Types'
  BY <1>1, <1>2, <1>6 DEF Types
<1> QED
  BY <1>1, <1>7, <1>8, <1>9 DEF IInv, AllGood

LEMMA DetachNextKeeps ==
    ASSUME IInv, DetachNext
    PROVE  IInv'
<1> DEFINE c == Head(closing)
<1>1. /\ loops = <<>> /\ closing # <<>> /\ Detach(c, votes, <<>>)
      /\ closing' = Tail(closing) /\ UNCHANGED <<started, last, freed>>
  BY DEF DetachNext
<1>2. /\ Types /\ attached \subseteq Conns /\ demoted \subseteq attached
      /\ Proper(votes) /\ closing \in Seq(Conns \ attached)
  BY DEF IInv, Types, AllGood
<1>3. /\ Len(closing) \in Nat \ {0} /\ DOMAIN closing = 1 .. Len(closing)
      /\ c = closing[1] /\ c \in Conns
      /\ closing' \in Seq(Conns \ attached)
      /\ DOMAIN closing' = 1 .. Len(closing) - 1
      /\ \A j \in 1 .. Len(closing) - 1 : closing'[j] = closing[j + 1]
  BY <1>1, <1>2, EmptySeq, LenProperties, HeadTailProperties
<1> HIDE DEF c
<1>4. Range(closing') \subseteq Range(closing)
  <2> SUFFICES ASSUME NEW j \in DOMAIN closing'
               PROVE  closing'[j] \in Range(closing)
    BY DEF Range
  <2>1. j \in 1 .. Len(closing) - 1 /\ Len(closing) \in Nat
    BY <1>3
  <2>2. j + 1 \in 1 .. Len(closing)
    BY <2>1
  <2>3. closing'[j] = closing[j + 1] /\ j + 1 \in DOMAIN closing
    BY <1>3, <2>1, <2>2
  <2> QED
    BY <2>3 DEF Range
<1>5. Range(closing) \subseteq Range(closing') \cup {c}
  <2> SUFFICES ASSUME NEW j \in DOMAIN closing, closing[j] # c
               PROVE  closing[j] \in Range(closing')
    BY DEF Range
  <2>0. j \in 1 .. Len(closing) /\ j # 1 /\ Len(closing) \in Nat
    BY <1>3
  <2>1. j - 1 \in 1 .. Len(closing) - 1 /\ (j - 1) + 1 = j
    BY <2>0
  <2>2. closing'[j - 1] = closing[j] /\ j - 1 \in DOMAIN closing'
    BY <1>3, <2>1
  <2> QED
    BY <2>2 DEF Range
<1>6. /\ <<>> \in Seq(Loops) /\ DOMAIN <<>> = {}
      /\ \A j \in DOMAIN votes : Good(votes[j], attached, Range(closing), <<>>)
  BY <1>1 DEF IInv, AllGood
<1>7. \A k \in DOMAIN <<>> : <<>>[k].who \notin attached
  BY <1>6
<1>8. /\ Proper(votes')
      /\ \A j \in DOMAIN votes' :
            /\ Good(votes'[j], attached', Range(closing'), loops')
            /\ \E k \in DOMAIN votes : votes'[j].no = votes[k].no
      /\ loops' \in Seq(Loops)
      /\ \A k \in DOMAIN loops' : loops'[k].who \notin attached'
      /\ attached' \subseteq attached /\ demoted' \subseteq attached'
  <2> DEFINE before == Range(closing)
             after == Range(closing')
             stack == <<>>
  <2>1. /\ after \subseteq before /\ before \subseteq after \cup {c}
        /\ stack \in Seq(Loops) /\ \A k \in DOMAIN stack : stack[k].who \notin attached
        /\ AllGood(votes, attached, before, stack)
        /\ Detach(c, votes, stack)
    BY <1>1, <1>4, <1>5, <1>6, <1>7 DEF AllGood
  <2> HIDE DEF before, after, stack
  <2>2. /\ Proper(votes')
        /\ AllGood(votes', attached', after, loops')
        /\ \A j \in DOMAIN votes' : \E k \in DOMAIN votes : votes'[j].no = votes[k].no
        /\ loops' \in Seq(Loops)
        /\ \A k \in DOMAIN loops' : loops'[k].who \notin attached'
        /\ attached' \subseteq attached /\ demoted' \subseteq attached'
    <3>1. ASSUME NEW e \in Conns, NEW st \in Seq(Loops), NEW b, NEW d,
                 d \subseteq b, b \subseteq d \cup {e},
                 \A k \in DOMAIN st : st[k].who \notin attached,
                 AllGood(votes, attached, b, st), Detach(e, votes, st)
          PROVE  /\ Proper(votes')
                 /\ AllGood(votes', attached', d, loops')
                 /\ \A j \in DOMAIN votes' : \E k \in DOMAIN votes : votes'[j].no = votes[k].no
                 /\ loops' \in Seq(Loops)
                 /\ \A k \in DOMAIN loops' : loops'[k].who \notin attached'
                 /\ attached' \subseteq attached /\ demoted' \subseteq attached'
      BY <1>2, <3>1, DetachGood
    <3> QED
      BY <1>3, <2>1, <3>1
  <2> QED
    BY <2>2 DEF after, AllGood
<1>9. closing' \in Seq(Conns \ attached')
  BY <1>3, <1>8, SeqWider
<1>10. \A j \in DOMAIN votes' : votes'[j].no <= last'
  BY <1>1, <1>2, <1>8 DEF Types
<1>11. Types'
  BY <1>1, <1>2, <1>8, <1>9, <1>10 DEF Types
<1> QED
  BY <1>8, <1>11 DEF IInv, AllGood

\* connection_attach: whoever had the id before has left nothing.
LEMMA AttachKeeps ==
    ASSUME IInv, NEW c \in Conns, Attach(c)
    PROVE  IInv'
<1>1. /\ Idle /\ c \notin attached /\ attached' = attached \cup {c}
      /\ UNCHANGED <<started, demoted, votes, last, loops, closing, freed>>
  BY DEF Attach
<1>2. /\ Types /\ closing = <<>> /\ Range(closing) = {} /\ loops = <<>>
      /\ DOMAIN loops = {} /\ loops \in Seq(Loops)
      /\ \A j \in DOMAIN votes : Good(votes[j], attached, {}, <<>>)
  BY <1>1, IdleFacts DEF IInv, AllGood
<1>3. ASSUME NEW j \in DOMAIN votes
      PROVE  Good(votes[j], attached', {}, <<>>)
  <2>1. Good(votes[j], attached, {}, <<>>)
    BY <1>2
  <2>2. ~ Owed(<<>>, c, votes[j].no)
    BY <1>2 DEF Owed
  <2>3. votes[j].casts[c] = "none" /\ votes[j].said[c] = "none"
    BY <1>1, <2>1, <2>2 DEF Good
  <2> QED
    BY <1>1, <2>1, <2>3 DEF Good
<1>4. closing' \in Seq(Conns \ attached')
  BY <1>1, <1>2
<1>5. Types'
  <2>1. attached' \subseteq Conns /\ demoted' \subseteq attached'
    BY <1>1, <1>2 DEF Types
  <2>2. \A k \in DOMAIN loops' : loops'[k].who \notin attached'
    BY <1>1, <1>2
  <2> QED
    BY <1>1, <1>2, <1>4, <2>1, <2>2 DEF Types
<1> QED
  BY <1>1, <1>2, <1>3, <1>5 DEF IInv, AllGood

LEMMA CancelVoteKeeps ==
    ASSUME IInv, NEW i \in DOMAIN votes, CancelVote(i)
    PROVE  IInv'
<1>1. /\ votes' = RemoveAt(votes, i)
      /\ UNCHANGED <<started, attached, demoted, last, loops, closing, freed>>
  BY DEF CancelVote
<1>2. Types /\ Proper(votes)
  BY DEF IInv, Types, AllGood
<1>3. /\ Proper(votes')
      /\ \A j \in DOMAIN votes' : \E k \in DOMAIN votes : votes'[j] = votes[k]
  BY <1>1, <1>2, Shorter
<1>4. \A j \in DOMAIN votes' : /\ Good(votes'[j], attached, Range(closing), loops)
                               /\ votes'[j].no <= last
  BY <1>3 DEF IInv, Types, AllGood
<1> QED
  BY <1>1, <1>2, <1>3, <1>4, Kept DEF Types

LEMMA EndTurnKeeps ==
    ASSUME IInv, EndTurn
    PROVE  IInv'
<1> DEFINE l == [who |-> Turn, at |-> First(votes)]
<1>1. /\ Idle /\ loops' = <<l>>
      /\ UNCHANGED <<started, attached, demoted, votes, last, closing, freed>>
  BY DEF EndTurn
<1>2. Types /\ Proper(votes) /\ attached \subseteq Conns
  BY DEF IInv, Types, AllGood
<1>3. l \in Loops /\ l.who \notin attached
  BY <1>2, FirstType DEF Loops, Turn
<1> HIDE DEF l
<1>4. /\ loops' \in Seq(Loops)
      /\ \A k \in DOMAIN loops' : loops'[k].who \notin attached
  BY <1>1, <1>3
<1>5. ASSUME NEW j \in DOMAIN votes
      PROVE  Good(votes[j], attached, Range(closing), loops')
  <2>1. Good(votes[j], attached, {}, <<>>) /\ Range(closing) = {}
    BY <1>1, IdleFacts
  <2>2. \A c \in Conns : ~ Owed(<<>>, c, votes[j].no)
    BY DEF Owed
  <2> QED
    BY <2>1, <2>2 DEF Good
<1> QED
  BY <1>1, <1>2, <1>4, <1>5, Kept DEF Types

LEMMA EndLoopKeeps ==
    ASSUME IInv, EndLoop
    PROVE  IInv'
<1>1. /\ loops # <<>> /\ loops[Len(loops)].at = End /\ loops' = Front(loops)
      /\ UNCHANGED <<started, attached, demoted, votes, last, closing, freed>>
  BY DEF EndLoop
<1>2. /\ Types /\ loops \in Seq(Loops) /\ Len(loops) \in Nat \ {0}
      /\ DOMAIN loops = 1 .. Len(loops)
      /\ \A k \in DOMAIN loops : loops[k].who \notin attached
  BY <1>1, EmptySeq, LenProperties DEF IInv, Types, AllGood
<1>3. /\ loops' \in Seq(Loops) /\ DOMAIN loops' = 1 .. Len(loops) - 1
      /\ \A k \in 1 .. Len(loops) - 1 : loops'[k] = loops[k]
  <2>1. loops' = SubSeq(loops, 1, Len(loops) - 1)
    BY <1>1 DEF Front
  <2>2. /\ loops' \in Seq(Loops) /\ Len(loops') = Len(loops) - 1
        /\ \A k \in 1 .. Len(loops) - 1 : loops'[k] = loops[k]
    BY <1>2, <2>1, SubSeqProperties
  <2> QED
    BY <2>2, LenProperties
<1>4. \A k \in DOMAIN loops : k # Len(loops) => k \in 1 .. Len(loops) - 1
  BY <1>2, Below
<1>5. \A k \in 1 .. Len(loops) - 1 : k \in DOMAIN loops
  BY <1>2
<1>6. ASSUME NEW j \in DOMAIN votes, NEW c, Owed(loops, c, votes[j].no)
      PROVE  Owed(loops', c, votes[j].no)
  <2>1. PICK k \in DOMAIN loops :
           loops[k].who = c /\ 0 < loops[k].at /\ loops[k].at <= votes[j].no
    BY <1>6 DEF Owed
  <2>2. k # Len(loops)
    BY <1>1, <2>1 DEF End
  <2> QED
    BY <1>3, <1>4, <2>1, <2>2 DEF Owed
<1>7. \A j \in DOMAIN votes : Good(votes[j], attached, Range(closing), loops')
  BY <1>6 DEF IInv, Good, AllGood
<1>8. \A k \in DOMAIN loops' : loops'[k].who \notin attached
  BY <1>2, <1>3, <1>5
<1> QED
  BY <1>1, <1>2, <1>3, <1>7, <1>8, Kept DEF Types

LEMMA EmptyList == Proper(<<>>) /\ DOMAIN <<>> = {} /\ \A S : <<>> \in Seq(S)
BY DEF Proper

LEMMA StepIInv == IInv /\ [Next]_vars => IInv'
<1> SUFFICES ASSUME IInv, [Next]_vars
             PROVE  IInv'
  OBVIOUS
<1>1. ASSUME NEW c \in Conns, NEW removes \in Targets \cup {Nobody}, CallVote(c, removes)
      PROVE  IInv'
  BY <1>1, CallVoteKeeps
<1>2. ASSUME NEW c \in Conns, NEW target \in Targets, RemoveAlone(c, target)
      PROVE  IInv'
  BY <1>2, DetachKeeps DEF RemoveAlone
<1>3. ASSUME NEW c \in Conns, NEW i \in DOMAIN votes, NEW b \in Ballots \ {"none"},
             SubmitVote(c, i, b)
      PROVE  IInv'
  BY <1>3, SubmitVoteKeeps
<1>4. ASSUME NEW c \in Conns, Leave(c)
      PROVE  IInv'
  BY <1>4, DetachKeeps DEF Leave
<1>5. ASSUME NEW c \in Conns, Attach(c)
      PROVE  IInv'
  BY <1>5, AttachKeeps
<1>6. ASSUME NEW c \in Conns, ChangeAccess(c)
      PROVE  IInv'
  <2>1. /\ c \in attached
        /\ demoted' = IF c \in demoted THEN demoted \ {c} ELSE demoted \cup {c}
        /\ UNCHANGED <<started, attached, votes, last, loops, closing, freed>>
    BY <1>6 DEF ChangeAccess
  <2>2. demoted' \subseteq attached'
    BY <2>1 DEF IInv, Types, AllGood
  <2> QED
    BY <2>1, <2>2 DEF IInv, Types, AllGood
<1>7. ASSUME NEW i \in DOMAIN votes, CancelVote(i)
      PROVE  IInv'
  BY <1>7, CancelVoteKeeps
<1>8. ASSUME NEW i \in DOMAIN votes, VisitVote(i)
      PROVE  IInv'
  BY <1>8, VisitVoteKeeps
<1>9. ASSUME NEW cs \in SUBSET attached, LoseConnections(cs)
      PROVE  IInv'
  BY <1>9, LoseConnectionsKeeps
<1>10. CASE DetachNext
  BY <1>10, DetachNextKeeps
<1>11. CASE StartGame
  <2>1. /\ votes' = <<>> /\ started' = TRUE
        /\ UNCHANGED <<attached, demoted, last, loops, closing, freed>>
    BY <1>11 DEF StartGame
  <2> QED
    BY <2>1, EmptyList DEF IInv, Types, AllGood
<1>12. CASE EndTurn
  BY <1>12, EndTurnKeeps
<1>13. CASE EndLoop
  BY <1>13, EndLoopKeeps
<1>14. CASE Crash
  <2>1. /\ started' = FALSE /\ attached' = {} /\ demoted' = {} /\ votes' = <<>>
        /\ last' = 0 /\ loops' = <<>> /\ closing' = <<>> /\ freed' = FALSE
    BY <1>14 DEF Crash
  <2>2. 0 \in 0 .. MaxVotes
    OBVIOUS
  <2> QED
    BY <2>1, <2>2, EmptyList DEF IInv, Types, AllGood
<1>15. CASE UNCHANGED vars
  BY <1>15 DEF vars, IInv, Types, AllGood
<1> QED
  BY <1>1, <1>2, <1>3, <1>4, <1>5, <1>6, <1>7, <1>8, <1>9, <1>10, <1>11, <1>12,
     <1>13, <1>14, <1>15 DEF Next

LEMMA InvariantHolds == Spec => []IInv
BY InitIInv, StepIInv, PTL DEF Spec

\* A player that connection_detach points to is freed inside a loop only.
FreedInv == freed => loops # <<>>

LEMMA FreedHolds == Spec => []FreedInv
<1>1. Init => FreedInv
  BY DEF Init, FreedInv
<1>2. IInv /\ FreedInv /\ [Next]_vars => FreedInv'
  <2> SUFFICES ASSUME IInv, FreedInv, [Next]_vars
               PROVE  FreedInv'
    OBVIOUS
  <2>1. Idle => ~ freed /\ Leaving = {}
    BY DEF Idle, FreedInv, Leaving, Range
  <2>2. ASSUME NEW vs, NEW i, CheckVote(vs, i, <<>>), Idle
        PROVE  FreedInv'
    BY <2>1, <2>2 DEF CheckVote, Detach, FreedInv
  <2>3. ASSUME NEW c \in Conns, NEW removes \in Targets \cup {Nobody}, CallVote(c, removes)
        PROVE  FreedInv'
    BY <2>2, <2>3 DEF CallVote, Cast
  <2>4. ASSUME NEW c \in Conns, NEW i \in DOMAIN votes, NEW b, SubmitVote(c, i, b)
        PROVE  FreedInv'
    BY <2>2, <2>4 DEF SubmitVote, Cast
  <2>5. ASSUME NEW c, NEW vs, Detach(c, vs, <<>>)
        PROVE  FreedInv'
    BY <2>5 DEF Detach, FreedInv
  <2>6. ASSUME NEW i \in DOMAIN votes, VisitVote(i)
        PROVE  FreedInv'
    <3>1. Types /\ Moved(i) # <<>> /\ loops # <<>>
      <4>1. Types /\ loops # <<>>
        BY <2>6 DEF IInv, VisitVote
      <4>2. Len(Moved(i)) = Len(loops) /\ Moved(i) \in Seq(Loops) /\ Len(loops) \in Nat \ {0}
        BY <4>1, MovedFacts, EmptySeq, LenProperties DEF Types
      <4>3. Len(Moved(i)) # 0
        BY <4>2
      <4>4. Moved(i) # <<>>
        BY <4>3
      <4> QED
        BY <4>1, <4>4
    <3>2. Moved(i) # <<>>
      BY <3>1
    <3>3. ASSUME NEW us, CheckVote(us, i, Moved(i))
          PROVE  loops' # <<>>
      BY <3>2, <3>3 DEF CheckVote, Detach
    <3>4. \/ loops' = Moved(i)
          \/ \E us : CheckVote(us, i, Moved(i))
      BY <2>6, <3>1, VisitFacts
    <3> QED
      BY <3>2, <3>3, <3>4 DEF FreedInv
  <2>7. ASSUME NEW c \in Conns, Attach(c) \/ ChangeAccess(c)
        PROVE  FreedInv'
    BY <2>1, <2>7 DEF Attach, ChangeAccess, FreedInv
  <2>8. ASSUME NEW i \in DOMAIN votes, CancelVote(i)
        PROVE  FreedInv'
    BY <2>1, <2>8 DEF CancelVote, FreedInv
  <2>9. ASSUME NEW cs, LoseConnections(cs)
        PROVE  FreedInv'
    BY <2>1, <2>9 DEF LoseConnections, FreedInv
  <2>10. ASSUME StartGame \/ EndTurn \/ EndLoop \/ Crash \/ UNCHANGED vars
         PROVE  FreedInv'
    BY <2>1, <2>10 DEF StartGame, EndTurn, EndLoop, Crash, vars, FreedInv
  <2>11. ASSUME NEW c \in Conns, NEW target \in Targets,
                RemoveAlone(c, target) \/ Leave(c) \/ DetachNext
         PROVE  FreedInv'
    BY <2>5, <2>11 DEF RemoveAlone, Leave, DetachNext
  <2>12. ASSUME NEW c \in Conns, Leave(c)
         PROVE  FreedInv'
    BY <2>5, <2>12 DEF Leave
  <2>13. CASE DetachNext
    BY <2>5, <2>13 DEF DetachNext
  <2> QED
    BY <2>3, <2>4, <2>6, <2>7, <2>8, <2>9, <2>10, <2>11, <2>12, <2>13 DEF Next
<1> QED
  BY <1>1, <1>2, InvariantHolds, PTL DEF Spec

-----------------------------------------------------------------------------
(***************************************************************************)
(* What is counted.                                                        *)
(***************************************************************************)

\* The casts of v are what is said in w.
Echoes(v, w) == \A c \in CanVote : v.casts[c] = w.said[c]

LEMMA SameCount ==
    ASSUME NEW v, NEW w, Echoes(v, w)
    PROVE  /\ \A b : Said(v, b) = Cardinality({c \in CanVote : w.said[c] = b})
           /\ EnoughYes(v) <=> Approved(w)
<1>1. ASSUME NEW b
      PROVE  Said(v, b) = Cardinality({c \in CanVote : w.said[c] = b})
  <2>1. {c \in CanVote : v.casts[c] = b} = {c \in CanVote : w.said[c] = b}
    BY DEF Echoes
  <2> QED
    BY <2>1 DEF Said
<1>2. EnoughYes(v) <=> Approved(w)
  BY <1>1 DEF EnoughYes, Base, Approved
<1> QED
  BY <1>1, <1>2

LEMMA VisitEchoes ==
    ASSUME IInv, NEW i \in DOMAIN votes, loops # <<>>, NEW us, Visited(us, i)
    PROVE  Echoes(us[i], votes[i])
<1>1. Good(votes[i], attached, Range(closing), loops) /\ Types /\ votes[i] \in Votes
  BY DEF IInv, AllGood, Types, Proper
<1>2. votes[i].casts \in [Conns -> Ballots]
  BY <1>1 DEF Votes
<1>3. Top.who \notin attached
  BY <1>1, MovedFacts
<1> SUFFICES ASSUME NEW c \in CanVote
             PROVE  us[i].casts[c] = votes[i].said[c]
  BY DEF Echoes
<1>4. c \in attached /\ c \in Conns /\ c # Top.who
  BY <1>1, <1>3 DEF CanVote, Types
<1>5. us[i].casts[c] = votes[i].casts[c]
  BY <1>2, <1>4 DEF Visited
<1> QED
  BY <1>1, <1>4, <1>5 DEF Good

LEMMA BallotEchoes ==
    ASSUME IInv, NEW i \in DOMAIN votes, NEW c \in Conns, NEW b \in Ballots,
           NEW us, us = Recast(votes, i, c, b)
    PROVE  Echoes(us[i], Heard(i, c, b)) /\ us[i].turns = votes[i].turns
<1>1. /\ Good(votes[i], attached, Range(closing), loops)
      /\ Proper(votes) /\ votes[i] \in Votes /\ attached \subseteq Conns
  BY DEF IInv, AllGood, Types, Proper
<1>2. votes[i].casts \in [Conns -> Ballots] /\ votes[i].said \in [Conns -> Ballots]
  BY <1>1 DEF Votes
<1>3. us[i].casts = [votes[i].casts EXCEPT ![c] = b] /\ us[i].turns = votes[i].turns
  <2>1. Proper(votes)
    BY <1>1
  <2>2. /\ Changed(us, votes, i) /\ us[i].turns = votes[i].turns
        /\ us[i].casts = [votes[i].casts EXCEPT ![c] = b]
        /\ us[i].said = [votes[i].said EXCEPT ![c] = b]
    BY <2>1, CastFacts
  <2> QED
    BY <2>2
<1>4. Heard(i, c, b).said = [votes[i].said EXCEPT ![c] = b]
  BY <1>1 DEF Heard, Votes
<1>5. ASSUME NEW d \in CanVote
      PROVE  us[i].casts[d] = Heard(i, c, b).said[d]
  <2>1. d \in attached /\ d \in Conns
    BY <1>1 DEF CanVote
  <2>2. votes[i].casts[d] = votes[i].said[d]
    BY <1>1, <2>1 DEF Good
  <2> QED
    BY <1>2, <1>3, <1>4, <2>1, <2>2
<1> QED
  BY <1>3, <1>5 DEF Echoes

\* A command runs only for enough votes.
LEMMA CommandsByYes ==
    ASSUME NEW vs, NEW i, NEW stack, CheckVote(vs, i, stack),
           ~ freed, freed \in BOOLEAN, attached' # attached \/ freed' # freed
    PROVE  EnoughYes(vs[i])
<1> SUFFICES ASSUME ~ EnoughYes(vs[i])
             PROVE  FALSE
  OBVIOUS
<1>1. attached' = attached
  BY DEF CheckVote
<1>2. freed' = freed \/ freed' = (EnoughYes(vs[i]) /\ vs[i].removes \in Leaving)
  BY DEF CheckVote
<1>3. freed' = FALSE \/ freed' = freed
  BY <1>2
<1>4. freed = FALSE
  OBVIOUS
<1> QED
  BY <1>1, <1>3, <1>4

\* A vote that ends in a loop ends by the loop's visit.
LEMMA EndsInVisit ==
    ASSUME IInv, [Next]_vars, NEW i \in DOMAIN votes, EndsByLoop(i)
    PROVE  VisitVote(i)
<1>1. loops # <<>> /\ ~ freed /\ Gone(i) /\ votes[i].no = loops[Len(loops)].at
  BY DEF EndsByLoop
<1>2. ~ Idle
  BY <1>1 DEF Idle
<1>3. votes' # votes
  BY <1>1 DEF Gone
<1>4. ~ Crash
  BY <1>1 DEF Crash, Numbers
<1>5. PICK j \in DOMAIN votes : VisitVote(j)
  BY <1>1, <1>2, <1>3, <1>4 DEF Next, vars, CallVote, RemoveAlone, SubmitVote, Leave,
     Attach, ChangeAccess, CancelVote, LoseConnections, DetachNext, StartGame,
     EndTurn, EndLoop
<1>6. votes[j].no = votes[i].no
  BY <1>1, <1>5 DEF VisitVote
<1>7. /\ votes \in Seq(Votes) /\ DOMAIN votes = 1 .. Len(votes)
      /\ votes[i] \in Votes /\ votes[j] \in Votes
      /\ \A k, m \in DOMAIN votes : k < m => votes[k].no < votes[m].no
  BY DEF IInv, Types, Proper
<1>8. votes[i].no \in Int
  BY <1>7 DEF Votes
<1>9. i = j
  BY <1>6, <1>7, <1>8
<1> QED
  BY <1>5, <1>9

-----------------------------------------------------------------------------
\* Nobody has a vote or a cast in it who is not there, but for what a loop under
\* way, or a detachment still to come, takes back (cancel_connection_votes).
THEOREM VotesAlwaysOfThePresent == Spec => []VotesOfThePresent
<1>1. IInv => VotesOfThePresent
  BY DEF IInv, AllGood, Good, Owed, VotesOfThePresent
<1> QED
  BY <1>1, InvariantHolds, PTL

\* check_vote removes a player only for a majority of those who may vote then,
\* by the last word of each, whichever loop or ballot made it look.
THEOREM RemovalsAlwaysByMajority == Spec => RemovedByMajority
<1>1. ASSUME IInv, FreedInv, [Next]_vars, NEW i \in DOMAIN votes,
             attached' # attached \/ freed' # freed, EndsByLoop(i)
      PROVE  Approved(votes[i])
  <2>1. /\ VisitVote(i) /\ Types /\ loops # <<>> /\ ~ freed
    BY <1>1, EndsInVisit DEF IInv, EndsByLoop
  <2>2. PICK us : Visited(us, i) /\ CheckVote(us, i, Moved(i))
    BY <1>1, <2>1, VisitFacts
  <2>3. EnoughYes(us[i])
    BY <1>1, <2>1, <2>2, CommandsByYes DEF Types
  <2> QED
    BY <1>1, <2>1, <2>2, <2>3, VisitEchoes, SameCount
<1>2. ASSUME IInv, FreedInv, [Next]_vars, NEW i \in DOMAIN votes,
             attached' # attached \/ freed' # freed,
             NEW c \in CanVote, NEW b \in Ballots \ {"none"}, EndsByBallot(i, c, b)
      PROVE  Approved(Heard(i, c, b))
  <2> DEFINE us == Recast(votes, i, c, b)
  <2>1. Idle /\ CheckVote(us, i, <<>>)
    BY <1>2 DEF EndsByBallot, SubmitVote, Cast, Recast
  <2>2. ~ freed /\ freed \in BOOLEAN
    BY <1>2, <2>1 DEF Idle, FreedInv, IInv, Types
  <2>3. Echoes(us[i], Heard(i, c, b))
    <3>1. IInv /\ c \in Conns /\ b \in Ballots
      BY <1>2 DEF IInv, Types, CanVote
    <3>2. ASSUME NEW w, w = Recast(votes, i, c, b)
          PROVE  Echoes(w[i], Heard(i, c, b))
      BY <3>1, <3>2, BallotEchoes
    <3> QED
      BY <3>2
  <2> HIDE DEF us
  <2>4. EnoughYes(us[i])
    BY <1>2, <2>1, <2>2, CommandsByYes
  <2> QED
    BY <2>3, <2>4, SameCount
<1>3. IInv /\ FreedInv /\ [Next]_vars =>
         [\A i \in DOMAIN votes : (attached' # attached \/ freed' # freed) =>
             /\ EndsByLoop(i) => Approved(votes[i])
             /\ \A c \in CanVote, b \in Ballots \ {"none"} :
                   EndsByBallot(i, c, b) => Approved(Heard(i, c, b))]_vars
  BY <1>1, <1>2
<1> QED
  BY <1>3, InvariantHolds, FreedHolds, PTL DEF Spec, RemovedByMajority

-----------------------------------------------------------------------------
(***************************************************************************)
(* The arithmetic of check_vote.                                           *)
(***************************************************************************)

\* Those who may vote and say b in w.
Voters(w, b) == {c \in CanVote : w.said[c] = b}

LEMMA VotersFinite ==
    ASSUME Types, NEW w, NEW b
    PROVE  IsFiniteSet(Voters(w, b)) /\ Cardinality(Voters(w, b)) \in Nat
<1>1. Voters(w, b) \subseteq Conns
  BY DEF Types, CanVote, Voters
<1> QED
  BY <1>1, FS_Subset, FS_CardinalityType

LEMMA UnionCount ==
    ASSUME NEW S, NEW T, IsFiniteSet(S), IsFiniteSet(T), S \cap T = {}
    PROVE  /\ IsFiniteSet(S \cup T)
           /\ Cardinality(S \cup T) = Cardinality(S) + Cardinality(T)
<1>1. /\ IsFiniteSet(S \cup T)
      /\ Cardinality(S \cup T) = Cardinality(S) + Cardinality(T) - Cardinality(S \cap T)
  BY FS_Union
<1>2. Cardinality(S \cap T) = 0
  BY FS_EmptySet
<1>3. Cardinality(S) \in Nat /\ Cardinality(T) \in Nat
  BY FS_CardinalityType
<1> QED
  BY <1>1, <1>2, <1>3

\* Everybody who may vote says one thing.
LEMMA EverybodyCounted ==
    ASSUME Types, NEW w, w.said \in [Conns -> Ballots]
    PROVE  Cardinality(CanVote)
              = Cardinality(Voters(w, "yes")) + Cardinality(Voters(w, "none"))
                + Cardinality(Voters(w, "no")) + Cardinality(Voters(w, "abstain"))
<1> DEFINE Y == Voters(w, "yes")
           R == Voters(w, "none")
           N == Voters(w, "no")
           A == Voters(w, "abstain")
<1>1. IsFiniteSet(Y) /\ IsFiniteSet(R) /\ IsFiniteSet(N) /\ IsFiniteSet(A)
  BY VotersFinite
<1>2. Y \cap R = {} /\ (Y \cup R) \cap N = {} /\ (Y \cup R \cup N) \cap A = {}
  BY DEF Voters
<1>3. CanVote = Y \cup R \cup N \cup A
  BY DEF Voters, Types, CanVote, Ballots
<1> HIDE DEF Y, R, N, A
<1>4. IsFiniteSet(Y \cup R) /\ Cardinality(Y \cup R) = Cardinality(Y) + Cardinality(R)
  BY <1>1, <1>2, UnionCount
<1>5. /\ IsFiniteSet(Y \cup R \cup N)
      /\ Cardinality(Y \cup R \cup N) = Cardinality(Y \cup R) + Cardinality(N)
  BY <1>1, <1>2, <1>4, UnionCount
<1>6. Cardinality(Y \cup R \cup N \cup A) = Cardinality(Y \cup R \cup N) + Cardinality(A)
  BY <1>1, <1>2, <1>5, UnionCount
<1>7. Cardinality(CanVote) = Cardinality(Y) + Cardinality(R) + Cardinality(N) + Cardinality(A)
  BY <1>3, <1>4, <1>5, <1>6
<1> QED
  BY <1>7 DEF Y, R, N, A

\* At best those who have said nothing say yes.
LEMMA BestCount ==
    ASSUME Types, NEW w \in Votes
    PROVE  /\ Cardinality(Voters(AtBest(w), "yes"))
                = Cardinality(Voters(w, "yes")) + Cardinality(Voters(w, "none"))
           /\ Cardinality(Voters(AtBest(w), "abstain")) = Cardinality(Voters(w, "abstain"))
<1>1. \A d \in Conns : AtBest(w).said[d] = IF w.said[d] = "none" THEN "yes" ELSE w.said[d]
  BY DEF AtBest, Votes
<1>2. CanVote \subseteq Conns
  BY DEF Types, CanVote
<1>3. /\ Voters(AtBest(w), "yes") = Voters(w, "yes") \cup Voters(w, "none")
      /\ Voters(w, "yes") \cap Voters(w, "none") = {}
  BY <1>1, <1>2 DEF Voters
<1>4. Voters(AtBest(w), "abstain") = Voters(w, "abstain")
  BY <1>1, <1>2 DEF Voters
<1>5. IsFiniteSet(Voters(w, "yes")) /\ IsFiniteSet(Voters(w, "none"))
  BY VotersFinite
<1> QED
  BY <1>3, <1>4, <1>5, UnionCount

LEMMA Arithmetic ==
    ASSUME NEW y \in Nat, NEW r \in Nat, NEW n \in Nat, NEW p \in 50 .. 99,
           \/ 100 * y > p * (y + r + n)
           \/ 100 * n >= (100 - p) * (y + r + n)
           \/ 100 * (n + r) < (100 - p) * (y + r + n)
           \/ 100 * (y + r) <= p * (y + r + n)
           \/ r = 0
           \/ y + r + n = 0
    PROVE  100 * y > p * (y + r + n) \/ ~ (100 * (y + r) > p * (y + r + n))
<1> DEFINE q == p * (y + r + n)
<1>1. q \in Int /\ (100 - p) * (y + r + n) = 100 * (y + r + n) - q
  OBVIOUS
<1>2. y + r + n = 0 => q = 0
  OBVIOUS
<1> HIDE DEF q
<1>3. \/ 100 * y > q
      \/ 100 * n >= 100 * (y + r + n) - q
      \/ 100 * (n + r) < 100 * (y + r + n) - q
      \/ 100 * (y + r) <= q
      \/ r = 0
      \/ y + r + n = 0
  BY <1>1 DEF q
<1>4. 100 * y > q \/ ~ (100 * (y + r) > q)
  BY <1>1, <1>2, <1>3
<1> QED
  BY <1>4 DEF q

\* A vote that is decided before its second turn is approved, or lost.
LEMMA DecidedEarly ==
    ASSUME Types, NEW v, NEW w \in Votes, Echoes(v, w), Resolves(v), ~ (v.turns > 1)
    PROVE  Approved(w) \/ Lost(w)
<1> DEFINE y == Cardinality(Voters(w, "yes"))
           r == Cardinality(Voters(w, "none"))
           n == Cardinality(Voters(w, "no"))
           a == Cardinality(Voters(w, "abstain"))
           all == Cardinality(CanVote)
<1>1. y \in Nat /\ r \in Nat /\ n \in Nat /\ a \in Nat
  BY VotersFinite
<1>2. all = y + r + n + a
  BY EverybodyCounted DEF Votes
<1>3. /\ Said(v, "yes") = y /\ Said(v, "none") = r
      /\ Said(v, "no") = n /\ Said(v, "abstain") = a
  BY SameCount DEF Voters
<1>4. /\ Cardinality(Voters(AtBest(w), "yes")) = y + r
      /\ Cardinality(Voters(AtBest(w), "abstain")) = a
  BY BestCount
<1>5. Approved(w) <=> 100 * y > Percent * (all - a)
  BY DEF Approved, Voters
<1>6. Approved(AtBest(w)) <=> 100 * (y + r) > Percent * (all - a)
  BY <1>4 DEF Approved, Voters
<1>7. Base(v) = all - a /\ Remaining(v) = r
  BY <1>3 DEF Base, Remaining
<1> HIDE DEF y, r, n, a, all
<1>8. all - a = y + r + n
  BY <1>1, <1>2
<1>9. \/ 100 * y > Percent * (y + r + n)
      \/ 100 * n >= (100 - Percent) * (y + r + n)
      \/ 100 * (n + r) < (100 - Percent) * (y + r + n)
      \/ 100 * (y + r) <= Percent * (y + r + n)
      \/ r = 0
      \/ y + r + n = 0
  BY <1>3, <1>7, <1>8 DEF Resolves, EnoughYes, TooManyNo, NotEnoughNo, NotEnoughYes
<1>10. 100 * y > Percent * (y + r + n) \/ ~ (100 * (y + r) > Percent * (y + r + n))
  BY <1>1, <1>9, Arithmetic
<1> QED
  BY <1>5, <1>6, <1>8, <1>10 DEF Lost

\* A vote that the check leaves is not gone.
LEMMA GoneIsResolved ==
    ASSUME NEW us, NEW i \in DOMAIN votes, NEW stack,
           Changed(us, votes, i), CheckVote(us, i, stack), Gone(i)
    PROVE  Resolves(us[i])
<1> SUFFICES ASSUME ~ Resolves(us[i])
             PROVE  FALSE
  OBVIOUS
<1>1. votes' = us
  BY DEF CheckVote
<1>2. i \in DOMAIN us /\ us[i].no = votes[i].no
  BY DEF Changed
<1> QED
  BY <1>1, <1>2 DEF Gone

\* Before the turn after the next a vote fails only when it cannot be approved
\* any more: check_vote does not end it while there is hope, whatever makes it
\* look.
THEOREM FailsAlwaysWhenLost == Spec => FailsOnlyWhenLost
<1>1. ASSUME IInv, [Next]_vars, NEW i \in DOMAIN votes, votes[i].turns = 0, EndsByLoop(i)
      PROVE  Approved(votes[i]) \/ Lost(votes[i])
  <2>1. VisitVote(i) /\ Types /\ loops # <<>> /\ Gone(i) /\ votes[i] \in Votes
    BY <1>1, EndsInVisit DEF IInv, EndsByLoop, Types, Proper
  <2>2. votes' # votes
    BY <2>1 DEF Gone
  <2>3. PICK us : /\ Visited(us, i) /\ CheckVote(us, i, Moved(i))
                  /\ us[i].turns = IF Top.who = Turn THEN Older(votes[i].turns)
                                   ELSE votes[i].turns
    BY <2>1, <2>2, VisitFacts
  <2>4. ~ (us[i].turns > 1)
    BY <1>1, <2>3 DEF Older
  <2>5. Resolves(us[i])
    BY <2>1, <2>3, GoneIsResolved DEF Visited
  <2>6. Echoes(us[i], votes[i])
    BY <1>1, <2>1, <2>3, VisitEchoes
  <2> QED
    BY <2>1, <2>4, <2>5, <2>6, DecidedEarly
<1>2. ASSUME IInv, NEW i \in DOMAIN votes, votes[i].turns = 0,
             NEW c \in CanVote, NEW b \in Ballots \ {"none"}, EndsByBallot(i, c, b)
      PROVE  Approved(Heard(i, c, b)) \/ Lost(Heard(i, c, b))
  <2>1. Types /\ Proper(votes) /\ votes[i] \in Votes /\ c \in Conns /\ b \in Ballots
    BY <1>2 DEF IInv, Types, Proper, CanVote
  <2>2. Heard(i, c, b) \in Votes
    BY <2>1 DEF Heard, Votes
  <2>3. Gone(i) /\ CheckVote(Recast(votes, i, c, b), i, <<>>)
    BY <1>2 DEF EndsByBallot, SubmitVote, Cast, Recast
  <2>4. ASSUME NEW us, us = Recast(votes, i, c, b)
        PROVE  Changed(us, votes, i)
    <3>1. /\ Changed(us, votes, i) /\ us[i].turns = votes[i].turns
          /\ us[i].casts = [votes[i].casts EXCEPT ![c] = b]
          /\ us[i].said = [votes[i].said EXCEPT ![c] = b]
      BY <2>1, <2>4, CastFacts
    <3> QED
      BY <3>1
  <2>5. ASSUME NEW us, us = Recast(votes, i, c, b)
        PROVE  Echoes(us[i], Heard(i, c, b)) /\ us[i].turns = votes[i].turns
    BY <1>2, <2>1, <2>5, BallotEchoes
  <2>6. PICK us : us = Recast(votes, i, c, b)
    OBVIOUS
  <2>7. Resolves(us[i])
    BY <2>3, <2>4, <2>6, GoneIsResolved
  <2>8. ~ (us[i].turns > 1)
    BY <1>2, <2>5, <2>6
  <2> QED
    BY <2>1, <2>2, <2>5, <2>6, <2>7, <2>8, DecidedEarly
<1>3. IInv /\ [Next]_vars =>
         [\A i \in DOMAIN votes : (votes[i].turns = 0 /\ attached' = attached) =>
             /\ EndsByLoop(i) => Approved(votes[i]) \/ Lost(votes[i])
             /\ \A c \in CanVote, b \in Ballots \ {"none"} :
                   EndsByBallot(i, c, b) =>
                       Approved(Heard(i, c, b)) \/ Lost(Heard(i, c, b))]_vars
  BY <1>1, <1>2
<1> QED
  BY <1>3, InvariantHolds, PTL DEF Spec, FailsOnlyWhenLost
=============================================================================
