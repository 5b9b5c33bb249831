---------------------------- MODULE TreatyProofs ----------------------------
(***************************************************************************)
(* Theorems about module Treaty, for any players, clauses and events: an   *)
(* acceptance counts only for the clauses that were accepted, nobody       *)
(* negotiates with the dead, gold never becomes negative, a treaty that is *)
(* executed gives all that it promised, broken pacts void what has been    *)
(* accepted, and the pacts move as module Diplomacy says.                  *)
(***************************************************************************)
EXTENDS Treaty, DataLemmas

-----------------------------------------------------------------------------
(***************************************************************************)
(* Acceptances.                                                            *)
(***************************************************************************)
\* The acceptance of one meeting, with the clauses cs, by the players acc, who
\* have signed sig.
Sound(m, isOpen, cs, acc, sig) ==
    \A p \in acc : p \in m /\ isOpen /\ sig[p] = cs

AllSound == \A m \in Meetings : Sound(m, m \in open, clauses[m], accepted[m], signed[m])

\* The functions have the domains that the actions rely on.
Shaped ==
    /\ open \subseteq Meetings
    /\ clauses = [m \in Meetings |-> clauses[m]]
    /\ accepted = [m \in Meetings |-> accepted[m]]
    /\ signed = [m \in Meetings |-> signed[m]]
    /\ \A m \in Meetings : signed[m] = [p \in Players |-> signed[m][p]]

AInv == Shaped /\ AllSound

LEMMA InitAInv == Init => AInv
  BY DEF Init, AInv, Shaped, AllSound, Sound

LEMMA MeetingOfTwo ==
    ASSUME NEW p \in Players, NEW q \in Players, p # q
    PROVE  {p, q} \in Meetings
  BY DEF Meetings

\* An acceptance is withdrawn with its meeting, and with the clauses.
LEMMA CloseKeeps ==
    ASSUME AInv, NEW S, Close(S)
    PROVE  AInv'
<1>1. Shaped'
  BY DEF AInv, Shaped, Close
<1>2. ASSUME NEW m \in Meetings
      PROVE  Sound(m, m \in open, clauses[m], accepted[m], signed[m])'
  BY <1>2 DEF AInv, Shaped, AllSound, Sound, Close
<1> QED
  BY <1>1, <1>2 DEF AInv, AllSound

LEMMA RejectKeeps ==
    ASSUME AInv, NEW S, RejectAll(S)
    PROVE  AInv'
<1>1. Shaped'
  BY DEF AInv, Shaped, RejectAll
<1>2. ASSUME NEW m \in Meetings
      PROVE  Sound(m, m \in open, clauses[m], accepted[m], signed[m])'
  BY <1>2 DEF AInv, Shaped, AllSound, Sound, RejectAll
<1> QED
  BY <1>1, <1>2 DEF AInv, AllSound

LEMMA ChangeKeeps ==
    ASSUME AInv, NEW m \in Meetings, NEW cs, ChangeClauses(m, cs)
    PROVE  AInv'
<1>1. Shaped'
  BY DEF AInv, Shaped, ChangeClauses
<1>2. ASSUME NEW k \in Meetings
      PROVE  Sound(k, k \in open, clauses[k], accepted[k], signed[k])'
  BY <1>2 DEF AInv, Shaped, AllSound, Sound, ChangeClauses
<1> QED
  BY <1>1, <1>2 DEF AInv, AllSound

\* What p signs is what lies on the table.
LEMMA SignKeeps ==
    ASSUME AInv, NEW m \in open, NEW p \in m, p \in Players, NEW acc, NEW s,
           acc \ {p} \subseteq accepted[m],
           p \in acc => s = clauses[m],
           accepted' = [accepted EXCEPT ![m] = acc],
           signed' = [signed EXCEPT ![m][p] = s],
           UNCHANGED <<open, clauses>>
    PROVE  AInv'
<1>1. m \in Meetings
  BY DEF AInv, Shaped
<1>2. /\ accepted'[m] = acc
      /\ signed'[m] = [signed[m] EXCEPT ![p] = s]
      /\ \A k \in Meetings : k # m => accepted'[k] = accepted[k] /\ signed'[k] = signed[k]
  BY <1>1 DEF AInv, Shaped
<1>3. signed'[m][p] = s /\ \A q \in Players : q # p => signed'[m][q] = signed[m][q]
  BY <1>1, <1>2 DEF AInv, Shaped
<1>4. Shaped'
  <2>1. /\ accepted' = [k \in Meetings |-> accepted'[k]]
        /\ signed' = [k \in Meetings |-> signed'[k]]
    BY <1>1 DEF AInv, Shaped
  <2>2. ASSUME NEW k \in Meetings
        PROVE  signed'[k] = [q \in Players |-> signed'[k][q]]
    BY <1>1, <1>2 DEF AInv, Shaped
  <2> QED
    BY <2>1, <2>2 DEF AInv, Shaped
<1>5. ASSUME NEW k \in Meetings
      PROVE  Sound(k, k \in open, clauses[k], accepted[k], signed[k])'
  <2>1. CASE k # m
    BY <1>2, <2>1 DEF AInv, AllSound, Sound
  <2>2. ASSUME k = m, NEW q \in acc
        PROVE  q \in m /\ m \in open' /\ signed'[m][q] = clauses'[m]
    <3>1. CASE q = p
      BY <1>3, <2>2, <3>1
    <3>2. CASE q # p
      <4>1. q \in m /\ signed[m][q] = clauses[m]
        BY <1>1, <2>2, <3>2 DEF AInv, AllSound, Sound
      <4>2. q \in Players
        BY <1>1, <4>1 DEF Meetings
      <4> QED
        BY <1>3, <3>2, <4>1, <4>2
    <3> QED
      BY <3>1, <3>2
  <2> QED
    BY <1>2, <2>1, <2>2 DEF Sound
<1> QED
  BY <1>4, <1>5 DEF AInv, AllSound

LEMMA NegotiateKeeps ==
    ASSUME AInv, Negotiate
    PROVE  AInv'
<1>1. ASSUME NEW p \in Players, NEW q \in Players \ {p}, InitMeeting(p, q)
      PROVE  AInv'
  <2>1. {p, q} \in Meetings /\ open' = open \cup {{p, q}} /\ UNCHANGED <<clauses, accepted, signed>>
    BY <1>1, MeetingOfTwo DEF InitMeeting
  <2>2. Shaped'
    BY <2>1 DEF AInv, Shaped
  <2>3. ASSUME NEW m \in Meetings
        PROVE  Sound(m, m \in open, clauses[m], accepted[m], signed[m])'
    BY <2>1 DEF AInv, AllSound, Sound
  <2> QED
    BY <2>2, <2>3 DEF AInv, AllSound
<1>2. ASSUME NEW p \in Players, NEW q \in Players \ {p},
             CancelMeeting(p, q) \/ FallThrough(p, q)
      PROVE  AInv'
  BY <1>2, CloseKeeps DEF CancelMeeting, FallThrough
<1>3. ASSUME NEW p \in Players, NEW q \in Players \ {p}, NEW lost, Conclude(p, q, lost)
      PROVE  AInv'
  BY <1>3, CloseKeeps DEF Conclude
<1>4. ASSUME NEW p \in Players, NEW q \in Players \ {p}, Accept(p, q)
      PROVE  AInv'
  <2>1. {p, q} \in open /\ p \in {p, q} /\ UNCHANGED <<open, clauses>>
    BY <1>4 DEF Accept
  <2>2. PICK acc, s :
            /\ acc \ {p} = {} /\ (p \in acc => s = clauses[{p, q}])
            /\ accepted' = [accepted EXCEPT ![{p, q}] = acc]
            /\ signed' = [signed EXCEPT ![{p, q}][p] = s]
    <3>1. \/ /\ accepted' = [accepted EXCEPT ![{p, q}] = {}]
             /\ signed' = [signed EXCEPT ![{p, q}][p] = <<>>]
          \/ /\ accepted' = [accepted EXCEPT ![{p, q}] = {p}]
             /\ signed' = [signed EXCEPT ![{p, q}][p] = clauses[{p, q}]]
      BY <1>4 DEF Accept
    <3>2. {} \ {p} = {} /\ {p} \ {p} = {} /\ p \notin {}
      OBVIOUS
    <3> QED
      BY <3>1, <3>2
  <2> QED
    BY <2>1, <2>2, SignKeeps
<1>5. ASSUME NEW p \in Players, NEW q \in Players \ {p}, TakeBack(p, q)
      PROVE  AInv'
  <2>1. /\ {p, q} \in open /\ p \in {p, q} /\ UNCHANGED <<open, clauses>>
        /\ accepted[{p, q}] = {p, q} /\ p # q
    BY <1>5 DEF TakeBack
  <2>2. /\ {q} \ {p} \subseteq accepted[{p, q}] /\ p \notin {q}
        /\ accepted' = [accepted EXCEPT ![{p, q}] = {q}]
        /\ signed' = [signed EXCEPT ![{p, q}][p] = <<>>]
    BY <1>5, <2>1 DEF TakeBack
  <2> QED
    BY <2>1, <2>2, SignKeeps
<1>6. ASSUME NEW p \in Players, NEW q \in Players \ {p}, LeaveBehind(p, q)
      PROVE  AInv'
  <2>1. /\ {p, q} \in open /\ p \in {p, q} /\ UNCHANGED <<open, clauses>>
        /\ accepted[{p, q}] = {q} /\ p # q
    BY <1>6 DEF LeaveBehind, AcceptsLast
  <2>2. /\ {p, q} \ {p} \subseteq accepted[{p, q}]
        /\ accepted' = [accepted EXCEPT ![{p, q}] = {p, q}]
        /\ signed' = [signed EXCEPT ![{p, q}][p] = clauses[{p, q}]]
    BY <1>6, <2>1 DEF LeaveBehind
  <2> QED
    BY <2>1, <2>2, SignKeeps
<1>7. ASSUME NEW m \in Meetings, NEW c, CreateClause(m, c) \/ RemoveClause(m, c)
      PROVE  AInv'
  BY <1>7, ChangeKeeps DEF CreateClause, RemoveClause
<1>8. open \subseteq Meetings
  BY DEF AInv, Shaped
<1> QED
  BY <1>1, <1>2, <1>3, <1>4, <1>5, <1>6, <1>7, <1>8 DEF Negotiate

LEMMA AIdle ==
    ASSUME AInv, UNCHANGED treatyVars
    PROVE  AInv'
BY DEF treatyVars, AInv, Shaped, AllSound, Sound

LEMMA AStep == AInv /\ [Next]_vars => AInv'
<1> SUFFICES ASSUME AInv, [Next]_vars
             PROVE  AInv'
  OBVIOUS
<1>1. ASSUME NEW p \in Players, NEW q \in Players, MakeContact(p, q)
      PROVE  AInv'
  BY <1>1, AIdle DEF MakeContact
<1>2. ASSUME NEW p \in Players, NEW q \in Players, CancelPact(p, q)
      PROVE  AInv'
  BY <1>2, RejectKeeps DEF CancelPact
<1>3. ASSUME NEW p \in Players, NEW heirs, KillPlayer(p, heirs)
      PROVE  AInv'
  BY <1>3, CloseKeeps DEF KillPlayer
<1>4. ASSUME NEW p \in Players, ChangeControl(p)
      PROVE  AInv'
  BY <1>4, CloseKeeps DEF ChangeControl
<1>5. ASSUME NEW p \in Players, NEW t \in Techs, Spend(p) \/ Learn(p, t) \/ Forget(p, t)
      PROVE  AInv'
  BY <1>5, AIdle DEF Spend, Learn, Forget
<1>6. ASSUME NEW p \in Players, Spend(p)
      PROVE  AInv'
  BY <1>6, AIdle DEF Spend
<1>7. ASSUME NEW c \in Cities, NEW p, LoseCity(c, p) \/ BuildPalace(c)
      PROVE  AInv'
  BY <1>7, AIdle DEF LoseCity, BuildPalace
<1>8. CASE UNCHANGED vars
  BY <1>8, AIdle DEF vars
<1> QED
  BY <1>1, <1>2, <1>3, <1>4, <1>5, <1>6, <1>7, <1>8, NegotiateKeeps DEF Next

LEMMA AHolds == Spec => []AInv
  BY InitAInv, AStep, PTL DEF Spec

-----------------------------------------------------------------------------
(***************************************************************************)
(* Meetings.                                                               *)
(***************************************************************************)
\* Those who live do not die by what a player does at the table.
LEMMA NegotiateSparesAll ==
    ASSUME Negotiate
    PROVE  /\ alive' = alive
           /\ \/ open' \subseteq open
              \/ \E p, q \in Players : CouldMeet(p, q) /\ open' = open \cup {{p, q}}
<1>1. ASSUME NEW p \in Players, NEW q \in Players \ {p}, InitMeeting(p, q)
      PROVE  alive' = alive /\ CouldMeet(p, q) /\ open' = open \cup {{p, q}}
  BY <1>1 DEF InitMeeting, diplVars
<1>2. ASSUME NEW p \in Players, NEW q \in Players \ {p},
             CancelMeeting(p, q) \/ FallThrough(p, q)
      PROVE  alive' = alive /\ open' \subseteq open
  BY <1>2 DEF CancelMeeting, FallThrough, Close, diplVars
<1>3. ASSUME NEW p \in Players, NEW q \in Players \ {p}, NEW lost, Conclude(p, q, lost)
      PROVE  alive' = alive /\ open' \subseteq open
  BY <1>3 DEF Conclude, Close
<1>4. ASSUME NEW p \in Players, NEW q \in Players \ {p},
             Accept(p, q) \/ TakeBack(p, q) \/ LeaveBehind(p, q)
      PROVE  alive' = alive /\ open' = open
  BY <1>4 DEF Accept, TakeBack, LeaveBehind, diplVars
<1>5. ASSUME NEW m, NEW c, CreateClause(m, c) \/ RemoveClause(m, c)
      PROVE  alive' = alive /\ open' = open
  BY <1>5 DEF CreateClause, RemoveClause, ChangeClauses, diplVars
<1> QED
  BY <1>1, <1>2, <1>3, <1>4, <1>5 DEF Negotiate

LEMMA LivingStep == MeetingsOfTheLiving /\ [Next]_vars => MeetingsOfTheLiving'
<1> SUFFICES ASSUME MeetingsOfTheLiving, [Next]_vars
             PROVE  MeetingsOfTheLiving'
  OBVIOUS
<1>1. CASE Negotiate
  BY <1>1, NegotiateSparesAll DEF MeetingsOfTheLiving, CouldMeet
<1>2. ASSUME NEW p \in Players, NEW heirs, KillPlayer(p, heirs)
      PROVE  MeetingsOfTheLiving'
  <2>1. alive' = alive \ {p} /\ open' = open \ MeetingsOf({p})
    BY <1>2 DEF KillPlayer, D!KillPlayer, Close
  <2>2. ASSUME NEW m \in open'
        PROVE  m \subseteq alive' \ NoDiplomacy
    BY <2>1, <2>2 DEF MeetingsOfTheLiving, MeetingsOf
  <2> QED
    BY <2>2 DEF MeetingsOfTheLiving
<1>3. ASSUME alive' = alive, open' \subseteq open
      PROVE  MeetingsOfTheLiving'
  BY <1>3 DEF MeetingsOfTheLiving
<1>4. ASSUME NEW p \in Players, NEW q \in Players, MakeContact(p, q) \/ CancelPact(p, q)
      PROVE  alive' = alive /\ open' = open
  BY <1>4 DEF MakeContact, CancelPact, D!MakeContact, D!CancelPact, D!playerVars,
     RejectAll, treatyVars
<1>5. ASSUME NEW p \in Players, ChangeControl(p)
      PROVE  alive' = alive /\ open' \subseteq open
  BY <1>5 DEF ChangeControl, Close, diplVars
<1>6. ASSUME NEW p \in Players, NEW t, Spend(p) \/ Learn(p, t) \/ Forget(p, t)
      PROVE  alive' = alive /\ open' = open
  BY <1>6 DEF Spend, Learn, Forget, diplVars, treatyVars
<1>7. ASSUME NEW c \in Cities, NEW p, LoseCity(c, p) \/ BuildPalace(c)
      PROVE  alive' = alive /\ open' = open
  BY <1>7 DEF LoseCity, BuildPalace, diplVars, treatyVars
<1>8. CASE UNCHANGED vars
  BY <1>8 DEF vars, diplVars, treatyVars, MeetingsOfTheLiving
<1> QED
  BY <1>1, <1>2, <1>3, <1>4, <1>5, <1>6, <1>7, <1>8 DEF Next

-----------------------------------------------------------------------------
\* An acceptance counts only for the clauses its player accepted, in whatever
\* order the two change them, accept, take back and begin anew.
THEOREM AcceptedAlwaysAsSigned == Spec => []AcceptedAsSigned
<1>1. AInv => AcceptedAsSigned
  BY DEF AInv, AllSound, Sound, AcceptedAsSigned
<1> QED
  BY <1>1, AHolds, PTL

\* Nobody negotiates with the dead: a death closes the meetings it ends.
THEOREM MeetingsAlwaysOfTheLiving == Spec => []MeetingsOfTheLiving
<1>1. Init => MeetingsOfTheLiving
  BY DEF Init, MeetingsOfTheLiving
<1> QED
  BY <1>1, LivingStep, PTL DEF Spec

-----------------------------------------------------------------------------
(***************************************************************************)
(* The worlds in which the clauses of a treaty are executed.               *)
(***************************************************************************)
Worlds ==
    [type : Matrix(DiplStates), max_state : Matrix(DiplStates),
     turns_left : Matrix(0 .. TurnsLeft), met : SUBSET Pairs,
     gold : [Players -> Int], owner : [Cities -> Players \cup {Nobody}],
     knows : [Players -> SUBSET Nat], embassy : SUBSET Pairs]

\* Assigning to entries of a matrix keeps its type and is read back entry by
\* entry.
LEMMA PutType ==
    ASSUME NEW S, NEW f \in Matrix(S), NEW R, NEW v \in S
    PROVE  Put(f, R, v) \in Matrix(S)
BY DEF Put, Matrix

LEMMA PutEntry ==
    ASSUME NEW f, NEW R, NEW v, NEW p \in Players, NEW q \in Players
    PROVE  Put(f, R, v)[p][q] = IF <<p, q>> \in R THEN v ELSE f[p][q]
BY DEF Put

LEMMA PutNothing ==
    ASSUME NEW S, NEW f \in Matrix(S), NEW v
    PROVE  Put(f, {}, v) = f
BY DEF Put, Matrix

LEMMA StateTypes ==
    /\ \A a, b \in DiplStates : MaxState(a, b) \in DiplStates
    /\ \A pact \in PactClauses : PactResult(pact) \in DiplStates /\ PactResult(pact) # "no_contact"
    /\ {"war", "peace", "armistice"} \subseteq DiplStates
BY DEF MaxState, Closest, DiplStates, PactResult, PactClauses

Best(f, R, ds) ==
    [p \in Players |-> [q \in Players |->
        IF <<p, q>> \in R THEN MaxState(f[p][q], ds) ELSE f[p][q]]]

\* set_diplstate_type changes the state and the best state of its pairs, and
\* nothing else of the world.
LEMMA WithStateFacts ==
    ASSUME NEW w \in Worlds, NEW R, NEW ds \in DiplStates
    PROVE  /\ WithState(w, R, ds) \in Worlds
           /\ WithState(w, R, ds).type = Put(w.type, R, ds)
           /\ WithState(w, R, ds).max_state = Best(w.max_state, R, ds)
           /\ WithState(w, R, ds).turns_left = w.turns_left
           /\ WithState(w, R, ds).met = w.met
           /\ WithState(w, R, ds).gold = w.gold
           /\ WithState(w, R, ds).owner = w.owner
           /\ WithState(w, R, ds).knows = w.knows
           /\ WithState(w, R, ds).embassy = w.embassy
<1> DEFINE max == Best(w.max_state, R, ds)
<1>1. Put(w.type, R, ds) \in Matrix(DiplStates)
  BY PutType DEF Worlds
<1>2. max \in Matrix(DiplStates)
  <2>1. w.max_state \in Matrix(DiplStates)
    BY DEF Worlds
  <2>2. ASSUME NEW p \in Players, NEW q \in Players
        PROVE  w.max_state[p][q] \in DiplStates /\ MaxState(w.max_state[p][q], ds) \in DiplStates
    BY <2>1, StateTypes DEF Matrix
  <2> QED
    BY <2>2 DEF Matrix, Best
<1>3. WithState(w, R, ds) = [w EXCEPT !.type = Put(w.type, R, ds), !.max_state = max]
  BY DEF WithState, Best
<1> HIDE DEF max
<1>4. WithState(w, R, ds) =
          [type |-> Put(w.type, R, ds), max_state |-> max, turns_left |-> w.turns_left,
           met |-> w.met, gold |-> w.gold, owner |-> w.owner, knows |-> w.knows,
           embassy |-> w.embassy]
  BY <1>3 DEF Worlds
<1>5. WithState(w, R, ds) \in Worlds
  BY <1>1, <1>2, <1>4 DEF Worlds
<1> QED
  BY <1>4, <1>5 DEF max

\* maybe_make_contact leaves alone whoever has met, and everything but the
\* states; it does nothing where nobody is near.
LEMMA WithContactFacts ==
    ASSUME NEW w \in Worlds, NEW p \in Players, NEW c, Near[c] \subseteq Players
    PROVE  LET e == WithContact(w, p, c)
           IN  /\ e \in Worlds
               /\ e.gold = w.gold /\ e.owner = w.owner /\ e.knows = w.knows
               /\ e.embassy = w.embassy /\ e.turns_left = w.turns_left
               /\ \A a, b \in Players :
                     (w.type[a][b] # "no_contact" /\ w.type[b][a] # "no_contact") =>
                        e.type[a][b] = w.type[a][b]
               /\ Near[c] = {} => e.type = w.type /\ e.max_state = w.max_state /\ e.met = w.met
<1> DEFINE Meets(ds) == {r \in (Near[c] \cap alive) \ {p} :
                           /\ w.type[p][r] = "no_contact"
                           /\ DefaultDiplState(w.type, alive, p, r) = ds}
           war == UNION {Both(p, r) : r \in Meets("war")}
           peace == UNION {Both(p, r) : r \in Meets("peace")}
           e == WithContact(w, p, c)
           first == WithState(w, war, "war")
           second == WithState(first, peace, "peace")
<1>1. e = [second EXCEPT !.met = second.met \cup war \cup peace]
  BY DEF WithContact
<1>2. war \subseteq Pairs /\ peace \subseteq Pairs
  BY DEF Both, Pairs
<1>3. \A a, b \in Players :
         <<a, b>> \in war \cup peace => w.type[a][b] = "no_contact" \/ w.type[b][a] = "no_contact"
  BY DEF Both
<1>4. Near[c] = {} => war = {} /\ peace = {}
  OBVIOUS
<1> HIDE DEF Meets, war, peace
<1>12. "war" \in DiplStates /\ "peace" \in DiplStates
  BY DEF DiplStates
<1>5. first \in Worlds /\ second \in Worlds
  BY <1>12, WithStateFacts
<1>6. /\ first.type = Put(w.type, war, "war") /\ first.met = w.met
      /\ first.max_state = Best(w.max_state, war, "war")
      /\ first.gold = w.gold /\ first.owner = w.owner /\ first.knows = w.knows
      /\ first.embassy = w.embassy /\ first.turns_left = w.turns_left
  BY <1>12, WithStateFacts
<1>11. /\ second.type = Put(first.type, peace, "peace") /\ second.met = first.met
       /\ second.max_state = Best(first.max_state, peace, "peace")
       /\ second.gold = first.gold /\ second.owner = first.owner
       /\ second.knows = first.knows /\ second.embassy = first.embassy
       /\ second.turns_left = first.turns_left
  <2> HIDE DEF first
  <2> QED
    BY <1>5, <1>12, WithStateFacts
<1>7. Near[c] = {} => first.max_state = w.max_state /\ second.max_state = w.max_state
  <2> SUFFICES ASSUME Near[c] = {}
               PROVE  first.max_state = w.max_state /\ second.max_state = w.max_state
    OBVIOUS
  <2>1. first.max_state = Best(w.max_state, {}, "war")
    BY <1>4, <1>6, Zenon
  <2>2. second.max_state = Best(first.max_state, {}, "peace")
    BY <1>4, <1>11, Zenon
  <2>3. w.max_state \in Matrix(DiplStates)
    BY DEF Worlds
  <2> HIDE DEF first, second
  <2> QED
    BY <2>1, <2>2, <2>3 DEF Matrix, Best
<1>8. /\ e \in Worlds /\ e.type = second.type /\ e.max_state = second.max_state
      /\ e.met = second.met \cup war \cup peace
      /\ e.gold = second.gold /\ e.owner = second.owner /\ e.knows = second.knows
      /\ e.embassy = second.embassy /\ e.turns_left = second.turns_left
  <2> HIDE DEF e, first, second
  <2> QED
    BY <1>1, <1>2, <1>5 DEF Worlds
<1>9. ASSUME NEW a \in Players, NEW b \in Players,
             w.type[a][b] # "no_contact", w.type[b][a] # "no_contact"
      PROVE  e.type[a][b] = w.type[a][b]
  <2>1. <<a, b>> \notin war /\ <<a, b>> \notin peace
    BY <1>3, <1>9
  <2> HIDE DEF e, first, second, war, peace
  <2> QED
    BY <1>6, <1>8, <1>11, <2>1, PutEntry
<1>10. Near[c] = {} => e.type = w.type
  <2> SUFFICES ASSUME Near[c] = {}
               PROVE  e.type = w.type
    OBVIOUS
  <2>1. w.type \in Matrix(DiplStates)
    BY DEF Worlds
  <2> HIDE DEF e, first, second
  <2> QED
    BY <1>4, <1>6, <1>8, <1>11, <2>1, PutNothing
<1> HIDE DEF e, first, second
<1> QED
  BY <1>4, <1>6, <1>11, <1>7, <1>8, <1>9, <1>10 DEF e

\* A clause as the handlers make it; cities are checked when it is accepted.
Fit(c) == c \in Clauses /\ (c.type = "city" => c.value \in Cities)

\* What the receiver gets of a sum of gold is a sum of gold.
LEMMA ReceivedType ==
    ASSUME NEW v \in Nat
    PROVE  Received(v) \in Nat
<1>1. 100 - DiplGoldCost \in Nat
  BY GoldAssumption
<1>2. v * (100 - DiplGoldCost) \in Nat
  <2> DEFINE k == 100 - DiplGoldCost
  <2> HIDE DEF k
  <2>1. k \in Nat => v * k \in Nat
    OBVIOUS
  <2> QED
    BY <1>1, <2>1 DEF k
<1>3. \A n \in Nat : n \div 100 \in Nat
  OBVIOUS
<1> QED
  BY <1>2, <1>3 DEF Received

\* Nothing is done to the pacts.
UnchangedPacts(w, e) ==
    /\ e.type = w.type /\ e.max_state = w.max_state
    /\ e.turns_left = w.turns_left /\ e.met = w.met

Paid(g, from, dest, v) == [g EXCEPT ![from] = @ - v, ![dest] = @ + Received(v)]

\* What each type of clause does to the world when it is executed: first gold.
LEMMA GoldExecuted ==
    ASSUME NEW w \in Worlds, NEW c \in Clauses, NEW dest \in Players, c.from # dest, NEW lost,
           c.type = "gold", NEW e, e = Executed(w, c, dest, lost)
    PROVE  /\ e \in Worlds
           /\ e.gold = Paid(w.gold, c.from, dest, c.value)
           /\ e.owner = w.owner /\ e.knows = w.knows /\ e.embassy = w.embassy
           /\ UnchangedPacts(w, e)
<1>1. c.from \in Players /\ c.value \in Nat /\ w.gold \in [Players -> Int]
  BY DEF Clauses, Worlds
<1>2. Paid(w.gold, c.from, dest, c.value) \in [Players -> Int]
  <2>1. Received(c.value) \in Int
    BY <1>1, ReceivedType
  <2> QED
    BY <1>1, <2>1 DEF Paid
<1>3. e = [w EXCEPT !.gold = Paid(w.gold, c.from, dest, c.value)]
  <2>1. e = [w EXCEPT !.gold[c.from] = @ - c.value, !.gold[dest] = @ + Received(c.value)]
    BY DEF Executed, IsPact
  <2> QED
    BY <2>1 DEF Worlds, Paid
<1> QED
  BY <1>2, <1>3 DEF Worlds, UnchangedPacts

\* At most some players have met, next to the city v.
OnlyContacts(w, e, v) ==
    /\ \A a, b \in Players :
          (w.type[a][b] # "no_contact" /\ w.type[b][a] # "no_contact") =>
             e.type[a][b] = w.type[a][b]
    /\ Near[v] = {} => UnchangedPacts(w, e)

Given(o, v, dest) == [o EXCEPT ![v] = dest]

\* A city.
LEMMA CityExecuted ==
    ASSUME NEW w \in Worlds, NEW c, Fit(c), NEW dest \in Players, NEW lost,
           c.type = "city", NEW e, e = Executed(w, c, dest, lost)
    PROVE  /\ e \in Worlds
           /\ e.gold = w.gold /\ e.knows = w.knows /\ e.embassy = w.embassy
           /\ e.owner = Given(w.owner, c.value, dest)
           /\ OnlyContacts(w, e, c.value)
<1> DEFINE new == [w.owner EXCEPT ![c.value] = dest]
           w2 == [type |-> w.type, max_state |-> w.max_state, turns_left |-> w.turns_left,
                  met |-> w.met, gold |-> w.gold, owner |-> new, knows |-> w.knows,
                  embassy |-> w.embassy]
<1>1. new \in [Cities -> Players \cup {Nobody}]
  BY DEF Worlds
<1>2. w2 \in Worlds
  BY <1>1 DEF Worlds
<1>3. Executed(w, c, dest, lost) = WithContact(w2, dest, c.value)
  <2>1. Executed(w, c, dest, lost) = WithContact([w EXCEPT !.owner[c.value] = dest], dest, c.value)
    BY DEF Executed, IsPact
  <2>2. [w EXCEPT !.owner[c.value] = dest] = w2
    BY SMTT(30) DEF Worlds
  <2> QED
    BY <2>1, <2>2
<1>4. Near[c.value] \subseteq Players
  BY CitiesAssumption DEF Fit
<1>5. /\ w2.type = w.type /\ w2.max_state = w.max_state /\ w2.turns_left = w.turns_left
      /\ w2.met = w.met /\ w2.gold = w.gold /\ w2.owner = new /\ w2.knows = w.knows
      /\ w2.embassy = w.embassy
  OBVIOUS
<1> HIDE DEF w2, new
<1> QED
  BY <1>2, <1>3, <1>4, <1>5, WithContactFacts DEF new, Given, OnlyContacts, UnchangedPacts

\* An embassy.
LEMMA EmbassyExecuted ==
    ASSUME NEW w \in Worlds, NEW c \in Clauses, NEW dest \in Players, NEW lost,
           c.type = "embassy", NEW e, e = Executed(w, c, dest, lost)
    PROVE  /\ e \in Worlds
           /\ e.embassy = w.embassy \cup {<<dest, c.from>>}
           /\ e.gold = w.gold /\ e.owner = w.owner /\ e.knows = w.knows
           /\ UnchangedPacts(w, e)
<1>1. e = [w EXCEPT !.embassy = w.embassy \cup {<<dest, c.from>>}]
  BY DEF Executed, NewEmbassy, IsPact
<1>2. w.embassy \cup {<<dest, c.from>>} \in SUBSET Pairs
  BY DEF Worlds, Pairs, Clauses
<1> QED
  BY <1>1, <1>2 DEF Worlds, UnchangedPacts

\* The receiver knows the advance unless he made a mistake, and only the giver may
\* lose it, by a mistake of his own.
Taught1(k, new, c, dest, lost) ==
    /\ c.value \in new[dest] \/ <<"receiver", c>> \in lost
    /\ \A x \in Players : /\ new[x] \subseteq k[x] \cup {c.value}
                          /\ k[x] \subseteq new[x] \cup {c.value}
    /\ \A x \in Players \ {c.from} : k[x] \subseteq new[x]
    /\ <<"donor", c>> \notin lost => k[c.from] \subseteq new[c.from]

\* An advance.
LEMMA AdvanceExecuted ==
    ASSUME NEW w \in Worlds, NEW c \in Clauses, NEW dest \in Players, c.from # dest, NEW lost,
           c.type = "advance", NEW e, e = Executed(w, c, dest, lost)
    PROVE  /\ e \in Worlds
           /\ Taught1(w.knows, e.knows, c, dest, lost)
           /\ e.gold = w.gold /\ e.owner = w.owner /\ e.embassy = w.embassy
           /\ UnchangedPacts(w, e)
<1>1. c.from \in Players /\ c.value \in Nat /\ w.knows \in [Players -> SUBSET Nat]
  BY DEF Clauses, Worlds
<1>2. CASE c.value \in w.knows[dest]
  <2>1. e = w
    BY <1>2 DEF Executed, IsPact
  <2> QED
    BY <1>1, <1>2, <2>1 DEF UnchangedPacts, Taught1
<1>3. CASE c.value \notin w.knows[dest]
  <2> DEFINE gain == IF <<"receiver", c>> \in lost THEN w.knows[dest]
                     ELSE w.knows[dest] \cup {c.value}
             rest == IF <<"donor", c>> \in lost THEN w.knows[c.from] \ {c.value}
                     ELSE w.knows[c.from]
             k == [w.knows EXCEPT ![dest] = gain, ![c.from] = rest]
  <2>1. e = [w EXCEPT !.knows = k]
    BY <1>1, <1>3 DEF Executed, IsPact, Worlds
  <2>2. /\ gain \in SUBSET Nat /\ rest \in SUBSET Nat
        /\ gain \subseteq w.knows[dest] \cup {c.value} /\ w.knows[dest] \subseteq gain
        /\ c.value \in gain \/ <<"receiver", c>> \in lost
        /\ rest \subseteq w.knows[c.from] /\ w.knows[c.from] \subseteq rest \cup {c.value}
        /\ <<"donor", c>> \notin lost => rest = w.knows[c.from]
    BY <1>1
  <2> HIDE DEF gain, rest
  <2>3. k \in [Players -> SUBSET Nat] /\ Taught1(w.knows, k, c, dest, lost)
    BY <1>1, <2>2 DEF Taught1
  <2> HIDE DEF k
  <2> QED
    BY <2>1, <2>3 DEF Worlds, UnchangedPacts
<1> QED
  BY <1>2, <1>3

\* A pact.
LEMMA PactExecuted ==
    ASSUME NEW w \in Worlds, NEW c \in Clauses, NEW dest \in Players, NEW lost, IsPact(c),
           NEW e, e = Executed(w, c, dest, lost), NEW R, R = Both(c.from, dest)
    PROVE  /\ e \in Worlds
           /\ e.gold = w.gold /\ e.owner = w.owner /\ e.knows = w.knows
           /\ e.embassy = w.embassy /\ e.met = w.met
           /\ e.type = Put(w.type, R, PactResult(c.type))
           /\ e.max_state = Best(w.max_state, R, PactResult(c.type))
           /\ e.turns_left = IF c.type = "alliance" THEN w.turns_left
                             ELSE Put(w.turns_left, R, TurnsLeft)
<1> DEFINE ds == PactResult(c.type)
           s == WithState(w, R, ds)
<1>1. c.type \in PactClauses /\ ds \in DiplStates
  BY StateTypes DEF IsPact, PactClauses
<1>2. e = IF c.type = "alliance" THEN s
          ELSE [s EXCEPT !.turns_left = Put(s.turns_left, R, TurnsLeft)]
  <2>1. e = WithPact(w, c.from, dest, c.type)
    BY DEF Executed, IsPact
  <2> QED
    BY <2>1 DEF WithPact
<1> HIDE DEF s, ds
<1>3. /\ s \in Worlds
      /\ s.type = Put(w.type, R, ds) /\ s.max_state = Best(w.max_state, R, ds)
      /\ s.turns_left = w.turns_left /\ s.met = w.met /\ s.gold = w.gold
      /\ s.owner = w.owner /\ s.knows = w.knows /\ s.embassy = w.embassy
  BY <1>1, WithStateFacts DEF s
<1>4. Put(w.turns_left, R, TurnsLeft) \in Matrix(0 .. TurnsLeft)
  BY PutType, TurnsLeftAssumption DEF Worlds
<1>5. CASE c.type = "alliance"
  BY <1>2, <1>3, <1>5 DEF ds
<1>6. CASE c.type # "alliance"
  <2>1. e = [type |-> s.type, max_state |-> s.max_state,
             turns_left |-> Put(s.turns_left, R, TurnsLeft), met |-> s.met, gold |-> s.gold,
             owner |-> s.owner, knows |-> s.knows, embassy |-> s.embassy]
    BY <1>2, <1>3, <1>6 DEF Worlds
  <2>2. e \in Worlds
    BY <1>3, <1>4, <2>1 DEF Worlds
  <2> QED
    BY <1>3, <1>6, <2>1, <2>2 DEF ds
<1> QED
  BY <1>5, <1>6

\* So every clause that fits leads from world to world.
LEMMA ExecutedType ==
    ASSUME NEW w \in Worlds, NEW c, Fit(c), NEW dest \in Players, c.from # dest, NEW lost
    PROVE  Executed(w, c, dest, lost) \in Worlds
<1>1. c \in Clauses
  BY DEF Fit
<1>2. c.type \in {"gold", "city", "embassy", "advance"} \/ IsPact(c)
  BY <1>1 DEF Clauses, ClauseTypes, PactClauses, IsPact
<1> QED
  BY <1>1, <1>2, GoldExecuted, CityExecuted, EmbassyExecuted, AdvanceExecuted, PactExecuted

-----------------------------------------------------------------------------
(***************************************************************************)
(* The execution of a treaty, clause after clause.  Outcome is a fold over the*)
(* list; a fold is one function on the sets of the list's indices, so that what*)
(* it computes follows from an induction over the numbers (DataLemmas).    *)
(***************************************************************************)
\* The other player of a meeting of two.
LEMMA OtherFacts ==
    ASSUME NEW p, NEW q, p # q
    PROVE  Other({p, q}, p) = q /\ Other({p, q}, q) = p
BY DEF Other

Step(m, lost, w, i) ==
    Executed(w, clauses[m][i], Other(m, clauses[m][i].from), lost)

\* All clauses of the treaty of p and q are as they are when it is executed.
FitList(cs, m) ==
    /\ cs \in Seq(Clauses)
    /\ \A i \in DOMAIN cs : Fit(cs[i]) /\ cs[i].from \in m

\* Clause i of a treaty leads from world to world.
LEMMA StepType ==
    ASSUME NEW p \in Players, NEW q \in Players, p # q, NEW lost,
           FitList(clauses[{p, q}], {p, q}),
           NEW w \in Worlds, NEW i \in DOMAIN clauses[{p, q}]
    PROVE  Step({p, q}, lost, w, i) \in Worlds
<1> DEFINE c == clauses[{p, q}][i]
           dest == Other({p, q}, c.from)
<1>1. Fit(c) /\ c.from \in {p, q}
  BY DEF FitList
<1>2. dest \in Players /\ c.from # dest
  BY <1>1, OtherFacts, ZenonT(40)
<1> HIDE DEF c, dest
<1>3. Executed(w, c, dest, lost) \in Worlds
  BY <1>1, <1>2, ExecutedType
<1> QED
  BY <1>3 DEF Step, c, dest

\* The world before and after each clause of a treaty that is executed.
Course(p, q, lost, n, h) ==
    /\ n = Len(clauses[{p, q}])
    /\ h[0] = World
    /\ \A i \in 0 .. n : h[i] \in Worlds
    /\ \A i \in 1 .. n : h[i] = Step({p, q}, lost, h[i - 1], i)

\* Outcome is where the course of the treaty ends.
LEMMA OutcomeSteps ==
    ASSUME NEW p \in Players, NEW q \in Players, p # q, NEW lost, World \in Worlds,
           FitList(clauses[{p, q}], {p, q}), NEW n \in Nat, n = Len(clauses[{p, q}])
    PROVE  \E h : Course(p, q, lost, n, h) /\ Outcome({p, q}, lost) = h[n]
<1> DEFINE m == {p, q}
           Body(g, s) == IF s = {} THEN World ELSE Step(m, lost, g[s \ {Max(s)}], Max(s))
           iter == CHOOSE g : g = [s \in SUBSET (DOMAIN clauses[m]) |-> Body(g, s)]
           f == [wi \in Worlds \X (1 .. n) |-> Step(m, lost, wi[1], wi[2])]
           pick == [s \in SUBSET (1 .. n) |-> Max(s)]
<1>1. DOMAIN clauses[m] = 1 .. n
  BY DEF FitList
<1>2. f \in [Worlds \X (1 .. n) -> Worlds]
  BY <1>1, StepType
<1>3. \A s \in SUBSET (1 .. n) : s # {} => pick[s] \in s /\ pick[s] = Max(s)
  BY MaxExists
<1>4. IsFiniteSet(1 .. n)
  BY FS_Interval
<1>5. \E g : g = [s \in SUBSET (1 .. n) |-> Body(g, s)]
  <2> HIDE DEF f, pick
  <2>1. PICK g \in [SUBSET (1 .. n) -> Worlds] : IsFold(g, 1 .. n, World, f, pick)
    BY <1>2, <1>3, <1>4, FoldExists
  <2>2. ASSUME NEW s \in SUBSET (1 .. n), s # {}
        PROVE  f[<<g[s \ {pick[s]}], pick[s]>>] = Step(m, lost, g[s \ {Max(s)}], Max(s))
    <3>1. pick[s] \in 1 .. n /\ pick[s] = Max(s) /\ g[s \ {Max(s)}] \in Worlds
      BY <1>3, <2>1, <2>2
    <3> QED
      BY <3>1 DEF f
  <2>3. \A s \in SUBSET (1 .. n) : g[s] = Body(g, s)
    BY <2>1, <2>2 DEF IsFold
  <2>4. g = [s \in SUBSET (1 .. n) |-> Body(g, s)]
    <3> HIDE DEF Body
    <3> QED
      BY <2>1, <2>3
  <2> QED
    BY <2>4
<1>6. iter = [s \in SUBSET (1 .. n) |-> Body(iter, s)]
  <2> HIDE DEF Body
  <2> QED
    BY <1>1, <1>5
<1>7. Outcome(m, lost) = iter[1 .. n]
  <2>1. Outcome(m, lost) = iter[DOMAIN clauses[m]]
    BY DEF Outcome, FoldLeft, MapThenFoldSet, Step
  <2> HIDE DEF iter, m
  <2> QED
    BY <1>1, <2>1
<1> HIDE DEF iter, f, pick
<1>8. iter[{}] = World
  BY <1>6
<1>9. ASSUME NEW i \in 1 .. n
      PROVE  iter[1 .. i] = Step(m, lost, iter[1 .. (i - 1)], i)
  <2>1. /\ 1 .. i \in SUBSET (1 .. n) /\ i \in 1 .. i /\ 1 .. i # {}
        /\ (1 .. i) \ {i} = 1 .. (i - 1)
    BY InitialParts
  <2>2. Max(1 .. i) = i
    <3>1. Max(1 .. i) \in 1 .. i /\ \A j \in 1 .. i : Max(1 .. i) >= j
      BY <2>1, MaxExists
    <3> QED
      BY <3>1
  <2> QED
    BY <1>6, <2>1, <2>2
<1> DEFINE h == [i \in 0 .. n |-> iter[1 .. i]]
           S == {i \in Nat : i <= n => h[i] \in Worlds}
<1>10. h[0] = World
  <2>1. 1 .. 0 = {}
    OBVIOUS
  <2> QED
    BY <1>8, <2>1
<1>11. \A i \in 1 .. n : h[i] = Step(m, lost, h[i - 1], i)
  BY <1>9, InitialParts
<1>12. h[n] = Outcome(m, lost)
  BY <1>7
<1> HIDE DEF h
<1>13. 0 \in S
  BY <1>10
<1>14. ASSUME NEW i \in Nat, i \in S
       PROVE  i + 1 \in S
  <2> SUFFICES ASSUME i + 1 <= n
               PROVE  h[i + 1] \in Worlds
    OBVIOUS
  <2>1. i + 1 \in DOMAIN clauses[m] /\ i + 1 \in 1 .. n /\ (i + 1) - 1 = i /\ i <= n
    BY <1>1
  <2>2. h[i] \in Worlds
    BY <1>14, <2>1
  <2>3. h[i + 1] = Step(m, lost, h[i], i + 1)
    BY <1>11, <2>1
  <2> HIDE DEF m, S
  <2> QED
    BY <2>1, <2>2, <2>3, StepType DEF m
<1>15. ASSUME NEW i \in 0 .. n
       PROVE  h[i] \in Worlds
  <2>1. Nat \subseteq S
    <3> HIDE DEF S
    <3> QED
      BY <1>13, <1>14, SetInduction
  <2>2. i \in Nat /\ i <= n
    OBVIOUS
  <2> QED
    BY <2>1, <2>2
<1> QED
  BY <1>10, <1>11, <1>12, <1>15 DEF Course

Lists ==
    \A m \in Meetings :
        /\ NoRivals(clauses[m])
        /\ \A i \in DOMAIN clauses[m] : clauses[m][i].from \in m

\* The server's state is a world to begin with.
LEMMA WorldType == TypeOK => World \in Worlds
<1> SUFFICES ASSUME TypeOK
             PROVE  World \in Worlds
  OBVIOUS
<1>1. /\ type \in Matrix(DiplStates) /\ max_state \in Matrix(DiplStates)
      /\ turns_left \in Matrix(0 .. TurnsLeft) /\ met \in SUBSET Pairs
  BY DEF TypeOK, D!TypeOK, D!Matrix, D!DiplStates, D!Players, D!Pairs, Matrix, DiplStates,
     Players, Pairs
<1>2. /\ gold \in [Players -> Int] /\ owner \in [Cities -> Players \cup {Nobody}]
      /\ embassy \in SUBSET Pairs /\ knows \in [Players -> SUBSET Nat]
  BY OffersAssumption DEF TypeOK
<1> QED
  BY <1>1, <1>2 DEF World, Worlds

\* The second check found nothing.
LEMMA NoFailure ==
    ASSUME NEW p, NEW q, clauses[{p, q}] \in Seq(Clauses), FirstFailure(p, q) = 0
    PROVE  Failures(p, q) = {}
<1> SUFFICES ASSUME Failures(p, q) # {}
             PROVE  FALSE
  OBVIOUS
<1>1. Failures(p, q) \in SUBSET Nat /\ 0 \notin Failures(p, q)
  BY DEF Failures
<1>2. \E i \in Failures(p, q) : \A j \in Failures(p, q) : i <= j
  BY <1>1, LeastExists
<1>3. FirstFailure(p, q) \in Failures(p, q)
  BY <1>2 DEF FirstFailure
<1> QED
  BY <1>1, <1>3

\* What the two checks leave of the clauses of a treaty that is executed: all
\* of it holds when the treaty is.
Covered(p, q, c) ==
    /\ c.type = "gold" => gold[c.from] >= c.value
    /\ c.type = "city" => CanGiveCity(c.from, c.value)
    /\ IsPact(c) => CanMakeTreaty(type, alive, p, q, c.type)
    /\ (c.type = "advance" /\ c.from = p) => c.value \in knows[p]

\* All clauses of a treaty that is executed are covered.
LEMMA AllCovered ==
    ASSUME TypeOK, Lists, NEW p \in Players, NEW q \in Players,
           AcceptsLast(p, q), FirstFailure(p, q) = 0
    PROVE  /\ p # q /\ {p, q} \in Meetings
           /\ FitList(clauses[{p, q}], {p, q})
           /\ NoRivals(clauses[{p, q}])
           /\ \A i \in DOMAIN clauses[{p, q}] : Covered(p, q, clauses[{p, q}][i])
<1> DEFINE m == {p, q}
<1>1. p # q /\ m \in Meetings /\ clauses[m] \in Seq(Clauses)
  BY DEF AcceptsLast, TypeOK
<1>2. NoRivals(clauses[m]) /\ \A i \in DOMAIN clauses[m] : clauses[m][i].from \in m
  BY <1>1 DEF Lists
<1>3. ASSUME NEW i \in DOMAIN clauses[m]
      PROVE  Covered(p, q, clauses[m][i])
  <2>1. CanPromise(p, q, clauses[m][i])
    BY DEF AcceptsLast, ToSet
  <2>2. clauses[m][i].from \in {p, q}
    BY <1>2
  <2>3. CASE clauses[m][i].from = p
    BY <2>1, <2>3 DEF CanPromise, Covered
  <2>4. CASE clauses[m][i].from = q
    <3>1. i \notin Failures(p, q)
      BY <1>1, NoFailure
    <3>2. StillHas(p, q, clauses[m][i])
      BY <2>4, <3>1 DEF Failures
    <3> QED
      BY <1>1, <2>4, <3>2 DEF StillHas, Covered
  <2> QED
    BY <2>2, <2>3, <2>4
<1>4. ASSUME NEW i \in DOMAIN clauses[m]
      PROVE  Fit(clauses[m][i])
  <2>1. clauses[m][i] \in Clauses
    BY <1>1
  <2> QED
    BY <1>3, <2>1 DEF Fit, Covered, CanGiveCity
<1> QED
  BY <1>1, <1>2, <1>3, <1>4 DEF FitList

\* Conclude ends in the world at the end of the course.
LEMMA ConcludeCourse ==
    ASSUME TypeOK, Lists, NEW p \in Players, NEW q \in Players, NEW lost, Conclude(p, q, lost)
    PROVE  \E n, h :
              /\ n \in Nat /\ Course(p, q, lost, n, h)
              /\ type' = h[n].type /\ max_state' = h[n].max_state
              /\ turns_left' = h[n].turns_left /\ met' = h[n].met
              /\ gold' = h[n].gold /\ owner' = h[n].owner /\ knows' = h[n].knows
              /\ embassy' = h[n].embassy
<1>1. AcceptsLast(p, q) /\ FirstFailure(p, q) = 0
  BY DEF Conclude
<1>2. p # q /\ FitList(clauses[{p, q}], {p, q})
  BY <1>1, AllCovered
<1>3. Len(clauses[{p, q}]) \in Nat
  BY <1>2 DEF FitList
<1> DEFINE n == Len(clauses[{p, q}])
<1>4. PICK h : Course(p, q, lost, n, h) /\ Outcome({p, q}, lost) = h[n]
  <2>1. n \in Nat /\ n = Len(clauses[{p, q}]) /\ World \in Worlds
    BY <1>3, WorldType
  <2> HIDE DEF n
  <2> QED
    BY <1>2, <2>1, OutcomeSteps
<1> DEFINE w == Outcome({p, q}, lost)
<1>6. /\ type' = w.type /\ max_state' = w.max_state /\ turns_left' = w.turns_left
      /\ met' = w.met /\ gold' = w.gold /\ owner' = w.owner /\ knows' = w.knows
      /\ embassy' = w.embassy
  BY DEF Conclude
<1> HIDE DEF w
<1>7. w = h[n]
  BY <1>4 DEF w
<1> QED
  BY <1>3, <1>4, <1>6, <1>7

\* Clause i of the treaty, c, is executed in favour of dest.
Executes(p, q, lost, h, i, c, dest) ==
    /\ i \in DOMAIN clauses[{p, q}]
    /\ c = clauses[{p, q}][i]
    /\ h[i - 1] \in Worlds /\ h[i] \in Worlds
    /\ h[i] = Executed(h[i - 1], c, dest, lost)
    /\ Fit(c) /\ c \in Clauses
    /\ c.from \in Players /\ dest \in Players /\ c.from # dest
    /\ dest = Other({p, q}, c.from)
    /\ \/ c.from = p /\ dest = q
       \/ c.from = q /\ dest = p

\* Each step of the course executes one clause.
LEMMA CourseStep ==
    ASSUME NEW p \in Players, NEW q \in Players, p # q, NEW lost, NEW n \in Nat, NEW h,
           FitList(clauses[{p, q}], {p, q}), Course(p, q, lost, n, h), NEW i \in 1 .. n
    PROVE  \E c, dest : Executes(p, q, lost, h, i, c, dest)
<1> DEFINE c == clauses[{p, q}][i]
<1>1. i \in DOMAIN clauses[{p, q}] /\ i - 1 \in 0 .. n /\ i \in 0 .. n
  BY DEF FitList, Course
<1>2. c.from \in {p, q} /\ Fit(c)
  BY <1>1 DEF FitList
<1>3. /\ h[i - 1] \in Worlds /\ h[i] \in Worlds
      /\ h[i] = Step({p, q}, lost, h[i - 1], i)
  BY <1>1 DEF Course
<1>4. Other({p, q}, p) = q /\ Other({p, q}, q) = p
  BY OtherFacts
<1> QED
  BY <1>1, <1>2, <1>3, <1>4 DEF Step, Fit, Executes

-----------------------------------------------------------------------------
(***************************************************************************)
(* Gold: what p and q have at each clause covers what is still to be paid. *)
(***************************************************************************)
LEMMA FieldsExecuted ==
    ASSUME NEW w \in Worlds, NEW c \in Clauses, NEW dest \in Players, c.from # dest, NEW lost,
           Fit(c), NEW e, e = Executed(w, c, dest, lost)
    PROVE  /\ c.type # "gold" => e.gold = w.gold
           /\ c.type # "city" => e.owner = w.owner
           /\ c.type # "advance" => e.knows = w.knows
           /\ c.type # "embassy" => e.embassy = w.embassy
           /\ (c.type # "city" /\ ~ IsPact(c)) => UnchangedPacts(w, e)
<1>1. c.type \in {"gold", "city", "embassy", "advance"} \/ IsPact(c)
  BY DEF Clauses, ClauseTypes, PactClauses, IsPact
<1>2. CASE c.type = "gold"
  BY <1>2, GoldExecuted
<1>3. CASE c.type = "city"
  BY <1>3, CityExecuted
<1>4. CASE c.type = "embassy"
  BY <1>4, EmbassyExecuted
<1>5. CASE c.type = "advance"
  BY <1>5, AdvanceExecuted
<1>6. CASE IsPact(c)
  BY <1>6, PactExecuted DEF IsPact
<1> QED
  BY <1>1, <1>2, <1>3, <1>4, <1>5, <1>6

-----------------------------------------------------------------------------
\* Who has not paid yet has at least the gold there was; who has paid had it.
GoldLeft(m, w, i) ==
    \A x \in Players :
        /\ w.gold[x] >= 0
        /\ (\A j \in 1 .. i : ~ (clauses[m][j].type = "gold" /\ clauses[m][j].from = x))
              => w.gold[x] >= gold[x]

LEMMA GoldCourse ==
    ASSUME TypeOK, Lists, GoldNeverNegative, NEW p \in Players, NEW q \in Players, NEW lost,
           AcceptsLast(p, q), FirstFailure(p, q) = 0,
           NEW n \in Nat, NEW h, Course(p, q, lost, n, h)
    PROVE  GoldLeft({p, q}, h[n], n)
<1> DEFINE m == {p, q}
           S == {i \in 0 .. n : GoldLeft(m, h[i], i)}
<1>1. /\ p # q /\ FitList(clauses[m], m) /\ NoRivals(clauses[m])
      /\ \A i \in DOMAIN clauses[m] : Covered(p, q, clauses[m][i])
  BY AllCovered
<1>2. 0 \in S
  BY DEF Course, World, GoldLeft, GoldNeverNegative, TypeOK
<1>3. ASSUME NEW i \in 1 .. n, i - 1 \in S
      PROVE  i \in S
  <2> DEFINE w == h[i - 1]
             e == h[i]
  <2>0. PICK c, dest : Executes(p, q, lost, h, i, c, dest)
    BY <1>1, CourseStep
  <2>1. /\ i \in DOMAIN clauses[m] /\ w \in Worlds /\ e \in Worlds /\ c = clauses[m][i]
        /\ e = Executed(w, c, dest, lost)
        /\ Fit(c) /\ c \in Clauses /\ c.from \in Players /\ dest \in Players /\ c.from # dest
    BY <2>0 DEF Executes
  <2>2. GoldLeft(m, w, i - 1)
    BY <1>3
  <2>3. \A j \in 1 .. (i - 1) : j \in 1 .. i /\ j \in DOMAIN clauses[m] /\ j # i
    BY <1>1 DEF Course, FitList
  <2>4. i \in 1 .. i /\ i \in 0 .. n
    OBVIOUS
  <2>5. w.gold \in [Players -> Int] /\ e.gold \in [Players -> Int] /\ gold \in [Players -> Int]
    BY <2>1 DEF Worlds, TypeOK
  <2>6. CASE c.type = "gold"
    <3>1. e.gold = Paid(w.gold, c.from, dest, c.value)
      <4> HIDE DEF w, e
      <4> QED
        BY <2>1, <2>6, GoldExecuted
    <3>2. c.value \in Nat /\ Received(c.value) \in Nat
      BY <2>1, ReceivedType DEF Clauses
    <3>3. \A j \in 1 .. (i - 1) : ~ (clauses[m][j].type = "gold" /\ clauses[m][j].from = c.from)
      BY <1>1, <2>1, <2>3, <2>6 DEF NoRivals, Replaces
    <3>4. w.gold[c.from] >= gold[c.from] /\ gold[c.from] >= c.value
      <4>1. gold[c.from] >= c.value
        BY <1>1, <2>1, <2>6 DEF Covered
      <4> QED
        BY <2>1, <2>2, <3>3, <4>1 DEF GoldLeft
    <3> HIDE DEF w, e
    <3>5. ASSUME NEW x \in Players
          PROVE  e.gold[x] >= 0 /\ (x # c.from => e.gold[x] >= w.gold[x])
      <4>1. w.gold[x] >= 0
        BY <2>2 DEF GoldLeft
      <4>2. e.gold[x] = IF x = dest THEN w.gold[x] + Received(c.value)
                        ELSE IF x = c.from THEN w.gold[x] - c.value ELSE w.gold[x]
        BY <2>1, <2>5, <3>1, ZenonT(40) DEF Paid
      <4>3. w.gold[x] \in Int /\ w.gold[c.from] \in Int /\ gold[c.from] \in Int
        BY <2>1, <2>5
      <4>4. w.gold[c.from] >= c.value
        BY <3>2, <3>4, <4>3
      <4> QED
        BY <2>1, <3>2, <4>1, <4>2, <4>3, <4>4
    <3>6. ASSUME NEW x \in Players,
                 \A j \in 1 .. i : ~ (clauses[m][j].type = "gold" /\ clauses[m][j].from = x)
          PROVE  e.gold[x] >= gold[x]
      <4>1. x # c.from
        BY <2>1, <2>4, <2>6, <3>6
      <4>2. w.gold[x] >= gold[x]
        BY <2>2, <2>3, <3>6 DEF GoldLeft
      <4> QED
        BY <2>5, <3>5, <4>1, <4>2
    <3>7. GoldLeft(m, e, i)
      BY <3>5, <3>6 DEF GoldLeft
    <3> QED
      BY <2>4, <3>7 DEF e
  <2>7. CASE c.type # "gold"
    <3>1. e.gold = w.gold
      <4> HIDE DEF w, e
      <4> QED
        BY <2>1, <2>7, FieldsExecuted
    <3> HIDE DEF w, e
    <3>2. GoldLeft(m, e, i)
      BY <2>2, <2>3, <3>1 DEF GoldLeft
    <3> QED
      BY <2>4, <3>2 DEF e
  <2> QED
    BY <2>6, <2>7
<1>4. n \in S
  <2>1. 0 .. n \subseteq S
    <3> HIDE DEF S
    <3> QED
      BY <1>2, <1>3, BoundedInduction
  <2> QED
    BY <2>1
<1> QED
  BY <1>4

-----------------------------------------------------------------------------
(***************************************************************************)
(* What a clause has given is not taken back by the clauses after it.      *)
(***************************************************************************)
GivesBack(m, c, dest) ==
    [type |-> "advance", from |-> dest, value |-> c.value] \in ToSet(clauses[m])

\* The world w has what clause c, in favour of dest, promised.
Fulfilled(m, lost, w, c, dest) ==
    /\ c.type = "city" => w.owner[c.value] = dest
    /\ c.type = "advance" => \/ c.value \in w.knows[dest] \/ GivesBack(m, c, dest)
                             \/ <<"receiver", c>> \in lost
    /\ c.type = "embassy" => <<dest, c.from>> \in w.embassy
    /\ IsPact(c) => /\ w.type[c.from][dest] = PactResult(c.type)
                    /\ w.type[dest][c.from] = PactResult(c.type)

\* A clause that has just been executed has given what it promised.
LEMMA JustFulfilled ==
    ASSUME NEW m, NEW w \in Worlds, NEW c \in Clauses, NEW dest \in Players, c.from # dest,
           NEW lost, Fit(c), NEW e, e = Executed(w, c, dest, lost)
    PROVE  Fulfilled(m, lost, e, c, dest)
<1>1. c.type \in {"gold", "city", "embassy", "advance"} \/ IsPact(c)
  BY DEF Clauses, ClauseTypes, PactClauses, IsPact
<1>2. CASE c.type = "gold"
  BY <1>2 DEF Fulfilled, IsPact
<1>3. CASE c.type = "city"
  <2>1. e.owner = Given(w.owner, c.value, dest)
    BY <1>3, CityExecuted
  <2>2. e.owner[c.value] = dest
    BY <1>3, <2>1 DEF Given, Worlds, Fit
  <2> QED
    BY <1>3, <2>2 DEF Fulfilled, IsPact
<1>4. CASE c.type = "embassy"
  BY <1>4, EmbassyExecuted DEF Fulfilled, IsPact
<1>5. CASE c.type = "advance"
  BY <1>5, AdvanceExecuted DEF Fulfilled, IsPact, Taught1
<1>6. CASE IsPact(c)
  <2>1. e.type = Put(w.type, Both(c.from, dest), PactResult(c.type))
    BY <1>6, PactExecuted
  <2>2. /\ <<c.from, dest>> \in Both(c.from, dest) /\ <<dest, c.from>> \in Both(c.from, dest)
        /\ c.from \in Players
    BY DEF Both, Clauses
  <2> QED
    BY <1>6, <2>1, <2>2, PutEntry DEF Fulfilled, IsPact
<1> QED
  BY <1>1, <1>2, <1>3, <1>4, <1>5, <1>6

\* Clause d, executed before clause c, is not undone by it.
LEMMA StillFulfilled ==
    ASSUME NEW p \in Players, NEW q \in Players, p # q,
           NEW w \in Worlds, NEW c \in Clauses, NEW dest \in Players, c.from # dest,
           NEW lost, Fit(c), NEW e, e = Executed(w, c, dest, lost),
           c \in ToSet(clauses[{p, q}]), Covered(p, q, c),
           \/ c.from = p /\ dest = q
           \/ c.from = q /\ dest = p,
           NEW d \in Clauses, NEW dest2 \in Players, Covered(p, q, d),
           \/ d.from = p /\ dest2 = q
           \/ d.from = q /\ dest2 = p,
           ~ Replaces(c, d), Fulfilled({p, q}, lost, w, d, dest2)
    PROVE  Fulfilled({p, q}, lost, e, d, dest2)
<1>1. ASSUME d.type = "city"
      PROVE  e.owner[d.value] = dest2
  <2>1. w.owner[d.value] = dest2
    BY <1>1 DEF Fulfilled
  <2>2. CASE c.type # "city"
    BY <2>1, <2>2, FieldsExecuted
  <2>3. CASE c.type = "city"
    <3>1. e.owner = Given(w.owner, c.value, dest)
      BY <2>3, CityExecuted
    <3>2. c.value = d.value => dest = dest2
      BY <1>1, <2>3 DEF Covered, CanGiveCity
    <3>3. w.owner = [x \in Cities |-> w.owner[x]] /\ c.value \in Cities
      BY <2>3 DEF Worlds, Fit
    <3>4. CASE c.value = d.value
      BY <3>1, <3>2, <3>3, <3>4 DEF Given
    <3>5. CASE c.value # d.value
      <4>1. d.value \in Cities
        BY <1>1 DEF Covered, CanGiveCity
      <4> QED
        BY <2>1, <3>1, <3>3, <3>5, <4>1 DEF Given
    <3> QED
      BY <3>4, <3>5
  <2> QED
    BY <2>2, <2>3
<1>2. ASSUME d.type = "advance"
      PROVE  \/ d.value \in e.knows[dest2] \/ GivesBack({p, q}, d, dest2)
             \/ <<"receiver", d>> \in lost
  <2>1. CASE GivesBack({p, q}, d, dest2) \/ <<"receiver", d>> \in lost
    BY <2>1
  <2>2. CASE d.value \in w.knows[dest2] /\ c.type # "advance"
    BY <2>2, FieldsExecuted
  <2>3. CASE d.value \in w.knows[dest2] /\ c.type = "advance"
    <3>1. Taught1(w.knows, e.knows, c, dest, lost)
      BY <2>3, AdvanceExecuted
    <3>2. CASE c.from # dest2
      BY <2>3, <3>1, <3>2 DEF Taught1
    <3>3. CASE c.from = dest2 /\ c.value # d.value
      BY <2>3, <3>1, <3>3 DEF Taught1
    <3>4. CASE c.from = dest2 /\ c.value = d.value
      <4>1. c = [type |-> "advance", from |-> dest2, value |-> d.value]
        BY <2>3, <3>4 DEF Clauses
      <4> QED
        BY <4>1 DEF GivesBack
    <3> QED
      BY <3>2, <3>3, <3>4
  <2> QED
    BY <1>2, <2>1, <2>2, <2>3 DEF Fulfilled
<1>3. ASSUME d.type = "embassy"
      PROVE  <<dest2, d.from>> \in e.embassy
  <2>1. <<dest2, d.from>> \in w.embassy
    BY <1>3 DEF Fulfilled
  <2>2. CASE c.type # "embassy"
    BY <2>1, <2>2, FieldsExecuted
  <2>3. CASE c.type = "embassy"
    BY <2>1, <2>3, EmbassyExecuted
  <2> QED
    BY <2>2, <2>3
<1>4. ASSUME IsPact(d)
      PROVE  /\ e.type[d.from][dest2] = PactResult(d.type)
             /\ e.type[dest2][d.from] = PactResult(d.type)
  <2>1. /\ w.type[d.from][dest2] = PactResult(d.type)
        /\ w.type[dest2][d.from] = PactResult(d.type)
        /\ PactResult(d.type) # "no_contact"
    BY <1>4, StateTypes DEF Fulfilled, IsPact, PactClauses
  <2>2. ~ IsPact(c)
    BY <1>4 DEF Replaces
  <2>3. CASE c.type = "city"
    BY <2>1, <2>3, CityExecuted, SMTT(30) DEF OnlyContacts
  <2>4. CASE c.type # "city"
    BY <2>1, <2>2, <2>4, FieldsExecuted DEF UnchangedPacts
  <2> QED
    BY <2>3, <2>4
<1> QED
  BY <1>1, <1>2, <1>3, <1>4 DEF Fulfilled

\* At the end of the course every clause has given what it promised.
LEMMA PromisesCourse ==
    ASSUME TypeOK, Lists, NEW p \in Players, NEW q \in Players, NEW lost,
           AcceptsLast(p, q), FirstFailure(p, q) = 0,
           NEW n \in Nat, NEW h, Course(p, q, lost, n, h)
    PROVE  \A j \in 1 .. n :
              Fulfilled({p, q}, lost, h[n], clauses[{p, q}][j], Other({p, q}, clauses[{p, q}][j].from))
<1> DEFINE m == {p, q}
           Done(j, w) == Fulfilled(m, lost, w, clauses[m][j], Other(m, clauses[m][j].from))
           S == {i \in 0 .. n : \A j \in 1 .. i : Done(j, h[i])}
<1>1. /\ p # q /\ FitList(clauses[m], m) /\ NoRivals(clauses[m])
      /\ \A i \in DOMAIN clauses[m] : Covered(p, q, clauses[m][i])
  BY AllCovered
<1>2. 0 \in S
  OBVIOUS
<1>3. ASSUME NEW i \in 1 .. n, i - 1 \in S
      PROVE  i \in S
  <2>1. PICK c, dest : Executes(p, q, lost, h, i, c, dest)
    BY <1>1, CourseStep
  <2>2. /\ i \in 1 .. i /\ i \in 0 .. n
        /\ \A j \in 1 .. i : j # i => j \in 1 .. (i - 1) /\ j \in 1 .. n
    OBVIOUS
  <2>3. Done(i, h[i])
    BY <2>1, JustFulfilled DEF Executes
  <2>4. ASSUME NEW j \in 1 .. (i - 1)
        PROVE  Done(j, h[i])
    <3>1. j \in 1 .. n /\ j # i
      OBVIOUS
    <3>2. PICK d, dest2 : Executes(p, q, lost, h, j, d, dest2)
      BY <1>1, <3>1, CourseStep
    <3>3. Fulfilled(m, lost, h[i - 1], d, dest2)
      BY <1>3, <3>2 DEF Executes
    <3>4. ~ Replaces(c, d) /\ Covered(p, q, c) /\ Covered(p, q, d) /\ c \in ToSet(clauses[m])
      BY <1>1, <2>1, <3>1, <3>2 DEF Executes, NoRivals, ToSet
    <3>5. /\ h[i - 1] \in Worlds /\ c \in Clauses /\ dest \in Players /\ c.from # dest /\ Fit(c)
          /\ h[i] = Executed(h[i - 1], c, dest, lost)
          /\ (c.from = p /\ dest = q) \/ (c.from = q /\ dest = p)
      BY <2>1 DEF Executes
    <3>6. /\ d \in Clauses /\ dest2 \in Players
          /\ (d.from = p /\ dest2 = q) \/ (d.from = q /\ dest2 = p)
      BY <3>2 DEF Executes
    <3>7. Fulfilled(m, lost, h[i], d, dest2)
      BY <1>1, <3>3, <3>4, <3>5, <3>6, StillFulfilled
    <3> QED
      BY <3>2, <3>7 DEF Executes
  <2> HIDE DEF Done
  <2> QED
    BY <2>2, <2>3, <2>4
<1>4. n \in S
  <2> HIDE DEF S
  <2>1. 0 .. n \subseteq S
    BY <1>2, <1>3, BoundedInduction
  <2> QED
    BY <2>1
<1> QED
  BY <1>4

-----------------------------------------------------------------------------
(***************************************************************************)
(* The clauses on the tables.                                              *)
(***************************************************************************)
\* The clauses cs of one meeting, accepted by acc.  Whoever accepts knows the
\* advances he promises.
TableOK(m, isOpen, cs, acc) ==
    /\ cs \in Seq(Clauses)
    /\ acc \subseteq m
    /\ ~ isOpen => cs = <<>> /\ acc = {}
    /\ NoRivals(cs)
    /\ \A i \in DOMAIN cs : cs[i].from \in m
    /\ \A c \in ToSet(cs) : (c.type = "advance" /\ c.from \in acc) => c.value \in Techs

Tables == \A m \in Meetings : TableOK(m, m \in open, clauses[m], accepted[m])

\* A table without clauses and acceptances is in order.
LEMMA EmptyTable ==
    ASSUME NEW m, NEW isOpen
    PROVE  TableOK(m, isOpen, <<>>, {})
BY DEF TableOK, NoRivals, ToSet

LEMMA FewerAccept ==
    ASSUME NEW m, NEW isOpen, NEW cs, NEW acc, TableOK(m, isOpen, cs, acc), NEW S \in SUBSET acc
    PROVE  TableOK(m, isOpen, cs, S)
BY DEF TableOK

\* The handlers keep the tables in order.
LEMMA CloseTables ==
    ASSUME Tables, NEW S, Close(S)
    PROVE  Tables'
<1>1. ASSUME NEW m \in Meetings
      PROVE  TableOK(m, m \in open, clauses[m], accepted[m])'
  <2>1. CASE m \in S
    BY <2>1, EmptyTable DEF Close
  <2>2. CASE m \notin S
    BY <2>2 DEF Close, Tables
  <2> QED
    BY <2>1, <2>2
<1> QED
  BY <1>1 DEF Tables

LEMMA RejectTables ==
    ASSUME Tables, NEW S, RejectAll(S)
    PROVE  Tables'
<1>1. ASSUME NEW m \in Meetings
      PROVE  TableOK(m, m \in open, clauses[m], accepted[m])'
  <2>1. CASE m \in MeetingsOf(S)
    BY <2>1, FewerAccept DEF RejectAll, Tables
  <2>2. CASE m \notin MeetingsOf(S)
    BY <2>2 DEF RejectAll, Tables
  <2> QED
    BY <2>1, <2>2
<1> QED
  BY <1>1 DEF Tables

LEMMA ChangeTables ==
    ASSUME Tables, Shaped, NEW m \in open, NEW cs, ChangeClauses(m, cs),
           cs \in Seq(Clauses), NoRivals(cs), \A i \in DOMAIN cs : cs[i].from \in m
    PROVE  Tables'
<1>1. ASSUME NEW k \in Meetings
      PROVE  TableOK(k, k \in open, clauses[k], accepted[k])'
  <2>1. CASE k = m
    BY <2>1 DEF ChangeClauses, Shaped, TableOK
  <2>2. CASE k # m
    BY <2>2 DEF ChangeClauses, Shaped, Tables
  <2> QED
    BY <2>1, <2>2
<1> QED
  BY <1>1 DEF Tables

LEMMA AcceptTables ==
    ASSUME Tables, Shaped, NEW m \in open, NEW acc, acc \subseteq m,
           \A c \in ToSet(clauses[m]) :
              (c.type = "advance" /\ c.from \in acc) => c.value \in Techs,
           accepted' = [accepted EXCEPT ![m] = acc], UNCHANGED <<open, clauses>>
    PROVE  Tables'
<1>1. ASSUME NEW k \in Meetings
      PROVE  TableOK(k, k \in open, clauses[k], accepted[k])'
  <2>1. CASE k = m
    BY <2>1 DEF Shaped, Tables, TableOK
  <2>2. CASE k # m
    BY <2>2 DEF Shaped, Tables
  <2> QED
    BY <2>1, <2>2
<1> QED
  BY <1>1 DEF Tables

LEMMA ClausesAreRecords == Clauses = Records(ClauseTypes, Players, Nat)
BY DEF Clauses, Records

\* So do all steps of a negotiation.
LEMMA NegotiateTables ==
    ASSUME Tables, Shaped, knows \in [Players -> SUBSET Techs], Negotiate
    PROVE  Tables'
<1>1. ASSUME NEW p \in Players, NEW q \in Players \ {p}, InitMeeting(p, q)
      PROVE  Tables'
  BY <1>1 DEF InitMeeting, Tables, TableOK
<1>2. ASSUME NEW p \in Players, NEW q \in Players \ {p},
             CancelMeeting(p, q) \/ FallThrough(p, q)
      PROVE  Tables'
  BY <1>2, CloseTables DEF CancelMeeting, FallThrough
<1>3. ASSUME NEW p \in Players, NEW q \in Players \ {p}, NEW lost, Conclude(p, q, lost)
      PROVE  Tables'
  BY <1>3, CloseTables DEF Conclude
<1>4. ASSUME NEW p \in Players, NEW q \in Players \ {p}, Accept(p, q)
      PROVE  Tables'
  <2>1. {p, q} \in open /\ {p} \subseteq {p, q} /\ UNCHANGED <<open, clauses>>
    BY <1>4 DEF Accept
  <2>2. CASE accepted' = [accepted EXCEPT ![{p, q}] = {}]
    <3> DEFINE m == {p, q}
               none == {}
    <3>1. /\ m \in open /\ none \subseteq m /\ accepted' = [accepted EXCEPT ![m] = none]
          /\ \A c \in ToSet(clauses[m]) :
                (c.type = "advance" /\ c.from \in none) => c.value \in Techs
      BY <2>1, <2>2
    <3> HIDE DEF m, none
    <3> QED
      BY <2>1, <3>1, AcceptTables
  <2>3. CASE /\ accepted' = [accepted EXCEPT ![{p, q}] = {p}]
             /\ \A c \in ToSet(clauses[{p, q}]) : CanPromise(p, q, c)
    <3> DEFINE m == {p, q}
               one == {p}
    <3>1. \A c \in ToSet(clauses[m]) :
             (c.type = "advance" /\ c.from \in one) => c.value \in Techs
      BY <2>3 DEF CanPromise
    <3>2. m \in open /\ one \subseteq m /\ accepted' = [accepted EXCEPT ![m] = one]
      BY <2>1, <2>3
    <3> HIDE DEF m, one
    <3> QED
      BY <2>1, <3>1, <3>2, AcceptTables
  <2> QED
    BY <1>4, <2>2, <2>3 DEF Accept
<1>5. ASSUME NEW p \in Players, NEW q \in Players \ {p}, TakeBack(p, q)
      PROVE  Tables'
  <2> DEFINE m == {p, q}
             one == {q}
  <2>1. m \in open /\ m \in Meetings /\ one \subseteq m /\ UNCHANGED <<open, clauses>>
    BY <1>5 DEF TakeBack, Shaped
  <2>2. \A c \in ToSet(clauses[m]) :
           (c.type = "advance" /\ c.from \in one) => c.value \in Techs
    BY <1>5, <2>1 DEF TakeBack, Tables, TableOK
  <2>3. accepted' = [accepted EXCEPT ![m] = one]
    BY <1>5 DEF TakeBack
  <2> HIDE DEF m, one
  <2> QED
    BY <2>1, <2>2, <2>3, AcceptTables
<1>6. ASSUME NEW p \in Players, NEW q \in Players \ {p}, LeaveBehind(p, q)
      PROVE  Tables'
  <2> DEFINE m == {p, q}
  <2>1. /\ m \in open /\ m \in Meetings /\ UNCHANGED <<open, clauses>>
        /\ accepted[m] = {q}
        /\ \A c \in ToSet(clauses[m]) : CanPromise(p, q, c)
    BY <1>6 DEF LeaveBehind, AcceptsLast, Shaped
  <2>2. \A c \in ToSet(clauses[m]) :
           (c.type = "advance" /\ c.from \in m) => c.value \in Techs
    BY <2>1 DEF Tables, TableOK, CanPromise
  <2>3. accepted' = [accepted EXCEPT ![m] = m]
    BY <1>6 DEF LeaveBehind
  <2> HIDE DEF m
  <2>4. m \subseteq m
    OBVIOUS
  <2> QED
    BY <2>1, <2>2, <2>3, <2>4, AcceptTables
<1>7. ASSUME NEW m \in Meetings, NEW c \in Offers, CreateClause(m, c)
      PROVE  Tables'
  <2> DEFINE cs == WithClause(clauses[m], c)
  <2>1. m \in open /\ c.from \in m /\ ChangeClauses(m, cs)
    BY <1>7 DEF CreateClause, MayOffer
  <2>2. /\ clauses[m] \in Seq(Clauses) /\ NoRivals(clauses[m])
        /\ \A i \in DOMAIN clauses[m] : clauses[m][i].from \in m
    BY DEF Tables, TableOK
  <2>3. c \in Clauses
    BY OffersAssumption
  <2>4. cs \in Seq(Clauses) /\ NoRivals(cs) /\ KeepsGivers(clauses[m], cs, c)
    <3> DEFINE R == Records(ClauseTypes, Players, Nat)
    <3>1. clauses[m] \in Seq(R) /\ c \in R
      BY <2>2, <2>3, ClausesAreRecords, Zenon
    <3>2. cs \in Seq(R) /\ NoRivals(cs) /\ KeepsGivers(clauses[m], cs, c)
      BY <2>2, <3>1, WithClauseFacts
    <3> QED
      BY <3>2, ClausesAreRecords, Zenon
  <2> HIDE DEF cs
  <2> QED
    BY <2>1, <2>2, <2>4, ChangeTables DEF KeepsGivers
<1>8. ASSUME NEW m \in open, NEW c \in ToSet(clauses[m]), RemoveClause(m, c)
      PROVE  Tables'
  <2> DEFINE cs == WithoutClause(clauses[m], c)
  <2>1. m \in Meetings /\ ChangeClauses(m, cs)
    BY <1>8 DEF RemoveClause, Shaped
  <2>2. /\ clauses[m] \in Seq(Clauses) /\ NoRivals(clauses[m])
        /\ \A i \in DOMAIN clauses[m] : clauses[m][i].from \in m
    BY <2>1 DEF Tables, TableOK
  <2>3. /\ cs \in Seq(Clauses) /\ NoRivals(cs)
        /\ \A i \in DOMAIN cs : \E j \in DOMAIN clauses[m] : cs[i] = clauses[m][j]
    BY <2>2, WithoutClauseFacts
  <2> HIDE DEF cs
  <2>4. \A i \in DOMAIN cs : cs[i].from \in m
    BY <2>2, <2>3
  <2> QED
    BY <2>1, <2>3, <2>4, ChangeTables
<1> QED
  BY <1>1, <1>2, <1>3, <1>4, <1>5, <1>6, <1>7, <1>8 DEF Negotiate

-----------------------------------------------------------------------------
(***************************************************************************)
(* The steps of Diplomacy, of which Treaty has an instance.                *)
(***************************************************************************)
\* The rules of the instance of Diplomacy are those of this module.
LEMMA SameOperators ==
    /\ D!Players = Players /\ D!Pairs = Pairs /\ D!DiplStates = DiplStates
    /\ D!PactClauses = PactClauses
    /\ \A S : D!Matrix(S) = Matrix(S)
    /\ \A p, q : D!Both(p, q) = Both(p, q) /\ (D!SameTeam(p, q) <=> SameTeam(p, q))
    /\ \A f, R, v : D!Put(f, R, v) = Put(f, R, v)
    /\ \A pact : D!PactResult(pact) = PactResult(pact)
    /\ \A ds : D!CancelPactResult(ds) = CancelPactResult(ds) /\ D!HowClose(ds) = HowClose(ds)
<1>1. D!Players = Players /\ D!DiplStates = DiplStates /\ D!PactClauses = PactClauses
  BY DEF D!Players, Players, D!DiplStates, DiplStates, D!PactClauses, PactClauses
<1>2. D!Pairs = Pairs
  BY <1>1 DEF D!Pairs, Pairs
<1>3. \A S : D!Matrix(S) = Matrix(S)
  BY <1>1 DEF D!Matrix, Matrix
<1>4. \A p, q : D!Both(p, q) = Both(p, q) /\ (D!SameTeam(p, q) <=> SameTeam(p, q))
  BY DEF D!Both, Both, D!SameTeam, SameTeam
<1>5. \A f, R, v : D!Put(f, R, v) = Put(f, R, v)
  BY <1>1 DEF D!Put, Put
<1>6. \A pact : D!PactResult(pact) = PactResult(pact)
  BY DEF D!PactResult, PactResult
<1>7. \A ds : D!CancelPactResult(ds) = CancelPactResult(ds) /\ D!HowClose(ds) = HowClose(ds)
  BY DEF D!CancelPactResult, CancelPactResult, D!HowClose, HowClose
<1> QED
  BY <1>1, <1>2, <1>3, <1>4, <1>5, <1>6, <1>7

LEMMA SameMaxState == \A a, b : D!MaxState(a, b) = MaxState(a, b)
BY SameOperators DEF D!MaxState, MaxState, D!Closest, Closest

\* set_diplstate_type in the instance of Diplomacy.
LEMMA SameSetting ==
    ASSUME NEW R, NEW ds, D!SetDiplStateType(R, ds)
    PROVE  type' = Put(type, R, ds) /\ max_state' = Best(max_state, R, ds)
<1>1. type' = Put(type, R, ds)
  BY SameOperators DEF D!SetDiplStateType
<1>2. max_state' = Best(max_state, R, ds)
  BY SameMaxState, SameOperators DEF D!SetDiplStateType, Best
<1> QED
  BY <1>1, <1>2

\* What a first contact changes.
LEMMA ContactStep ==
    ASSUME NEW p \in Players, NEW q \in Players, D!MakeContact(p, q)
    PROVE  \E ds \in {"war", "peace"} :
              /\ type' = Put(type, Both(p, q), ds)
              /\ max_state' = Best(max_state, Both(p, q), ds)
              /\ met' = met \cup Both(p, q)
              /\ type[p][q] = "no_contact"
              /\ UNCHANGED <<turns_left, reason, autoCancelled, alive, unborn, senate, cursor>>
<1> DEFINE ds == D!DefaultDiplState(type, alive, p, q)
<1>1. ds \in {"war", "peace"}
  BY DEF D!DefaultDiplState
<1>2. /\ D!SetDiplStateType(Both(p, q), ds)
      /\ met' = met \cup Both(p, q)
      /\ type[p][q] = "no_contact"
      /\ UNCHANGED <<turns_left, reason, autoCancelled, alive, unborn, senate, cursor>>
  BY SameOperators DEF D!MakeContact, D!playerVars
<1> HIDE DEF ds
<1> QED
  BY <1>1, <1>2, SameSetting

\* Those who leave an ally because p declares war on q.
Leaving(p, q) ==
    IF CancelPactResult(type[p][q]) = "war" THEN D!FallOut(p, q) ELSE {}

\* What a cancelled pact changes.
LEMMA CancelStep ==
    ASSUME NEW p \in Players, NEW q \in Players, D!CancelPact(p, q)
    PROVE  LET leave == Leaving(p, q)
               other == D!Mutual(leave)
           IN  /\ leave \subseteq Pairs
               /\ type' = Put(Put(type, Both(p, q), CancelPactResult(type[p][q])),
                              other, "armistice")
               /\ turns_left' = Put(turns_left, Both(p, q) \cup other, TurnsLeft)
               /\ reason' = Put(reason, {<<p, q>>} \cup leave, 0)
               /\ \A rs \in leave : rs[2] \in {p, q}
               /\ \A a, b \in Players :
                     <<a, b>> \in other <=> <<a, b>> \in leave \/ <<b, a>> \in leave
               /\ p # q
               /\ UNCHANGED <<max_state, met, autoCancelled, alive, unborn, senate, cursor>>
<1>1. D!FallOut(p, q) \subseteq Pairs /\ \A rs \in D!FallOut(p, q) : rs[2] \in {p, q}
  BY SameOperators DEF D!FallOut
<1>2. Leaving(p, q) \subseteq Pairs /\ \A rs \in Leaving(p, q) : rs[2] \in {p, q}
  BY <1>1 DEF Leaving
<1> DEFINE leave == Leaving(p, q)
           other == D!Mutual(leave)
<1>3. \A a, b \in Players : <<a, b>> \in other <=> <<a, b>> \in leave \/ <<b, a>> \in leave
  BY SameOperators DEF D!Mutual, Pairs
<1>4. p # q
  BY DEF D!CancelPact, D!CanCancel
<1>5. /\ type' = Put(Put(type, Both(p, q), CancelPactResult(type[p][q])), other, "armistice")
      /\ turns_left' = Put(turns_left, Both(p, q) \cup other, TurnsLeft)
      /\ reason' = Put(reason, {<<p, q>>} \cup leave, 0)
  BY SameOperators DEF D!CancelPact, Leaving
<1>6. UNCHANGED <<max_state, met, autoCancelled, alive, unborn, senate, cursor>>
  BY DEF D!CancelPact, D!playerVars
<1> QED
  BY <1>2, <1>3, <1>4, <1>5, <1>6

\* What a death changes: nothing between the players.
LEMMA DeathStep ==
    ASSUME NEW p \in Players, D!KillPlayer(p, {}),
           type \in Matrix(DiplStates), max_state \in Matrix(DiplStates),
           turns_left \in Matrix(0 .. TurnsLeft), reason \in Matrix(0 .. 2)
    PROVE  /\ UNCHANGED <<type, max_state, turns_left, reason, met, autoCancelled, unborn,
                          senate, cursor>>
           /\ alive' = alive \ {p}
<1> DEFINE new == {} \cap unborn
           IsNew(pq) == /\ pq[1] # pq[2] /\ {pq[1], pq[2]} \cap new # {}
                        /\ {pq[1], pq[2]} \cap (unborn \ new) = {}
<1>1. alive' = alive \ {p} /\ UNCHANGED <<met, autoCancelled, senate, cursor>> /\ D!Arrive({})
  BY DEF D!KillPlayer
<1>2. /\ D!SetDiplStateType({}, "war") /\ unborn' = unborn
      /\ turns_left' = Put(turns_left, {}, 0) /\ reason' = Put(reason, {}, 0)
  <2>1. {pq \in D!Pairs : IsNew(pq)} = {}
    OBVIOUS
  <2> QED
    BY <1>1, <2>1, SameOperators DEF D!Arrive
<1>3. type' = Put(type, {}, "war") /\ max_state' = Best(max_state, {}, "war")
  BY <1>2, SameSetting
<1>4. max_state' = max_state
  BY <1>3 DEF Best, Matrix
<1> QED
  BY <1>1, <1>2, <1>3, <1>4, PutNothing

-----------------------------------------------------------------------------
(***************************************************************************)
(* The types.                                                              *)
(***************************************************************************)
DiplTypes ==
    /\ type \in Matrix(DiplStates)
    /\ max_state \in Matrix(DiplStates)
    /\ turns_left \in Matrix(0 .. TurnsLeft)
    /\ reason \in Matrix(0 .. 2)
    /\ met \in SUBSET Pairs
    /\ autoCancelled \in SUBSET Pairs
    /\ alive \in SUBSET Players
    /\ unborn \in SUBSET Unborn
    /\ senate \in SUBSET {}
    /\ cursor \in Pairs \cup {D!Idle}

Wealth ==
    /\ gold \in [Players -> Int]
    /\ owner \in [Cities -> Players \cup {Nobody}]
    /\ capital \in SUBSET Cities
    /\ knows \in [Players -> SUBSET Techs]
    /\ embassy \in SUBSET Pairs

\* The pacts are left to Diplomacy, between turn changes.
TInv == DiplTypes /\ Wealth /\ Tables /\ AInv /\ cursor = D!Idle

\* The invariant gives the types and the lists the lemmas above ask for.
LEMMA TInvTypes ==
    ASSUME TInv
    PROVE  TypeOK /\ Lists
<1>1. D!TypeOK
  BY SameOperators DEF TInv, DiplTypes, D!TypeOK
<1> QED
  BY <1>1 DEF TInv, TypeOK, Lists, Wealth, Tables, TableOK, AInv, Shaped

LEMMA BestType ==
    ASSUME NEW f \in Matrix(DiplStates), NEW R, NEW ds \in DiplStates
    PROVE  Best(f, R, ds) \in Matrix(DiplStates)
<1>1. ASSUME NEW p \in Players, NEW q \in Players
      PROVE  f[p][q] \in DiplStates /\ MaxState(f[p][q], ds) \in DiplStates
  BY StateTypes DEF Matrix
<1> QED
  BY <1>1 DEF Best, Matrix

\* Each advance that changes hands is one that somebody knows.
LEMMA KnowsCourse ==
    ASSUME TypeOK, Lists, Tables, NEW p \in Players, NEW q \in Players, NEW lost,
           AcceptsLast(p, q), FirstFailure(p, q) = 0,
           NEW n \in Nat, NEW h, Course(p, q, lost, n, h)
    PROVE  h[n].knows \in [Players -> SUBSET Techs]
<1> DEFINE m == {p, q}
           S == {i \in 0 .. n : h[i].knows \in [Players -> SUBSET Techs]}
<1>1. /\ p # q /\ m \in Meetings /\ FitList(clauses[m], m)
      /\ \A i \in DOMAIN clauses[m] : Covered(p, q, clauses[m][i])
  BY AllCovered
<1>2. 0 \in S
  BY DEF Course, World, TypeOK
<1>3. ASSUME NEW i \in 1 .. n, i - 1 \in S
      PROVE  i \in S
  <2>1. PICK c, dest : Executes(p, q, lost, h, i, c, dest)
    BY <1>1, CourseStep
  <2> DEFINE w == h[i - 1]
             e == h[i]
  <2>2. /\ w \in Worlds /\ e \in Worlds /\ c \in Clauses /\ Fit(c)
        /\ dest \in Players /\ c.from # dest
        /\ e = Executed(w, c, dest, lost)
    BY <2>1 DEF Executes
  <2>3. w.knows \in [Players -> SUBSET Techs]
    BY <1>3
  <2>4. c.type = "advance" => c.value \in Techs
    <3>1. c \in ToSet(clauses[m]) /\ Covered(p, q, c) /\ c.from \in {p, q}
      BY <1>1, <2>1 DEF Executes, ToSet
    <3>2. CASE c.from = p
      BY <3>1, <3>2 DEF Covered, TypeOK
    <3>3. CASE c.from = q
      BY <1>1, <3>1, <3>3 DEF AcceptsLast, Tables, TableOK
    <3> QED
      BY <3>1, <3>2, <3>3
  <2> HIDE DEF w, e
  <2>5. e.knows \in [Players -> SUBSET Techs]
    <3>1. CASE c.type # "advance"
      <4>1. e.knows = w.knows
        BY <2>2, <3>1, FieldsExecuted
      <4> QED
        BY <2>3, <4>1
    <3>2. CASE c.type = "advance"
      <4>1. Taught1(w.knows, e.knows, c, dest, lost)
        BY <2>2, <3>2, AdvanceExecuted
      <4>2. e.knows \in [Players -> SUBSET Nat]
        BY <2>2 DEF Worlds
      <4>3. ASSUME NEW x \in Players
            PROVE  e.knows[x] \in SUBSET Techs
        BY <2>3, <2>4, <3>2, <4>1 DEF Taught1
      <4> QED
        BY <4>2, <4>3
    <3> QED
      BY <3>1, <3>2
  <2> QED
    BY <2>5 DEF e
<1>4. n \in S
  <2> HIDE DEF S
  <2>1. 0 .. n \subseteq S
    BY <1>2, <1>3, BoundedInduction
  <2> QED
    BY <2>1
<1> QED
  BY <1>4

\* Executing a treaty keeps the types.
LEMMA ConcludeTypes ==
    ASSUME TInv, NEW p \in Players, NEW q \in Players, NEW lost, Conclude(p, q, lost)
    PROVE  DiplTypes' /\ Wealth' /\ cursor' = cursor
<1>1. TypeOK /\ Lists /\ Tables
  BY TInvTypes DEF TInv
<1>2. PICK n, h :
              /\ n \in Nat /\ Course(p, q, lost, n, h)
              /\ type' = h[n].type /\ max_state' = h[n].max_state
              /\ turns_left' = h[n].turns_left /\ met' = h[n].met
              /\ gold' = h[n].gold /\ owner' = h[n].owner /\ knows' = h[n].knows
              /\ embassy' = h[n].embassy
  BY <1>1, ConcludeCourse
<1>3. h[n] \in Worlds
  <2>1. n \in 0 .. n
    BY <1>2
  <2> QED
    BY <1>2, <2>1 DEF Course
<1>4. h[n].knows \in [Players -> SUBSET Techs]
  BY <1>1, <1>2, KnowsCourse DEF Conclude
<1>5. UNCHANGED <<reason, autoCancelled, alive, unborn, senate, cursor, capital>>
  BY DEF Conclude
<1> QED
  BY <1>2, <1>3, <1>4, <1>5 DEF TInv, DiplTypes, Wealth, Worlds

\* The events of Diplomacy keep the types.
LEMMA PactsStep ==
    ASSUME TInv, NEW p \in Players, NEW q \in Players,
           D!MakeContact(p, q) \/ D!CancelPact(p, q) \/ D!KillPlayer(p, {})
    PROVE  DiplTypes' /\ cursor' = cursor
<1>1. CASE D!MakeContact(p, q)
  <2>1. PICK ds \in {"war", "peace"} :
              /\ type' = Put(type, Both(p, q), ds)
              /\ max_state' = Best(max_state, Both(p, q), ds)
              /\ met' = met \cup Both(p, q)
              /\ UNCHANGED <<turns_left, reason, autoCancelled, alive, unborn, senate, cursor>>
    BY <1>1, ContactStep
  <2>2. ds \in DiplStates /\ Both(p, q) \subseteq Pairs
    BY DEF DiplStates, Both, Pairs
  <2> QED
    BY <2>1, <2>2, PutType, BestType DEF TInv, DiplTypes
<1>2. CASE D!CancelPact(p, q)
  <2> DEFINE new == CancelPactResult(type[p][q])
             other == D!Mutual(Leaving(p, q))
  <2>1. /\ type' = Put(Put(type, Both(p, q), new), other, "armistice")
        /\ turns_left' = Put(turns_left, Both(p, q) \cup other, TurnsLeft)
        /\ reason' = Put(reason, {<<p, q>>} \cup Leaving(p, q), 0)
        /\ UNCHANGED <<max_state, met, autoCancelled, alive, unborn, senate, cursor>>
    BY <1>2, CancelStep
  <2>2. new \in DiplStates /\ "armistice" \in DiplStates
    <3>1. type[p][q] \in DiplStates
      BY DEF TInv, DiplTypes, Matrix
    <3> QED
      BY <3>1 DEF CancelPactResult, DiplStates
  <2>3. TurnsLeft \in 0 .. TurnsLeft /\ 0 \in 0 .. 2
    BY TurnsLeftAssumption
  <2> HIDE DEF new, other
  <2>4. type' \in Matrix(DiplStates)
    BY <2>1, <2>2, PutType DEF TInv, DiplTypes
  <2>5. turns_left' \in Matrix(0 .. TurnsLeft)
    BY <2>1, <2>3, PutType DEF TInv, DiplTypes
  <2>6. reason' \in Matrix(0 .. 2)
    BY <2>1, <2>3, PutType DEF TInv, DiplTypes
  <2> QED
    BY <2>1, <2>4, <2>5, <2>6 DEF TInv, DiplTypes
<1>3. CASE D!KillPlayer(p, {})
  BY <1>3, DeathStep DEF TInv, DiplTypes
<1> QED
  BY <1>1, <1>2, <1>3

LEMMA InitTInv == Init => TInv
<1> SUFFICES ASSUME Init
             PROVE  TInv
  OBVIOUS
<1>1. DiplTypes /\ cursor = D!Idle
  <2>1. D!Init
    BY DEF Init
  <2>2. 0 \in 0 .. TurnsLeft /\ 0 \in 0 .. 2
    BY TurnsLeftAssumption
  <2> QED
    BY <2>1, <2>2, SameOperators DEF D!Init, DiplTypes, Matrix, DiplStates
<1>2. Wealth
  BY GoldAssumption, CitiesAssumption, TechsAssumption, BoundsAssumption DEF Init, Wealth
<1>3. Tables
  BY EmptyTable DEF Init, Tables
<1> QED
  BY <1>1, <1>2, <1>3, InitAInv DEF TInv

\* The events that touch gold, cities and advances keep the types.
LEMMA WealthStep ==
    ASSUME TInv, \/ \E p \in Players : \/ \E heirs \in [Cities -> (alive \ {p}) \cup {Nobody}] :
                                            KillPlayer(p, heirs)
                                       \/ Spend(p)
                                       \/ \E t \in Techs : Learn(p, t) \/ Forget(p, t)
                 \/ \E c \in Cities : \/ \E p \in Players \cup {Nobody} : LoseCity(c, p)
                                      \/ BuildPalace(c)
    PROVE  Wealth'
<1>1. Wealth /\ alive \subseteq Players
  BY DEF TInv, DiplTypes
<1>2. ASSUME NEW p \in Players, NEW heirs \in [Cities -> (alive \ {p}) \cup {Nobody}],
             KillPlayer(p, heirs)
      PROVE  Wealth'
  BY <1>1, <1>2 DEF KillPlayer, Wealth
<1>3. ASSUME NEW p \in Players, Spend(p)
      PROVE  Wealth'
  BY <1>1, <1>3 DEF Spend, Wealth
<1>4. ASSUME NEW p \in Players, NEW t \in Techs, Learn(p, t) \/ Forget(p, t)
      PROVE  Wealth'
  <2>1. knows' \in [Players -> SUBSET Techs]
    BY <1>1, <1>4 DEF Learn, Forget, Wealth
  <2> QED
    BY <1>1, <1>4, <2>1 DEF Learn, Forget, Wealth
<1>5. ASSUME NEW c \in Cities, NEW p \in Players \cup {Nobody}, LoseCity(c, p)
      PROVE  Wealth'
  BY <1>1, <1>5 DEF LoseCity, Wealth
<1>6. ASSUME NEW c \in Cities, BuildPalace(c)
      PROVE  Wealth'
  BY <1>1, <1>6 DEF BuildPalace, Wealth
<1> QED
  BY <1>2, <1>3, <1>4, <1>5, <1>6

\* Negotiating keeps the types.
LEMMA NegotiateTypes ==
    ASSUME TInv, Negotiate
    PROVE  DiplTypes' /\ Wealth' /\ cursor' = cursor
<1> DEFINE Goal == DiplTypes' /\ Wealth' /\ cursor' = cursor
<1>1. ASSUME UNCHANGED <<diplVars, wealthVars>>
      PROVE  Goal
  BY <1>1 DEF TInv, DiplTypes, Wealth, diplVars, wealthVars
<1>2. ASSUME NEW p \in Players, NEW q \in Players \ {p},
             \/ InitMeeting(p, q) \/ CancelMeeting(p, q) \/ Accept(p, q) \/ TakeBack(p, q)
             \/ FallThrough(p, q) \/ LeaveBehind(p, q)
      PROVE  Goal
  <2>1. UNCHANGED <<diplVars, wealthVars>>
    BY <1>2 DEF InitMeeting, CancelMeeting, Accept, TakeBack, FallThrough, LeaveBehind
  <2> QED
    BY <1>1, <2>1
<1>3. ASSUME NEW m, NEW c, CreateClause(m, c) \/ RemoveClause(m, c)
      PROVE  Goal
  <2>1. UNCHANGED <<diplVars, wealthVars>>
    BY <1>3 DEF CreateClause, RemoveClause
  <2> QED
    BY <1>1, <2>1
<1>4. ASSUME NEW p \in Players, NEW q \in Players \ {p}, NEW lost, Conclude(p, q, lost)
      PROVE  Goal
  BY <1>4, ConcludeTypes
<1> HIDE DEF Goal
<1>5. Goal
  BY <1>2, <1>3, <1>4 DEF Negotiate
<1> QED
  BY <1>5 DEF Goal

LEMMA TStep == TInv /\ [Next]_vars => TInv'
<1> SUFFICES ASSUME TInv, [Next]_vars
             PROVE  TInv'
  OBVIOUS
<1>1. AInv'
  BY AStep DEF TInv
<1> DEFINE Goal == DiplTypes' /\ Wealth' /\ Tables' /\ cursor' = cursor
<1>2. D!Idle' = D!Idle
  BY DEF D!Idle
<1>3. ASSUME Negotiate
      PROVE  Goal
  BY <1>3, NegotiateTypes, NegotiateTables DEF TInv, AInv, Wealth
<1>4. ASSUME UNCHANGED treatyVars
      PROVE  Tables'
  BY <1>4 DEF TInv, Tables, TableOK, treatyVars
<1>5. ASSUME UNCHANGED wealthVars
      PROVE  Wealth'
  BY <1>5 DEF TInv, Wealth, wealthVars
<1>6. ASSUME UNCHANGED diplVars
      PROVE  DiplTypes' /\ cursor' = cursor
  BY <1>6 DEF TInv, DiplTypes, diplVars
<1>7. Tables
  BY DEF TInv
<1>8. ASSUME NEW p \in Players, NEW q \in Players, MakeContact(p, q)
      PROVE  Goal
  BY <1>8, <1>4, <1>5, PactsStep DEF MakeContact
<1>9. ASSUME NEW p \in Players, NEW q \in Players, CancelPact(p, q)
      PROVE  Goal
  BY <1>9, <1>5, <1>7, PactsStep, RejectTables DEF CancelPact
<1>10. ASSUME NEW p \in Players, NEW heirs \in [Cities -> (alive \ {p}) \cup {Nobody}],
              KillPlayer(p, heirs)
       PROVE  Goal
  <2>1. D!KillPlayer(p, {}) /\ Close(MeetingsOf({p}))
    BY <1>10 DEF KillPlayer
  <2> QED
    BY <1>7, <1>10, <2>1, PactsStep, WealthStep, CloseTables
<1>11. ASSUME NEW p \in Players, ChangeControl(p)
       PROVE  Goal
  BY <1>11, <1>5, <1>6, <1>7, CloseTables DEF ChangeControl
<1>12. ASSUME NEW p \in Players, Spend(p) \/ \E t \in Techs : Learn(p, t) \/ Forget(p, t)
       PROVE  Goal
  <2>1. UNCHANGED <<diplVars, treatyVars>>
    BY <1>12 DEF Spend, Learn, Forget
  <2> QED
    BY <1>4, <1>6, <1>12, <2>1, WealthStep
<1>13. ASSUME NEW c \in Cities, BuildPalace(c) \/ \E p \in Players \cup {Nobody} : LoseCity(c, p)
       PROVE  Goal
  <2>1. UNCHANGED <<diplVars, treatyVars>>
    BY <1>13 DEF LoseCity, BuildPalace
  <2> QED
    BY <1>4, <1>6, <1>13, <2>1, WealthStep
<1>14. ASSUME UNCHANGED vars
       PROVE  Goal
  BY <1>4, <1>5, <1>6, <1>14 DEF vars
<1> HIDE DEF Goal
<1>15. Goal
  BY <1>3, <1>8, <1>9, <1>10, <1>11, <1>12, <1>13, <1>14 DEF Next, Goal
<1> QED
  BY <1>1, <1>2, <1>15 DEF TInv, Goal

LEMMA THolds == Spec => []TInv
  BY InitTInv, TStep, PTL DEF Spec

\* No handler leaves a value of the wrong type, whatever a treaty does.
THEOREM TypeCorrect == Spec => []TypeOK
<1>1. TInv => TypeOK
  BY TInvTypes
<1> QED
  BY <1>1, THolds, PTL

-----------------------------------------------------------------------------
(***************************************************************************)
(* Gold and promises.                                                      *)
(***************************************************************************)
\* The two checks of gold, one when each side accepts, cover what Conclude pays.
LEMMA GoldStep == TInv /\ GoldNeverNegative /\ [Next]_vars => GoldNeverNegative'
<1> SUFFICES ASSUME TInv, GoldNeverNegative, [Next]_vars
             PROVE  GoldNeverNegative'
  OBVIOUS
<1>1. ASSUME gold' = gold
      PROVE  GoldNeverNegative'
  BY <1>1 DEF GoldNeverNegative
<1>2. ASSUME NEW p \in Players, NEW q \in Players \ {p},
             \/ InitMeeting(p, q) \/ CancelMeeting(p, q) \/ Accept(p, q) \/ TakeBack(p, q)
             \/ FallThrough(p, q) \/ LeaveBehind(p, q)
      PROVE  gold' = gold
  BY <1>2 DEF InitMeeting, CancelMeeting, Accept, TakeBack, FallThrough, LeaveBehind, wealthVars
<1>3. ASSUME NEW m, NEW c, CreateClause(m, c) \/ RemoveClause(m, c)
      PROVE  gold' = gold
  BY <1>3 DEF CreateClause, RemoveClause, wealthVars
<1>4. ASSUME NEW p \in Players, NEW q \in Players \ {p}, NEW lost, Conclude(p, q, lost)
      PROVE  GoldNeverNegative'
  <2>1. TypeOK /\ Lists
    BY TInvTypes
  <2>2. PICK n, h : n \in Nat /\ Course(p, q, lost, n, h) /\ gold' = h[n].gold
    BY <1>4, <2>1, ConcludeCourse
  <2>3. GoldLeft({p, q}, h[n], n)
    BY <1>4, <2>1, <2>2, GoldCourse DEF Conclude
  <2> QED
    BY <2>2, <2>3 DEF GoldLeft, GoldNeverNegative
<1>5. CASE Negotiate
  BY <1>1, <1>2, <1>3, <1>4, <1>5 DEF Negotiate
<1>6. ASSUME NEW p \in Players, Spend(p)
      PROVE  GoldNeverNegative'
  <2>1. gold \in [Players -> Int]
    BY DEF TInv, Wealth
  <2> QED
    BY <1>6, <2>1 DEF Spend, GoldNeverNegative
<1>7. ASSUME NEW p \in Players, NEW q \in Players, MakeContact(p, q) \/ CancelPact(p, q)
      PROVE  gold' = gold
  BY <1>7 DEF MakeContact, CancelPact, wealthVars
<1>8. ASSUME NEW p \in Players, NEW heirs, KillPlayer(p, heirs)
      PROVE  gold' = gold
  BY <1>8 DEF KillPlayer
<1>9. ASSUME NEW p \in Players, NEW t, ChangeControl(p) \/ Learn(p, t) \/ Forget(p, t)
      PROVE  gold' = gold
  BY <1>9 DEF ChangeControl, Learn, Forget, wealthVars
<1>10. ASSUME NEW p \in Players, ChangeControl(p)
       PROVE  gold' = gold
  BY <1>10 DEF ChangeControl, wealthVars
<1>11. ASSUME NEW c, NEW p, LoseCity(c, p) \/ BuildPalace(c)
       PROVE  gold' = gold
  BY <1>11 DEF LoseCity, BuildPalace
<1>12. CASE UNCHANGED vars
  BY <1>1, <1>12 DEF vars, wealthVars
<1> QED
  BY <1>1, <1>5, <1>6, <1>7, <1>8, <1>9, <1>10, <1>11, <1>12 DEF Next

\* No player's gold is ever negative: neither a treaty of many clauses nor one
\* of several treaties that promise the same gold pays what is not there.
THEOREM GoldStaysNonNegative == Spec => []GoldNeverNegative
<1>1. Init => GoldNeverNegative
  BY GoldAssumption DEF Init, GoldNeverNegative
<1> QED
  BY <1>1, GoldStep, THolds, PTL DEF Spec

-----------------------------------------------------------------------------
\* What the treaty of p and q that is executed owes for its clause c.
KeptFor(p, q, lost, c, dest) ==
    /\ c.type = "gold" => gold[c.from] >= c.value
    /\ c.type = "city" => owner[c.value] = c.from /\ owner'[c.value] = dest
    /\ c.type = "advance" =>
          \/ c.value \in knows'[dest]
          \/ <<"receiver", c>> \in lost
          \/ [type |-> "advance", from |-> dest, value |-> c.value] \in ToSet(clauses[{p, q}])
    /\ c.type = "embassy" => <<dest, c.from>> \in embassy'
    /\ IsPact(c) => type'[p][q] = PactResult(c.type)

\* Conclude pays what it owes.
LEMMA ConcludeKeepsPromises ==
    ASSUME TInv, NEW p \in Players, NEW q \in Players, NEW lost, Conclude(p, q, lost),
           NEW c \in ToSet(clauses[{p, q}]), NEW dest, dest = Other({p, q}, c.from)
    PROVE  KeptFor(p, q, lost, c, dest)
<1>1. TypeOK /\ Lists
  BY TInvTypes
<1>2. AcceptsLast(p, q) /\ FirstFailure(p, q) = 0
  BY DEF Conclude
<1>3. PICK n, h :
              /\ n \in Nat /\ Course(p, q, lost, n, h)
              /\ type' = h[n].type /\ max_state' = h[n].max_state
              /\ turns_left' = h[n].turns_left /\ met' = h[n].met
              /\ gold' = h[n].gold /\ owner' = h[n].owner /\ knows' = h[n].knows
              /\ embassy' = h[n].embassy
  BY <1>1, ConcludeCourse
<1>4. /\ p # q /\ FitList(clauses[{p, q}], {p, q})
      /\ \A i \in DOMAIN clauses[{p, q}] : Covered(p, q, clauses[{p, q}][i])
  BY <1>1, <1>2, AllCovered
<1>5. DOMAIN clauses[{p, q}] = 1 .. n
  BY <1>3, <1>4 DEF Course, FitList
<1>6. PICK j \in 1 .. n : c = clauses[{p, q}][j]
  BY <1>5 DEF ToSet
<1>7. Covered(p, q, c) /\ c.from \in {p, q}
  BY <1>4, <1>5, <1>6 DEF FitList
<1>8. Fulfilled({p, q}, lost, h[n], c, dest)
  BY <1>1, <1>2, <1>3, <1>6, PromisesCourse
<1>9. IsPact(c) => type'[p][q] = PactResult(c.type)
  <2>1. (c.from = p /\ dest = q) \/ (c.from = q /\ dest = p)
    BY <1>4, <1>7, OtherFacts
  <2> QED
    BY <1>3, <1>8, <2>1 DEF Fulfilled
<1> QED
  BY <1>3, <1>7, <1>8, <1>9 DEF Fulfilled, Covered, CanGiveCity, KeptFor, GivesBack

\* Nobody forgets an advance but by a mistake in giving it.
LEMMA MemoryCourse ==
    ASSUME TypeOK, Lists, NEW p \in Players, NEW q \in Players, NEW lost,
           AcceptsLast(p, q), FirstFailure(p, q) = 0,
           NEW n \in Nat, NEW h, Course(p, q, lost, n, h), NEW x \in Players
    PROVE  knows[x] \subseteq h[n].knows[x] \cup ForgottenBy(x, lost)
<1> DEFINE S == {i \in 0 .. n : knows[x] \subseteq h[i].knows[x] \cup ForgottenBy(x, lost)}
<1>1. p # q /\ FitList(clauses[{p, q}], {p, q})
  BY AllCovered
<1>2. 0 \in S
  BY DEF Course, World
<1>3. ASSUME NEW i \in 1 .. n, i - 1 \in S
      PROVE  i \in S
  <2>1. PICK c, dest : Executes(p, q, lost, h, i, c, dest)
    BY <1>1, CourseStep
  <2> DEFINE w == h[i - 1]
             e == h[i]
  <2>2. /\ w \in Worlds /\ e \in Worlds /\ c \in Clauses /\ Fit(c)
        /\ dest \in Players /\ c.from # dest /\ c.from \in Players
        /\ e = Executed(w, c, dest, lost)
    BY <2>1 DEF Executes, Clauses
  <2>3. knows[x] \subseteq w.knows[x] \cup ForgottenBy(x, lost)
    BY <1>3
  <2> HIDE DEF w, e
  <2>4. w.knows[x] \subseteq e.knows[x] \cup ForgottenBy(x, lost)
    <3>1. CASE c.type # "advance"
      BY <2>2, <3>1, FieldsExecuted
    <3>2. CASE c.type = "advance"
      <4>1. Taught1(w.knows, e.knows, c, dest, lost)
        BY <2>2, <3>2, AdvanceExecuted
      <4>2. CASE c.from # x \/ <<"donor", c>> \notin lost
        BY <2>2, <4>1, <4>2 DEF Taught1
      <4>3. CASE c.from = x /\ <<"donor", c>> \in lost
        <5>1. c.value \in ForgottenBy(x, lost)
          BY <4>3 DEF ForgottenBy
        <5> QED
          BY <4>1, <5>1 DEF Taught1
      <4> QED
        BY <4>2, <4>3
    <3> QED
      BY <3>1, <3>2
  <2>5. knows[x] \subseteq e.knows[x] \cup ForgottenBy(x, lost)
    BY <2>3, <2>4
  <2> QED
    BY <2>5 DEF e
<1>4. n \in S
  <2> HIDE DEF S
  <2>1. 0 .. n \subseteq S
    BY <1>2, <1>3, BoundedInduction
  <2> QED
    BY <2>1
<1> QED
  BY <1>4

LEMMA ConcludeForgetsNothing ==
    ASSUME TInv, NEW p \in Players, NEW q \in Players, NEW lost, Conclude(p, q, lost),
           NEW x \in Players
    PROVE  knows[x] \subseteq knows'[x] \cup ForgottenBy(x, lost)
<1>1. TypeOK /\ Lists
  BY TInvTypes
<1>2. AcceptsLast(p, q) /\ FirstFailure(p, q) = 0
  BY DEF Conclude
<1>3. PICK n, h : n \in Nat /\ Course(p, q, lost, n, h) /\ knows' = h[n].knows
  BY <1>1, ConcludeCourse
<1> QED
  BY <1>1, <1>2, <1>3, MemoryCourse

\* A treaty that is executed gives each receiver all that was promised, but for the
\* advances that a receiver fails to learn; and nobody loses anything else by it.
THEOREM PromisesAlwaysKept == Spec => PromisesKept
<1> DEFINE Kept == \A p \in Players : \A q \in Players \ {p} :
                      \A lost \in Mistakes({p, q}) : Conclude(p, q, lost) =>
                         /\ \A c \in ToSet(clauses[{p, q}]) :
                               KeptFor(p, q, lost, c, Other({p, q}, c.from))
                         /\ \A x \in Players : knows[x] \subseteq knows'[x] \cup ForgottenBy(x, lost)
<1>1. ASSUME TInv, NEW p \in Players, NEW q \in Players, NEW lost, Conclude(p, q, lost),
             NEW c \in ToSet(clauses[{p, q}])
      PROVE  KeptFor(p, q, lost, c, Other({p, q}, c.from))
  <2>1. \E dest : dest = Other({p, q}, c.from)
    OBVIOUS
  <2>2. PICK dest : dest = Other({p, q}, c.from)
    BY <2>1
  <2>3. KeptFor(p, q, lost, c, dest)
    BY <1>1, <2>2, ConcludeKeepsPromises
  <2> QED
    BY <2>2, <2>3
<1>2. TInv /\ [Next]_vars => [Kept]_vars
  BY <1>1, ConcludeForgetsNothing
<1>3. Spec => [][Kept]_vars
  BY <1>2, THolds, PTL DEF Spec
<1> QED
  BY <1>3 DEF PromisesKept, KeptFor

-----------------------------------------------------------------------------
(***************************************************************************)
(* Both sides of a pair hold the same state.                               *)
(***************************************************************************)
\* Both sides of every pair hold the same.
Agreed(f) == \A a, b \in Players : f[a][b] = f[b][a]
BothWays(R) == \A a, b \in Players : <<a, b>> \in R <=> <<b, a>> \in R

\* Whatever is set on both sides of each pair is agreed.
LEMMA PutAgreed ==
    ASSUME NEW f, Agreed(f), NEW R, BothWays(R), NEW v
    PROVE  Agreed(Put(f, R, v))
<1> SUFFICES ASSUME NEW a \in Players, NEW b \in Players
             PROVE  Put(f, R, v)[a][b] = Put(f, R, v)[b][a]
  BY DEF Agreed
<1>1. f[a][b] = f[b][a] /\ (<<a, b>> \in R <=> <<b, a>> \in R)
  BY DEF Agreed, BothWays
<1> QED
  BY <1>1, PutEntry

LEMMA BothWaysFacts ==
    /\ \A p, q : BothWays(Both(p, q))
    /\ \A p, S : BothWays(UNION {Both(p, r) : r \in S})
BY DEF BothWays, Both

\* Contacts are made on both sides.
LEMMA ContactAgreed ==
    ASSUME NEW w \in Worlds, Agreed(w.type), NEW p, NEW c
    PROVE  Agreed(WithContact(w, p, c).type)
<1> DEFINE Meets(ds) == {r \in (Near[c] \cap alive) \ {p} :
                           /\ w.type[p][r] = "no_contact"
                           /\ DefaultDiplState(w.type, alive, p, r) = ds}
           war == UNION {Both(p, r) : r \in Meets("war")}
           peace == UNION {Both(p, r) : r \in Meets("peace")}
           first == WithState(w, war, "war")
           second == WithState(first, peace, "peace")
<1>1. WithContact(w, p, c) = [second EXCEPT !.met = second.met \cup war \cup peace]
  BY DEF WithContact
<1>2. BothWays(war) /\ BothWays(peace)
  <2> HIDE DEF Meets
  <2> QED
    BY BothWaysFacts
<1>3. "war" \in DiplStates /\ "peace" \in DiplStates
  BY DEF DiplStates
<1> HIDE DEF Meets, war, peace
<1>4. first \in Worlds /\ first.type = Put(w.type, war, "war")
  BY <1>3, WithStateFacts
<1>5. second \in Worlds /\ second.type = Put(first.type, peace, "peace")
  <2> HIDE DEF first
  <2> QED
    BY <1>3, <1>4, WithStateFacts
<1>6. Agreed(second.type)
  <2> HIDE DEF first, second
  <2> QED
    BY <1>2, <1>4, <1>5, PutAgreed
<1>7. WithContact(w, p, c).type = second.type
  <2> HIDE DEF second
  <2> QED
    BY <1>1, <1>5 DEF Worlds
<1> QED
  BY <1>6, <1>7, Zenon

\* A city that changes hands leaves the sides agreed.
LEMMA CityAgreed ==
    ASSUME NEW w \in Worlds, Agreed(w.type), NEW c, Fit(c), NEW dest \in Players, NEW lost,
           c.type = "city", NEW e, e = Executed(w, c, dest, lost)
    PROVE  Agreed(e.type)
<1> DEFINE new == [w.owner EXCEPT ![c.value] = dest]
           w2 == [type |-> w.type, max_state |-> w.max_state, turns_left |-> w.turns_left,
                  met |-> w.met, gold |-> w.gold, owner |-> new, knows |-> w.knows,
                  embassy |-> w.embassy]
<1>1. new \in [Cities -> Players \cup {Nobody}]
  BY DEF Worlds
<1>2. w2 \in Worlds
  BY <1>1 DEF Worlds
<1>3. e = WithContact(w2, dest, c.value)
  <2>1. Executed(w, c, dest, lost) = WithContact([w EXCEPT !.owner[c.value] = dest], dest, c.value)
    BY DEF Executed, IsPact
  <2>2. [w EXCEPT !.owner[c.value] = dest] = w2
    BY SMTT(30) DEF Worlds
  <2> QED
    BY <2>1, <2>2
<1>4. w2.type = w.type
  OBVIOUS
<1> HIDE DEF w2, new
<1> QED
  BY <1>2, <1>3, <1>4, ContactAgreed

\* So does every clause.
LEMMA ExecutedAgreed ==
    ASSUME NEW w \in Worlds, Agreed(w.type), NEW c, Fit(c), NEW dest \in Players,
           c.from # dest, NEW lost, NEW e, e = Executed(w, c, dest, lost)
    PROVE  Agreed(e.type)
<1>1. c \in Clauses
  BY DEF Fit
<1>2. c.type \in {"gold", "city", "embassy", "advance"} \/ IsPact(c)
  BY <1>1 DEF Clauses, ClauseTypes, PactClauses, IsPact
<1>3. CASE c.type = "city"
  BY <1>3, CityAgreed
<1>4. CASE c.type = "gold"
  BY <1>1, <1>4, GoldExecuted DEF UnchangedPacts
<1>5. CASE c.type = "embassy"
  BY <1>1, <1>5, EmbassyExecuted DEF UnchangedPacts
<1>6. CASE c.type = "advance"
  BY <1>1, <1>6, AdvanceExecuted DEF UnchangedPacts
<1>7. CASE IsPact(c)
  <2>1. e.type = Put(w.type, Both(c.from, dest), PactResult(c.type))
    BY <1>1, <1>7, PactExecuted
  <2> QED
    BY <2>1, BothWaysFacts, PutAgreed
<1> QED
  BY <1>2, <1>3, <1>4, <1>5, <1>6, <1>7

\* And so every treaty.
LEMMA AgreedCourse ==
    ASSUME NEW p \in Players, NEW q \in Players, p # q, NEW lost, NEW n \in Nat, NEW h,
           FitList(clauses[{p, q}], {p, q}), Course(p, q, lost, n, h), Agreed(type)
    PROVE  Agreed(h[n].type)
<1> DEFINE S == {i \in 0 .. n : Agreed(h[i].type)}
<1>1. 0 \in S
  BY DEF Course, World
<1>2. ASSUME NEW i \in 1 .. n, i - 1 \in S
      PROVE  i \in S
  <2>1. PICK c, dest : Executes(p, q, lost, h, i, c, dest)
    BY CourseStep
  <2>2. Agreed(h[i - 1].type)
    BY <1>2
  <2> DEFINE w == h[i - 1]
             e == h[i]
             l == lost
  <2>3. /\ w \in Worlds /\ Fit(c) /\ dest \in Players /\ c.from # dest
        /\ e = Executed(w, c, dest, l)
    BY <2>1 DEF Executes
  <2> HIDE DEF w, e, l
  <2>4. Agreed(e.type)
    BY <2>2, <2>3, ExecutedAgreed DEF w
  <2> QED
    BY <2>4 DEF e
<1>3. n \in S
  <2> HIDE DEF S
  <2>1. 0 .. n \subseteq S
    BY <1>1, <1>2, BoundedInduction
  <2> QED
    BY <2>1
<1> QED
  BY <1>3

\* No step leaves the two sides of a pair in different states.
LEMMA AgreedStep == TInv /\ Agreed(type) /\ [Next]_vars => Agreed(type)'
<1> SUFFICES ASSUME TInv, Agreed(type), [Next]_vars
             PROVE  Agreed(type)'
  OBVIOUS
<1> DEFINE Goal == Agreed(type)'
<1>1. ASSUME type' = type
      PROVE  Goal
  BY <1>1 DEF Agreed
<1>2. ASSUME NEW p \in Players, NEW q \in Players \ {p}, NEW lost, Conclude(p, q, lost)
      PROVE  Goal
  <2>1. TypeOK /\ Lists
    BY TInvTypes
  <2>2. p # q /\ FitList(clauses[{p, q}], {p, q})
    BY <1>2, <2>1, AllCovered DEF Conclude
  <2>3. PICK n, h : n \in Nat /\ Course(p, q, lost, n, h) /\ type' = h[n].type
    BY <1>2, <2>1, ConcludeCourse
  <2>4. Agreed(h[n].type)
    BY <2>2, <2>3, AgreedCourse
  <2> QED
    BY <2>3, <2>4 DEF Agreed
<1>3. ASSUME NEW p \in Players, NEW q \in Players, MakeContact(p, q)
      PROVE  Goal
  <2>1. PICK ds \in {"war", "peace"} : type' = Put(type, Both(p, q), ds)
    BY <1>3, ContactStep DEF MakeContact
  <2>2. Agreed(Put(type, Both(p, q), ds))
    BY PutAgreed, BothWaysFacts
  <2> QED
    BY <2>1, <2>2 DEF Agreed
<1>4. ASSUME NEW p \in Players, NEW q \in Players, CancelPact(p, q)
      PROVE  Goal
  <2> DEFINE other == D!Mutual(Leaving(p, q))
             between == Put(type, Both(p, q), CancelPactResult(type[p][q]))
  <2>1. /\ type' = Put(between, other, "armistice")
        /\ \A a, b \in Players : <<a, b>> \in other <=>
              <<a, b>> \in Leaving(p, q) \/ <<b, a>> \in Leaving(p, q)
    BY <1>4, CancelStep DEF CancelPact
  <2>2. BothWays(other)
    BY <2>1 DEF BothWays
  <2>3. Agreed(between)
    BY PutAgreed, BothWaysFacts
  <2> HIDE DEF other, between
  <2>4. Agreed(Put(between, other, "armistice"))
    BY <2>2, <2>3, PutAgreed
  <2> QED
    BY <2>1, <2>4 DEF Agreed
<1>5. ASSUME NEW p \in Players, NEW heirs, KillPlayer(p, heirs)
      PROVE  Goal
  BY <1>1, <1>5, DeathStep DEF KillPlayer, TInv, DiplTypes
<1>6. ASSUME UNCHANGED diplVars
      PROVE  Goal
  BY <1>1, <1>6 DEF diplVars
<1> HIDE DEF Goal
<1>7. ASSUME NEW p \in Players, NEW q \in Players \ {p},
             \/ InitMeeting(p, q) \/ CancelMeeting(p, q) \/ Accept(p, q) \/ TakeBack(p, q)
             \/ FallThrough(p, q) \/ LeaveBehind(p, q)
      PROVE  Goal
  BY <1>6, <1>7 DEF InitMeeting, CancelMeeting, Accept, TakeBack, FallThrough, LeaveBehind
<1>8. ASSUME NEW m, NEW c, CreateClause(m, c) \/ RemoveClause(m, c)
      PROVE  Goal
  BY <1>6, <1>8 DEF CreateClause, RemoveClause
<1>9. ASSUME Negotiate
      PROVE  Goal
  BY <1>2, <1>7, <1>8, <1>9 DEF Negotiate
<1>10. ASSUME NEW p, NEW t, ChangeControl(p) \/ Spend(p) \/ Learn(p, t) \/ Forget(p, t)
       PROVE  Goal
  BY <1>6, <1>10 DEF ChangeControl, Spend, Learn, Forget
<1>11. ASSUME NEW p, ChangeControl(p) \/ Spend(p)
       PROVE  Goal
  BY <1>6, <1>11 DEF ChangeControl, Spend
<1>12. ASSUME NEW c, NEW p, LoseCity(c, p) \/ BuildPalace(c)
       PROVE  Goal
  BY <1>6, <1>12 DEF LoseCity, BuildPalace
<1>13. ASSUME NEW c, BuildPalace(c)
       PROVE  Goal
  BY <1>6, <1>13 DEF BuildPalace
<1>14. ASSUME UNCHANGED vars
       PROVE  Goal
  BY <1>6, <1>14 DEF vars
<1> QED
  BY <1>3, <1>4, <1>5, <1>9, <1>10, <1>11, <1>12, <1>13, <1>14 DEF Next, Goal

-----------------------------------------------------------------------------
(***************************************************************************)
(* Broken pacts.                                                           *)
(***************************************************************************)
\* The pact of x and y is broken and no treaty is closed.
Broken(x, y) ==
    HowClose(type'[x][y]) < HowClose(type[x][y]) /\ clauses' = clauses
Voided(x) == \A m \in MeetingsOf({x}) : accepted'[m] = {}

\* A treaty that is concluded disappears with its clauses, unless it has none
\* and so changes no pact.
LEMMA ConcludeBreaksNothing ==
    ASSUME TInv, NEW p \in Players, NEW q \in Players, NEW lost, Conclude(p, q, lost),
           clauses' = clauses
    PROVE  type' = type
<1>1. TypeOK /\ Lists
  BY TInvTypes
<1>2. p # q /\ {p, q} \in Meetings
  BY <1>1, AllCovered DEF Conclude
<1>3. clauses[{p, q}] = <<>>
  <2>1. clauses'[{p, q}] = <<>>
    BY <1>2 DEF Conclude, Close
  <2> QED
    BY <2>1
<1>4. PICK n, h : n \in Nat /\ Course(p, q, lost, n, h) /\ type' = h[n].type
  BY <1>1, ConcludeCourse
<1>5. n = 0 /\ h[0] = World
  BY <1>3, <1>4 DEF Course
<1> QED
  BY <1>4, <1>5 DEF World

\* Cancelling a pact voids what all who lose one by it have accepted.
LEMMA CancelVoids ==
    ASSUME TInv, NEW p \in Players, NEW q \in Players, CancelPact(p, q),
           NEW x \in Players, NEW y \in Players, Broken(x, y)
    PROVE  Voided(x)
<1> DEFINE other == D!Mutual(Leaving(p, q))
           S == {p, q} \cup {rs[1] : rs \in Leaving(p, q)}
           new == CancelPactResult(type[p][q])
<1>1. /\ type' = Put(Put(type, Both(p, q), new), other, "armistice")
      /\ \A rs \in Leaving(p, q) : rs[2] \in {p, q}
      /\ \A a, b \in Players : <<a, b>> \in other <=>
            <<a, b>> \in Leaving(p, q) \/ <<b, a>> \in Leaving(p, q)
  BY CancelStep DEF CancelPact
<1>2. RejectAll(S)
  <2>1. CancelPactResult(type[p][q]) = D!CancelPactResult(type[p][q])
    BY SameOperators
  <2> QED
    BY <2>1 DEF CancelPact, Leaving
<1>3. x \in S
  <2>1. CASE <<x, y>> \in Leaving(p, q)
    <3>1. <<x, y>>[1] = x
      OBVIOUS
    <3> QED
      BY <2>1, <3>1
  <2>2. CASE <<y, x>> \in Leaving(p, q)
    <3>1. <<y, x>>[2] \in {p, q}
      BY <1>1, <2>2
    <3> QED
      BY <3>1
  <2>3. CASE <<x, y>> \in Both(p, q)
    BY <2>3 DEF Both
  <2>4. CASE <<x, y>> \notin other /\ <<x, y>> \notin Both(p, q)
    <3> HIDE DEF other, new
    <3>1. type'[x][y] = type[x][y]
      BY <1>1, <2>4, PutEntry
    <3>2. type[x][y] \in DiplStates
      BY DEF TInv, DiplTypes, Matrix
    <3>3. HowClose(type[x][y]) \in Nat
      BY <3>2 DEF HowClose, DiplStates
    <3> QED
      BY <3>1, <3>3 DEF Broken
  <2> QED
    BY <1>1, <2>1, <2>2, <2>3, <2>4
<1>4. MeetingsOf({x}) \subseteq MeetingsOf(S) /\ MeetingsOf({x}) \subseteq Meetings
  <2> HIDE DEF S
  <2> QED
    BY <1>3 DEF MeetingsOf, TInv, AInv, Shaped
<1> HIDE DEF S
<1> QED
  BY <1>2, <1>4 DEF RejectAll, Voided

\* A first contact is a step up.
LEMMA ContactBreaksNothing ==
    ASSUME TInv, Agreed(type), NEW p \in Players, NEW q \in Players, MakeContact(p, q),
           NEW x \in Players, NEW y \in Players
    PROVE  ~ Broken(x, y)
<1>1. PICK ds \in {"war", "peace"} :
            type' = Put(type, Both(p, q), ds) /\ type[p][q] = "no_contact"
  BY ContactStep DEF MakeContact
<1>2. HowClose(type[x][y]) \in Nat
  <2>1. type[x][y] \in DiplStates
    BY DEF TInv, DiplTypes, Matrix
  <2> QED
    BY <2>1 DEF HowClose, DiplStates
<1>3. CASE <<x, y>> \in Both(p, q)
  <2>1. type[x][y] = "no_contact" /\ type'[x][y] = ds
    <3>1. (x = p /\ y = q) \/ (x = q /\ y = p)
      BY <1>3 DEF Both
    <3>2. type[q][p] = type[p][q]
      BY DEF Agreed
    <3>3. Put(type, Both(p, q), ds)[x][y] = ds
      BY <1>3, PutEntry
    <3> QED
      BY <1>1, <3>1, <3>2, <3>3
  <2> QED
    BY <2>1 DEF Broken, HowClose
<1>4. CASE <<x, y>> \notin Both(p, q)
  <2>1. type'[x][y] = type[x][y]
    BY <1>1, <1>4, PutEntry
  <2> QED
    BY <1>2, <2>1 DEF Broken
<1> QED
  BY <1>3, <1>4

\* No other step breaks a pact without closing a meeting.
LEMMA BrokenStep ==
    ASSUME TInv, Agreed(type), Next, NEW x \in Players, NEW y \in Players, Broken(x, y)
    PROVE  Voided(x)
<1> DEFINE Goal == Voided(x)
<1>1. ASSUME type' = type
      PROVE  Goal
  <2>1. type[x][y] \in DiplStates
    BY DEF TInv, DiplTypes, Matrix
  <2>2. HowClose(type[x][y]) \in Nat
    BY <2>1 DEF HowClose, DiplStates
  <2> QED
    BY <1>1, <2>2 DEF Broken
<1>2. ASSUME NEW p \in Players, NEW q \in Players \ {p}, NEW lost, Conclude(p, q, lost)
      PROVE  Goal
  BY <1>1, <1>2, ConcludeBreaksNothing DEF Broken
<1>3. ASSUME NEW p \in Players, NEW q \in Players, MakeContact(p, q)
      PROVE  Goal
  BY <1>3, ContactBreaksNothing
<1>4. ASSUME NEW p \in Players, NEW q \in Players, CancelPact(p, q)
      PROVE  Goal
  BY <1>4, CancelVoids
<1>5. ASSUME NEW p \in Players, NEW heirs, KillPlayer(p, heirs)
      PROVE  Goal
  BY <1>1, <1>5, DeathStep DEF KillPlayer, TInv, DiplTypes
<1>6. ASSUME UNCHANGED diplVars
      PROVE  Goal
  BY <1>1, <1>6 DEF diplVars
<1> HIDE DEF Goal
<1>7. ASSUME NEW p \in Players, NEW q \in Players \ {p},
             \/ InitMeeting(p, q) \/ CancelMeeting(p, q) \/ Accept(p, q) \/ TakeBack(p, q)
             \/ FallThrough(p, q) \/ LeaveBehind(p, q)
      PROVE  Goal
  BY <1>6, <1>7 DEF InitMeeting, CancelMeeting, Accept, TakeBack, FallThrough, LeaveBehind
<1>8. ASSUME NEW m, NEW c, CreateClause(m, c) \/ RemoveClause(m, c)
      PROVE  Goal
  BY <1>6, <1>8 DEF CreateClause, RemoveClause
<1>9. ASSUME Negotiate
      PROVE  Goal
  BY <1>2, <1>7, <1>8, <1>9 DEF Negotiate
<1>10. ASSUME NEW p, NEW t, ChangeControl(p) \/ Spend(p) \/ Learn(p, t) \/ Forget(p, t)
       PROVE  Goal
  BY <1>6, <1>10 DEF ChangeControl, Spend, Learn, Forget
<1>11. ASSUME NEW p, ChangeControl(p) \/ Spend(p)
       PROVE  Goal
  BY <1>6, <1>11 DEF ChangeControl, Spend
<1>12. ASSUME NEW c, NEW p, LoseCity(c, p) \/ BuildPalace(c)
       PROVE  Goal
  BY <1>6, <1>12 DEF LoseCity, BuildPalace
<1>13. ASSUME NEW c, BuildPalace(c)
       PROVE  Goal
  BY <1>6, <1>13 DEF BuildPalace
<1>14. Goal
  BY <1>3, <1>4, <1>5, <1>9, <1>10, <1>11, <1>12, <1>13 DEF Next
<1> QED
  BY <1>14 DEF Goal

LEMMA AgreedHolds == Spec => [](TInv /\ Agreed(type))
<1>1. Init => TInv /\ Agreed(type)
  <2>1. Init => Agreed(type)
    BY SameOperators DEF Init, D!Init, Agreed, SameTeam
  <2> QED
    BY <2>1, InitTInv
<1>2. TInv /\ Agreed(type) /\ [Next]_vars => (TInv /\ Agreed(type))'
  BY TStep, AgreedStep
<1> QED
  BY <1>1, <1>2, PTL DEF Spec

\* Whoever loses a pact, by his own act or by that of an ally, has to accept his
\* treaties again.
THEOREM BrokenPactsAlwaysVoidAcceptances == Spec => BrokenPactsVoidAcceptances
<1> DEFINE A == \A p, q \in Players : Broken(p, q) => Voided(p)
<1>1. TInv /\ Agreed(type) /\ [Next]_vars => [A]_vars
  BY BrokenStep
<1>2. Spec => [][A]_vars
  BY <1>1, AgreedHolds, PTL DEF Spec
<1> QED
  BY <1>2 DEF BrokenPactsVoidAcceptances, Broken, Voided

-----------------------------------------------------------------------------
(***************************************************************************)
(* The treaty and the pacts: one pact at most, and nothing else.           *)
(***************************************************************************)
\* A city that changes hands brings nobody into contact.
Quiet(c) == (c.type = "city" /\ c.value \in Cities) => Near[c.value] = {}
AllQuiet == \A m \in Meetings : \A i \in DOMAIN clauses[m] : Quiet(clauses[m][i])
QuietOffers == \A c \in Offers : Quiet(c)

\* Only quiet cities are on the tables if only quiet ones are offered.
LEMMA CloseQuiet ==
    ASSUME AllQuiet, NEW S, Close(S)
    PROVE  AllQuiet'
<1> SUFFICES ASSUME NEW m \in Meetings, NEW i \in DOMAIN clauses'[m]
             PROVE  Quiet(clauses'[m][i])
  BY DEF AllQuiet, Quiet
<1>1. clauses'[m] = IF m \in S THEN <<>> ELSE clauses[m]
  BY DEF Close
<1> QED
  BY <1>1 DEF AllQuiet

LEMMA ChangeQuiet ==
    ASSUME AllQuiet, Shaped, NEW k \in Meetings, NEW cs, ChangeClauses(k, cs),
           \A i \in DOMAIN cs : Quiet(cs[i])
    PROVE  AllQuiet'
<1> SUFFICES ASSUME NEW m \in Meetings, NEW i \in DOMAIN clauses'[m]
             PROVE  Quiet(clauses'[m][i])
  BY DEF AllQuiet, Quiet
<1>1. clauses'[m] = IF m = k THEN cs ELSE clauses[m]
  BY DEF ChangeClauses, Shaped
<1> QED
  BY <1>1 DEF AllQuiet

LEMMA QuietStep ==
    ASSUME QuietOffers, TInv, AllQuiet, [Next]_vars
    PROVE  AllQuiet'
<1> DEFINE Goal == AllQuiet'
<1>1. ASSUME clauses' = clauses
      PROVE  Goal
  BY <1>1 DEF AllQuiet, Quiet
<1>2. ASSUME NEW S, Close(S)
      PROVE  Goal
  BY <1>2, CloseQuiet
<1>3. Shaped /\ TypeOK /\ Lists
  BY TInvTypes DEF TInv, AInv
<1>4. ASSUME NEW m \in Meetings, NEW c \in Offers, CreateClause(m, c)
      PROVE  Goal
  <2> DEFINE cs == WithClause(clauses[m], c)
             R == Records(ClauseTypes, Players, Nat)
  <2>1. c \in Clauses /\ clauses[m] \in Seq(Clauses) /\ NoRivals(clauses[m])
    BY <1>3, OffersAssumption DEF Lists, TypeOK
  <2>2. c \in R /\ clauses[m] \in Seq(R)
    BY <2>1, ClausesAreRecords, Zenon
  <2>3. KeepsGivers(clauses[m], cs, c)
    BY <2>1, <2>2, WithClauseFacts
  <2>4. ChangeClauses(m, cs)
    BY <1>4 DEF CreateClause
  <2> HIDE DEF cs
  <2>5. ASSUME NEW i \in DOMAIN cs
        PROVE  Quiet(cs[i])
    <3>1. CASE cs[i] = c
      BY <3>1 DEF QuietOffers
    <3>2. CASE IsPact(cs[i])
      BY <3>2 DEF Quiet, IsPact
    <3>3. CASE i \in DOMAIN clauses[m] /\ cs[i] = clauses[m][i]
      BY <3>3 DEF AllQuiet
    <3> QED
      BY <2>3, <3>1, <3>2, <3>3 DEF KeepsGivers
  <2> QED
    BY <1>3, <2>4, <2>5, ChangeQuiet
<1>5. ASSUME NEW m \in open, NEW c \in ToSet(clauses[m]), RemoveClause(m, c)
      PROVE  Goal
  <2> DEFINE cs == WithoutClause(clauses[m], c)
  <2>1. m \in Meetings /\ ChangeClauses(m, cs)
    BY <1>3, <1>5 DEF RemoveClause, Shaped
  <2>2. clauses[m] \in Seq(Clauses) /\ NoRivals(clauses[m])
    BY <1>3, <2>1 DEF Lists, TypeOK
  <2>3. \A i \in DOMAIN cs : \E j \in DOMAIN clauses[m] : cs[i] = clauses[m][j]
    BY <2>2, WithoutClauseFacts
  <2> HIDE DEF cs
  <2>4. \A i \in DOMAIN cs : Quiet(cs[i])
    BY <2>1, <2>3 DEF AllQuiet
  <2> QED
    BY <1>3, <2>1, <2>4, ChangeQuiet
<1> HIDE DEF Goal
<1>6. ASSUME NEW p \in Players, NEW q \in Players \ {p}
      PROVE  /\ InitMeeting(p, q) \/ Accept(p, q) \/ TakeBack(p, q) \/ LeaveBehind(p, q) => Goal
             /\ CancelMeeting(p, q) \/ FallThrough(p, q) => Goal
             /\ \A lost : Conclude(p, q, lost) => Goal
  <2>1. InitMeeting(p, q) \/ Accept(p, q) \/ TakeBack(p, q) \/ LeaveBehind(p, q)
           => clauses' = clauses
    BY DEF InitMeeting, Accept, TakeBack, LeaveBehind
  <2>2. CancelMeeting(p, q) \/ FallThrough(p, q) => Close({{p, q}})
    BY DEF CancelMeeting, FallThrough
  <2>3. \A lost : Conclude(p, q, lost) => Close({{p, q}})
    BY DEF Conclude
  <2> QED
    BY <1>1, <1>2, <2>1, <2>2, <2>3
<1>7. Negotiate => Goal
  BY <1>4, <1>5, <1>6 DEF Negotiate
<1>8. ASSUME NEW p, NEW q
      PROVE  MakeContact(p, q) \/ CancelPact(p, q) => Goal
  <2>1. MakeContact(p, q) \/ CancelPact(p, q) => clauses' = clauses
    BY DEF MakeContact, CancelPact, RejectAll, treatyVars
  <2> QED
    BY <1>1, <2>1
<1>9. ASSUME NEW p, NEW heirs
      PROVE  KillPlayer(p, heirs) \/ ChangeControl(p) => Goal
  BY <1>2 DEF KillPlayer, ChangeControl
<1>10. ASSUME UNCHANGED treatyVars
       PROVE  Goal
  BY <1>1, <1>10 DEF treatyVars
<1>11. ASSUME NEW p
       PROVE  ChangeControl(p) \/ Spend(p) \/ (\E t : Learn(p, t) \/ Forget(p, t)) => Goal
  <2>1. ChangeControl(p) => Goal
    BY <1>2 DEF ChangeControl
  <2>2. Spend(p) \/ (\E t : Learn(p, t) \/ Forget(p, t)) => UNCHANGED treatyVars
    BY DEF Spend, Learn, Forget
  <2> QED
    BY <1>10, <2>1, <2>2
<1>12. ASSUME NEW c
       PROVE  BuildPalace(c) \/ (\E p : LoseCity(c, p)) => Goal
  <2>1. BuildPalace(c) \/ (\E p : LoseCity(c, p)) => UNCHANGED treatyVars
    BY DEF LoseCity, BuildPalace
  <2> QED
    BY <1>10, <2>1
<1>13. UNCHANGED vars => Goal
  BY <1>10 DEF vars
<1>14. Goal
  BY <1>7, <1>8, <1>9, <1>11, <1>12, <1>13 DEF Next
<1> QED
  BY <1>14 DEF Goal

-----------------------------------------------------------------------------
\* The world e is w after p and q have signed pact.
Signs(w, e, p, q, pact) ==
    /\ e.type = Put(w.type, Both(p, q), PactResult(pact))
    /\ e.max_state = Best(w.max_state, Both(p, q), PactResult(pact))
    /\ e.turns_left = IF pact = "alliance" THEN w.turns_left
                      ELSE Put(w.turns_left, Both(p, q), TurnsLeft)
    /\ e.met = w.met

\* What the first i clauses of the treaty of p and q do to the pacts: nothing, or
\* what their only pact does.
PactsAfter(p, q, h, i) ==
    \/ /\ \A j \in 1 .. i : ~ IsPact(clauses[{p, q}][j])
       /\ UnchangedPacts(World, h[i])
    \/ \E j \in 1 .. i : /\ IsPact(clauses[{p, q}][j])
                         /\ Signs(World, h[i], p, q, clauses[{p, q}][j].type)

\* A clause that is no pact changes no pact.
LEMMA NothingElseChangesPacts ==
    ASSUME NEW w \in Worlds, NEW c, Fit(c), Quiet(c), ~ IsPact(c), NEW dest \in Players,
           c.from # dest, NEW lost, NEW e, e = Executed(w, c, dest, lost)
    PROVE  UnchangedPacts(w, e)
<1>1. c \in Clauses
  BY DEF Fit
<1>2. c.type \in {"gold", "city", "embassy", "advance"}
  BY <1>1 DEF Clauses, ClauseTypes, PactClauses, IsPact
<1>3. CASE c.type = "city"
  <2>1. Near[c.value] = {}
    BY <1>3 DEF Quiet, Fit
  <2>2. OnlyContacts(w, e, c.value)
    BY <1>3, CityExecuted
  <2> QED
    BY <2>1, <2>2 DEF OnlyContacts
<1>4. CASE c.type = "gold"
  BY <1>1, <1>4, GoldExecuted
<1>5. CASE c.type = "embassy"
  BY <1>1, <1>5, EmbassyExecuted
<1>6. CASE c.type = "advance"
  BY <1>1, <1>6, AdvanceExecuted
<1> QED
  BY <1>2, <1>3, <1>4, <1>5, <1>6

\* A clause that is one signs it for both, whoever has offered it.
LEMMA PactSigned ==
    ASSUME NEW p, NEW q, NEW w \in Worlds, NEW c \in Clauses, IsPact(c), NEW dest \in Players,
           (c.from = p /\ dest = q) \/ (c.from = q /\ dest = p),
           NEW lost, NEW e, e = Executed(w, c, dest, lost)
    PROVE  Signs(w, e, p, q, c.type)
<1>1. Both(c.from, dest) = Both(p, q)
  BY DEF Both
<1> DEFINE R == Both(p, q)
<1> HIDE DEF R
<1>2. /\ e.met = w.met
      /\ e.type = Put(w.type, R, PactResult(c.type))
      /\ e.max_state = Best(w.max_state, R, PactResult(c.type))
      /\ e.turns_left = IF c.type = "alliance" THEN w.turns_left
                        ELSE Put(w.turns_left, R, TurnsLeft)
  BY <1>1, PactExecuted DEF R
<1> QED
  BY <1>2 DEF R, Signs

\* A treaty has one pact at most, so it signs one at most.
LEMMA PactCourse ==
    ASSUME NEW p \in Players, NEW q \in Players, p # q, NEW lost, NEW n \in Nat, NEW h,
           FitList(clauses[{p, q}], {p, q}), NoRivals(clauses[{p, q}]),
           Course(p, q, lost, n, h), \A i \in DOMAIN clauses[{p, q}] : Quiet(clauses[{p, q}][i])
    PROVE  PactsAfter(p, q, h, n)
<1> DEFINE S == {i \in 0 .. n : PactsAfter(p, q, h, i)}
           cs == clauses[{p, q}]
<1>1. 0 \in S
  <2>1. UnchangedPacts(World, h[0]) /\ 1 .. 0 = {}
    BY DEF Course, UnchangedPacts
  <2> QED
    BY <2>1 DEF PactsAfter
<1>2. ASSUME NEW i \in 1 .. n, i - 1 \in S
      PROVE  i \in S
  <2>1. PICK c, dest : Executes(p, q, lost, h, i, c, dest)
    BY CourseStep
  <2>2. PactsAfter(p, q, h, i - 1)
    BY <1>2
  <2> DEFINE w == h[i - 1]
             e == h[i]
             l == lost
  <2>3. /\ w \in Worlds /\ Fit(c) /\ c \in Clauses /\ dest \in Players /\ c.from # dest
        /\ (c.from = p /\ dest = q) \/ (c.from = q /\ dest = p)
        /\ e = Executed(w, c, dest, l)
        /\ c = cs[i] /\ i \in DOMAIN cs
    BY <2>1 DEF Executes
  <2>4. Quiet(c)
    BY <2>3
  <2>5. 1 .. i = (1 .. (i - 1)) \cup {i} /\ i \in 1 .. i /\ i \in 0 .. n
    OBVIOUS
  <2> HIDE DEF w, e, l
  <2>6. CASE ~ IsPact(c)
    <3>1. UnchangedPacts(w, e)
      BY <2>3, <2>4, <2>6, NothingElseChangesPacts
    <3>2. CASE /\ \A j \in 1 .. (i - 1) : ~ IsPact(cs[j])
               /\ UnchangedPacts(World, w)
      <4>1. UnchangedPacts(World, e)
        BY <3>1, <3>2 DEF UnchangedPacts
      <4>2. \A j \in 1 .. i : ~ IsPact(cs[j])
        BY <2>3, <2>5, <2>6, <3>2
      <4> QED
        BY <2>5, <4>1, <4>2 DEF PactsAfter, e
    <3>3. CASE \E j \in 1 .. (i - 1) : IsPact(cs[j]) /\ Signs(World, w, p, q, cs[j].type)
      <4>1. PICK j \in 1 .. (i - 1) : IsPact(cs[j]) /\ Signs(World, w, p, q, cs[j].type)
        BY <3>3
      <4>2. Signs(World, e, p, q, cs[j].type)
        BY <3>1, <4>1 DEF UnchangedPacts, Signs
      <4> QED
        BY <2>5, <4>1, <4>2 DEF PactsAfter, e
    <3> QED
      BY <2>2, <3>2, <3>3 DEF PactsAfter, w
  <2>7. CASE IsPact(c)
    <3>1. Signs(w, e, p, q, c.type)
      BY <2>3, <2>7, PactSigned
    <3>2. ASSUME NEW j \in 1 .. (i - 1)
          PROVE  ~ IsPact(cs[j])
      <4>1. DOMAIN cs = 1 .. n
        BY DEF Course, FitList
      <4>2. j \in DOMAIN cs /\ j # i
        BY <4>1
      <4>3. IsPact(cs[j]) => Replaces(cs[j], cs[i])
        BY <2>3, <2>7 DEF Replaces
      <4> QED
        BY <2>3, <4>2, <4>3 DEF NoRivals
    <3>3. UnchangedPacts(World, w)
      BY <2>2, <3>2 DEF PactsAfter, w
    <3>4. Signs(World, e, p, q, c.type)
      BY <3>1, <3>3 DEF UnchangedPacts, Signs
    <3>5. IsPact(cs[i]) /\ Signs(World, h[i], p, q, cs[i].type)
      BY <2>3, <2>7, <3>4 DEF e
    <3> HIDE DEF cs
    <3> QED
      BY <2>5, <3>5 DEF PactsAfter, cs
  <2> QED
    BY <2>6, <2>7
<1>3. n \in S
  <2> HIDE DEF S
  <2>1. 0 .. n \subseteq S
    BY <1>1, <1>2, BoundedInduction
  <2> QED
    BY <2>1
<1> QED
  BY <1>3

-----------------------------------------------------------------------------
(***************************************************************************)
(* The implementation of Diplomacy.                                        *)
(***************************************************************************)
\* pplayer_can_make_treaty is that of the instance.
LEMMA SameTreaties ==
    \A p, q, pact : CanMakeTreaty(type, alive, p, q, pact) =>
                        D!CanMakeTreaty(type, alive, p, q, pact)
<1>1. \A p, q : D!Allied(type, p, q) <=> Allied(type, p, q)
  BY DEF D!Allied, Allied
<1>2. \A p, q : D!IsValidAlliance(type, alive, p, q) <=> IsValidAlliance(type, alive, p, q)
  BY <1>1 DEF D!IsValidAlliance, IsValidAlliance
<1> QED
  BY <1>2, SameOperators DEF D!CanMakeTreaty, CanMakeTreaty

\* A treaty that signs a pact is MakePact of Diplomacy.
LEMMA SignsIsMakePact ==
    ASSUME NEW p \in Players, NEW q \in Players, NEW pact, NEW e, Signs(World, e, p, q, pact),
           CanMakeTreaty(type, alive, p, q, pact), cursor = D!Idle, {p, q} \subseteq alive,
           type' = e.type, max_state' = e.max_state, turns_left' = e.turns_left, met' = e.met,
           UNCHANGED <<reason, autoCancelled, alive, unborn, senate, cursor>>
    PROVE  D!MakePact(p, q, pact)
<1> DEFINE R == Both(p, q)
           ds == PactResult(pact)
<1>1. /\ type' = Put(type, R, ds) /\ max_state' = Best(max_state, R, ds)
      /\ turns_left' = (IF pact = "alliance" THEN turns_left ELSE Put(turns_left, R, TurnsLeft))
      /\ met' = met
  BY DEF Signs, World
<1> HIDE DEF R, ds
<1>2. D!SetDiplStateType(R, ds)
  <2>1. type' = D!Put(type, R, ds)
    BY <1>1, SameOperators
  <2>2. max_state' = [a \in D!Players |-> [b \in D!Players |->
                        IF <<a, b>> \in R THEN D!MaxState(max_state[a][b], ds)
                        ELSE max_state[a][b]]]
    BY <1>1, SameOperators, SameMaxState DEF Best
  <2> QED
    BY <2>1, <2>2 DEF D!SetDiplStateType
<1>3. D!SetDiplStateType(D!Both(p, q), D!PactResult(pact))
  BY <1>2, SameOperators DEF R, ds
<1>4. turns_left' = IF pact = "alliance" THEN turns_left
                    ELSE D!Put(turns_left, D!Both(p, q), TurnsLeft)
  BY <1>1, SameOperators DEF R
<1>5. D!CanMakeTreaty(type, alive, p, q, pact)
  BY SameTreaties
<1> QED
  BY <1>1, <1>3, <1>4, <1>5 DEF D!MakePact, D!playerVars

\* What may happen to the pacts between two turn changes.
PactsMove ==
    \/ UNCHANGED D!vars
    \/ \E p, q \in Players : \/ D!MakeContact(p, q) \/ D!CancelPact(p, q)
                              \/ \E pact \in PactClauses : D!MakePact(p, q, pact)
    \/ \E p \in Players : D!KillPlayer(p, {})

\* The execution of a treaty makes one move, or none.
LEMMA ConcludeRefines ==
    ASSUME TInv, AllQuiet, MeetingsOfTheLiving,
           NEW p \in Players, NEW q \in Players, NEW lost, Conclude(p, q, lost)
    PROVE  PactsMove
<1>1. TypeOK /\ Lists
  BY TInvTypes
<1>2. AcceptsLast(p, q) /\ FirstFailure(p, q) = 0
  BY DEF Conclude
<1>3. /\ p # q /\ {p, q} \in Meetings
      /\ FitList(clauses[{p, q}], {p, q}) /\ NoRivals(clauses[{p, q}])
      /\ \A i \in DOMAIN clauses[{p, q}] : Covered(p, q, clauses[{p, q}][i])
  BY <1>1, <1>2, AllCovered
<1>4. PICK n, h :
              /\ n \in Nat /\ Course(p, q, lost, n, h)
              /\ type' = h[n].type /\ max_state' = h[n].max_state
              /\ turns_left' = h[n].turns_left /\ met' = h[n].met
              /\ gold' = h[n].gold /\ owner' = h[n].owner /\ knows' = h[n].knows
              /\ embassy' = h[n].embassy
  BY <1>1, ConcludeCourse
<1>5. UNCHANGED <<reason, autoCancelled, alive, unborn, senate, cursor>>
  BY DEF Conclude
<1>6. PactsAfter(p, q, h, n)
  <2>1. \A i \in DOMAIN clauses[{p, q}] : Quiet(clauses[{p, q}][i])
    BY <1>3 DEF AllQuiet
  <2> QED
    BY <1>3, <1>4, <2>1, PactCourse
<1>7. CASE UnchangedPacts(World, h[n])
  <2>1. UNCHANGED <<type, max_state, turns_left, met>>
    BY <1>4, <1>7 DEF UnchangedPacts, World
  <2> QED
    BY <1>5, <2>1 DEF PactsMove, D!vars, D!pactVars, D!playerVars
<1>8. CASE \E j \in 1 .. n : /\ IsPact(clauses[{p, q}][j])
                             /\ Signs(World, h[n], p, q, clauses[{p, q}][j].type)
  <2>1. PICK j \in 1 .. n : /\ IsPact(clauses[{p, q}][j])
                            /\ Signs(World, h[n], p, q, clauses[{p, q}][j].type)
    BY <1>8
  <2> DEFINE pact == clauses[{p, q}][j].type
  <2>2. j \in DOMAIN clauses[{p, q}]
    BY <1>3, <1>4 DEF Course, FitList
  <2>3. CanMakeTreaty(type, alive, p, q, pact) /\ pact \in PactClauses
    BY <1>3, <2>1, <2>2 DEF Covered, IsPact, PactClauses
  <2>4. {p, q} \subseteq alive
    BY <1>2 DEF AcceptsLast, MeetingsOfTheLiving
  <2>5. cursor = D!Idle
    BY DEF TInv
  <2>6. Signs(World, h[n], p, q, pact)
    BY <2>1
  <2> HIDE DEF pact
  <2>7. D!MakePact(p, q, pact)
    BY <1>4, <1>5, <2>3, <2>4, <2>5, <2>6, SignsIsMakePact
  <2> QED
    BY <2>3, <2>7 DEF PactsMove
<1> QED
  BY <1>6, <1>7, <1>8 DEF PactsAfter

\* So does every step.
LEMMA EachPactsMove ==
    ASSUME TInv, AllQuiet, MeetingsOfTheLiving, [Next]_vars
    PROVE  PactsMove
<1> DEFINE Goal == PactsMove
<1>1. ASSUME UNCHANGED diplVars
      PROVE  Goal
  BY <1>1 DEF PactsMove, diplVars, D!vars, D!pactVars, D!playerVars
<1>2. ASSUME NEW p \in Players, NEW q \in Players \ {p}, NEW lost, Conclude(p, q, lost)
      PROVE  Goal
  BY <1>2, ConcludeRefines
<1>4. ASSUME NEW p \in Players, NEW q \in Players, MakeContact(p, q)
      PROVE  Goal
  BY <1>4 DEF MakeContact, PactsMove
<1>5. ASSUME NEW p \in Players, NEW q \in Players, CancelPact(p, q)
      PROVE  Goal
  BY <1>5 DEF CancelPact, PactsMove
<1>6. ASSUME NEW p \in Players, NEW heirs, KillPlayer(p, heirs)
      PROVE  Goal
  BY <1>6 DEF KillPlayer, PactsMove
<1> HIDE DEF Goal
<1>7. ASSUME NEW p \in Players, NEW q \in Players \ {p},
             \/ InitMeeting(p, q) \/ CancelMeeting(p, q) \/ Accept(p, q) \/ TakeBack(p, q)
             \/ FallThrough(p, q) \/ LeaveBehind(p, q)
      PROVE  Goal
  BY <1>1, <1>7 DEF InitMeeting, CancelMeeting, Accept, TakeBack, FallThrough, LeaveBehind
<1>8. ASSUME NEW m, NEW c, CreateClause(m, c) \/ RemoveClause(m, c)
      PROVE  Goal
  BY <1>1, <1>8 DEF CreateClause, RemoveClause
<1>9. ASSUME Negotiate
      PROVE  Goal
  BY <1>2, <1>7, <1>8, <1>9 DEF Negotiate
<1>10. ASSUME NEW p
       PROVE  ChangeControl(p) \/ Spend(p) \/ (\E t : Learn(p, t) \/ Forget(p, t)) => Goal
  <2>1. ChangeControl(p) \/ Spend(p) \/ (\E t : Learn(p, t) \/ Forget(p, t)) => UNCHANGED diplVars
    BY DEF ChangeControl, Spend, Learn, Forget
  <2> QED
    BY <1>1, <2>1
<1>11. ASSUME NEW c
       PROVE  BuildPalace(c) \/ (\E p : LoseCity(c, p)) => Goal
  <2>1. BuildPalace(c) \/ (\E p : LoseCity(c, p)) => UNCHANGED diplVars
    BY DEF LoseCity, BuildPalace
  <2> QED
    BY <1>1, <2>1
<1>12. UNCHANGED vars => Goal
  BY <1>1 DEF vars
<1>13. Goal
  BY <1>4, <1>5, <1>6, <1>9, <1>10, <1>11, <1>12 DEF Next
<1> QED
  BY <1>13 DEF Goal

\* And therefore every behaviour.
LEMMA PactsAlwaysMove ==
    ASSUME QuietOffers
    PROVE  Spec => [][PactsMove]_vars
<1>1. Init => AllQuiet
  BY DEF Init, AllQuiet
<1>2. TInv /\ AllQuiet /\ [Next]_vars => AllQuiet'
  BY QuietStep
<1>3. TInv /\ AllQuiet /\ MeetingsOfTheLiving /\ [Next]_vars => [PactsMove]_vars
  BY EachPactsMove
<1>4. Spec => []MeetingsOfTheLiving
  BY MeetingsAlwaysOfTheLiving
<1> QED
  BY <1>1, <1>2, <1>3, <1>4, THolds, PTL DEF Spec

\* The moves are steps of Diplomacy.
LEMMA MovesOfDiplomacy == [PactsMove]_vars => [D!Next]_(D!vars)
<1>1. D!Players = Players /\ D!PactClauses = PactClauses
  BY SameOperators
<1>2. UNCHANGED vars => UNCHANGED D!vars
  BY DEF vars, diplVars, D!vars, D!pactVars, D!playerVars
<1>3. ASSUME NEW p \in Players, D!KillPlayer(p, {})
      PROVE  D!Next
  <2>1. {} \in SUBSET D!Newcomers(alive \ {p})
    OBVIOUS
  <2> QED
    BY <1>1, <1>3, <2>1 DEF D!Next
<1>4. ASSUME NEW p \in Players, NEW q \in Players, D!MakeContact(p, q) \/ D!CancelPact(p, q)
      PROVE  D!Next
  BY <1>1, <1>4 DEF D!Next
<1>5. ASSUME NEW p \in Players, NEW q \in Players, NEW pact \in PactClauses,
             D!MakePact(p, q, pact)
      PROVE  D!Next
  BY <1>1, <1>5 DEF D!Next
<1> QED
  BY <1>2, <1>3, <1>4, <1>5 DEF PactsMove

\* Negotiation implements Diplomacy: a pact is signed only when it is allowed at
\* that moment, whatever has happened since it was offered and accepted.  The
\* hypothesis is needed: a city that brings its new owner into contact changes
\* pacts in the middle of a treaty (README.md).
THEOREM DiplomacyImplemented ==
    ASSUME QuietOffers
    PROVE  Spec => RefinesDiplomacy
<1>1. Init => D!Init
  BY DEF Init
<1>2. [PactsMove]_vars => [D!Next]_(D!vars)
  BY MovesOfDiplomacy
<1>3. Spec => D!Init /\ [][D!Next]_(D!vars)
  BY <1>1, <1>2, PactsAlwaysMove, PTL DEF Spec
<1> QED
  BY <1>3 DEF RefinesDiplomacy, D!Spec

-----------------------------------------------------------------------------
(***************************************************************************)
(* What that implies: the triads of Diplomacy.                             *)
(***************************************************************************)
DP == INSTANCE DiplomacyProofs WITH Senators <- {}, Grievances <- {}

\* The theorems of DiplomacyProofs, for the instance; its rules are the same.
LEMMA SameRules ==
    /\ DP!Players = D!Players /\ DP!Pairs = D!Pairs /\ DP!PactClauses = D!PactClauses
    /\ \A p, q : DP!Both(p, q) = D!Both(p, q) /\ (DP!SameTeam(p, q) <=> D!SameTeam(p, q))
    /\ \A f, R, v : DP!Put(f, R, v) = D!Put(f, R, v)
    /\ \A pact : DP!PactResult(pact) = D!PactResult(pact)
    /\ \A ds : DP!CancelPactResult(ds) = D!CancelPactResult(ds)
    /\ \A p, q : DP!CommonAllies(type, alive, p, q) = D!CommonAllies(type, alive, p, q)
    /\ \A p, q : DP!CanCancel(type, reason, alive, senate, p, q)
                    <=> D!CanCancel(type, reason, alive, senate, p, q)
    /\ \A p, q, pact : DP!CanMakeTreaty(type, alive, p, q, pact)
                          <=> D!CanMakeTreaty(type, alive, p, q, pact)
<1>1. DP!Players = D!Players /\ DP!PactClauses = D!PactClauses
  BY DEF D!Players, DP!Players, D!PactClauses, DP!PactClauses
<1>2. DP!Pairs = D!Pairs
  BY <1>1 DEF DP!Pairs, D!Pairs
<1>3. \A p, q : DP!Both(p, q) = D!Both(p, q) /\ (DP!SameTeam(p, q) <=> D!SameTeam(p, q))
  BY DEF D!Both, DP!Both, D!SameTeam, DP!SameTeam
<1>4. \A f, R, v : DP!Put(f, R, v) = D!Put(f, R, v)
  BY <1>1 DEF D!Put, DP!Put
<1>5. \A pact : DP!PactResult(pact) = D!PactResult(pact)
  BY DEF D!PactResult, DP!PactResult
<1>6. \A ds : DP!CancelPactResult(ds) = D!CancelPactResult(ds)
  BY DEF D!CancelPactResult, DP!CancelPactResult
<1>7. \A p, q : DP!Allied(type, p, q) <=> D!Allied(type, p, q)
  BY DEF DP!Allied, D!Allied
<1>8. \A p, q : DP!CommonAllies(type, alive, p, q) = D!CommonAllies(type, alive, p, q)
  BY <1>7 DEF D!CommonAllies, DP!CommonAllies
<1>9. \A p, q : DP!CanCancel(type, reason, alive, senate, p, q)
                   <=> D!CanCancel(type, reason, alive, senate, p, q)
  BY <1>3 DEF DP!CanCancel, D!CanCancel
<1>10. \A p, q : DP!IsValidAlliance(type, alive, p, q) <=> D!IsValidAlliance(type, alive, p, q)
  BY <1>7 DEF DP!IsValidAlliance, D!IsValidAlliance
<1>11. \A p, q, pact : DP!CanMakeTreaty(type, alive, p, q, pact)
                          <=> D!CanMakeTreaty(type, alive, p, q, pact)
  BY <1>1, <1>3, <1>10 DEF DP!CanMakeTreaty, D!CanMakeTreaty
<1> QED
  BY <1>1, <1>2, <1>3, <1>4, <1>5, <1>6, <1>8, <1>9, <1>11

\* Its actions are the same too.
LEMMA SameActions ==
    /\ \A R, ds : DP!SetDiplStateType(R, ds) <=> D!SetDiplStateType(R, ds)
    /\ \A p, q : D!MakeContact(p, q) => DP!MakeContact(p, q)
    /\ \A p, q, pact : D!MakePact(p, q, pact) => DP!MakePact(p, q, pact)
    /\ \A p, q : D!CancelPact(p, q) => DP!CancelPact(p, q)
    /\ \A p : D!KillPlayer(p, {}) => DP!KillPlayer(p, {})
<1>1. \A a, b : DP!MaxState(a, b) = D!MaxState(a, b)
  <2>1. \A ds : DP!HowClose(ds) = D!HowClose(ds)
    BY DEF DP!HowClose, D!HowClose
  <2> QED
    BY <2>1 DEF DP!MaxState, D!MaxState, DP!Closest, D!Closest
<1>2. \A R, ds : DP!SetDiplStateType(R, ds) <=> D!SetDiplStateType(R, ds)
  BY <1>1, SameRules DEF DP!SetDiplStateType, D!SetDiplStateType
<1>3. DP!Idle = D!Idle
  BY DEF DP!Idle, D!Idle
<1>4. ASSUME NEW p, NEW q
      PROVE  D!MakeContact(p, q) => DP!MakeContact(p, q)
  <2>1. DP!DefaultDiplState(type, alive, p, q) = D!DefaultDiplState(type, alive, p, q)
    BY SameRules DEF DP!DefaultDiplState, D!DefaultDiplState
  <2> QED
    BY <1>2, <2>1, SameRules DEF DP!MakeContact, D!MakeContact, DP!playerVars, D!playerVars
<1>5. ASSUME NEW p, NEW q, NEW pact
      PROVE  D!MakePact(p, q, pact) => DP!MakePact(p, q, pact)
  BY <1>2, <1>3, SameRules DEF DP!MakePact, D!MakePact, DP!playerVars, D!playerVars
<1>6. ASSUME NEW p, NEW q
      PROVE  D!CancelPact(p, q) => DP!CancelPact(p, q)
  <2>1. DP!FallOut(p, q) = D!FallOut(p, q)
    BY SameRules DEF DP!FallOut, D!FallOut, DP!LeavesAggressor, D!LeavesAggressor,
       DP!LeavesVictim, D!LeavesVictim
  <2>2. \A R : DP!Mutual(R) = D!Mutual(R)
    BY SameRules DEF DP!Mutual, D!Mutual
  <2> QED
    BY <1>3, <2>1, <2>2, SameRules DEF DP!CancelPact, D!CancelPact, DP!playerVars, D!playerVars
<1>7. ASSUME NEW p
      PROVE  D!KillPlayer(p, {}) => DP!KillPlayer(p, {})
  <2>1. D!Arrive({}) => DP!Arrive({})
    BY <1>2, SameRules DEF DP!Arrive, D!Arrive
  <2> QED
    BY <1>3, <2>1 DEF DP!KillPlayer, D!KillPlayer, DP!Newcomers, D!Newcomers
<1> QED
  BY <1>2, <1>4, <1>5, <1>6, <1>7

\* The assumptions of DiplomacyProofs hold of the instance.
LEMMA DPAssumptions ==
    /\ N \in Nat \ {0} /\ TurnsLeft \in Nat \ {0, 1}
    /\ NoDiplomacy \subseteq Unborn /\ Unborn \subseteq DP!Players
    /\ \A p \in Unborn, q \in DP!Players : DP!SameTeam(p, q) => p = q
    /\ {} \subseteq DP!Players
    /\ {} \subseteq DP!Pairs
    /\ DP!LoneSenators
<1>1. DP!Players = Players
  BY DEF DP!Players, Players
<1>2. \A p, q : DP!SameTeam(p, q) <=> SameTeam(p, q)
  BY DEF DP!SameTeam, SameTeam
<1> QED
  BY <1>1, <1>2, NAssumption, TurnsLeftAssumption, PlayersAssumption, TeamAssumption
     DEF DP!LoneSenators

\* The moves are steps of it.
LEMMA MovesOfDP == [PactsMove]_vars => [DP!Next]_(DP!vars)
<1>1. DP!Players = Players /\ DP!PactClauses = PactClauses
  BY SameOperators, SameRules
<1>2. UNCHANGED D!vars => UNCHANGED DP!vars
  BY DEF D!vars, D!pactVars, D!playerVars, DP!vars, DP!pactVars, DP!playerVars
<1>3. UNCHANGED vars => UNCHANGED DP!vars
  BY DEF vars, diplVars, DP!vars, DP!pactVars, DP!playerVars
<1>4. ASSUME NEW p \in Players, D!KillPlayer(p, {})
      PROVE  DP!Next
  <2>1. {} \in SUBSET DP!Newcomers(alive \ {p}) /\ DP!KillPlayer(p, {})
    BY <1>4, SameActions
  <2> QED
    BY <1>1, <2>1 DEF DP!Next
<1>5. ASSUME NEW p \in Players, NEW q \in Players, D!MakeContact(p, q) \/ D!CancelPact(p, q)
      PROVE  DP!Next
  BY <1>1, <1>5, SameActions DEF DP!Next
<1>6. ASSUME NEW p \in Players, NEW q \in Players, NEW pact \in PactClauses,
             D!MakePact(p, q, pact)
      PROVE  DP!Next
  BY <1>1, <1>6, SameActions DEF DP!Next
<1> QED
  BY <1>2, <1>3, <1>4, <1>5, <1>6 DEF PactsMove

\* No treaty and no order of treaties, wars, contacts and deaths ever makes a
\* player the ally of two others who are at war, as long as no city that is
\* offered brings its new owner into contact (a run shows that one does).
THEOREM TreatiesNeverMakeTriads ==
    ASSUME QuietOffers
    PROVE  Spec => []NoLoveLoveHate
<1>1. Init => DP!Init
  <2>1. /\ DP!Players = D!Players /\ DP!Idle = D!Idle
        /\ \A p, q : DP!SameTeam(p, q) <=> D!SameTeam(p, q)
    BY SameRules DEF DP!Idle, D!Idle
  <2> QED
    BY <2>1 DEF Init, D!Init, DP!Init
<1>2. [PactsMove]_vars => [DP!Next]_(DP!vars)
  BY MovesOfDP
<1>3. DP!Spec => []DP!NoLoveLoveHate
  BY DPAssumptions, DP!AlliesNeverAtWar
<1>4. DP!NoLoveLoveHate => NoLoveLoveHate
  BY DEF NoLoveLoveHate, D!NoLoveLoveHate, DP!NoLoveLoveHate, D!Allied, DP!Allied
<1>5. DP!Init /\ [][DP!Next]_(DP!vars) => []DP!NoLoveLoveHate
  BY <1>3 DEF DP!Spec
<1> QED
  BY <1>1, <1>2, <1>4, <1>5, PactsAlwaysMove, PTL DEF Spec
=============================================================================
