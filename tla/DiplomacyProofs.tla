--------------------------- MODULE DiplomacyProofs ---------------------------
(***************************************************************************)
(* Theorems about Diplomacy for any number of players and any TurnsLeft: the *)
(* invariant (types, sides that agree, teams, clocks), what the pacts of a *)
(* pair promise to third players, and that every pair implements PactLadder. *)
(***************************************************************************)
EXTENDS Diplomacy, TLAPS

USE NAssumption, TurnsLeftAssumption, PlayersAssumption, TeamAssumption,
    SenatorsAssumption, GrievancesAssumption

\* Assigning to entries of a matrix keeps its type and is read back entry by
\* entry.
LEMMA PutType ==
    ASSUME NEW S, NEW f \in Matrix(S), NEW R, NEW v \in S
    PROVE  Put(f, R, v) \in Matrix(S)
BY DEF Put, Matrix

LEMMA PutEntry ==
    ASSUME NEW f, NEW R, NEW v, NEW p \in Players, NEW q \in Players
    PROVE  Put(f, R, v)[p][q] = IF <<p, q>> \in R THEN v ELSE f[p][q]
BY DEF Put

LEMMA MaxStateType ==
    ASSUME NEW a \in DiplStates, NEW b \in DiplStates
    PROVE  MaxState(a, b) \in DiplStates
BY DEF MaxState, Closest, DiplStates

LEMMA RulesType ==
    ASSUME NEW ds \in DiplStates, NEW pact \in PactClauses
    PROVE  /\ CancelPactResult(ds) \in DiplStates
           /\ PactResult(pact) \in DiplStates
BY DEF CancelPactResult, PactResult, DiplStates, PactClauses

LEMMA SetDiplStateTypeOK ==
    ASSUME TypeOK, NEW R, NEW ds \in DiplStates, SetDiplStateType(R, ds)
    PROVE  /\ type' \in Matrix(DiplStates)
           /\ max_state' \in Matrix(DiplStates)
<1>1. type' \in Matrix(DiplStates)
  BY PutType DEF TypeOK, SetDiplStateType
<1>2. ASSUME NEW p \in Players, NEW q \in Players
      PROVE  max_state[p][q] \in DiplStates
             /\ MaxState(max_state[p][q], ds) \in DiplStates
  BY MaxStateType DEF TypeOK, Matrix
<1>3. max_state' \in Matrix(DiplStates)
  BY <1>2 DEF SetDiplStateType, Matrix
<1> QED
  BY <1>1, <1>3

LEMMA FollowingType ==
    ASSUME NEW pq \in Pairs
    PROVE  Following(pq) \in Pairs \cup {Idle}
BY DEF Following, Pairs, Players, Idle

(***************************************************************************)
(* Every action keeps the types.                                           *)
(***************************************************************************)
LEMMA TypeStep == TypeOK /\ Running /\ [Next]_vars => TypeOK'
<1> SUFFICES ASSUME TypeOK, Running, [Next]_vars
             PROVE  TypeOK'
  OBVIOUS
<1> USE DEF playerVars, pactVars
<1>1. ASSUME NEW p \in Players, NEW q \in Players, MakeContact(p, q)
      PROVE  TypeOK'
  <2>1. DefaultDiplState(type, alive, p, q) \in DiplStates
    BY DEF DefaultDiplState, DiplStates
  <2>2. Both(p, q) \subseteq Pairs
    BY DEF Both, Pairs
  <2> QED
    BY <1>1, <2>1, <2>2, SetDiplStateTypeOK DEF MakeContact, TypeOK
<1>2. ASSUME NEW p \in Players, NEW q \in Players, NEW pact \in PactClauses,
             MakePact(p, q, pact)
      PROVE  TypeOK'
  <2>1. PactResult(pact) \in DiplStates
    BY DEF PactResult, PactClauses, DiplStates
  <2>2. turns_left' \in Matrix(0 .. TurnsLeft)
    <3>1. TurnsLeft \in 0 .. TurnsLeft
      OBVIOUS
    <3> QED
      BY <1>2, <3>1, PutType DEF MakePact, TypeOK
  <2> QED
    BY <1>2, <2>1, <2>2, SetDiplStateTypeOK DEF MakePact, TypeOK
<1>3. ASSUME NEW p \in Players, NEW q \in Players,
             CancelPact(p, q)
      PROVE  TypeOK'
  <2> DEFINE new == CancelPactResult(type[p][q])
             leave == IF new = "war" THEN FallOut(p, q) ELSE {}
  <2>1. type[p][q] \in DiplStates
    BY DEF TypeOK, Matrix
  <2>2. new \in DiplStates /\ "armistice" \in DiplStates
    BY <2>1 DEF CancelPactResult, DiplStates
  <2>3. type' = Put(Put(type, Both(p, q), new), Mutual(leave), "armistice")
        /\ turns_left' = Put(turns_left, Both(p, q) \cup Mutual(leave), TurnsLeft)
        /\ reason' = Put(reason, {<<p, q>>} \cup leave, 0)
    BY <1>3 DEF CancelPact
  <2>4. type' \in Matrix(DiplStates)
    BY <2>2, <2>3, PutType DEF TypeOK
  <2>5. turns_left' \in Matrix(0 .. TurnsLeft) /\ reason' \in Matrix(0 .. 2)
    <3>1. TurnsLeft \in 0 .. TurnsLeft /\ 0 \in 0 .. 2
      OBVIOUS
    <3> QED
      BY <2>3, <3>1, PutType DEF TypeOK
  <2> QED
    BY <1>3, <2>4, <2>5 DEF CancelPact, TypeOK
<1>4. ASSUME NEW p \in Players, NEW q \in Players, GiveCasusBelli(p, q)
      PROVE  TypeOK'
  BY <1>4 DEF GiveCasusBelli, TypeOK, Matrix
<1>5. ASSUME NEW p \in Players, InternationalOutrage(p)
      PROVE  TypeOK'
  <2> DEFINE victims == {pq \in Pairs : pq[2] = p /\ pq[1] \notin unborn \cup {p}}
  <2>1. reason' = Put(reason, victims, 2)
    BY <1>5 DEF InternationalOutrage
  <2>2. reason' \in Matrix(0 .. 2)
    <3>1. 2 \in 0 .. 2
      OBVIOUS
    <3> QED
      BY <2>1, <3>1, PutType DEF TypeOK
  <2> QED
    BY <1>5, <2>2 DEF InternationalOutrage, TypeOK
<1>6. ASSUME NEW p \in Players, ChangeGovernment(p)
      PROVE  TypeOK'
  BY <1>6 DEF ChangeGovernment, TypeOK
<1>7. ASSUME NEW S, Arrive(S)
      PROVE  /\ type' \in Matrix(DiplStates)
             /\ max_state' \in Matrix(DiplStates)
             /\ turns_left' \in Matrix(0 .. TurnsLeft)
             /\ reason' \in Matrix(0 .. 2)
             /\ unborn' \in SUBSET Unborn
  <2>1. "war" \in DiplStates /\ 0 \in 0 .. TurnsLeft
    BY DEF DiplStates
  <2>2. type' \in Matrix(DiplStates) /\ max_state' \in Matrix(DiplStates)
    BY <1>7, <2>1, SetDiplStateTypeOK DEF Arrive
  <2>3. turns_left' \in Matrix(0 .. TurnsLeft) /\ reason' \in Matrix(0 .. 2)
    BY <1>7, <2>1, PutType DEF Arrive, TypeOK
  <2> QED
    BY <1>7, <2>2, <2>3 DEF Arrive, TypeOK
<1>8. ASSUME NEW S, NewPlayer(S)
      PROVE  TypeOK'
  BY <1>7, <1>8 DEF NewPlayer, Newcomers, TypeOK
<1>9. ASSUME NEW p \in Players, NEW S, KillPlayer(p, S)
      PROVE  TypeOK'
  BY <1>7, <1>9 DEF KillPlayer, Newcomers, TypeOK
<1>10. CASE StartUpdate
  <2>1. <<1, 1>> \in Pairs
    BY DEF Pairs, Players
  <2> QED
    BY <1>10, <2>1 DEF StartUpdate, TypeOK
<1>11. CASE NewTurn
  BY <1>11 DEF NewTurn, TypeOK
<1>12. ASSUME NEW p \in Players, NEW q \in Players, UpdatePair(p, q)
       PROVE  TypeOK'
  <2>1. <<p, q>> \in Pairs /\ type[p][q] \in DiplStates
        /\ turns_left[p][q] \in 0 .. TurnsLeft /\ reason[p][q] \in 0 .. 2
    BY DEF TypeOK, Matrix, Pairs
  <2>2. cursor' \in Pairs \cup {Idle}
    BY <1>12, <2>1, FollowingType DEF UpdatePair
  <2>3. Minus1(reason[p][q]) \in 0 .. 2
    BY <2>1 DEF Minus1
  <2>4. CASE UNCHANGED <<type, turns_left, reason, autoCancelled>>
    BY <1>12, <2>2, <2>4 DEF UpdatePair, TypeOK
  <2>5. CASE PeaceComes(p, q)
    <3>1. "peace" \in DiplStates /\ 0 \in 0 .. TurnsLeft
      BY DEF DiplStates
    <3>2. type' \in Matrix(DiplStates) /\ turns_left' \in Matrix(0 .. TurnsLeft)
      BY <2>5, <3>1, PutType DEF PeaceComes, TypeOK
    <3>3. reason' \in Matrix(0 .. 2)
      BY <2>3, <2>5 DEF PeaceComes, TypeOK, Matrix
    <3> QED
      BY <1>12, <2>2, <2>5, <3>2, <3>3 DEF UpdatePair, PeaceComes, TypeOK
  <2>6. CASE CeasefireRunsOut(p, q)
    <3> DEFINE leave == LoveLoveHate(p, q)
    <3>1. {"war", "armistice"} \subseteq DiplStates
          /\ {0, TurnsLeft - 1} \subseteq 0 .. TurnsLeft
      BY DEF DiplStates
    <3>2. type' = Put(Put(type, Both(p, q), "war"), Mutual(leave), "armistice")
          /\ turns_left' = Put(Put(turns_left, Both(p, q), 0), Mutual(leave), TurnsLeft - 1)
          /\ reason' = Put([reason EXCEPT ![p][q] = Minus1(@)], leave, 0)
      BY <2>6 DEF CeasefireRunsOut
    <3>3. type' \in Matrix(DiplStates) /\ turns_left' \in Matrix(0 .. TurnsLeft)
      BY <3>1, <3>2, PutType DEF TypeOK
    <3>4. [reason EXCEPT ![p][q] = Minus1(@)] \in Matrix(0 .. 2)
      BY <2>3 DEF TypeOK, Matrix
    <3>5. reason' \in Matrix(0 .. 2)
      BY <3>2, <3>4, PutType
    <3>6. autoCancelled' \in SUBSET Pairs
      BY <2>6 DEF CeasefireRunsOut, Mutual, TypeOK
    <3> QED
      BY <1>12, <2>2, <3>3, <3>5, <3>6 DEF UpdatePair, TypeOK
  <2>7. CASE CountDown(p, q)
    <3>1. turns_left' \in Matrix(0 .. TurnsLeft)
      <4>1. turns_left[p][q] - 1 \in 0 .. TurnsLeft
        BY <2>1, <2>7 DEF CountDown, Counting, Running
      <4> QED
        BY <2>7, <4>1 DEF CountDown, TypeOK, Matrix
    <3> QED
      BY <1>12, <2>2, <2>3, <2>7, <3>1 DEF UpdatePair, CountDown, TypeOK, Matrix
  <2>8. CASE NothingRuns(p, q)
    BY <1>12, <2>2, <2>3, <2>8 DEF UpdatePair, NothingRuns, TypeOK, Matrix
  <2> QED
    BY <1>12, <2>4, <2>5, <2>6, <2>7, <2>8 DEF UpdatePair
<1>13. CASE UNCHANGED vars
  BY <1>13 DEF vars, TypeOK
<1> QED
  BY <1>1, <1>2, <1>3, <1>4, <1>5, <1>6, <1>8, <1>9, <1>10, <1>11, <1>12, <1>13
  DEF Next

-----------------------------------------------------------------------------
(***************************************************************************)
(* What the actions do to the two entries of a pair.                       *)
(***************************************************************************)

\* The alliances that common allies give up are alliances, between living
\* players of different teams, and not the pair that goes to war.
LEMMA FallOutFacts ==
    ASSUME TypeOK, Shape, NEW p \in Players, NEW q \in Players, p # q,
           p \in alive /\ q \in alive,
           NEW STATE leave, leave \in {FallOut(p, q), LoveLoveHate(p, q), {}},
           NEW a \in Players, NEW b \in Players
    PROVE  /\ <<a, b>> \in Mutual(leave) <=> <<b, a>> \in Mutual(leave)
           /\ <<a, b>> \in Mutual(leave) =>
                 /\ type[a][b] = "alliance" /\ type[b][a] = "alliance"
                 /\ ~ SameTeam(a, b) /\ a # b /\ a \in alive /\ b \in alive
                 /\ <<a, b>> \notin Both(p, q)
<1>1. /\ <<a, b>> \in Mutual(leave) <=> (<<a, b>> \in leave \/ <<b, a>> \in leave)
      /\ <<b, a>> \in Mutual(leave) <=> (<<a, b>> \in leave \/ <<b, a>> \in leave)
  BY DEF Mutual, Pairs
<1>2. ASSUME NEW x \in Players, NEW y \in Players, <<x, y>> \in leave
      PROVE  /\ x \in CommonAllies(type, alive, p, q)
             /\ y \in {p, q}
             /\ ~ SameTeam(x, y)
  <2>1. CASE <<x, y>> \in FallOut(p, q)
    BY <2>1 DEF FallOut, LeavesAggressor, LeavesVictim, CanCancel
  <2>2. CASE <<x, y>> \in LoveLoveHate(p, q)
    BY <2>2 DEF LoveLoveHate
  <2> QED
    BY <1>2, <2>1, <2>2
<1>3. ASSUME NEW x \in Players, NEW y \in Players, <<x, y>> \in leave
      PROVE  /\ type[x][y] = "alliance" /\ type[y][x] = "alliance"
             /\ ~ SameTeam(x, y) /\ x # y /\ x \in alive /\ y \in alive
             /\ <<x, y>> \notin Both(p, q) /\ <<y, x>> \notin Both(p, q)
  BY <1>2, <1>3 DEF CommonAllies, Allied, Shape, SidesAgree, TeamsHold, SameTeam, Both
<1>4. CASE <<a, b>> \in leave
  BY <1>1, <1>3, <1>4
<1>5. CASE <<b, a>> \in leave
  BY <1>1, <1>3, <1>5 DEF SameTeam
<1> QED
  BY <1>1, <1>4, <1>5

LEMMA FallOutAlliances ==
    ASSUME TypeOK, Shape, NEW p \in Players, NEW q \in Players, p # q,
           p \in alive, q \in alive,
           NEW STATE leave, leave \in {FallOut(p, q), LoveLoveHate(p, q), {}}
    PROVE  \A a, b \in Players : <<a, b>> \in Mutual(leave) =>
               /\ type[a][b] = "alliance" /\ type[b][a] = "alliance"
               /\ ~ SameTeam(a, b) /\ a # b /\ a \in alive /\ b \in alive
               /\ <<a, b>> \notin Both(p, q)
BY FallOutFacts, Zenon

\* What a set of pairs must be like for SetDiplStateType to keep the shape.
LEMMA SetDiplStateEntries ==
    ASSUME TypeOK, Shape, NEW R, NEW ds \in DiplStates, SetDiplStateType(R, ds),
           \A a, b \in Players : <<a, b>> \in R <=> <<b, a>> \in R
    PROVE  \A a, b \in Players :
               /\ type'[a][b] = IF <<a, b>> \in R THEN ds ELSE type[a][b]
               /\ type'[a][b] = type'[b][a]
               /\ max_state'[a][b] = max_state'[b][a]
BY DEF SetDiplStateType, Put, Shape, SidesAgree

LEMMA BothFacts ==
    ASSUME NEW p, NEW q
    PROVE  \A a, b : /\ <<a, b>> \in Both(p, q) <=> (a = p /\ b = q) \/ (a = q /\ b = p)
                     /\ <<a, b>> \in Both(p, q) <=> <<b, a>> \in Both(p, q)
BY DEF Both

\* A step that changes the state of pairs of different teams only, on both
\* sides, and leaves barbarians and unborn players alone, keeps the shape.
LEMMA ShapeFromChanges ==
    ASSUME TypeOK, Shape,
           alive' \cap unborn' = {}, unborn' \subseteq unborn,
           ASSUME NEW a \in Players, NEW b \in Players
           PROVE  /\ type'[a][b] = type'[b][a]
                  /\ max_state'[a][b] = max_state'[b][a]
                  /\ <<a, b>> \in met' <=> <<b, a>> \in met'
                  /\ <<a, b>> \in autoCancelled' <=> <<b, a>> \in autoCancelled',
           ASSUME NEW a \in Players, NEW b \in Players, type'[a][b] # type[a][b]
           PROVE  /\ ~ SameTeam(a, b)
                  /\ type'[a][b] # "team"
                  /\ a \notin unborn' /\ b \notin unborn'
                  /\ (a \in NoDiplomacy \/ b \in NoDiplomacy) => type'[a][b] = "war"
    PROVE  Shape'
<1>1. SidesAgree'
  BY DEF SidesAgree
<1>2. TeamsHold'
  BY DEF Shape, TeamsHold, SameTeam
<1>3. \A p \in Players : type'[p][p] = "no_contact"
  BY DEF Shape, SameTeam
<1>4. \A p \in unborn', q \in Players : type'[p][q] = "no_contact"
  BY DEF Shape, TypeOK
<1>5. \A p \in NoDiplomacy, q \in Players : type'[p][q] \in {"no_contact", "war"}
  BY DEF Shape
<1> QED
  BY <1>1, <1>2, <1>3, <1>4, <1>5 DEF Shape

(***************************************************************************)
(* Every action keeps the shape.                                           *)
(***************************************************************************)
LEMMA ShapeStep == TypeOK /\ Shape /\ [Next]_vars => Shape'
<1> SUFFICES ASSUME TypeOK, Shape, [Next]_vars
             PROVE  Shape'
  OBVIOUS
<1> USE DEF playerVars, pactVars
<1>0. /\ SidesAgree
      /\ alive \cap unborn = {}
      /\ \A a, b \in Players : /\ <<a, b>> \in met <=> <<b, a>> \in met
                               /\ <<a, b>> \in autoCancelled <=> <<b, a>> \in autoCancelled
  BY DEF Shape
<1>1. ASSUME NEW p \in Players, NEW q \in Players, MakeContact(p, q)
      PROVE  Shape'
  <2> DEFINE ds == DefaultDiplState(type, alive, p, q)
  <2>1. ds \in {"war", "peace"} /\ ds \in DiplStates
    BY DEF DefaultDiplState, DiplStates
  <2>2. SetDiplStateType(Both(p, q), ds) /\ met' = met \cup Both(p, q)
        /\ p # q /\ p \in alive /\ q \in alive /\ type[p][q] = "no_contact"
        /\ UNCHANGED <<autoCancelled, alive, unborn>>
    BY <1>1 DEF MakeContact
  <2>3. ASSUME NEW a \in Players, NEW b \in Players
        PROVE  /\ type'[a][b] = IF <<a, b>> \in Both(p, q) THEN ds ELSE type[a][b]
               /\ type'[a][b] = type'[b][a]
               /\ max_state'[a][b] = max_state'[b][a]
               /\ <<a, b>> \in met' <=> <<b, a>> \in met'
    <3>1. \A x, y \in Players : <<x, y>> \in Both(p, q) <=> <<y, x>> \in Both(p, q)
      BY BothFacts
    <3> HIDE DEF ds
    <3>2. /\ type'[a][b] = IF <<a, b>> \in Both(p, q) THEN ds ELSE type[a][b]
          /\ type'[a][b] = type'[b][a]
          /\ max_state'[a][b] = max_state'[b][a]
      BY <2>1, <2>2, <3>1, SetDiplStateEntries
    <3> QED
      BY <1>0, <2>2, <3>1, <3>2
  <2>4. ~ SameTeam(p, q)
    BY <2>2 DEF Shape, TeamsHold
  <2>5. ASSUME p \in NoDiplomacy \/ q \in NoDiplomacy
        PROVE  ds = "war"
    <3>1. CommonAllies(type, alive, p, q) = {}
      BY <2>5, <2>2 DEF CommonAllies, Allied, Shape, SidesAgree, TypeOK
    <3> QED
      BY <3>1 DEF DefaultDiplState
  <2> HIDE DEF ds
  <2>6. ASSUME NEW a \in Players, NEW b \in Players, type'[a][b] # type[a][b]
        PROVE  /\ ~ SameTeam(a, b)
               /\ type'[a][b] # "team"
               /\ a \notin unborn' /\ b \notin unborn'
               /\ (a \in NoDiplomacy \/ b \in NoDiplomacy) => type'[a][b] = "war"
    <3>1. (a = p /\ b = q) \/ (a = q /\ b = p)
      BY <2>3, <2>6, BothFacts
    <3>2. type'[a][b] = ds
      BY <2>3, <3>1, BothFacts
    <3> QED
      BY <1>0, <2>1, <2>2, <2>4, <2>5, <3>1, <3>2 DEF SameTeam
  <2> QED
    BY <1>0, <2>2, <2>3, <2>6, ShapeFromChanges
<1>2. ASSUME NEW p \in Players, NEW q \in Players, NEW pact \in PactClauses,
             MakePact(p, q, pact)
      PROVE  Shape'
  <2> DEFINE ds == PactResult(pact)
  <2>1. ds \in DiplStates /\ ds \notin {"team", "no_contact"}
    BY DEF PactResult, PactClauses, DiplStates
  <2>2. SetDiplStateType(Both(p, q), ds) /\ ~ SameTeam(p, q) /\ p # q
        /\ p \notin NoDiplomacy /\ q \notin NoDiplomacy /\ p \in alive /\ q \in alive
        /\ UNCHANGED <<met, autoCancelled, alive, unborn>>
    BY <1>2 DEF MakePact, CanMakeTreaty, SameTeam
  <2> HIDE DEF ds
  <2>3. ASSUME NEW a \in Players, NEW b \in Players
        PROVE  /\ type'[a][b] = IF <<a, b>> \in Both(p, q) THEN ds ELSE type[a][b]
               /\ type'[a][b] = type'[b][a]
               /\ max_state'[a][b] = max_state'[b][a]
    <3>1. \A x, y \in Players : <<x, y>> \in Both(p, q) <=> <<y, x>> \in Both(p, q)
      BY BothFacts
    <3> QED
      BY <2>1, <2>2, <3>1, SetDiplStateEntries
  <2>4. ASSUME NEW a \in Players, NEW b \in Players, type'[a][b] # type[a][b]
        PROVE  /\ ~ SameTeam(a, b)
               /\ type'[a][b] # "team"
               /\ a \notin unborn' /\ b \notin unborn'
               /\ (a \in NoDiplomacy \/ b \in NoDiplomacy) => type'[a][b] = "war"
    <3>1. (a = p /\ b = q) \/ (a = q /\ b = p)
      BY <2>3, <2>4, BothFacts
    <3>2. type'[a][b] = ds
      BY <2>3, <3>1, BothFacts
    <3> QED
      BY <1>0, <2>1, <2>2, <3>1, <3>2 DEF SameTeam
  <2> QED
    BY <1>0, <2>2, <2>3, <2>4, ShapeFromChanges
<1>3. ASSUME NEW p \in Players, NEW q \in Players,
             CancelPact(p, q)
      PROVE  Shape'
  <2> DEFINE new == CancelPactResult(type[p][q])
             leave == IF new = "war" THEN FallOut(p, q) ELSE {}
  <2>1. /\ type' = Put(Put(type, Both(p, q), new), Mutual(leave), "armistice")
        /\ UNCHANGED <<max_state, met, autoCancelled, alive, unborn>>
        /\ p # q /\ ~ SameTeam(p, q) /\ p \in alive /\ q \in alive
        /\ type[p][q] \notin {"war", "no_contact"}
    BY <1>3 DEF CancelPact, CanCancel
  <2>2. leave \in {FallOut(p, q), LoveLoveHate(p, q), {}}
    OBVIOUS
  <2>3. type[p][q] \in DiplStates /\ type[p][q] = type[q][p]
        /\ (type[p][q] = "team" <=> p # q /\ SameTeam(p, q))
    BY DEF TypeOK, Matrix, Shape, SidesAgree, TeamsHold
  <2>4. p \notin NoDiplomacy /\ q \notin NoDiplomacy
    BY <2>1, <2>3 DEF Shape
  <2>5. new \in {"war", "armistice"}
    BY <2>1, <2>3 DEF CancelPactResult, DiplStates
  <2> HIDE DEF new, leave
  <2>6. ASSUME NEW a \in Players, NEW b \in Players
        PROVE  /\ type'[a][b] = IF <<a, b>> \in Mutual(leave) THEN "armistice"
                                ELSE IF <<a, b>> \in Both(p, q) THEN new ELSE type[a][b]
               /\ type'[b][a] = IF <<b, a>> \in Mutual(leave) THEN "armistice"
                                ELSE IF <<b, a>> \in Both(p, q) THEN new ELSE type[b][a]
    BY <2>1, PutEntry
  <2>7. ASSUME NEW a \in Players, NEW b \in Players
        PROVE  /\ type'[a][b] = type'[b][a]
               /\ max_state'[a][b] = max_state'[b][a]
               /\ <<a, b>> \in met' <=> <<b, a>> \in met'
               /\ <<a, b>> \in autoCancelled' <=> <<b, a>> \in autoCancelled'
    <3>1. <<a, b>> \in Both(p, q) <=> <<b, a>> \in Both(p, q)
      BY BothFacts
    <3>2. <<a, b>> \in Mutual(leave) <=> <<b, a>> \in Mutual(leave)
      BY <2>1, <2>2, FallOutFacts
    <3>3. type[a][b] = type[b][a] /\ max_state[a][b] = max_state[b][a]
      BY <1>0 DEF SidesAgree
    <3> QED
      BY <1>0, <2>1, <2>6, <3>1, <3>2, <3>3
  <2>8. ASSUME NEW a \in Players, NEW b \in Players, type'[a][b] # type[a][b]
        PROVE  /\ ~ SameTeam(a, b)
               /\ type'[a][b] # "team"
               /\ a \notin unborn' /\ b \notin unborn'
               /\ (a \in NoDiplomacy \/ b \in NoDiplomacy) => type'[a][b] = "war"
    <3>1. CASE <<a, b>> \in Mutual(leave)
      <4>1. type[a][b] = "alliance" /\ ~ SameTeam(a, b)
            /\ a \in alive /\ b \in alive
        <5>1. p # q /\ p \in alive /\ q \in alive
          BY <2>1
        <5> QED
          BY <2>2, <3>1, <5>1, FallOutAlliances
      <4>2. a \notin NoDiplomacy /\ b \notin NoDiplomacy
        BY <1>0, <4>1 DEF Shape, SidesAgree
      <4> QED
        BY <1>0, <2>1, <2>6, <3>1, <4>1, <4>2
    <3>2. CASE <<a, b>> \notin Mutual(leave)
      <4>1. <<a, b>> \in Both(p, q) /\ type'[a][b] = new
        BY <2>6, <2>8, <3>2
      <4>2. (a = p /\ b = q) \/ (a = q /\ b = p)
        BY <4>1 DEF Both
      <4> QED
        BY <1>0, <2>1, <2>4, <2>5, <4>1, <4>2 DEF SameTeam
    <3> QED
      BY <3>1, <3>2
  <2> QED
    BY <1>0, <2>1, <2>7, <2>8, ShapeFromChanges
<1>4. CASE UNCHANGED <<type, max_state, met, autoCancelled, alive, unborn>>
  BY <1>4 DEF Shape, SidesAgree, TeamsHold
<1>5. ASSUME NEW S, Arrive(S), alive' \cap unborn' = {},
             UNCHANGED <<met, autoCancelled>>
      PROVE  Shape'
  <2> DEFINE new == S \cap unborn
             IsNew(pq) == pq[1] # pq[2] /\ {pq[1], pq[2]} \cap new # {}
                                        /\ {pq[1], pq[2]} \cap (unborn \ new) = {}
             Hostile(pq) == {pq[1], pq[2]} \cap NoDiplomacy # {}
             R == {pq \in Pairs : IsNew(pq) /\ Hostile(pq)}
  <2>1. SetDiplStateType(R, "war") /\ unborn' = unborn \ S /\ "war" \in DiplStates
    BY <1>5 DEF Arrive, DiplStates
  <2>2. \A a, b \in Players : <<a, b>> \in R <=> <<b, a>> \in R
    BY DEF Pairs
  <2>3. \A a, b \in Players : <<a, b>> \in R =>
            /\ a # b
            /\ a \notin unborn' /\ b \notin unborn'
            /\ a \in unborn \/ b \in unborn
    BY <2>1 DEF Pairs
  <2> HIDE DEF R
  <2>4. \A a, b \in Players :
            /\ type'[a][b] = IF <<a, b>> \in R THEN "war" ELSE type[a][b]
            /\ type'[a][b] = type'[b][a]
            /\ max_state'[a][b] = max_state'[b][a]
    BY <2>1, <2>2, SetDiplStateEntries
  <2>5. ASSUME NEW a \in Players, NEW b \in Players, type'[a][b] # type[a][b]
        PROVE  /\ ~ SameTeam(a, b)
               /\ type'[a][b] # "team"
               /\ a \notin unborn' /\ b \notin unborn'
               /\ (a \in NoDiplomacy \/ b \in NoDiplomacy) => type'[a][b] = "war"
    <3>1. <<a, b>> \in R /\ type'[a][b] = "war"
      BY <2>4, <2>5
    <3>2. ~ SameTeam(a, b)
      BY <2>3, <3>1 DEF TypeOK, SameTeam
    <3> QED
      BY <2>3, <3>1, <3>2
  <2> QED
    BY <1>0, <1>5, <2>1, <2>4, <2>5, ShapeFromChanges
<1>6. ASSUME NEW p \in Players, NEW q \in Players, UpdatePair(p, q),
             Visits(p, q), PeaceComes(p, q) \/ CeasefireRunsOut(p, q)
      PROVE  Shape'
  <2> DEFINE leave == IF type[p][q] = "ceasefire" THEN LoveLoveHate(p, q) ELSE {}
             new   == IF type[p][q] = "ceasefire" THEN "war" ELSE "peace"
  <2>1. /\ p # q /\ p \in alive /\ q \in alive
        /\ type[p][q] \in {"ceasefire", "armistice"}
        /\ UNCHANGED <<max_state, met, alive, unborn>>
    BY <1>6 DEF UpdatePair, Visits, PeaceComes, CeasefireRunsOut
  <2>2. leave \in {FallOut(p, q), LoveLoveHate(p, q), {}}
    OBVIOUS
  <2>3. type[p][q] = type[q][p] /\ ~ SameTeam(p, q)
    BY <2>1 DEF Shape, SidesAgree, TeamsHold
  <2>4. p \notin NoDiplomacy /\ q \notin NoDiplomacy
    BY <2>1, <2>3 DEF Shape
  <2>5. new \in {"war", "peace"}
    OBVIOUS
  <2>6. ASSUME NEW a \in Players, NEW b \in Players
        PROVE  /\ type'[a][b] = IF <<a, b>> \in Mutual(leave) THEN "armistice"
                                ELSE IF <<a, b>> \in Both(p, q) THEN new ELSE type[a][b]
               /\ type'[b][a] = IF <<b, a>> \in Mutual(leave) THEN "armistice"
                                ELSE IF <<b, a>> \in Both(p, q) THEN new ELSE type[b][a]
               /\ <<a, b>> \in autoCancelled' <=>
                     <<a, b>> \in autoCancelled \/ <<a, b>> \in Mutual(leave)
               /\ <<b, a>> \in autoCancelled' <=>
                     <<b, a>> \in autoCancelled \/ <<b, a>> \in Mutual(leave)
    <3>1. CASE PeaceComes(p, q)
      <4>1. type' = Put(type, Both(p, q), "peace") /\ UNCHANGED autoCancelled
            /\ type[p][q] = "armistice"
        BY <3>1 DEF PeaceComes
      <4>2. <<a, b>> \notin Mutual(leave) /\ <<b, a>> \notin Mutual(leave) /\ new = "peace"
        BY <4>1 DEF Mutual
      <4> QED
        BY <4>1, <4>2, PutEntry
    <3>2. CASE CeasefireRunsOut(p, q)
      <4>1. /\ type' = Put(Put(type, Both(p, q), new), Mutual(leave), "armistice")
            /\ autoCancelled' = autoCancelled \cup Mutual(leave)
        BY <3>2 DEF CeasefireRunsOut
      <4> HIDE DEF leave, new
      <4> QED
        BY <4>1, PutEntry
    <3> QED
      BY <1>6, <3>1, <3>2
  <2> HIDE DEF leave, new
  <2>7. ASSUME NEW a \in Players, NEW b \in Players
        PROVE  /\ type'[a][b] = type'[b][a]
               /\ max_state'[a][b] = max_state'[b][a]
               /\ <<a, b>> \in met' <=> <<b, a>> \in met'
               /\ <<a, b>> \in autoCancelled' <=> <<b, a>> \in autoCancelled'
    <3>1. <<a, b>> \in Both(p, q) <=> <<b, a>> \in Both(p, q)
      BY BothFacts
    <3>2. <<a, b>> \in Mutual(leave) <=> <<b, a>> \in Mutual(leave)
      BY <2>1, <2>2, FallOutFacts
    <3>3. type[a][b] = type[b][a] /\ max_state[a][b] = max_state[b][a]
      BY <1>0 DEF SidesAgree
    <3> QED
      BY <1>0, <2>1, <2>6, <3>1, <3>2, <3>3
  <2>8. ASSUME NEW a \in Players, NEW b \in Players, type'[a][b] # type[a][b]
        PROVE  /\ ~ SameTeam(a, b)
               /\ type'[a][b] # "team"
               /\ a \notin unborn' /\ b \notin unborn'
               /\ (a \in NoDiplomacy \/ b \in NoDiplomacy) => type'[a][b] = "war"
    <3>1. CASE <<a, b>> \in Mutual(leave)
      <4>1. type[a][b] = "alliance" /\ ~ SameTeam(a, b)
            /\ a \in alive /\ b \in alive
        <5>1. p # q /\ p \in alive /\ q \in alive
          BY <2>1
        <5> QED
          BY <2>2, <3>1, <5>1, FallOutAlliances
      <4>2. a \notin NoDiplomacy /\ b \notin NoDiplomacy
        BY <1>0, <4>1 DEF Shape, SidesAgree
      <4> QED
        BY <1>0, <2>1, <2>6, <3>1, <4>1, <4>2
    <3>2. CASE <<a, b>> \notin Mutual(leave)
      <4>1. <<a, b>> \in Both(p, q) /\ type'[a][b] = new
        BY <2>6, <2>8, <3>2
      <4>2. (a = p /\ b = q) \/ (a = q /\ b = p)
        BY <4>1 DEF Both
      <4> QED
        BY <1>0, <2>1, <2>3, <2>4, <2>5, <4>1, <4>2 DEF SameTeam
    <3> QED
      BY <3>1, <3>2
  <2> QED
    BY <1>0, <2>1, <2>7, <2>8, ShapeFromChanges
<1>7. ASSUME NEW p \in Players, NEW q \in Players, UpdatePair(p, q)
      PROVE  Shape'
  BY <1>4, <1>6, <1>7 DEF UpdatePair, CountDown, NothingRuns
<1>8. CASE NewTurn
  BY <1>8 DEF NewTurn, Shape, SidesAgree, TeamsHold
<1>9. ASSUME NEW S, NewPlayer(S)
      PROVE  Shape'
  <2>1. Arrive(S) /\ UNCHANGED <<met, autoCancelled>> /\ alive' \cap unborn' = {}
    BY <1>0, <1>9 DEF NewPlayer, Arrive
  <2> QED
    BY <1>5, <2>1
<1>10. ASSUME NEW p \in Players, NEW S, KillPlayer(p, S)
       PROVE  Shape'
  <2>1. Arrive(S) /\ UNCHANGED <<met, autoCancelled>> /\ alive' \cap unborn' = {}
    BY <1>0, <1>10 DEF KillPlayer, Arrive
  <2> QED
    BY <1>5, <2>1
<1>11. CASE \E p \in Players : \/ \E q \in Players : GiveCasusBelli(p, q)
                               \/ InternationalOutrage(p)
                               \/ ChangeGovernment(p)
  BY <1>4, <1>11 DEF GiveCasusBelli, InternationalOutrage, ChangeGovernment
<1>12. CASE StartUpdate \/ UNCHANGED vars
  BY <1>4, <1>12 DEF StartUpdate, vars
<1> QED
  BY <1>1, <1>2, <1>3, <1>7, <1>8, <1>9, <1>10, <1>11, <1>12 DEF Next

-----------------------------------------------------------------------------
(***************************************************************************)
(* The countdown: how far the two counters of a pair are apart while       *)
(* update_diplomatics is between its two visits.                           *)
(***************************************************************************)
Timed(p, q) == type[p][q] \in {"ceasefire", "armistice"}

\* Between two turn changes, and before the first pair, nothing is counted.
LEMMA NothingCounted ==
    ASSUME cursor = Idle \/ cursor = <<1, 1>>
    PROVE  \A p, q \in Players : Counted(p, q) = 0
BY DEF Counted, Passed, Idle, Players

\* One step of the loop passes exactly the pair it is at.
LEMMA PassedStep ==
    ASSUME NEW p \in Players, NEW q \in Players,
           cursor = <<p, q>>, cursor # LastPair, cursor' = Following(cursor)
    PROVE  /\ ~ Passed(p, q)
           /\ \A a, b \in Players : Passed(a, b)' <=> Passed(a, b) \/ (a = p /\ b = q)
<1>1. CASE q < N
  <2>1. cursor' = <<p, q + 1>>
    BY <1>1 DEF Following
  <2> QED
    BY <2>1 DEF Passed, Players
<1>2. CASE ~ q < N
  <2>1. q = N /\ p < N
    BY <1>2 DEF Players, LastPair
  <2>2. cursor' = <<p + 1, 1>>
    BY <2>1 DEF Following
  <2> QED
    BY <2>1, <2>2 DEF Passed, Players
<1> QED
  BY <1>1, <1>2

\* Outside the loop the two counters of a pair are equal.
LEMMA EqualWhenIdle ==
    ASSUME IInv, cursor = Idle
    PROVE  \A p, q \in Players : Timed(p, q) => turns_left[p][q] = turns_left[q][p]
<1>1. \A p, q \in Players : turns_left[p][q] \in Int
  BY DEF IInv, TypeOK, Matrix
<1> QED
  BY <1>1, NothingCounted DEF IInv, CountersInStep, Timed

\* A step that ends outside the loop keeps the countdown if it leaves both
\* counters of every running pair equal.
LEMMA IdleCountdown ==
    ASSUME cursor' = Idle \/ cursor' = <<1, 1>>,
           \A p, q \in Players : turns_left'[p][q] \in Int,
           \A p, q \in Players : Timed(p, q)' =>
               turns_left'[p][q] > 0 /\ turns_left'[p][q] = turns_left'[q][p]
    PROVE  Running' /\ CountersInStep'
<1>1. \A p, q \in Players : Counted(p, q)' = 0
  BY DEF Counted, Passed, Idle, Players
<1> QED
  BY <1>1 DEF Running, CountersInStep, Timed

LEMMA CountdownStep ==
    IInv /\ [Next]_vars => Running' /\ CountersInStep'
<1> SUFFICES ASSUME IInv, [Next]_vars
             PROVE  Running' /\ CountersInStep'
  OBVIOUS
<1> USE DEF playerVars, pactVars
<1>1. TypeOK /\ Shape /\ Running /\ CountersInStep /\ TypeOK' /\ Shape'
  BY TypeStep, ShapeStep DEF IInv
<1>2. \A a, b \in Players : /\ turns_left[a][b] \in Int
                            /\ turns_left'[a][b] \in Int
  BY <1>1 DEF TypeOK, Matrix
<1>3. \A a, b \in Players : Timed(a, b) => turns_left[a][b] > 0
  BY <1>1 DEF Running, Timed
<1>4. ASSUME NEW p \in Players, NEW q \in Players, MakeContact(p, q)
      PROVE  Running' /\ CountersInStep'
  <2> DEFINE ds == DefaultDiplState(type, alive, p, q)
  <2>1. /\ met' = met \cup Both(p, q)
        /\ UNCHANGED <<turns_left, autoCancelled, alive, cursor>>
        /\ type' = Put(type, Both(p, q), ds)
        /\ ds \notin {"ceasefire", "armistice"}
    BY <1>4 DEF MakeContact, SetDiplStateType, DefaultDiplState
  <2> HIDE DEF ds
  <2>2. ASSUME NEW a \in Players, NEW b \in Players, Timed(a, b)'
        PROVE  /\ type'[a][b] = type[a][b] /\ type'[b][a] = type[b][a]
               /\ <<a, b>> \notin Both(p, q) /\ <<b, a>> \notin Both(p, q)
    <3>1. type'[a][b] = IF <<a, b>> \in Both(p, q) THEN ds ELSE type[a][b]
      BY <2>1, PutEntry
    <3>2. <<a, b>> \notin Both(p, q)
      BY <2>1, <2>2, <3>1 DEF Timed
    <3>3. <<b, a>> \notin Both(p, q)
      BY <3>2 DEF Both
    <3>4. type'[b][a] = IF <<b, a>> \in Both(p, q) THEN ds ELSE type[b][a]
      BY <2>1, PutEntry
    <3>5. type'[a][b] = type[a][b]
      BY <3>1, <3>2
    <3>6. type'[b][a] = type[b][a]
      BY <3>3, <3>4
    <3> QED
      BY <3>2, <3>3, <3>5, <3>6
  <2>3. ASSUME NEW a \in Players, NEW b \in Players, Timed(a, b)'
        PROVE  /\ Timed(a, b)
               /\ Counted(a, b)' = Counted(a, b)
               /\ Counted(b, a)' = Counted(b, a)
    <3>1. Visits(a, b)' = Visits(a, b) /\ Visits(b, a)' = Visits(b, a)
      BY <2>1, <2>2, <2>3 DEF Visits
    <3>2. Counting(a, b)' = Counting(a, b) /\ Counting(b, a)' = Counting(b, a)
      BY <2>1, <2>2, <2>3 DEF Counting
    <3>3. Passed(a, b)' = Passed(a, b) /\ Passed(b, a)' = Passed(b, a)
      BY <2>1 DEF Passed
    <3> QED
      BY <2>2, <2>3, <3>1, <3>2, <3>3 DEF Counted, Timed
  <2> QED
    BY <1>1, <2>1, <2>3 DEF Running, CountersInStep, Timed
<1>5. ASSUME NEW p \in Players, NEW q \in Players, NEW pact \in PactClauses,
             MakePact(p, q, pact)
      PROVE  Running' /\ CountersInStep'
  <2>1. /\ cursor = Idle /\ cursor' = Idle
        /\ type' = Put(type, Both(p, q), PactResult(pact))
        /\ turns_left' = IF pact = "alliance" THEN turns_left
                         ELSE Put(turns_left, Both(p, q), TurnsLeft)
    BY <1>5 DEF MakePact, SetDiplStateType
  <2>2. ASSUME NEW a \in Players, NEW b \in Players, Timed(a, b)'
        PROVE  turns_left'[a][b] > 0 /\ turns_left'[a][b] = turns_left'[b][a]
    <3>1. CASE <<a, b>> \in Both(p, q)
      <4>1. type'[a][b] = PactResult(pact)
        BY <2>1, <3>1, PutEntry
      <4>2. pact # "alliance"
        BY <2>2, <4>1 DEF Timed, PactResult
      <4>3. <<b, a>> \in Both(p, q)
        BY <3>1 DEF Both
      <4> QED
        BY <2>1, <3>1, <4>2, <4>3, PutEntry
    <3>2. CASE <<a, b>> \notin Both(p, q)
      <4>1. <<b, a>> \notin Both(p, q)
        BY <3>2 DEF Both
      <4>2. type'[a][b] = type[a][b]
        BY <2>1, <3>2, PutEntry
      <4>3. turns_left'[a][b] = turns_left[a][b] /\ turns_left'[b][a] = turns_left[b][a]
        BY <2>1, <3>2, <4>1, PutEntry
      <4> QED
        BY <1>3, <2>1, <2>2, <4>2, <4>3, EqualWhenIdle DEF Timed
    <3> QED
      BY <3>1, <3>2
  <2> QED
    BY <1>2, <2>1, <2>2, IdleCountdown
<1>6. ASSUME NEW p \in Players, NEW q \in Players,
             CancelPact(p, q)
      PROVE  Running' /\ CountersInStep'
  <2> DEFINE new == CancelPactResult(type[p][q])
             leave == IF new = "war" THEN FallOut(p, q) ELSE {}
             R == Both(p, q) \cup Mutual(leave)
  <2>1. /\ cursor = Idle /\ cursor' = Idle
        /\ p # q /\ p \in alive /\ q \in alive
        /\ type' = Put(Put(type, Both(p, q), new), Mutual(leave), "armistice")
        /\ turns_left' = Put(turns_left, R, TurnsLeft)
    BY <1>6 DEF CancelPact, CanCancel
  <2>2. leave \in {FallOut(p, q), LoveLoveHate(p, q), {}}
    OBVIOUS
  <2> HIDE DEF leave, new
  <2>3. \A a, b \in Players :
            /\ <<a, b>> \in R <=> <<b, a>> \in R
            /\ <<a, b>> \notin R => <<a, b>> \notin Both(p, q) /\ <<a, b>> \notin Mutual(leave)
    BY DEF Mutual, Both, Pairs
  <2> HIDE DEF R
  <2>4. ASSUME NEW a \in Players, NEW b \in Players, Timed(a, b)'
        PROVE  turns_left'[a][b] > 0 /\ turns_left'[a][b] = turns_left'[b][a]
    <3>1. CASE <<a, b>> \in R
      BY <2>1, <2>3, <3>1 DEF Put
    <3>2. CASE <<a, b>> \notin R
      <4>1. turns_left'[a][b] = turns_left[a][b] /\ turns_left'[b][a] = turns_left[b][a]
        BY <2>1, <2>3, <3>2 DEF Put
      <4>2. type'[a][b] = type[a][b]
        <5>1. <<a, b>> \notin Both(p, q) /\ <<a, b>> \notin Mutual(leave)
          BY <2>3, <3>2
        <5> QED
          BY <2>1, <5>1, PutEntry
      <4> QED
        BY <1>3, <2>1, <2>4, <4>1, <4>2, EqualWhenIdle DEF Timed
    <3> QED
      BY <3>1, <3>2
  <2> QED
    BY <1>2, <2>1, <2>4, IdleCountdown
<1>7. ASSUME NEW S, Arrive(S), cursor = Idle, cursor' = Idle
      PROVE  Running' /\ CountersInStep'
  <2> DEFINE new == S \cap unborn
             IsNew(pq) == pq[1] # pq[2] /\ {pq[1], pq[2]} \cap new # {}
                                        /\ {pq[1], pq[2]} \cap (unborn \ new) = {}
             Hostile(pq) == {pq[1], pq[2]} \cap NoDiplomacy # {}
             R == {pq \in Pairs : IsNew(pq) /\ Hostile(pq)}
             T == {pq \in Pairs : IsNew(pq)}
  <2>1. type' = Put(type, R, "war") /\ turns_left' = Put(turns_left, T, 0)
    BY <1>7 DEF Arrive, SetDiplStateType
  <2>2. \A a, b \in Players : (<<a, b>> \in T \/ <<b, a>> \in T) => a \in unborn \/ b \in unborn
    BY DEF Pairs
  <2> HIDE DEF R, T
  <2>3. ASSUME NEW a \in Players, NEW b \in Players, Timed(a, b)'
        PROVE  turns_left'[a][b] > 0 /\ turns_left'[a][b] = turns_left'[b][a]
    <3>1. Timed(a, b)
      BY <2>1, <2>3 DEF Timed, Put
    <3>2. a \notin unborn /\ b \notin unborn
      BY <1>1, <3>1 DEF Timed, Shape, SidesAgree, TypeOK
    <3>3. turns_left'[a][b] = turns_left[a][b] /\ turns_left'[b][a] = turns_left[b][a]
      BY <2>1, <2>2, <3>2 DEF Put
    <3> QED
      BY <1>3, <1>7, <3>1, <3>3, EqualWhenIdle
  <2> QED
    BY <1>2, <1>7, <2>3, IdleCountdown
<1>8. ASSUME NEW p \in Players, NEW q \in Players, UpdatePair(p, q)
      PROVE  Running' /\ CountersInStep'
  <2>1. /\ ~ Passed(p, q)
        /\ \A a, b \in Players : Passed(a, b)' <=> Passed(a, b) \/ (a = p /\ b = q)
    BY <1>8, PassedStep DEF UpdatePair
  <2>2. UNCHANGED <<met, alive>>
    BY <1>8 DEF UpdatePair
  <2>3. Counted(p, q) = 0
    BY <2>1 DEF Counted
  \* A pair whose state and marks stay is counted as before, unless the loop
  \* is at it.
  <2>4. ASSUME NEW a \in Players, NEW b \in Players,
               type'[a][b] = type[a][b],
               <<a, b>> \in autoCancelled' <=> <<a, b>> \in autoCancelled,
               <<a, b>> # <<p, q>> \/ ~ Visits(p, q) \/ ~ Counting(p, q)
        PROVE  Counted(a, b)' = Counted(a, b)
    <3>1. Visits(a, b)' = Visits(a, b) /\ Counting(a, b)' = Counting(a, b)
      BY <2>2, <2>4 DEF Visits, Counting
    <3>2. CASE <<a, b>> # <<p, q>>
      BY <2>1, <3>1, <3>2 DEF Counted
    <3>3. CASE a = p /\ b = q /\ (~ Visits(p, q) \/ ~ Counting(p, q))
      BY <2>3, <3>1, <3>3 DEF Counted
    <3> QED
      BY <2>4, <3>2, <3>3
  <2>5. CASE UNCHANGED <<type, turns_left, autoCancelled>>
             /\ (~ Visits(p, q) \/ ~ Counting(p, q))
    <3>1. \A a, b \in Players : Counted(a, b)' = Counted(a, b)
      BY <2>4, <2>5
    <3> QED
      BY <1>1, <2>5, <3>1 DEF Running, CountersInStep
  <2>6. CASE Visits(p, q) /\ CountDown(p, q)
    <3>1. /\ UNCHANGED <<type, autoCancelled>>
          /\ turns_left' = [turns_left EXCEPT ![p][q] = @ - 1]
          /\ p # q /\ turns_left[p][q] > 1
      BY <1>2, <1>3, <2>6 DEF CountDown, Counting, Visits, Timed
    <3>2. Counted(p, q)' = 1
      BY <2>1, <2>2, <2>6, <3>1 DEF Counted, Visits, Counting, CountDown
    <3>3. \A a, b \in Players : <<a, b>> # <<p, q>> => Counted(a, b)' = Counted(a, b)
      BY <2>4, <3>1
    <3>4. \A a, b \in Players :
              turns_left'[a][b] = IF a = p /\ b = q THEN turns_left[a][b] - 1
                                  ELSE turns_left[a][b]
      BY <1>1, <3>1 DEF TypeOK, Matrix
    <3>5. Running'
      BY <1>1, <1>2, <3>1, <3>4 DEF Running
    <3>6. ASSUME NEW a \in Players, NEW b \in Players, Timed(a, b)'
          PROVE  turns_left'[a][b] + Counted(a, b)' = turns_left'[b][a] + Counted(b, a)'
      <4>1. turns_left[a][b] + Counted(a, b) = turns_left[b][a] + Counted(b, a)
        BY <1>1, <3>1, <3>6 DEF CountersInStep, Timed
      <4>2. Counted(a, b) \in Int /\ Counted(b, a) \in Int
        BY DEF Counted
      <4>3. CASE a = p /\ b = q
        <5>1. Counted(b, a)' = Counted(b, a)
          BY <3>1, <3>3, <4>3
        <5>2. turns_left'[a][b] = turns_left[a][b] - 1 /\ turns_left'[b][a] = turns_left[b][a]
          BY <3>1, <3>4, <4>3
        <5> QED
          BY <1>2, <2>3, <3>2, <4>1, <4>2, <4>3, <5>1, <5>2
      <4>4. CASE a = q /\ b = p
        <5>1. Counted(a, b)' = Counted(a, b)
          BY <3>1, <3>3, <4>4
        <5>2. turns_left'[b][a] = turns_left[b][a] - 1 /\ turns_left'[a][b] = turns_left[a][b]
          BY <3>1, <3>4, <4>4
        <5> QED
          BY <1>2, <2>3, <3>2, <4>1, <4>2, <4>4, <5>1, <5>2
      <4>5. CASE <<a, b>> # <<p, q>> /\ <<b, a>> # <<p, q>>
        <5>1. Counted(a, b)' = Counted(a, b) /\ Counted(b, a)' = Counted(b, a)
          BY <3>3, <4>5
        <5>2. turns_left'[b][a] = turns_left[b][a] /\ turns_left'[a][b] = turns_left[a][b]
          BY <3>4, <4>5
        <5> QED
          BY <4>1, <5>1, <5>2
      <4> QED
        BY <4>3, <4>4, <4>5
    <3> QED
      BY <3>5, <3>6 DEF CountersInStep, Timed
  <2>7. CASE Visits(p, q) /\ PeaceComes(p, q)
    <3>1. /\ type' = Put(type, Both(p, q), "peace")
          /\ turns_left' = Put(turns_left, Both(p, q), 0)
          /\ UNCHANGED autoCancelled
      BY <2>7 DEF PeaceComes
    <3>2. ASSUME NEW a \in Players, NEW b \in Players, Timed(a, b)'
          PROVE  /\ Timed(a, b)
                 /\ turns_left'[a][b] = turns_left[a][b] /\ turns_left'[b][a] = turns_left[b][a]
                 /\ Counted(a, b)' = Counted(a, b) /\ Counted(b, a)' = Counted(b, a)
      <4>1. <<a, b>> \notin Both(p, q)
        BY <3>1, <3>2, PutEntry DEF Timed
      <4>2. <<b, a>> \notin Both(p, q)
        BY <4>1 DEF Both
      <4>3. type'[a][b] = type[a][b] /\ type'[b][a] = type[b][a]
        BY <3>1, <4>1, <4>2, PutEntry
      <4>4. <<a, b>> # <<p, q>> /\ <<b, a>> # <<p, q>>
        BY <4>1, <4>2 DEF Both
      <4>5. turns_left'[a][b] = turns_left[a][b] /\ turns_left'[b][a] = turns_left[b][a]
        BY <3>1, <4>1, <4>2, PutEntry
      <4>6. Counted(a, b)' = Counted(a, b) /\ Counted(b, a)' = Counted(b, a)
        BY <2>4, <3>1, <4>3, <4>4
      <4> QED
        BY <3>2, <4>3, <4>5, <4>6 DEF Timed
    <3> QED
      BY <1>1, <3>2 DEF Running, CountersInStep, Timed
  <2>8. CASE Visits(p, q) /\ CeasefireRunsOut(p, q)
    <3> DEFINE M == Mutual(LoveLoveHate(p, q))
    <3>1. /\ type' = Put(Put(type, Both(p, q), "war"), M, "armistice")
          /\ turns_left' = Put(Put(turns_left, Both(p, q), 0), M, TurnsLeft - 1)
          /\ autoCancelled' = autoCancelled \cup M
      BY <2>8 DEF CeasefireRunsOut
    <3>2. \A a, b \in Players : <<a, b>> \in M <=> <<b, a>> \in M
      BY DEF Mutual, Pairs
    <3> HIDE DEF M
    <3>3. ASSUME NEW a \in Players, NEW b \in Players, Timed(a, b)', <<a, b>> \notin M
          PROVE  /\ Timed(a, b)
                 /\ turns_left'[a][b] = turns_left[a][b] /\ turns_left'[b][a] = turns_left[b][a]
                 /\ Counted(a, b)' = Counted(a, b) /\ Counted(b, a)' = Counted(b, a)
      <4>0. <<b, a>> \notin M
        BY <3>2, <3>3
      <4>1. <<a, b>> \notin Both(p, q)
        BY <3>1, <3>3, PutEntry DEF Timed
      <4>2. <<b, a>> \notin Both(p, q)
        BY <4>1 DEF Both
      <4>3. type'[a][b] = type[a][b] /\ type'[b][a] = type[b][a]
        BY <3>1, <3>3, <4>0, <4>1, <4>2, PutEntry
      <4>4. <<a, b>> # <<p, q>> /\ <<b, a>> # <<p, q>>
        BY <4>1, <4>2 DEF Both
      <4>5. turns_left'[a][b] = turns_left[a][b] /\ turns_left'[b][a] = turns_left[b][a]
        BY <3>1, <3>3, <4>0, <4>1, <4>2, PutEntry
      <4>6. Counted(a, b)' = Counted(a, b) /\ Counted(b, a)' = Counted(b, a)
        BY <2>4, <3>1, <3>3, <4>0, <4>3, <4>4
      <4> QED
        BY <3>3, <4>3, <4>5, <4>6 DEF Timed
    <3>4. ASSUME NEW a \in Players, NEW b \in Players, <<a, b>> \in M
          PROVE  /\ turns_left'[a][b] = TurnsLeft - 1 /\ turns_left'[b][a] = TurnsLeft - 1
                 /\ Counted(a, b)' = 0 /\ Counted(b, a)' = 0
      <4>1. <<b, a>> \in M
        BY <3>2, <3>4
      <4>2. type'[a][b] = "armistice" /\ type'[b][a] = "armistice"
        BY <3>1, <3>4, <4>1, PutEntry
      <4>3. turns_left'[a][b] = TurnsLeft - 1 /\ turns_left'[b][a] = TurnsLeft - 1
        BY <3>1, <3>4, <4>1, PutEntry
      <4>4. ~ Counting(a, b)' /\ ~ Counting(b, a)'
        BY <3>1, <3>4, <4>1, <4>2 DEF Counting
      <4> QED
        BY <4>3, <4>4 DEF Counted
    <3>5. Running'
      <4>1. ASSUME NEW a \in Players, NEW b \in Players, Timed(a, b)'
            PROVE  turns_left'[a][b] > 0
        <5>1. CASE <<a, b>> \in M
          BY <3>4, <5>1
        <5>2. CASE <<a, b>> \notin M
          <6>1. Timed(a, b) /\ turns_left'[a][b] = turns_left[a][b]
            BY <3>3, <4>1, <5>2
          <6> QED
            BY <1>3, <6>1
        <5> QED
          BY <5>1, <5>2
      <4> QED
        BY <4>1 DEF Running, Timed
    <3>6. CountersInStep'
      <4>1. ASSUME NEW a \in Players, NEW b \in Players, Timed(a, b)'
            PROVE  turns_left'[a][b] + Counted(a, b)' = turns_left'[b][a] + Counted(b, a)'
        <5>1. CASE <<a, b>> \in M
          BY <3>4, <5>1
        <5>2. CASE <<a, b>> \notin M
          BY <1>1, <3>3, <4>1, <5>2 DEF CountersInStep, Timed
        <5> QED
          BY <5>1, <5>2
      <4> QED
        BY <4>1 DEF CountersInStep, Timed
    <3> QED
      BY <3>5, <3>6
  <2> QED
    BY <1>8, <2>5, <2>6, <2>7, <2>8 DEF UpdatePair, NothingRuns
<1>9. CASE NewTurn
  <2>1. /\ cursor = <<N, N>> /\ cursor' = Idle
        /\ UNCHANGED <<type, turns_left>>
    BY <1>9 DEF NewTurn, LastPair
  <2>2. ASSUME NEW a \in Players, NEW b \in Players, a # b
        PROVE  Passed(a, b)
    BY <2>1, <2>2 DEF Passed, Players
  <2>3. ASSUME NEW a \in Players, NEW b \in Players, Timed(a, b)'
        PROVE  turns_left'[a][b] > 0 /\ turns_left'[a][b] = turns_left'[b][a]
    <3>1. Timed(a, b) /\ a # b
      BY <1>1, <2>1, <2>3 DEF Timed, Shape
    <3>2. Counted(a, b) = Counted(b, a)
      <4>1. Visits(a, b) <=> Visits(b, a)
        BY <1>1 DEF Visits, Shape
      <4>2. Counting(a, b) <=> Counting(b, a)
        BY <1>1 DEF Counting, Shape, SidesAgree
      <4> QED
        BY <2>2, <3>1, <4>1, <4>2 DEF Counted
    <3>3. turns_left[a][b] + Counted(a, b) = turns_left[b][a] + Counted(b, a)
      BY <1>1, <3>1 DEF CountersInStep, Timed
    <3>4. Counted(a, b) \in Int
      BY DEF Counted
    <3>5. turns_left[a][b] = turns_left[b][a]
      <4> HIDE DEF Counted
      <4>1. turns_left[a][b] \in Int /\ turns_left[b][a] \in Int
        BY <1>2
      <4> QED
        BY <3>2, <3>3, <3>4, <4>1
    <3> QED
      BY <1>3, <2>1, <3>1, <3>5
  <2> QED
    BY <1>2, <2>1, <2>3, IdleCountdown
<1>10. CASE StartUpdate
  <2>1. cursor = Idle /\ cursor' = <<1, 1>> /\ UNCHANGED <<type, turns_left>>
    BY <1>10 DEF StartUpdate
  <2>2. \A a, b \in Players : Timed(a, b)' =>
            turns_left'[a][b] > 0 /\ turns_left'[a][b] = turns_left'[b][a]
    BY <1>3, <2>1, EqualWhenIdle DEF Timed
  <2> QED
    BY <1>2, <2>1, <2>2, IdleCountdown
<1>11. CASE UNCHANGED <<type, turns_left, met, autoCancelled, alive, cursor>>
  <2>1. \A a, b \in Players : Counted(a, b)' = Counted(a, b)
    BY <1>11 DEF Counted, Passed, Visits, Counting
  <2> QED
    BY <1>1, <1>11, <2>1 DEF Running, CountersInStep
<1>12. CASE \E p \in Players : \/ \E q \in Players : GiveCasusBelli(p, q)
                               \/ InternationalOutrage(p)
                               \/ ChangeGovernment(p)
  BY <1>11, <1>12 DEF GiveCasusBelli, InternationalOutrage, ChangeGovernment
<1>13. CASE UNCHANGED vars
  BY <1>11, <1>13 DEF vars
<1>14. ASSUME NEW S, NewPlayer(S)
       PROVE  Running' /\ CountersInStep'
  BY <1>7, <1>14 DEF NewPlayer
<1>15. ASSUME NEW p \in Players, NEW S, KillPlayer(p, S)
       PROVE  Running' /\ CountersInStep'
  BY <1>7, <1>15 DEF KillPlayer
<1> QED
  BY <1>4, <1>5, <1>6, <1>8, <1>9, <1>10, <1>12, <1>13, <1>14, <1>15 DEF Next

-----------------------------------------------------------------------------
(***************************************************************************)
(* The inductive invariant.                                                *)
(***************************************************************************)
LEMMA InitIInv == Init => IInv
<1> SUFFICES ASSUME Init PROVE IInv
  OBVIOUS
<1>1. TypeOK
  BY DEF Init, TypeOK, Matrix, DiplStates
<1>2. \A p, q \in Players : type[p][q] \in {"team", "no_contact"}
  BY DEF Init
<1>3. Shape
  <2>1. SidesAgree
    BY DEF Init, SidesAgree, SameTeam
  <2>2. TeamsHold
    BY DEF Init, TeamsHold
  <2>3. \A p \in Unborn, q \in Players : type[p][q] = "no_contact"
    BY DEF Init
  <2> QED
    BY <2>1, <2>2, <2>3 DEF Init, Shape
<1>4. Running /\ CountersInStep
  BY <1>2 DEF Running, CountersInStep
<1> QED
  BY <1>1, <1>3, <1>4 DEF IInv

LEMMA StepIInv == IInv /\ [Next]_vars => IInv'
BY TypeStep, ShapeStep, CountdownStep DEF IInv

\* The conjunction that carries the other invariants: the types, the shape of
\* the matrices, and the relation of the two counters of a pair at every
\* point of update_diplomatics.
THEOREM Invariant == Spec => []IInv
<1>1. Init => IInv
  BY InitIInv
<1>2. IInv /\ [Next]_vars => IInv'
  BY StepIInv
<1> QED
  BY <1>1, <1>2, PTL DEF Spec

\* No handler stores a value outside the ranges of struct player_diplstate; in
\* particular turns_left is never negative and never above TURNS_LEFT.
THEOREM TypeCorrect == Spec => []TypeOK
<1>1. IInv => TypeOK
  BY DEF IInv
<1> QED
  BY <1>1, Invariant, PTL

\* Every handler leaves the two sides of every pair in the same state.
THEOREM SidesAlwaysAgree == Spec => []SidesAgree
<1>1. IInv => SidesAgree
  BY DEF IInv, Shape
<1> QED
  BY <1>1, Invariant, PTL

\* No handler makes or breaks the state "team".
THEOREM TeamsAlwaysHold == Spec => []TeamsHold
<1>1. IInv => TeamsHold
  BY DEF IInv, Shape
<1> QED
  BY <1>1, Invariant, PTL

\* Whenever update_diplomatics is not running, a cease-fire and an armistice
\* have the same positive number of turns left on both sides.
THEOREM ClocksAlwaysAgree == Spec => []ClocksAgree
<1>1. IInv => ClocksAgree
  BY EqualWhenIdle DEF ClocksAgree, IInv, Running, Timed
<1> QED
  BY <1>1, Invariant, PTL

-----------------------------------------------------------------------------
(***************************************************************************)
(* No player is allied with two others who are at war, and two senates     *)
(* without a complaint keep the peace: what the pacts of a pair promise to *)
(* third players, for any number of players.                               *)
(***************************************************************************)
Friends(p, q) == Allied(type, p, q)

\* A step that makes no new alliance, and starts a war only between players
\* who have no common ally left, keeps out the triad.
LEMMA NoNewAlliances ==
    ASSUME TypeOK, TypeOK', NoLoveLoveHate, NEW new,
           alive' \subseteq alive \cup new,
           \A a, b \in Players : (a \in new /\ Friends(a, b)') => a = b,
           \A a, b \in Players : Friends(b, a)' => Friends(a, b)',
           \A a, b \in Players : Friends(a, b)' => Friends(a, b),
           \A a, b, r \in Players :
               (type'[a][b] = "war" /\ type[a][b] # "war"
                   /\ r \in alive /\ r # a /\ r # b)
                   => ~ (Friends(r, a)' /\ Friends(r, b)'),
           \A a \in Players : type'[a][a] # "war"
    PROVE  NoLoveLoveHate'
<1>1. ASSUME NEW r \in alive', NEW a \in alive', NEW b \in alive',
             Friends(r, a)', Friends(r, b)', type'[a][b] = "war"
      PROVE  FALSE
  <2>1. r \in Players /\ a \in Players /\ b \in Players
    BY DEF TypeOK
  <2>2. r # a /\ r # b
    <3>1. ~ Friends(a, b)' /\ a # b
      BY <1>1, <2>1 DEF Friends, Allied
    <3> QED
      BY <1>1, <2>1, <3>1
  <2>3. r \notin new /\ a \notin new /\ b \notin new
    BY <1>1, <2>1, <2>2
  <2>4. r \in alive /\ a \in alive /\ b \in alive
    BY <2>3
  <2>5. Friends(r, a) /\ Friends(r, b)
    BY <1>1, <2>1
  <2>6. type[a][b] # "war"
    BY <2>4, <2>5 DEF NoLoveLoveHate, Friends
  <2> QED
    BY <1>1, <2>1, <2>2, <2>4, <2>6
<1> QED
  BY <1>1 DEF NoLoveLoveHate, Friends

\* The same with what Shape' says of both sides of a pair.
LEMMA NoNewAlliancesShape ==
    ASSUME TypeOK, TypeOK', Shape', NoLoveLoveHate, NEW new,
           alive' \subseteq alive \cup new,
           \A a, b \in Players : (a \in new /\ Friends(a, b)') => a = b,
           \A a, b \in Players : Friends(a, b)' => Friends(a, b),
           \A a, b, r \in Players :
               (type'[a][b] = "war" /\ type[a][b] # "war"
                   /\ r \in alive /\ r # a /\ r # b)
                   => ~ (Friends(r, a)' /\ Friends(r, b)')
    PROVE  NoLoveLoveHate'
<1>1. \A a, b \in Players : Friends(b, a)' => Friends(a, b)'
  BY DEF Friends, Allied, Shape, SidesAgree
<1>2. \A a \in Players : type'[a][a] # "war"
  BY DEF Shape
<1> QED
  BY <1>1, <1>2, NoNewAlliances

LEMMA NoNewAlliancesNobodyNew ==
    ASSUME TypeOK, TypeOK', Shape', NoLoveLoveHate,
           alive' = alive,
           \A a, b \in Players : Friends(a, b)' => Friends(a, b),
           \A a, b, r \in Players :
               (type'[a][b] = "war" /\ type[a][b] # "war"
                   /\ r \in alive /\ r # a /\ r # b)
                   => ~ (Friends(r, a)' /\ Friends(r, b)')
    PROVE  NoLoveLoveHate'
<1> DEFINE new == {}
<1>1. /\ alive' \subseteq alive \cup new
      /\ \A a, b \in Players : (a \in new /\ Friends(a, b)') => a = b
  OBVIOUS
<1> HIDE DEF new
<1> QED
  BY <1>1, NoNewAlliancesShape

LEMMA ContactKeepsTriads ==
    ASSUME TypeOK, TypeOK', Shape', NoLoveLoveHate,
           NEW p \in Players, NEW q \in Players, MakeContact(p, q)
    PROVE  NoLoveLoveHate'
<1> DEFINE ds == DefaultDiplState(type, alive, p, q)
<1>1. /\ type' = Put(type, Both(p, q), ds)
      /\ UNCHANGED alive
      /\ ds \in {"war", "peace"}
  BY DEF MakeContact, SetDiplStateType, DefaultDiplState, playerVars
<1>2. ds = "war" => CommonAllies(type, alive, p, q) = {}
  BY DEF DefaultDiplState
<1> HIDE DEF ds
<1>3. \A a, b \in Players :
          type'[a][b] = IF <<a, b>> \in Both(p, q) THEN ds ELSE type[a][b]
  <2> TAKE a, b \in Players
  <2> QED
    BY <1>1, PutEntry
<1>4. \A a, b \in Players : Friends(a, b)' => Friends(a, b)
  BY <1>1, <1>3 DEF Friends, Allied
<1>5. ASSUME NEW a \in Players, NEW b \in Players, NEW r \in Players,
             type'[a][b] = "war", type[a][b] # "war", r \in alive, r # a, r # b,
             Friends(r, a)', Friends(r, b)'
      PROVE  FALSE
  <2>1. Friends(r, a) /\ Friends(r, b)
    BY <1>4, <1>5
  <2>2. <<a, b>> \in Both(p, q) /\ ds = "war"
    BY <1>3, <1>5
  <2>3. (a = p /\ b = q) \/ (a = q /\ b = p)
    BY <2>2 DEF Both
  <2>4. r \in CommonAllies(type, alive, p, q)
    BY <1>5, <2>1, <2>3 DEF CommonAllies, Friends
  <2> QED
    BY <1>2, <2>2, <2>4
<1> QED
  BY <1>1, <1>4, <1>5, NoNewAlliancesNobodyNew

\* An alliance is signed only if neither side is at war with an ally of the
\* other; the other pacts end a war.
LEMMA PactKeepsTriads ==
    ASSUME TypeOK, TypeOK', Shape, Shape', NoLoveLoveHate,
           NEW p \in Players, NEW q \in Players, NEW pact \in PactClauses,
           MakePact(p, q, pact)
    PROVE  NoLoveLoveHate'
<1>1. /\ type' = Put(type, Both(p, q), PactResult(pact))
      /\ UNCHANGED alive
      /\ p # q /\ p \in alive /\ q \in alive
  BY DEF MakePact, SetDiplStateType, playerVars, CanMakeTreaty, SameTeam
<1>2. \A a, b \in Players :
          type'[a][b] = IF <<a, b>> \in Both(p, q) THEN PactResult(pact) ELSE type[a][b]
  <2> TAKE a, b \in Players
  <2> QED
    BY <1>1, PutEntry
<1>3. \A a, b \in Players : type'[a][b] = "war" => type[a][b] = "war"
  BY <1>2 DEF PactResult, PactClauses
<1>4. CASE pact # "alliance"
  <2>1. \A a, b \in Players : Friends(a, b)' => Friends(a, b)
    BY <1>2, <1>4 DEF Friends, Allied, PactResult, PactClauses
  <2> QED
    BY <1>1, <1>3, <2>1, NoNewAlliancesNobodyNew
<1>5. CASE pact = "alliance"
  <2>1. \A x \in alive :
            x # p /\ x # q => /\ ~ (type[p][x] = "war" /\ Friends(q, x))
                              /\ ~ (type[q][x] = "war" /\ Friends(p, x))
    BY <1>5 DEF MakePact, CanMakeTreaty, IsValidAlliance, Friends
  <2>2. \A a, b \in Players :
            Friends(a, b)' => Friends(a, b) \/ (a = p /\ b = q) \/ (a = q /\ b = p)
    BY <1>2 DEF Both, Friends, Allied
  <2>3. ~ Friends(p, q) => type'[p][q] = "alliance"
    BY <1>2, <1>5, BothFacts DEF PactResult
  <2>4. \A a, b \in Players : type'[a][b] = type'[b][a]
    BY DEF Shape, SidesAgree
  <2>5. type'[p][q] = "alliance" /\ type'[q][p] = "alliance"
    BY <1>2, <1>5, BothFacts DEF PactResult
  <2>6. ASSUME NEW r \in alive, NEW a \in alive, NEW b \in alive,
               Friends(r, a)', Friends(r, b)', type'[a][b] = "war"
        PROVE  FALSE
    <3>1. r \in Players /\ a \in Players /\ b \in Players
      BY DEF TypeOK
    <3>2. type[a][b] = "war" /\ type[b][a] = "war"
      BY <1>3, <2>4, <2>6, <3>1
    <3>3. a # b
      BY <3>1, <3>2 DEF Shape
    <3>4. <<a, b>> \notin {<<p, q>>, <<q, p>>}
      BY <2>5, <2>6
    <3>5. ~ (Friends(r, a) /\ Friends(r, b))
      BY <2>6, <3>2 DEF NoLoveLoveHate, Friends
    <3>6. CASE ~ Friends(r, a)
      <4>1. (r = p /\ a = q) \/ (r = q /\ a = p)
        BY <2>2, <2>6, <3>1, <3>6
      <4>2. Friends(r, b)
        BY <2>2, <2>6, <3>1, <3>3, <4>1
      <4>3. b # p /\ b # q
        BY <2>6, <3>3, <3>4, <4>1
      <4>4. CASE r = p /\ a = q
        <5>1. Friends(p, b) /\ type[q][b] = "war"
          BY <3>2, <4>2, <4>4
        <5> QED
          BY <2>1, <4>3, <5>1, Zenon
      <4>5. CASE r = q /\ a = p
        <5>1. Friends(q, b) /\ type[p][b] = "war"
          BY <3>2, <4>2, <4>5
        <5> QED
          BY <2>1, <4>3, <5>1, Zenon
      <4> QED
        BY <4>1, <4>4, <4>5
    <3>7. CASE ~ Friends(r, b)
      <4>1. (r = p /\ b = q) \/ (r = q /\ b = p)
        BY <2>2, <2>6, <3>1, <3>7
      <4>2. Friends(r, a)
        BY <2>2, <2>6, <3>1, <3>3, <4>1
      <4>3. a # p /\ a # q
        BY <2>6, <3>3, <3>4, <4>1
      <4>4. CASE r = p /\ b = q
        <5>1. Friends(p, a) /\ type[q][a] = "war"
          BY <3>2, <4>2, <4>4
        <5> QED
          BY <2>1, <4>3, <5>1, Zenon
      <4>5. CASE r = q /\ b = p
        <5>1. Friends(q, a) /\ type[p][a] = "war"
          BY <3>2, <4>2, <4>5
        <5> QED
          BY <2>1, <4>3, <5>1, Zenon
      <4> QED
        BY <4>1, <4>4, <4>5
    <3> QED
      BY <3>5, <3>6, <3>7
  <2> QED
    BY <1>1, <2>6 DEF NoLoveLoveHate, Friends
<1> QED
  BY <1>4, <1>5

\* A war among allies: every common ally gives up one of the two alliances.
LEMMA FallOutKeepsTriads ==
    ASSUME TypeOK, TypeOK', Shape, Shape', NoLoveLoveHate, alive' = alive,
           NEW p \in Players, NEW q \in Players, p # q, p \in alive, q \in alive,
           NEW STATE leave, leave \in {FallOut(p, q), LoveLoveHate(p, q), {}},
           NEW STATE new, new \in {"war", "armistice", "peace"},
           type' = Put(Put(type, Both(p, q), new), Mutual(leave), "armistice"),
           new = "war" => \A r \in CommonAllies(type, alive, p, q) :
                              <<r, p>> \in leave \/ <<r, q>> \in leave
    PROVE  NoLoveLoveHate'
<1>1. \A a, b \in Players :
          type'[a][b] = IF <<a, b>> \in Mutual(leave) THEN "armistice"
                        ELSE IF <<a, b>> \in Both(p, q) THEN new ELSE type[a][b]
  <2> TAKE a, b \in Players
  <2> QED
    BY PutEntry
<1>2. \A a, b \in Players : Friends(a, b)' => Friends(a, b)
  BY <1>1 DEF Friends, Allied
<1>3. ASSUME NEW a \in Players, NEW b \in Players, NEW r \in Players,
             type'[a][b] = "war", type[a][b] # "war", r \in alive, r # a, r # b,
             Friends(r, a)', Friends(r, b)'
      PROVE  FALSE
  <2>1. <<a, b>> \in Both(p, q) /\ new = "war"
    BY <1>1, <1>3
  <2>2. (a = p /\ b = q) \/ (a = q /\ b = p)
    BY <2>1 DEF Both
  <2>3. Friends(r, a) /\ Friends(r, b)
    BY <1>2, <1>3
  <2>4. r \in CommonAllies(type, alive, p, q)
    BY <1>3, <2>2, <2>3 DEF CommonAllies, Friends
  <2>5. <<r, p>> \in leave \/ <<r, q>> \in leave
    BY <2>1, <2>4
  <2>6. <<r, a>> \in Mutual(leave) \/ <<r, b>> \in Mutual(leave)
    BY <2>2, <2>5 DEF Mutual, Pairs
  <2>7. type'[r][a] = "armistice" \/ type'[r][b] = "armistice"
    BY <1>1, <2>6
  <2> QED
    BY <1>3, <2>7 DEF Friends, Allied
<1> QED
  BY <1>2, <1>3, NoNewAlliancesNobodyNew

\* A senate cannot hold a player in an alliance its team-mate goes to war
\* with: players with a senate have no team-mates.
LoneSenators == \A p \in Senators, q \in Players : SameTeam(p, q) => p = q

LEMMA CancelKeepsTriads ==
    ASSUME LoneSenators, TypeOK, TypeOK', Shape, Shape', NoLoveLoveHate,
           NEW p \in Players, NEW q \in Players,
           CancelPact(p, q)
    PROVE  NoLoveLoveHate'
<1> DEFINE new   == CancelPactResult(type[p][q])
           leave == IF new = "war" THEN FallOut(p, q) ELSE {}
<1>1. /\ alive' = alive
      /\ p # q /\ p \in alive /\ q \in alive /\ ~ SameTeam(p, q)
      /\ type' = Put(Put(type, Both(p, q), new), Mutual(leave), "armistice")
      /\ type[p][q] \notin {"war", "no_contact"}
  BY DEF CancelPact, CanCancel, playerVars
<1>2. leave \in {FallOut(p, q), LoveLoveHate(p, q), {}}
  OBVIOUS
<1>3. new \in {"war", "armistice", "peace"}
  <2>1. type[p][q] \in DiplStates /\ type[p][q] # "team"
    BY <1>1 DEF TypeOK, Matrix, Shape, TeamsHold
  <2> QED
    BY <1>1, <2>1 DEF CancelPactResult, DiplStates
<1>4. ASSUME new = "war", NEW r \in CommonAllies(type, alive, p, q)
      PROVE  <<r, p>> \in leave \/ <<r, q>> \in leave
  <2>1. /\ r \in alive /\ r \in Players /\ r # p /\ r # q
        /\ type[r][p] \in {"alliance", "team"} /\ type[r][q] \in {"alliance", "team"}
    BY DEF CommonAllies, Allied, TypeOK
  <2>2. CASE ~ SameTeam(r, p)
    BY <1>4, <2>1, <2>2 DEF FallOut, LeavesAggressor, Pairs
  <2>3. CASE SameTeam(r, p)
    <3>1. ~ SameTeam(r, q)
      BY <1>1, <2>3 DEF SameTeam
    <3>2. r \notin senate
      BY <2>1, <2>3 DEF LoneSenators, TypeOK
    <3>3. LeavesVictim(r, p, q)
      BY <1>1, <2>1, <2>3, <3>1, <3>2 DEF LeavesVictim, CanCancel
    <3> QED
      BY <1>4, <2>1, <3>3 DEF FallOut, Pairs
  <2> QED
    BY <2>2, <2>3
<1> HIDE DEF new, leave
<1> QED
  BY <1>1, <1>2, <1>3, <1>4, FallOutKeepsTriads

LEMMA CeasefireKeepsTriads ==
    ASSUME TypeOK, TypeOK', Shape, Shape', NoLoveLoveHate, alive' = alive,
           NEW p \in Players, NEW q \in Players, Visits(p, q), CeasefireRunsOut(p, q)
    PROVE  NoLoveLoveHate'
<1> DEFINE new   == "war"
           leave == LoveLoveHate(p, q)
<1>1. /\ p # q /\ p \in alive /\ q \in alive /\ ~ SameTeam(p, q)
      /\ type' = Put(Put(type, Both(p, q), new), Mutual(leave), "armistice")
  BY DEF Visits, CeasefireRunsOut, Shape, TeamsHold
<1>2. leave \in {FallOut(p, q), LoveLoveHate(p, q), {}} /\ new \in {"war", "armistice", "peace"}
  OBVIOUS
<1>3. ASSUME NEW r \in CommonAllies(type, alive, p, q)
      PROVE  <<r, p>> \in leave \/ <<r, q>> \in leave
  <2>1. r \in Players
    BY DEF CommonAllies, TypeOK
  <2>2. ~ SameTeam(r, p) \/ ~ SameTeam(r, q)
    BY <1>1 DEF SameTeam
  <2> QED
    BY <2>1, <2>2 DEF LoveLoveHate, Pairs
<1> HIDE DEF new, leave
<1> QED
  BY <1>1, <1>2, <1>3, FallOutKeepsTriads

\* Newcomers have no allies, and those they are at war with have no common
\* ally with them.
LEMMA ArriveKeepsTriads ==
    ASSUME TypeOK, TypeOK', Shape, Shape', NoLoveLoveHate,
           NEW S, S \subseteq unborn \cup NoDiplomacy, Arrive(S),
           alive' \subseteq alive \cup S
    PROVE  NoLoveLoveHate'
<1> DEFINE new == S \cap unborn
           IsNew(pq) == pq[1] # pq[2] /\ {pq[1], pq[2]} \cap new # {}
                                      /\ {pq[1], pq[2]} \cap (unborn \ new) = {}
           Hostile(pq) == {pq[1], pq[2]} \cap NoDiplomacy # {}
           R == {pq \in Pairs : IsNew(pq) /\ Hostile(pq)}
<1>1. type' = Put(type, R, "war")
  BY DEF Arrive, SetDiplStateType
<1>2. \A a, b \in Players : <<a, b>> \in R => a \in unborn \/ b \in unborn
  BY DEF Pairs
<1> HIDE DEF R
<1>3. \A a, b \in Players :
          type'[a][b] = IF <<a, b>> \in R THEN "war" ELSE type[a][b]
  <2> TAKE a, b \in Players
  <2> QED
    BY <1>1, PutEntry
<1>4. \A a, b \in Players : Friends(a, b)' => Friends(a, b)
  BY <1>3 DEF Friends, Allied
<1>5. ASSUME NEW a \in Players, NEW b \in Players, a \in unborn \/ a \in NoDiplomacy,
             Friends(a, b)
      PROVE  a = b
  BY <1>5 DEF Friends, Allied, Shape
<1>6. ASSUME NEW a \in Players, NEW b \in Players, NEW r \in Players,
             type'[a][b] = "war", type[a][b] # "war", r \in alive, r # a, r # b,
             Friends(r, a)', Friends(r, b)'
      PROVE  FALSE
  <2>1. a \in unborn \/ b \in unborn
    BY <1>2, <1>3, <1>6
  <2>2. Friends(r, a) /\ Friends(r, b)
    BY <1>4, <1>6
  <2>3. Friends(a, r) /\ Friends(b, r)
    BY <2>2 DEF Friends, Allied, Shape, SidesAgree
  <2> QED
    BY <1>5, <1>6, <2>1, <2>3
<1>7. \A a, b \in Players : (a \in S /\ Friends(a, b)') => a = b
  BY <1>4, <1>5
<1> QED
  BY <1>4, <1>6, <1>7, NoNewAlliancesShape

LEMMA TriadStep ==
    ASSUME LoneSenators, IInv, NoLoveLoveHate, [Next]_vars
    PROVE  NoLoveLoveHate'
<1> USE DEF playerVars, pactVars
<1>1. TypeOK /\ Shape /\ TypeOK' /\ Shape'
  BY StepIInv DEF IInv
<1>2. ASSUME NEW p \in Players, NEW q \in Players, MakeContact(p, q)
      PROVE  NoLoveLoveHate'
  BY <1>1, <1>2, ContactKeepsTriads
<1>3. ASSUME NEW p \in Players, NEW q \in Players, NEW pact \in PactClauses,
             MakePact(p, q, pact)
      PROVE  NoLoveLoveHate'
  BY <1>1, <1>3, PactKeepsTriads
<1>4. ASSUME NEW p \in Players, NEW q \in Players,
             CancelPact(p, q)
      PROVE  NoLoveLoveHate'
  BY <1>1, <1>4, CancelKeepsTriads
<1>5. CASE UNCHANGED <<type, alive>>
  BY <1>5 DEF NoLoveLoveHate
<1>6. ASSUME NEW p \in Players, NEW q \in Players, UpdatePair(p, q)
      PROVE  NoLoveLoveHate'
  <2>1. alive' = alive
    BY <1>6 DEF UpdatePair
  <2>2. CASE Visits(p, q) /\ CeasefireRunsOut(p, q)
    BY <1>1, <2>1, <2>2, CeasefireKeepsTriads
  <2>3. CASE Visits(p, q) /\ PeaceComes(p, q)
    <3>1. type' = Put(type, Both(p, q), "peace")
      BY <2>3 DEF PeaceComes
    <3>2. \A a, b \in Players :
              type'[a][b] = IF <<a, b>> \in Both(p, q) THEN "peace" ELSE type[a][b]
      <4> TAKE a, b \in Players
      <4> QED
        BY <3>1, PutEntry
    <3>3. /\ \A a, b \in Players : Friends(a, b)' => Friends(a, b)
          /\ \A a, b \in Players : type'[a][b] = "war" => type[a][b] = "war"
      BY <3>2 DEF Friends, Allied
    <3> QED
      BY <1>1, <2>1, <3>3, NoNewAlliancesNobodyNew
  <2>4. CASE UNCHANGED type
    BY <1>5, <2>1, <2>4
  <2> QED
    BY <1>6, <2>2, <2>3, <2>4 DEF UpdatePair, CountDown, NothingRuns
<1>7. ASSUME NEW S \in SUBSET Newcomers(alive), NewPlayer(S)
      PROVE  NoLoveLoveHate'
  <2>1. S \subseteq unborn \cup NoDiplomacy /\ Arrive(S) /\ alive' \subseteq alive \cup S
    BY <1>7 DEF NewPlayer, Newcomers
  <2> QED
    BY <1>1, <2>1, ArriveKeepsTriads
<1>8. ASSUME NEW p \in Players, NEW S \in SUBSET Newcomers(alive \ {p}), KillPlayer(p, S)
      PROVE  NoLoveLoveHate'
  <2>1. S \subseteq unborn \cup NoDiplomacy /\ Arrive(S) /\ alive' \subseteq alive \cup S
    BY <1>8 DEF KillPlayer, Newcomers
  <2> QED
    BY <1>1, <2>1, ArriveKeepsTriads
<1>9. CASE \E p \in Players : \/ \E q \in Players : GiveCasusBelli(p, q)
                              \/ InternationalOutrage(p)
                              \/ ChangeGovernment(p)
  BY <1>5, <1>9 DEF GiveCasusBelli, InternationalOutrage, ChangeGovernment
<1>10. CASE StartUpdate \/ NewTurn \/ UNCHANGED vars
  BY <1>5, <1>10 DEF StartUpdate, NewTurn, vars
<1> QED
  BY <1>2, <1>3, <1>4, <1>6, <1>7, <1>8, <1>9, <1>10 DEF Next

\* No player is ever allied with two others who are at war, if nobody with a
\* senate has team-mates: without that condition the code fails (README.md).
THEOREM AlliesNeverAtWar == ASSUME LoneSenators PROVE Spec => []NoLoveLoveHate
<1>1. Init => NoLoveLoveHate
  BY DEF Init, NoLoveLoveHate
<1>2. IInv /\ NoLoveLoveHate /\ [Next]_vars => NoLoveLoveHate'
  BY TriadStep
<1> QED
  BY <1>1, <1>2, Invariant, PTL DEF Spec

-----------------------------------------------------------------------------
LEMMA SenateStep ==
    ASSUME IInv, [Next]_vars, NEW p \in Players, NEW q \in Players,
           p \in senate, q \in senate,
           type[p][q] \in {"armistice", "peace", "alliance"},
           reason[p][q] = 0, reason[q][p] = 0
    PROVE  type'[p][q] # "war"
<1> USE DEF playerVars, pactVars
<1>1. TypeOK /\ Shape
  BY DEF IInv
<1>2. type[q][p] = type[p][q] /\ p \notin unborn /\ q \notin unborn
  BY <1>1 DEF Shape, SidesAgree
<1>3. ASSUME NEW a \in Players, NEW b \in Players, MakeContact(a, b)
      PROVE  type'[p][q] # "war"
  <2>1. <<p, q>> \notin Both(a, b)
    <3>1. type[a][b] = "no_contact"
      BY <1>3 DEF MakeContact
    <3> QED
      BY <1>2, <3>1 DEF Both
  <2> QED
    BY <1>3, <2>1, PutEntry DEF MakeContact, SetDiplStateType
<1>4. ASSUME NEW a \in Players, NEW b \in Players, NEW pact \in PactClauses,
             MakePact(a, b, pact)
      PROVE  type'[p][q] # "war"
  <2>1. PactResult(pact) # "war" /\ type' = Put(type, Both(a, b), PactResult(pact))
    BY <1>4 DEF MakePact, SetDiplStateType, PactResult, PactClauses
  <2>2. type'[p][q] = IF <<p, q>> \in Both(a, b) THEN PactResult(pact) ELSE type[p][q]
    BY <2>1, PutEntry
  <2> QED
    BY <2>1, <2>2
<1>5. ASSUME NEW a \in Players, NEW b \in Players,
             CancelPact(a, b)
      PROVE  type'[p][q] # "war"
  <2> DEFINE new   == CancelPactResult(type[a][b])
             leave == IF new = "war" THEN FallOut(a, b) ELSE {}
  <2>1. /\ type' = Put(Put(type, Both(a, b), new), Mutual(leave), "armistice")
        /\ a \in senate => reason[a][b] > 0
    BY <1>5 DEF CancelPact, CanCancel
  <2> HIDE DEF new, leave
  <2>2. <<p, q>> \notin Both(a, b)
    BY <1>5 DEF Both, CancelPact, CanCancel
  <2>3. type'[p][q] = IF <<p, q>> \in Mutual(leave) THEN "armistice"
                      ELSE IF <<p, q>> \in Both(a, b) THEN new ELSE type[p][q]
    BY <2>1, PutEntry
  <2> QED
    BY <2>2, <2>3
<1>6. ASSUME NEW S, Arrive(S)
      PROVE  type'[p][q] # "war"
  <2> DEFINE new == S \cap unborn
             IsNew(pq) == pq[1] # pq[2] /\ {pq[1], pq[2]} \cap new # {}
                                        /\ {pq[1], pq[2]} \cap (unborn \ new) = {}
             Hostile(pq) == {pq[1], pq[2]} \cap NoDiplomacy # {}
             R == {pq \in Pairs : IsNew(pq) /\ Hostile(pq)}
  <2>1. type' = Put(type, R, "war")
    BY <1>6 DEF Arrive, SetDiplStateType
  <2>2. <<p, q>> \notin R
    BY <1>2
  <2> HIDE DEF R
  <2> QED
    BY <2>1, <2>2, PutEntry
<1>7. ASSUME NEW a \in Players, NEW b \in Players, UpdatePair(a, b)
      PROVE  type'[p][q] # "war"
  <2>1. CASE PeaceComes(a, b)
    <3>1. type' = Put(type, Both(a, b), "peace")
      BY <2>1 DEF PeaceComes
    <3>2. type'[p][q] = IF <<p, q>> \in Both(a, b) THEN "peace" ELSE type[p][q]
      BY <3>1, PutEntry
    <3> QED
      BY <3>2
  <2>2. CASE CeasefireRunsOut(a, b)
    <3>1. type' = Put(Put(type, Both(a, b), "war"), Mutual(LoveLoveHate(a, b)), "armistice")
          /\ type[a][b] = "ceasefire"
      BY <2>2 DEF CeasefireRunsOut
    <3>2. <<p, q>> \notin Both(a, b)
      BY <1>2, <3>1 DEF Both
    <3> QED
      BY <3>1, <3>2, PutEntry
  <2>3. CASE UNCHANGED type
    BY <2>3
  <2> QED
    BY <1>7, <2>1, <2>2, <2>3 DEF UpdatePair, CountDown, NothingRuns
<1>8. CASE UNCHANGED type
  BY <1>8
<1>9. CASE \E a \in Players : \/ \E b \in Players : GiveCasusBelli(a, b)
                              \/ InternationalOutrage(a)
                              \/ ChangeGovernment(a)
  BY <1>8, <1>9 DEF GiveCasusBelli, InternationalOutrage, ChangeGovernment
<1>10. CASE StartUpdate \/ NewTurn \/ UNCHANGED vars
  BY <1>8, <1>10 DEF StartUpdate, NewTurn, vars
<1> QED
  BY <1>3, <1>4, <1>5, <1>6, <1>7, <1>9, <1>10 DEF Next, NewPlayer, KillPlayer

\* Two players whose senates have nothing to complain about never go to war
\* out of an armistice, a peace or an alliance, whoever acts.
THEOREM SenatesAlwaysKeepPeace == Spec => SenatesKeepPeace
<1>1. IInv /\ [Next]_vars =>
          [\A p, q \in senate :
              (/\ type[p][q] \in {"armistice", "peace", "alliance"}
               /\ reason[p][q] = 0
               /\ reason[q][p] = 0) => type'[p][q] # "war"]_vars
  <2> SUFFICES ASSUME IInv, [Next]_vars,
                      NEW p \in senate, NEW q \in senate,
                      type[p][q] \in {"armistice", "peace", "alliance"},
                      reason[p][q] = 0, reason[q][p] = 0
               PROVE  type'[p][q] # "war"
    OBVIOUS
  <2>1. p \in Players /\ q \in Players
    BY SenatorsAssumption DEF IInv, TypeOK
  <2> QED
    BY <2>1, SenateStep
<1> QED
  BY <1>1, Invariant, PTL DEF Spec, SenatesKeepPeace

-----------------------------------------------------------------------------
(***************************************************************************)
(* Diplomacy implements PactLadder for every pair of players: whatever     *)
(* happens between other players, and although the two counters of a pair  *)
(* are counted down in separate steps, a relation only climbs and descends *)
(* the ladder.                                                             *)
(***************************************************************************)
OnLadder(p, q) == [Ladder(p, q)!Next]_<<type[p][q], Clock(p, q)>>

\* A pair whose state and running counters are left alone stutters.
LEMMA Untouched ==
    ASSUME NEW a \in Players, NEW b \in Players,
           type'[a][b] = type[a][b],
           Timed(a, b) => /\ turns_left'[a][b] = turns_left[a][b]
                          /\ turns_left'[b][a] = turns_left[b][a]
    PROVE  OnLadder(a, b)
<1>1. Clock(a, b)' = Clock(a, b)
  BY DEF Clock, Timed
<1> QED
  BY <1>1 DEF OnLadder

\* An alliance that is given up for a running armistice.
LEMMA AllianceLeft ==
    ASSUME NEW a \in Players, NEW b \in Players,
           type[a][b] = "alliance", type'[a][b] = "armistice",
           turns_left'[a][b] = turns_left'[b][a],
           turns_left'[a][b] \in {TurnsLeft, TurnsLeft - 1}
    PROVE  OnLadder(a, b)
<1>1. Clock(a, b)' \in {TurnsLeft, TurnsLeft - 1}
  BY DEF Clock
<1> QED
  BY <1>1 DEF OnLadder, Ladder!Next, Ladder!LeaveAlliance

LEMMA ContactOnLadder ==
    ASSUME IInv, NEW p \in Players, NEW q \in Players, MakeContact(p, q),
           NEW a \in Players, NEW b \in Players
    PROVE  OnLadder(a, b)
<1> DEFINE ds == DefaultDiplState(type, alive, p, q)
<1>1. ds \in {"war", "peace"}
  BY DEF DefaultDiplState
<1>2. /\ type' = Put(type, Both(p, q), ds)
      /\ turns_left' = turns_left
      /\ type[p][q] = "no_contact" /\ type[q][p] = "no_contact"
  BY DEF MakeContact, SetDiplStateType, IInv, Shape, SidesAgree
<1> HIDE DEF ds
<1>3. CASE <<a, b>> \in Both(p, q)
  <2>1. type[a][b] = "no_contact"
    <3>1. (a = p /\ b = q) \/ (a = q /\ b = p)
      BY <1>3 DEF Both
    <3> QED
      BY <1>2, <3>1
  <2>2. type'[a][b] = ds
    BY <1>2, <1>3, PutEntry
  <2>3. Clock(a, b)' = 0
    BY <1>1, <2>2 DEF Clock
  <2> QED
    BY <1>1, <2>1, <2>2, <2>3 DEF OnLadder, Ladder!Next, Ladder!Meet
<1>4. CASE <<a, b>> \notin Both(p, q)
  BY <1>2, <1>4, PutEntry, Untouched
<1> QED
  BY <1>3, <1>4

LEMMA PactOnLadder ==
    ASSUME IInv, NEW p \in Players, NEW q \in Players, NEW pact \in PactClauses,
           MakePact(p, q, pact), NEW a \in Players, NEW b \in Players
    PROVE  OnLadder(a, b)
<1>1. /\ type' = Put(type, Both(p, q), PactResult(pact))
      /\ turns_left' = IF pact = "alliance" THEN turns_left
                       ELSE Put(turns_left, Both(p, q), TurnsLeft)
  BY DEF MakePact, SetDiplStateType
<1>2. /\ pact = "ceasefire" => type[p][q] = "war"
      /\ pact = "peace" => type[p][q] \in {"war", "ceasefire"}
      /\ pact = "alliance" => type[p][q] \notin {"alliance", "team"}
      /\ type[q][p] = type[p][q]
  BY DEF MakePact, CanMakeTreaty, IInv, Shape, SidesAgree, TeamsHold
<1>3. CASE <<a, b>> \in Both(p, q)
  <2>1. type[a][b] = type[p][q]
    <3>1. (a = p /\ b = q) \/ (a = q /\ b = p)
      BY <1>3 DEF Both
    <3> QED
      BY <1>2, <3>1
  <2>2. type'[a][b] = PactResult(pact)
    BY <1>1, <1>3, PutEntry
  <2>3. CASE pact = "alliance"
    <3>1. type'[a][b] = "alliance" /\ Clock(a, b)' = 0
      BY <2>2, <2>3 DEF PactResult, Clock
    <3> QED
      BY <1>2, <2>1, <2>3, <3>1 DEF OnLadder, Ladder!Next, Ladder!SignAlliance
  <2>4. CASE pact # "alliance"
    <3>1. <<b, a>> \in Both(p, q)
      BY <1>3 DEF Both
    <3>2. turns_left'[a][b] = TurnsLeft /\ turns_left'[b][a] = TurnsLeft
      BY <1>1, <1>3, <2>4, <3>1, PutEntry
    <3>3. type'[a][b] = (IF pact = "peace" THEN "armistice" ELSE "ceasefire")
      BY <2>2, <2>4 DEF PactResult, PactClauses
    <3>4. Clock(a, b)' = TurnsLeft
      BY <3>2, <3>3 DEF Clock
    <3> QED
      BY <1>2, <2>1, <2>4, <3>3, <3>4
      DEF OnLadder, Ladder!Next, Ladder!SignPeace, Ladder!SignCeasefire, PactClauses
  <2> QED
    BY <2>3, <2>4
<1>4. CASE <<a, b>> \notin Both(p, q)
  <2>1. <<b, a>> \notin Both(p, q)
    BY <1>4 DEF Both
  <2> QED
    BY <1>1, <1>4, <2>1, PutEntry, Untouched
<1> QED
  BY <1>3, <1>4

LEMMA CancelOnLadder ==
    ASSUME IInv, NEW p \in Players, NEW q \in Players, CancelPact(p, q),
           NEW a \in Players, NEW b \in Players
    PROVE  OnLadder(a, b)
<1> DEFINE new == CancelPactResult(type[p][q])
           leave == IF new = "war" THEN FallOut(p, q) ELSE {}
           R == Both(p, q) \cup Mutual(leave)
<1>1. /\ type' = Put(Put(type, Both(p, q), new), Mutual(leave), "armistice")
      /\ turns_left' = Put(turns_left, R, TurnsLeft)
      /\ p # q /\ p \in alive /\ q \in alive /\ ~ SameTeam(p, q)
      /\ type[p][q] \notin {"war", "no_contact"}
  BY DEF CancelPact, CanCancel
<1>2. /\ type[p][q] \in {"ceasefire", "armistice", "peace", "alliance"}
      /\ type[q][p] = type[p][q]
      /\ TypeOK /\ Shape
  BY <1>1 DEF IInv, Shape, SidesAgree, TeamsHold, TypeOK, Matrix, DiplStates
<1>3. new = IF type[p][q] = "alliance" THEN "armistice" ELSE "war"
  BY <1>2 DEF CancelPactResult
<1>4. leave \in {FallOut(p, q), LoveLoveHate(p, q), {}}
  OBVIOUS
<1> HIDE DEF leave, new
<1>5. \A x, y \in Players : <<x, y>> \in Mutual(leave) =>
          /\ type[x][y] = "alliance"
          /\ <<x, y>> \notin Both(p, q)
  BY <1>1, <1>2, <1>4, FallOutAlliances
<1>6. /\ <<a, b>> \in R <=> <<b, a>> \in R
      /\ <<a, b>> \in R <=> (<<a, b>> \in Both(p, q) \/ <<a, b>> \in Mutual(leave))
  BY DEF Mutual, Both, Pairs
<1> HIDE DEF R
<1>7. /\ turns_left'[a][b] = (IF <<a, b>> \in R THEN TurnsLeft ELSE turns_left[a][b])
      /\ turns_left'[b][a] = (IF <<a, b>> \in R THEN TurnsLeft ELSE turns_left[b][a])
  BY <1>1, <1>6, PutEntry
<1>8. type'[a][b] = IF <<a, b>> \in Mutual(leave) THEN "armistice"
                    ELSE IF <<a, b>> \in Both(p, q) THEN new ELSE type[a][b]
  BY <1>1, PutEntry
<1>9. CASE <<a, b>> \in Mutual(leave)
  BY <1>5, <1>6, <1>7, <1>8, <1>9, AllianceLeft
<1>10. CASE <<a, b>> \in Both(p, q) /\ <<a, b>> \notin Mutual(leave)
  <2>1. type[a][b] = type[p][q] /\ type'[a][b] = new
    <3>1. (a = p /\ b = q) \/ (a = q /\ b = p)
      BY <1>10 DEF Both
    <3> QED
      BY <1>2, <1>8, <1>10, <3>1
  <2>2. CASE type[p][q] = "alliance"
    BY <1>3, <1>6, <1>7, <1>10, <2>1, <2>2, AllianceLeft
  <2>3. CASE type[p][q] # "alliance"
    <3>1. type'[a][b] = "war" /\ Clock(a, b)' = 0
      BY <1>3, <2>1, <2>3 DEF Clock
    <3> QED
      BY <1>2, <2>1, <2>3, <3>1 DEF OnLadder, Ladder!Next, Ladder!DeclareWar
  <2> QED
    BY <2>2, <2>3
<1>11. CASE <<a, b>> \notin Both(p, q) /\ <<a, b>> \notin Mutual(leave)
  BY <1>6, <1>7, <1>8, <1>11, Untouched
<1> QED
  BY <1>9, <1>10, <1>11

LEMMA ArrivalOnLadder ==
    ASSUME IInv, NEW S, Arrive(S), NEW a \in Players, NEW b \in Players
    PROVE  OnLadder(a, b)
<1> DEFINE new == S \cap unborn
           IsNew(pq) == pq[1] # pq[2] /\ {pq[1], pq[2]} \cap new # {}
                                      /\ {pq[1], pq[2]} \cap (unborn \ new) = {}
           Hostile(pq) == {pq[1], pq[2]} \cap NoDiplomacy # {}
           R == {pq \in Pairs : IsNew(pq) /\ Hostile(pq)}
           T == {pq \in Pairs : IsNew(pq)}
<1>1. type' = Put(type, R, "war") /\ turns_left' = Put(turns_left, T, 0)
  BY DEF Arrive, SetDiplStateType
<1>2. /\ <<a, b>> \in T <=> <<b, a>> \in T
      /\ <<a, b>> \in R => <<a, b>> \in T
      /\ <<a, b>> \in T => a \in unborn \/ b \in unborn
  BY DEF Pairs
<1>3. a \in unborn \/ b \in unborn => type[a][b] = "no_contact"
  BY DEF IInv, Shape, SidesAgree
<1> HIDE DEF R, T
<1>4. CASE <<a, b>> \in R
  <2>1. type[a][b] = "no_contact" /\ type'[a][b] = "war" /\ Clock(a, b)' = 0
    BY <1>1, <1>2, <1>3, <1>4, PutEntry DEF Clock
  <2> QED
    BY <2>1 DEF OnLadder, Ladder!Next, Ladder!Meet
<1>5. CASE <<a, b>> \notin R
  <2>1. type'[a][b] = type[a][b]
    BY <1>1, <1>5, PutEntry
  <2>2. ASSUME Timed(a, b)
        PROVE  turns_left'[a][b] = turns_left[a][b] /\ turns_left'[b][a] = turns_left[b][a]
    <3>1. <<a, b>> \notin T /\ <<b, a>> \notin T
      BY <1>2, <1>3, <2>2 DEF Timed
    <3> QED
      BY <1>1, <3>1, PutEntry
  <2> QED
    BY <2>1, <2>2, Untouched
<1> QED
  BY <1>4, <1>5

(***************************************************************************)
(* One step of update_diplomatics.                                         *)
(***************************************************************************)

\* When the loop is at a pair it counts, the other counter is the same, or
\* one less if it has been counted already; so one that stands at 1 is the
\* clock of the pair.
LEMMA CountersAtCursor ==
    ASSUME IInv, NEW p \in Players, NEW q \in Players,
           cursor = <<p, q>>, Timed(p, q)
    PROVE  /\ turns_left[p][q] \in Nat \ {0} /\ turns_left[q][p] \in Nat \ {0}
           /\ \/ turns_left[q][p] = turns_left[p][q]
              \/ turns_left[q][p] = turns_left[p][q] - 1
<1>1. Timed(q, p)
  BY DEF Timed, IInv, Shape, SidesAgree
<1>2. turns_left[p][q] \in Nat \ {0} /\ turns_left[q][p] \in Nat \ {0}
  BY <1>1 DEF IInv, TypeOK, Matrix, Running, Timed
<1>3. Counted(p, q) = 0 /\ Counted(q, p) \in {0, 1}
  BY DEF Counted, Passed, Players
<1>4. turns_left[p][q] + Counted(p, q) = turns_left[q][p] + Counted(q, p)
  BY DEF IInv, CountersInStep, Timed
<1> QED
  BY <1>2, <1>3, <1>4

\* A relation whose clock stands at 1 when the loop ends it.
LEMMA TimeOutOnLadder ==
    ASSUME IInv, NEW p \in Players, NEW q \in Players,
           cursor = <<p, q>>, Timed(p, q), turns_left[p][q] <= 1,
           NEW a \in Players, NEW b \in Players, <<a, b>> \in Both(p, q),
           type'[a][b] = IF type[p][q] = "ceasefire" THEN "war" ELSE "peace"
    PROVE  OnLadder(a, b)
<1>1. turns_left[p][q] = 1 /\ turns_left[q][p] = 1
  BY CountersAtCursor
<1>2. (a = p /\ b = q) \/ (a = q /\ b = p)
  BY DEF Both
<1>3. type[a][b] = type[p][q]
  BY <1>2 DEF IInv, Shape, SidesAgree
<1>4. Clock(a, b) = 1
  BY <1>1, <1>2, <1>3 DEF Clock, Timed
<1>5. Clock(a, b)' = 0
  BY DEF Clock
<1> QED
  BY <1>3, <1>4, <1>5 DEF OnLadder, Ladder!Next, Ladder!TimeOut, Ladder!Timed, Timed

LEMMA UpdateOnLadder ==
    ASSUME IInv, NEW p \in Players, NEW q \in Players, UpdatePair(p, q),
           NEW a \in Players, NEW b \in Players
    PROVE  OnLadder(a, b)
<1>1. cursor = <<p, q>>
  BY DEF UpdatePair
<1>2. CASE UNCHANGED <<type, turns_left>>
  BY <1>2, Untouched
<1>3. CASE Visits(p, q) /\ PeaceComes(p, q)
  <2>1. /\ type' = Put(type, Both(p, q), "peace")
        /\ turns_left' = Put(turns_left, Both(p, q), 0)
        /\ type[p][q] = "armistice" /\ turns_left[p][q] <= 1
    BY <1>3 DEF PeaceComes
  <2>2. CASE <<a, b>> \in Both(p, q)
    <3>1. type'[a][b] = "peace"
      BY <2>1, <2>2, PutEntry
    <3> QED
      BY <1>1, <2>1, <2>2, <3>1, TimeOutOnLadder DEF Timed
  <2>3. CASE <<a, b>> \notin Both(p, q)
    <3>1. <<b, a>> \notin Both(p, q)
      BY <2>3 DEF Both
    <3> QED
      BY <2>1, <2>3, <3>1, PutEntry, Untouched
  <2> QED
    BY <2>2, <2>3
<1>4. CASE Visits(p, q) /\ CeasefireRunsOut(p, q)
  <2> DEFINE leave == LoveLoveHate(p, q)
  <2>1. /\ type' = Put(Put(type, Both(p, q), "war"), Mutual(leave), "armistice")
        /\ turns_left' = Put(Put(turns_left, Both(p, q), 0), Mutual(leave), TurnsLeft - 1)
        /\ type[p][q] = "ceasefire" /\ turns_left[p][q] = 1
        /\ p # q /\ p \in alive /\ q \in alive
    BY <1>4 DEF CeasefireRunsOut, Visits
  <2>2. leave \in {FallOut(p, q), LoveLoveHate(p, q), {}} /\ TypeOK /\ Shape
    BY DEF IInv
  <2> HIDE DEF leave
  <2>3. \A x, y \in Players : <<x, y>> \in Mutual(leave) =>
            /\ type[x][y] = "alliance"
            /\ <<x, y>> \notin Both(p, q)
    BY <2>1, <2>2, FallOutAlliances
  <2>4. /\ <<a, b>> \in Mutual(leave) <=> <<b, a>> \in Mutual(leave)
        /\ <<a, b>> \in Both(p, q) <=> <<b, a>> \in Both(p, q)
    BY DEF Mutual, Both, Pairs
  <2>5. /\ type'[a][b] = (IF <<a, b>> \in Mutual(leave) THEN "armistice"
                          ELSE IF <<a, b>> \in Both(p, q) THEN "war" ELSE type[a][b])
        /\ <<a, b>> \in Mutual(leave) => turns_left'[a][b] = TurnsLeft - 1
                                         /\ turns_left'[b][a] = TurnsLeft - 1
    BY <2>1, <2>4, PutEntry
  <2>6. CASE <<a, b>> \in Mutual(leave)
    BY <2>3, <2>5, <2>6, AllianceLeft
  <2>7. CASE <<a, b>> \in Both(p, q)
    <3>1. type'[a][b] = "war"
      BY <2>3, <2>5, <2>7
    <3> QED
      BY <1>1, <2>1, <2>7, <3>1, TimeOutOnLadder DEF Timed
  <2>8. CASE <<a, b>> \notin Mutual(leave) /\ <<a, b>> \notin Both(p, q)
    <3>1. turns_left'[a][b] = turns_left[a][b] /\ turns_left'[b][a] = turns_left[b][a]
      BY <2>1, <2>4, <2>8, PutEntry
    <3> QED
      BY <2>5, <2>8, <3>1, Untouched
  <2> QED
    BY <2>6, <2>7, <2>8
<1>5. CASE Visits(p, q) /\ CountDown(p, q)
  <2>1. /\ UNCHANGED type
        /\ turns_left' = [turns_left EXCEPT ![p][q] = @ - 1]
        /\ p # q /\ Timed(p, q)
        /\ type[p][q] = "ceasefire" => turns_left[p][q] # 1
        /\ type[p][q] # "ceasefire" => turns_left[p][q] > 1
    BY <1>5 DEF CountDown, Counting, Visits, Timed
  <2>2. /\ turns_left[p][q] \in Nat \ {0} /\ turns_left[q][p] \in Nat \ {0}
        /\ \/ turns_left[q][p] = turns_left[p][q]
           \/ turns_left[q][p] = turns_left[p][q] - 1
    BY <1>1, <2>1, CountersAtCursor
  <2>3. \A x, y \in Players :
            turns_left'[x][y] = IF x = p /\ y = q THEN turns_left[x][y] - 1
                                ELSE turns_left[x][y]
    BY <2>1 DEF IInv, TypeOK, Matrix
  <2>4. CASE <<a, b>> \in Both(p, q)
    <3>1. (a = p /\ b = q) \/ (a = q /\ b = p)
      BY <2>4 DEF Both
    <3>2. type[a][b] = type[p][q] /\ type'[a][b] = type[a][b]
      BY <2>1, <3>1 DEF IInv, Shape, SidesAgree
    <3>3. Clock(a, b) = turns_left[p][q]
      BY <2>1, <2>2, <3>1, <3>2 DEF Clock, Timed
    <3>4. turns_left'[p][q] = turns_left[p][q] - 1 /\ turns_left'[q][p] = turns_left[q][p]
      BY <2>1, <2>3
    <3>5. Clock(a, b)' = turns_left[q][p]
      BY <2>1, <2>2, <3>1, <3>2, <3>4 DEF Clock, Timed
    <3>6. CASE turns_left[q][p] = turns_left[p][q]
      BY <3>2, <3>3, <3>5, <3>6 DEF OnLadder
    <3>7. CASE turns_left[q][p] = turns_left[p][q] - 1
      BY <2>1, <2>2, <3>2, <3>3, <3>5, <3>7
      DEF OnLadder, Ladder!Next, Ladder!Tick, Ladder!Timed, Timed
    <3> QED
      BY <2>2, <3>6, <3>7
  <2>5. CASE <<a, b>> \notin Both(p, q)
    <3>1. turns_left'[a][b] = turns_left[a][b] /\ turns_left'[b][a] = turns_left[b][a]
      BY <2>3, <2>5 DEF Both
    <3> QED
      BY <2>1, <3>1, Untouched
  <2> QED
    BY <2>4, <2>5
<1>6. CASE NothingRuns(p, q)
  BY <1>2, <1>6 DEF NothingRuns
<1> QED
  BY <1>2, <1>3, <1>4, <1>5, <1>6 DEF UpdatePair

LEMMA StepOnLadder ==
    ASSUME IInv, [Next]_vars, NEW a \in Players, NEW b \in Players
    PROVE  OnLadder(a, b)
<1>1. CASE UNCHANGED <<type, turns_left>>
  BY <1>1, Untouched
<1>2. ASSUME NEW p \in Players, NEW S, KillPlayer(p, S) PROVE OnLadder(a, b)
  BY <1>2, ArrivalOnLadder DEF KillPlayer
<1>3. ASSUME NEW S, NewPlayer(S) PROVE OnLadder(a, b)
  BY <1>3, ArrivalOnLadder DEF NewPlayer
<1>4. ASSUME NEW p \in Players, NEW q \in Players,
             \/ MakeContact(p, q) \/ CancelPact(p, q) \/ UpdatePair(p, q)
             \/ \E pact \in PactClauses : MakePact(p, q, pact)
      PROVE  OnLadder(a, b)
  BY <1>4, ContactOnLadder, PactOnLadder, CancelOnLadder, UpdateOnLadder
<1>5. ASSUME NEW p \in Players, NEW q \in Players,
             \/ GiveCasusBelli(p, q) \/ InternationalOutrage(p)
             \/ ChangeGovernment(p) \/ StartUpdate \/ NewTurn
      PROVE  OnLadder(a, b)
  BY <1>1, <1>5 DEF GiveCasusBelli, InternationalOutrage, ChangeGovernment,
                    StartUpdate, NewTurn, pactVars
<1>6. CASE UNCHANGED vars
  BY <1>1, <1>6 DEF vars, pactVars
<1> QED
  BY <1>2, <1>3, <1>4, <1>5, <1>6 DEF Next

\* The server keeps two records of a relation and counts them down one after
\* the other, and one handler changes several relations at once; all the
\* same, seen from any one pair of players, each step is one of the ladder of
\* PactLadder, or none.
THEOREM LadderImplemented == Spec => PairsFollowLadder
<1>1. ASSUME Init, NEW p \in Players, NEW q \in Players
      PROVE  Ladder(p, q)!Init
  BY <1>1 DEF Init, Ladder!Init, Clock
<1>2. IInv /\ [Next]_vars =>
          [\A p, q \in Players :
             [Ladder(p, q)!Next]_<<type[p][q], Clock(p, q)>>]_vars
  BY StepOnLadder DEF OnLadder
<1>3. Init => \A p, q \in Players : Ladder(p, q)!Init
  BY <1>1
<1> QED
  BY <1>2, <1>3, Invariant, PTL DEF Spec, PairsFollowLadder

-----------------------------------------------------------------------------
(***************************************************************************)
(* What else a record of a relation keeps.                                 *)
(***************************************************************************)

\* The pacts of the dead are left alone by treaties, by obligations of allies
\* and by update_diplomatics; the players who arrive have none yet.
THEOREM DeadAlwaysKeepPacts == Spec => DeadKeepPacts
<1> DEFINE Keeps(p, q) == type'[p][q] = type[p][q] /\ turns_left'[p][q] = turns_left[p][q]
<1>1. ASSUME IInv, [Next]_vars, NEW a \in Players, NEW b \in Players,
             a \notin alive \cup unborn, b \notin unborn
      PROVE  Keeps(a, b)
  <2>1. CASE UNCHANGED <<type, turns_left>>
    BY <2>1
  <2>2. ASSUME NEW p \in Players, NEW q \in Players, MakeContact(p, q)
        PROVE  Keeps(a, b)
    <3>1. <<a, b>> \notin Both(p, q)
      BY <1>1, <2>2 DEF MakeContact, Both
    <3> QED
      BY <2>2, <3>1, PutEntry DEF MakeContact, SetDiplStateType
  <2>3. ASSUME NEW p \in Players, NEW q \in Players, NEW pact \in PactClauses,
               MakePact(p, q, pact)
        PROVE  Keeps(a, b)
    <3>1. <<a, b>> \notin Both(p, q)
      BY <1>1, <2>3 DEF MakePact, Both
    <3> QED
      BY <2>3, <3>1, PutEntry DEF MakePact, SetDiplStateType
  <2>4. ASSUME NEW p \in Players, NEW q \in Players, CancelPact(p, q)
        PROVE  Keeps(a, b)
    <3> DEFINE new == CancelPactResult(type[p][q])
               leave == IF new = "war" THEN FallOut(p, q) ELSE {}
    <3>1. /\ type' = Put(Put(type, Both(p, q), new), Mutual(leave), "armistice")
          /\ turns_left' = Put(turns_left, Both(p, q) \cup Mutual(leave), TurnsLeft)
          /\ p # q /\ p \in alive /\ q \in alive
      BY <2>4 DEF CancelPact, CanCancel
    <3>2. leave \in {FallOut(p, q), LoveLoveHate(p, q), {}} /\ TypeOK /\ Shape
      BY <1>1 DEF IInv
    <3> HIDE DEF leave, new
    <3>3. \A x, y \in Players : <<x, y>> \in Mutual(leave) => x \in alive
      BY <3>1, <3>2, FallOutAlliances
    <3>4. <<a, b>> \notin Both(p, q) /\ <<a, b>> \notin Mutual(leave)
      BY <1>1, <3>1, <3>3 DEF Both
    <3> QED
      BY <3>1, <3>4, PutEntry
  <2>5. ASSUME NEW S, Arrive(S)
        PROVE  Keeps(a, b)
    <3> DEFINE new == S \cap unborn
               IsNew(pq) == pq[1] # pq[2] /\ {pq[1], pq[2]} \cap new # {}
                                          /\ {pq[1], pq[2]} \cap (unborn \ new) = {}
               Hostile(pq) == {pq[1], pq[2]} \cap NoDiplomacy # {}
               R == {pq \in Pairs : IsNew(pq) /\ Hostile(pq)}
               T == {pq \in Pairs : IsNew(pq)}
    <3>1. type' = Put(type, R, "war") /\ turns_left' = Put(turns_left, T, 0)
      BY <2>5 DEF Arrive, SetDiplStateType
    <3>2. <<a, b>> \notin R /\ <<a, b>> \notin T
      BY <1>1
    <3> HIDE DEF R, T
    <3> QED
      BY <3>1, <3>2, PutEntry
  <2>6. ASSUME NEW p \in Players, NEW q \in Players, UpdatePair(p, q)
        PROVE  Keeps(a, b)
    <3>1. CASE ~ Visits(p, q) \/ NothingRuns(p, q)
      BY <2>1, <2>6, <3>1
      DEF UpdatePair, NothingRuns, PeaceComes, CeasefireRunsOut, CountDown
    <3>2. CASE Visits(p, q)
      <4>1. p # q /\ p \in alive /\ q \in alive
        BY <3>2 DEF Visits
      <4>2. <<a, b>> \notin Both(p, q)
        BY <1>1, <4>1 DEF Both
      <4>3. CASE PeaceComes(p, q)
        BY <4>2, <4>3, PutEntry DEF PeaceComes
      <4>4. CASE CeasefireRunsOut(p, q)
        <5> DEFINE leave == LoveLoveHate(p, q)
        <5>1. /\ type' = Put(Put(type, Both(p, q), "war"), Mutual(leave), "armistice")
              /\ turns_left' = Put(Put(turns_left, Both(p, q), 0), Mutual(leave), TurnsLeft - 1)
          BY <4>4 DEF CeasefireRunsOut
        <5>2. leave \in {FallOut(p, q), LoveLoveHate(p, q), {}} /\ TypeOK /\ Shape
          BY <1>1 DEF IInv
        <5> HIDE DEF leave
        <5>3. \A x, y \in Players : <<x, y>> \in Mutual(leave) => x \in alive
          BY <4>1, <5>2, FallOutAlliances
        <5>4. <<a, b>> \notin Mutual(leave)
          BY <1>1, <5>3
        <5> QED
          BY <4>2, <5>1, <5>4, PutEntry
      <4>5. CASE CountDown(p, q)
        <5>1. UNCHANGED type /\ turns_left' = [turns_left EXCEPT ![p][q] = @ - 1]
          BY <4>5 DEF CountDown
        <5>2. a # p
          BY <1>1, <4>1
        <5> QED
          BY <1>1, <5>1, <5>2 DEF IInv, TypeOK, Matrix
      <4> QED
        BY <2>6, <3>1, <4>3, <4>4, <4>5 DEF UpdatePair
    <3> QED
      BY <3>1, <3>2
  <2>7. ASSUME NEW p \in Players, NEW S, KillPlayer(p, S) PROVE Keeps(a, b)
    BY <2>5, <2>7 DEF KillPlayer
  <2>8. ASSUME NEW S, NewPlayer(S) PROVE Keeps(a, b)
    BY <2>5, <2>8 DEF NewPlayer
  <2>9. ASSUME NEW p \in Players, NEW q \in Players,
               \/ GiveCasusBelli(p, q) \/ InternationalOutrage(p)
               \/ ChangeGovernment(p) \/ StartUpdate \/ NewTurn
        PROVE  Keeps(a, b)
    BY <2>1, <2>9 DEF GiveCasusBelli, InternationalOutrage, ChangeGovernment,
                      StartUpdate, NewTurn, pactVars
  <2>10. CASE UNCHANGED vars
    BY <2>1, <2>10 DEF vars, pactVars
  <2> HIDE DEF Keeps
  <2> QED
    BY <1>1, <2>2, <2>3, <2>4, <2>6, <2>7, <2>8, <2>9, <2>10 DEF Next
<1>2. IInv /\ [Next]_vars =>
          [\A p, q \in Players :
             (p \notin alive \cup unborn /\ q \notin unborn) => Keeps(p, q)]_vars
  BY <1>1
<1> QED
  BY <1>2, Invariant, PTL DEF Spec, DeadKeepPacts

\* srv_start puts team-mates in state "team" behind the back of max_state, so
\* what follows is about games without teams.
NoTeams == \A p, q \in Players : SameTeam(p, q) => p = q

\* An armistice is on its way to a peace that max_state has already seen: it
\* follows a treaty or an alliance.
Seen(ds) == IF ds = "armistice" THEN "peace" ELSE ds
MaxStateSeen ==
    \A p, q \in Players : HowClose(Seen(type[p][q])) <= HowClose(max_state[p][q])

LEMMA HowCloseFacts ==
    /\ \A ds \in DiplStates : HowClose(ds) \in 0 .. 6 /\ HowClose(ds) <= HowClose(Seen(ds))
    /\ \A ds \in DiplStates : Seen(ds) \in DiplStates
    /\ \A ds, old \in DiplStates :
          /\ HowClose(old) <= HowClose(MaxState(old, ds))
          /\ HowClose(Seen(ds)) <= HowClose(MaxState(old, ds))
BY DEF HowClose, Seen, MaxState, Closest, DiplStates

LEMMA SetDiplStateSeen ==
    ASSUME TypeOK, MaxStateSeen, NEW R, NEW ds \in DiplStates, SetDiplStateType(R, ds)
    PROVE  MaxStateSeen'
<1> SUFFICES ASSUME NEW p \in Players, NEW q \in Players
             PROVE  HowClose(Seen(type'[p][q])) <= HowClose(max_state'[p][q])
  BY DEF MaxStateSeen
<1>1. type'[p][q] = IF <<p, q>> \in R THEN ds ELSE type[p][q]
  BY PutEntry DEF SetDiplStateType
<1>2. max_state'[p][q] = IF <<p, q>> \in R THEN MaxState(max_state[p][q], ds)
                         ELSE max_state[p][q]
  BY DEF SetDiplStateType
<1>3. max_state[p][q] \in DiplStates
  BY DEF TypeOK, Matrix
<1> QED
  BY <1>1, <1>2, <1>3, HowCloseFacts DEF MaxStateSeen

\* A step that only changes states to what is no closer than they were.
LEMMA CoolerSeen ==
    ASSUME TypeOK, TypeOK', MaxStateSeen, max_state' = max_state,
           \A p, q \in Players :
               HowClose(Seen(type'[p][q])) <= HowClose(Seen(type[p][q]))
    PROVE  MaxStateSeen'
<1>1. \A p, q \in Players :
          /\ type[p][q] \in DiplStates /\ type'[p][q] \in DiplStates
          /\ max_state[p][q] \in DiplStates
  BY DEF TypeOK, Matrix
<1> QED
  BY <1>1, HowCloseFacts DEF MaxStateSeen

LEMMA SeenStep ==
    ASSUME IInv, IInv', NoTeams, MaxStateSeen, [Next]_vars
    PROVE  MaxStateSeen'
<1>0. TypeOK /\ TypeOK' /\ Shape
  BY DEF IInv
<1>1. CASE UNCHANGED <<type, max_state>>
  BY <1>1 DEF MaxStateSeen
<1>2. ASSUME NEW p \in Players, NEW q \in Players, MakeContact(p, q)
      PROVE  MaxStateSeen'
  <2>1. DefaultDiplState(type, alive, p, q) \in DiplStates
    BY DEF DefaultDiplState, DiplStates
  <2> QED
    BY <1>0, <1>2, <2>1, SetDiplStateSeen DEF MakeContact
<1>3. ASSUME NEW p \in Players, NEW q \in Players, NEW pact \in PactClauses,
             MakePact(p, q, pact)
      PROVE  MaxStateSeen'
  <2>1. PactResult(pact) \in DiplStates
    BY DEF PactResult, PactClauses, DiplStates
  <2> QED
    BY <1>0, <1>3, <2>1, SetDiplStateSeen DEF MakePact
<1>4. ASSUME NEW S, Arrive(S) PROVE MaxStateSeen'
  <2>1. "war" \in DiplStates
    BY DEF DiplStates
  <2> QED
    BY <1>0, <1>4, <2>1, SetDiplStateSeen DEF Arrive
<1>5. ASSUME NEW p \in Players, NEW q \in Players, CancelPact(p, q)
      PROVE  MaxStateSeen'
  <2> DEFINE new == CancelPactResult(type[p][q])
             leave == IF new = "war" THEN FallOut(p, q) ELSE {}
  <2>1. /\ type' = Put(Put(type, Both(p, q), new), Mutual(leave), "armistice")
        /\ max_state' = max_state
        /\ p # q /\ p \in alive /\ q \in alive /\ ~ SameTeam(p, q)
        /\ type[p][q] \notin {"war", "no_contact"}
    BY <1>5 DEF CancelPact, CanCancel
  <2>2. /\ type[p][q] \in {"ceasefire", "armistice", "peace", "alliance"}
        /\ type[q][p] = type[p][q]
    BY <1>0, <2>1 DEF Shape, SidesAgree, TeamsHold, TypeOK, Matrix, DiplStates
  <2>3. HowClose(Seen(new)) <= HowClose(Seen(type[p][q]))
    <3>1. CASE type[p][q] \in {"ceasefire", "armistice"}
      BY <3>1, SMTT(30) DEF CancelPactResult, HowClose, Seen
    <3>2. CASE type[p][q] = "peace"
      BY <3>2 DEF CancelPactResult, HowClose, Seen
    <3>3. CASE type[p][q] = "alliance"
      BY <3>3 DEF CancelPactResult, HowClose, Seen
    <3> QED
      BY <2>2, <3>1, <3>2, <3>3
  <2>4. leave \in {FallOut(p, q), LoveLoveHate(p, q), {}}
    OBVIOUS
  <2> HIDE DEF leave, new
  <2>5. \A x, y \in Players : <<x, y>> \in Mutual(leave) => type[x][y] = "alliance"
    BY <1>0, <2>1, <2>4, FallOutAlliances
  <2>6. ASSUME NEW x \in Players, NEW y \in Players
        PROVE  HowClose(Seen(type'[x][y])) <= HowClose(Seen(type[x][y]))
    <3>1. CASE <<x, y>> \in Mutual(leave)
      <4>1. type[x][y] = "alliance" /\ type'[x][y] = "armistice"
        BY <2>1, <2>5, <3>1, PutEntry
      <4> QED
        BY <4>1 DEF HowClose, Seen
    <3>2. CASE <<x, y>> \in Both(p, q) /\ <<x, y>> \notin Mutual(leave)
      <4>1. type[x][y] = type[p][q]
        BY <2>2, <3>2 DEF Both
      <4>2. type'[x][y] = new
        BY <2>1, <3>2, PutEntry
      <4> QED
        BY <2>3, <4>1, <4>2
    <3>3. CASE <<x, y>> \notin Both(p, q) /\ <<x, y>> \notin Mutual(leave)
      <4>1. type'[x][y] = type[x][y] /\ type[x][y] \in DiplStates
        BY <1>0, <2>1, <3>3, PutEntry DEF TypeOK, Matrix
      <4> QED
        BY <4>1, HowCloseFacts
    <3> QED
      BY <3>1, <3>2, <3>3
  <2> QED
    BY <1>0, <2>1, <2>6, CoolerSeen
<1>6. ASSUME NEW p \in Players, NEW q \in Players, UpdatePair(p, q)
      PROVE  MaxStateSeen'
  <2>1. max_state' = max_state
    BY <1>6 DEF UpdatePair
  <2>2. ASSUME NEW x \in Players, NEW y \in Players
        PROVE  HowClose(Seen(type'[x][y])) <= HowClose(Seen(type[x][y]))
    <3>1. type'[x][y] = type[x][y] =>
              HowClose(Seen(type'[x][y])) <= HowClose(Seen(type[x][y]))
      <4>1. type[x][y] \in DiplStates
        BY <1>0 DEF TypeOK, Matrix
      <4> QED
        BY <4>1, HowCloseFacts
    <3>2. CASE Visits(p, q) /\ PeaceComes(p, q)
      <4>1. /\ type[p][q] = "armistice" /\ type[q][p] = "armistice"
            /\ type' = Put(type, Both(p, q), "peace")
        BY <1>0, <3>2 DEF PeaceComes, Shape, SidesAgree
      <4>2. CASE <<x, y>> \in Both(p, q)
        <5>1. type[x][y] = "armistice"
          BY <4>1, <4>2 DEF Both
        <5>2. type'[x][y] = "peace"
          BY <4>1, <4>2, PutEntry
        <5> QED
          BY <5>1, <5>2 DEF HowClose, Seen
      <4>3. CASE <<x, y>> \notin Both(p, q)
        BY <3>1, <4>1, <4>3, PutEntry
      <4> QED
        BY <4>2, <4>3
    <3>3. CASE Visits(p, q) /\ CeasefireRunsOut(p, q)
      <4> DEFINE leave == LoveLoveHate(p, q)
      <4>1. /\ type[p][q] = "ceasefire" /\ type[q][p] = "ceasefire"
            /\ type' = Put(Put(type, Both(p, q), "war"), Mutual(leave), "armistice")
            /\ p # q /\ p \in alive /\ q \in alive
        BY <1>0, <3>3 DEF CeasefireRunsOut, Visits, Shape, SidesAgree
      <4>2. leave \in {FallOut(p, q), LoveLoveHate(p, q), {}}
        OBVIOUS
      <4> HIDE DEF leave
      <4>3. \A a, b \in Players : <<a, b>> \in Mutual(leave) => type[a][b] = "alliance"
        BY <1>0, <4>1, <4>2, FallOutAlliances
      <4>4. CASE <<x, y>> \in Mutual(leave)
        <5>1. type[x][y] = "alliance" /\ type'[x][y] = "armistice"
          BY <4>1, <4>3, <4>4, PutEntry
        <5> QED
          BY <5>1 DEF HowClose, Seen
      <4>5. CASE <<x, y>> \in Both(p, q) /\ <<x, y>> \notin Mutual(leave)
        <5>1. type[x][y] = "ceasefire"
          BY <4>1, <4>5 DEF Both
        <5>2. type'[x][y] = "war"
          BY <4>1, <4>5, PutEntry
        <5> QED
          BY <5>1, <5>2 DEF HowClose, Seen
      <4>6. CASE <<x, y>> \notin Both(p, q) /\ <<x, y>> \notin Mutual(leave)
        BY <3>1, <4>1, <4>6, PutEntry
      <4> QED
        BY <4>4, <4>5, <4>6
    <3>4. CASE type' = type
      BY <3>1, <3>4
    <3> QED
      BY <1>6, <3>2, <3>3, <3>4 DEF UpdatePair, CountDown, NothingRuns
  <2> QED
    BY <1>0, <2>1, <2>2, CoolerSeen
<1>7. ASSUME NEW p \in Players, NEW S, KillPlayer(p, S) PROVE MaxStateSeen'
  BY <1>4, <1>7 DEF KillPlayer
<1>8. ASSUME NEW S, NewPlayer(S) PROVE MaxStateSeen'
  BY <1>4, <1>8 DEF NewPlayer
<1>9. ASSUME NEW p \in Players,
             \/ \E q \in Players : GiveCasusBelli(p, q)
             \/ InternationalOutrage(p) \/ ChangeGovernment(p)
      PROVE  MaxStateSeen'
  BY <1>1, <1>9 DEF GiveCasusBelli, InternationalOutrage, ChangeGovernment, pactVars
<1>10. CASE StartUpdate \/ NewTurn \/ UNCHANGED vars
  BY <1>1, <1>10 DEF StartUpdate, NewTurn, vars, pactVars
<1> QED
  BY <1>2, <1>3, <1>5, <1>6, <1>7, <1>8, <1>9, <1>10 DEF Next

\* Without teams, max_state is never below the state the pair is in: no
\* handler that sets a state in the struct without set_diplstate_type
\* (cancelled pacts, the end of a countdown) makes a relation closer than it
\* has been.
THEOREM MaxStateAlwaysSane ==
    ASSUME NoTeams
    PROVE  Spec => []MaxStateSane
<1>1. Init => MaxStateSeen
  <2> SUFFICES ASSUME Init, NEW p \in Players, NEW q \in Players
               PROVE  HowClose(Seen(type[p][q])) <= HowClose(max_state[p][q])
    BY DEF MaxStateSeen
  <2>1. type[p][q] = "no_contact" /\ max_state[p][q] = "no_contact"
    BY DEF Init, NoTeams
  <2> QED
    BY <2>1 DEF HowClose, Seen
<1>2. IInv /\ IInv' /\ MaxStateSeen /\ [Next]_vars => MaxStateSeen'
  BY SeenStep
<1>3. IInv /\ MaxStateSeen => MaxStateSane
  <2> SUFFICES ASSUME IInv, MaxStateSeen, NEW p \in Players, NEW q \in Players
               PROVE  HowClose(type[p][q]) <= HowClose(max_state[p][q])
    BY DEF MaxStateSane
  <2>1. type[p][q] \in DiplStates /\ max_state[p][q] \in DiplStates
    BY DEF IInv, TypeOK, Matrix
  <2> QED
    BY <2>1, HowCloseFacts DEF MaxStateSeen
<1> QED
  BY <1>1, <1>2, <1>3, Invariant, PTL DEF Spec
=============================================================================
