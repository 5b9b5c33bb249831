----------------------------- MODULE Diplomacy -----------------------------
(***************************************************************************)
(* The diplomatic states between all the players of a game, as the server  *)
(* keeps them: first contact, pacts signed and cancelled, casus belli,     *)
(* governments with a senate, deaths, barbarians and civil wars, and the   *)
(* countdown of cease-fires and armistices at the end of a turn.           *)
(*                                                                         *)
(* The server has one thread and handles one packet at a time, so each     *)
(* handler is one action.  The exception is update_diplomatics: its two    *)
(* nested loops over the players are one step per ordered pair, because a  *)
(* cease-fire that runs out at one pair changes what later pairs see, and  *)
(* units thrown out of a tile in between may make first contact.           *)
(***************************************************************************)
EXTENDS PactRules, Integers

CONSTANTS
    Senators,       \* players whose government may have a senate
    Grievances      \* bound: the pairs <<victim, offender>> that may get a
                    \* casus belli

ASSUME SenatorsAssumption == Senators \subseteq Players
ASSUME GrievancesAssumption == Grievances \subseteq Pairs

Idle == <<0, 0>>

VARIABLES
    type,           \* struct player_diplstate: type
    max_state,      \* ... max_state
    turns_left,     \* ... turns_left
    reason,         \* ... has_reason_to_cancel
    met,            \* pairs with first_contact_turn = game.info.turn
    autoCancelled,  \* pairs with auto_cancel_turn = game.info.turn
    alive,          \* players with is_alive
    unborn,         \* players not created yet
    senate,         \* players the senate can stop
    cursor          \* the pair update_diplomatics is at, or Idle

pactVars == <<type, max_state, turns_left, reason, met, autoCancelled>>
playerVars == <<alive, unborn, senate>>
vars == <<pactVars, playerVars, cursor>>

TypeOK ==
    /\ type \in Matrix(DiplStates)
    /\ max_state \in Matrix(DiplStates)
    /\ turns_left \in Matrix(0 .. TurnsLeft)
    /\ reason \in Matrix(0 .. 2)
    /\ met \in SUBSET Pairs
    /\ autoCancelled \in SUBSET Pairs
    /\ alive \in SUBSET Players
    /\ unborn \in SUBSET Unborn
    /\ senate \in SUBSET Senators
    /\ cursor \in Pairs \cup {Idle}

\* srv_start sets DS_TEAM between team-mates straight in the struct, without
\* set_diplstate_type: max_state stays what player_diplstate_defaults gave it.
Init ==
    /\ type = [p \in Players |-> [q \in Players |->
                 IF p # q /\ SameTeam(p, q) THEN "team" ELSE "no_contact"]]
    /\ max_state = [p \in Players |-> [q \in Players |-> "no_contact"]]
    /\ turns_left = [p \in Players |-> [q \in Players |-> 0]]
    /\ reason = [p \in Players |-> [q \in Players |-> 0]]
    /\ met = {}
    /\ autoCancelled = {}
    /\ alive = Players \ Unborn
    /\ unborn = Unborn
    /\ senate = {}
    /\ cursor = Idle

-----------------------------------------------------------------------------
(***************************************************************************)
(* Packet handlers and game events between two turn changes.               *)
(***************************************************************************)

\* set_diplstate_type for the entries R, which must be a union of Both(...).
SetDiplStateType(R, ds) ==
    /\ type' = Put(type, R, ds)
    /\ max_state' = [p \in Players |-> [q \in Players |->
                        IF <<p, q>> \in R THEN MaxState(max_state[p][q], ds)
                                         ELSE max_state[p][q]]]

\* make_contact: only the first contact changes the diplomatic state.  It may
\* also happen while update_diplomatics runs.
MakeContact(p, q) ==
    /\ p # q
    /\ {p, q} \subseteq alive
    /\ type[p][q] = "no_contact"
    /\ SetDiplStateType(Both(p, q), DefaultDiplState(type, alive, p, q))
    /\ met' = met \cup Both(p, q)
    /\ UNCHANGED <<turns_left, reason, autoCancelled, playerVars, cursor>>

\* The execution of a treaty whose only clause is a pact, in
\* handle_diplomacy_accept_treaty_req.  Module Treaty has the negotiation.
MakePact(p, q, pact) ==
    /\ cursor = Idle
    /\ {p, q} \subseteq alive
    /\ CanMakeTreaty(type, alive, p, q, pact)
    /\ SetDiplStateType(Both(p, q), PactResult(pact))
    /\ turns_left' = IF pact = "alliance" THEN turns_left
                     ELSE Put(turns_left, Both(p, q), TurnsLeft)
    /\ UNCHANGED <<reason, met, autoCancelled, playerVars, cursor>>

(***************************************************************************)
(* handle_diplomacy_cancel_pact.  A war makes the common allies of both    *)
(* sides act: one who is not in the aggressor's team is given a reason and *)
(* leaves the aggressor; a team-mate of the aggressor must leave the       *)
(* victim, and is not given a reason.  Each of them cancels an alliance,   *)
(* which ends in an armistice and has no fall-out of its own, and touches  *)
(* entries no other common ally looks at, so the loop over the players is  *)
(* one simultaneous assignment.                                            *)
(***************************************************************************)
LeavesAggressor(r, p) == ~ SameTeam(r, p)
LeavesVictim(r, p, q) ==
    SameTeam(r, p) /\ CanCancel(type, reason, alive, senate, r, q)

\* The pairs <<r, s>> where r cancels its alliance with s because p declares
\* war on q.
FallOut(p, q) ==
    {rs \in Pairs :
        /\ rs[1] \in CommonAllies(type, alive, p, q)
        /\ \/ rs[2] = p /\ LeavesAggressor(rs[1], p)
           \/ rs[2] = q /\ LeavesVictim(rs[1], p, q)}

\* Both entries of every pair in R.
Mutual(R) == {pq \in Pairs : pq \in R \/ <<pq[2], pq[1]>> \in R}

\* A request breaks one level of pact, whichever clause the packet names.
CancelPact(p, q) ==
    /\ cursor = Idle
    /\ CanCancel(type, reason, alive, senate, p, q)
    /\ LET new   == CancelPactResult(type[p][q])
           leave == IF new = "war" THEN FallOut(p, q) ELSE {}
       IN  /\ type' = Put(Put(type, Both(p, q), new), Mutual(leave), "armistice")
           /\ turns_left' = Put(turns_left, Both(p, q) \cup Mutual(leave), TurnsLeft)
           /\ reason' = Put(reason, {<<p, q>>} \cup leave, 0)
    /\ UNCHANGED <<max_state, met, autoCancelled, playerVars, cursor>>

\* action_give_casus_belli
GiveCasusBelli(offender, victim) ==
    /\ cursor = Idle
    /\ offender # victim
    /\ <<victim, offender>> \in Grievances
    /\ {offender, victim} \cap unborn = {}
    /\ reason' = [reason EXCEPT ![victim][offender] = 2]
    /\ UNCHANGED <<type, max_state, turns_left, met, autoCancelled, playerVars, cursor>>

\* The same with international outrage: everybody else gets a reason.
InternationalOutrage(offender) ==
    LET victims == {pq \in Pairs : pq[2] = offender /\ pq[1] \notin unborn \cup {offender}}
    IN  /\ cursor = Idle
        /\ offender \notin unborn
        /\ victims # {}
        /\ victims \subseteq Grievances
        /\ reason' = Put(reason, victims, 2)
        /\ UNCHANGED <<type, max_state, turns_left, met, autoCancelled, playerVars, cursor>>

\* A revolution ends, or a wonder with EFT_NO_ANARCHY comes or goes.
ChangeGovernment(p) ==
    /\ cursor = Idle
    /\ p \in Senators \cap alive
    /\ senate' = IF p \in senate THEN senate \ {p} ELSE senate \cup {p}
    /\ UNCHANGED <<pactVars, alive, unborn, cursor>>

(***************************************************************************)
(* New players.  Both split_player (the rebels of a civil war) and         *)
(* barbarian_initial_wars set the state with everyone who is in the game.  *)
(* Barbarians who are dead are revived with the wars they had.             *)
(***************************************************************************)
Newcomers(living) == unborn \cup (NoDiplomacy \ living)

Arrive(S) ==
    LET new == S \cap unborn
        IsNew(pq) == pq[1] # pq[2] /\ {pq[1], pq[2]} \cap new # {}
                                   /\ {pq[1], pq[2]} \cap (unborn \ new) = {}
        Hostile(pq) == {pq[1], pq[2]} \cap NoDiplomacy # {}
    IN  /\ SetDiplStateType({pq \in Pairs : IsNew(pq) /\ Hostile(pq)}, "war")
        /\ turns_left' = Put(turns_left, {pq \in Pairs : IsNew(pq)}, 0)
        /\ reason' = Put(reason, {pq \in Pairs : IsNew(pq)}, 0)
        /\ unborn' = unborn \ S

\* civil_war or create_barbarian_player
NewPlayer(S) ==
    /\ cursor = Idle
    /\ S \subseteq Newcomers(alive)
    /\ S # {}
    /\ Arrive(S)
    /\ alive' = alive \cup S
    /\ UNCHANGED <<met, autoCancelled, senate, cursor>>

\* kill_player: the pacts of the dead are kept; the cities left may start a
\* civil war and go to barbarians.
KillPlayer(p, S) ==
    /\ cursor = Idle
    /\ p \in alive
    /\ S \subseteq Newcomers(alive \ {p})
    /\ Arrive(S)
    /\ alive' = (alive \ {p}) \cup S
    /\ UNCHANGED <<met, autoCancelled, senate, cursor>>

-----------------------------------------------------------------------------
(***************************************************************************)
(* update_diplomatics, called from end_turn.                               *)
(***************************************************************************)
StartUpdate ==
    /\ cursor = Idle
    /\ cursor' = <<1, 1>>
    /\ UNCHANGED <<pactVars, playerVars>>

\* Slip: the loop ends after its first row.
FollowingInRow(pq) == IF pq[2] < N THEN <<pq[1], pq[2] + 1>> ELSE Idle

\* The order of the two nested loops.
Following(pq) ==
    IF pq[2] < N THEN <<pq[1], pq[2] + 1>>
    ELSE IF pq[1] < N THEN <<pq[1] + 1, 1>> ELSE Idle

Minus1(n) == IF n = 0 THEN 0 ELSE n - 1

\* Slip: the common allies are forgotten when a cease-fire runs out.
LoveLoveHateIgnored(p, q) == {}

\* The alliances common allies give up when the cease-fire of p and q runs
\* out: with both, or only with the one who is not in their team.
LoveLoveHate(p, q) ==
    {rs \in Pairs :
        /\ rs[1] \in CommonAllies(type, alive, p, q)
        /\ rs[2] \in {p, q}
        /\ ~ SameTeam(rs[1], rs[2])}

\* turns_left reaches 0 at the tick of the pair the loop visits first.
PeaceComes(p, q) ==
    /\ type[p][q] = "armistice"
    /\ <<p, q>> \notin autoCancelled
    /\ turns_left[p][q] <= 1
    /\ type' = Put(type, Both(p, q), "peace")
    /\ turns_left' = Put(turns_left, Both(p, q), 0)
    /\ reason' = [reason EXCEPT ![p][q] = Minus1(@)]
    /\ UNCHANGED autoCancelled

CeasefireRunsOut(p, q) ==
    /\ type[p][q] = "ceasefire"
    /\ turns_left[p][q] = 1
    /\ LET leave == LoveLoveHate(p, q)
       IN  /\ type' = Put(Put(type, Both(p, q), "war"), Mutual(leave), "armistice")
           /\ turns_left' = Put(Put(turns_left, Both(p, q), 0),
                                Mutual(leave), TurnsLeft - 1)
           /\ reason' = Put([reason EXCEPT ![p][q] = Minus1(@)], leave, 0)
           /\ autoCancelled' = autoCancelled \cup Mutual(leave)

\* Slip: armistices do not count down.
CountingCeasefires(p, q) == type[p][q] = "ceasefire"

\* An armistice counts down unless it was made in this very loop; a
\* cease-fire always does.
Counting(p, q) ==
    \/ type[p][q] = "ceasefire"
    \/ type[p][q] = "armistice" /\ <<p, q>> \notin autoCancelled

CountDown(p, q) ==
    /\ Counting(p, q)
    /\ IF type[p][q] = "ceasefire" THEN turns_left[p][q] # 1
                                   ELSE turns_left[p][q] > 1
    /\ turns_left' = [turns_left EXCEPT ![p][q] = @ - 1]
    /\ reason' = [reason EXCEPT ![p][q] = Minus1(@)]
    /\ UNCHANGED <<type, autoCancelled>>

NothingRuns(p, q) ==
    /\ ~ Counting(p, q)
    /\ reason' = [reason EXCEPT ![p][q] = Minus1(@)]
    /\ UNCHANGED <<type, turns_left, autoCancelled>>

\* Slip: the loop visits unordered pairs.
VisitsOnce(p, q) == p < q /\ {p, q} \subseteq alive /\ <<p, q>> \notin met

\* Slip: the loop visits the dead.
VisitsTheDead(p, q) == p # q /\ <<p, q>> \notin met

\* The loop skips the dead, pairs that met this turn, and does nothing to the
\* state of a player with itself.
Visits(p, q) == p # q /\ {p, q} \subseteq alive /\ <<p, q>> \notin met

LastPair == <<N, N>>

UpdatePair(p, q) ==
    /\ cursor = <<p, q>>
    /\ cursor # LastPair
    /\ \/ ~ Visits(p, q) /\ UNCHANGED <<type, turns_left, reason, autoCancelled>>
       \/ Visits(p, q) /\ PeaceComes(p, q)
       \/ Visits(p, q) /\ CeasefireRunsOut(p, q)
       \/ Visits(p, q) /\ CountDown(p, q)
       \/ Visits(p, q) /\ NothingRuns(p, q)
    /\ cursor' = Following(cursor)
    /\ UNCHANGED <<max_state, met, playerVars>>

\* Slip: the turn of the first contact is not compared with the new turn.
NewTurnKeepsMet ==
    /\ cursor = LastPair
    /\ cursor' = Idle
    /\ UNCHANGED <<type, max_state, turns_left, reason, met, autoCancelled, playerVars>>

\* After the last pair, game_advance_year: in the new turn no pair has met and
\* none has been cancelled.
NewTurn ==
    /\ cursor = LastPair
    /\ met' = {}
    /\ autoCancelled' = {}
    /\ cursor' = Idle
    /\ UNCHANGED <<type, max_state, turns_left, reason, playerVars>>

-----------------------------------------------------------------------------
Next ==
    \/ \E p, q \in Players :
          \/ MakeContact(p, q)
          \/ \E pact \in PactClauses : MakePact(p, q, pact)
          \/ CancelPact(p, q)
          \/ GiveCasusBelli(p, q)
          \/ UpdatePair(p, q)
    \/ \E p \in Players :
          \/ InternationalOutrage(p)
          \/ ChangeGovernment(p)
          \/ \E S \in SUBSET Newcomers(alive \ {p}) : KillPlayer(p, S)
    \/ \E S \in SUBSET Newcomers(alive) : NewPlayer(S)
    \/ StartUpdate
    \/ NewTurn

Spec == Init /\ [][Next]_vars

\* The server ends a turn when every player is done or the timeout is over,
\* and then runs update_diplomatics to its end.
TurnsPass == WF_vars(StartUpdate) /\ WF_vars(NewTurn)
                /\ \A p, q \in Players : WF_vars(UpdatePair(p, q))

FairSpec == Spec /\ TurnsPass

-----------------------------------------------------------------------------
(***************************************************************************)
(* Properties.                                                             *)
(***************************************************************************)

\* The two sides of every pair agree on its state and on the best state it
\* ever had, whichever handler changed it and on whose behalf (sanitycheck.c,
\* check_players).
SidesAgree ==
    \A p, q \in Players : /\ type[p][q] = type[q][p]
                          /\ max_state[p][q] = max_state[q][p]

\* Outside update_diplomatics both sides of a cease-fire or an armistice count
\* the same number of turns, and at least one: a cease-fire only ends when
\* its counter is exactly 0, so one that starts at 0 or on one side only would
\* last forever (sanitycheck.c, check_players).
ClocksAgree ==
    cursor = Idle =>
        \A p, q \in Players :
            type[p][q] \in {"ceasefire", "armistice"} =>
                turns_left[p][q] = turns_left[q][p] /\ turns_left[p][q] > 0

\* Team-mates stay in state "team", and nobody else is ever in it: no treaty,
\* declaration of war or obligation of an ally changes a team.
TeamsHold ==
    \A p, q \in Players : type[p][q] = "team" <=> p # q /\ SameTeam(p, q)

\* The 'love-love-hate' triad of is_valid_alliance and sanitycheck.c: no
\* player is allied with two others who are at war.  It must survive first
\* contacts, cease-fires that run out, wars among allies and deaths.
NoLoveLoveHate ==
    \A p, q, r \in alive :
        (Allied(type, p, q) /\ Allied(type, p, r)) => type[q][r] # "war"

(***************************************************************************)
(* What the proofs of the properties above rest on.                        *)
(***************************************************************************)

\* The counter of a cease-fire or an armistice never stands at 0.
Running ==
    \A p, q \in Players :
        type[p][q] \in {"ceasefire", "armistice"} => turns_left[p][q] > 0

\* The loop of update_diplomatics is past the pair and has counted it.
Passed(p, q) ==
    p < cursor[1] \/ (p = cursor[1] /\ q < cursor[2])
Counted(p, q) ==
    IF Passed(p, q) /\ Visits(p, q) /\ Counting(p, q) THEN 1 ELSE 0

\* The two counters of a pair differ by what the loop has counted so far.
CountersInStep ==
    \A p, q \in Players :
        type[p][q] \in {"ceasefire", "armistice"} =>
            turns_left[p][q] + Counted(p, q) = turns_left[q][p] + Counted(q, p)

\* Both sides are marked together, nobody has a relation with himself or with
\* a player who is still to come, and barbarians have none but wars.
Shape ==
    /\ SidesAgree
    /\ TeamsHold
    /\ \A p, q \in Players :
          /\ <<p, q>> \in met <=> <<q, p>> \in met
          /\ <<p, q>> \in autoCancelled <=> <<q, p>> \in autoCancelled
    /\ \A p \in Players : type[p][p] = "no_contact"
    /\ alive \cap unborn = {}
    /\ \A p \in unborn, q \in Players : type[p][q] = "no_contact"
    /\ \A p \in NoDiplomacy, q \in Players : type[p][q] \in {"no_contact", "war"}

IInv == TypeOK /\ Shape /\ Running /\ CountersInStep

\* max_state is never below the present state (sanitycheck.c, with
\* valid_dst_closest).
MaxStateSane ==
    \A p, q \in Players : p # q =>
        HowClose(type[p][q]) <= HowClose(max_state[p][q])

\* Two players whose senates have no complaint about each other do not go
\* to war out of a lasting pact, whatever other players do to them: only a
\* cease-fire can run out.
SenatesKeepPeace ==
    [][\A p, q \in senate :
          (/\ type[p][q] \in {"armistice", "peace", "alliance"}
           /\ reason[p][q] = 0
           /\ reason[q][p] = 0) => type'[p][q] # "war"]_vars

\* The pacts of a dead player are left alone by treaties, obligations of
\* allies and the turn change.
DeadKeepPacts ==
    [][\A p, q \in Players :
          (p \notin alive \cup unborn /\ q \notin unborn) =>
              type'[p][q] = type[p][q] /\ turns_left'[p][q] = turns_left[p][q]]_vars

\* A cease-fire comes to an end, as long as both players live.
CeasefireEnds ==
    \A p, q \in Players :
        (type[p][q] = "ceasefire" /\ {p, q} \subseteq alive)
            ~> (type[p][q] # "ceasefire" \/ ~ {p, q} \subseteq alive)

\* An armistice becomes peace, war or an alliance.
ArmisticeEnds ==
    \A p, q \in Players :
        (type[p][q] = "armistice" /\ {p, q} \subseteq alive)
            ~> (type[p][q] # "armistice" \/ ~ {p, q} \subseteq alive)

\* Every pair of players follows the ladder of PactLadder; the later of the
\* two counters is the clock of the pair.
Clock(p, q) ==
    IF type[p][q] \notin {"ceasefire", "armistice"} THEN 0
    ELSE IF turns_left[p][q] < turns_left[q][p] THEN turns_left[q][p]
                                                ELSE turns_left[p][q]

Ladder(p, q) == INSTANCE PactLadder WITH state <- type[p][q], clock <- Clock(p, q)

\* Ladder(p, q)!Spec for every pair, with the quantifier inside.
PairsFollowLadder ==
    /\ \A p, q \in Players : Ladder(p, q)!Init
    /\ [][\A p, q \in Players :
            [Ladder(p, q)!Next]_<<type[p][q], Clock(p, q)>>]_vars
=============================================================================
