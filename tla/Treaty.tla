------------------------------- MODULE Treaty -------------------------------
(***************************************************************************)
(* Negotiation and execution of treaties on the server: meetings, clauses, *)
(* acceptances, the checks made when each side accepts and the execution   *)
(* of the clauses when both have.  Translated from common/diptreaty.c and  *)
(* server/diplhand.c.                                                      *)
(*                                                                         *)
(* Players hold gold, cities, advances and embassies; the pacts are those  *)
(* of Diplomacy, whose actions happen between the handlers of this module. *)
(* A player negotiates several treaties at once, so what was checked when  *)
(* one side accepted may be gone when the other does.  The module follows  *)
(* one turn; the turn change is in Diplomacy.                              *)
(***************************************************************************)
EXTENDS PactRules, ClauseList, Integers

CONSTANTS
    Cities,         \* city ids
    Techs,          \* advance numbers
    InitGold,       \* the gold of each player at the start
    InitOwner,      \* the owner of each city at the start
    InitKnows,      \* the advances each player knows at the start
    InitEmbassies,  \* pairs <<p, q>>: p has an embassy with q
    Near,           \* for each city, the players with a unit or city next to it
    AdvanceNeeds,   \* the advances both sides of an advance clause must know
    DiplGoldCost,   \* game.server.diplgoldcost, a percentage
    TechLost,       \* who may make a mistake when an advance is transferred:
                    \* "donor" if game.server.techlost_donor > 0, "receiver" if
                    \* game.server.techlost_recv > 0
    Offers,         \* bound: the clauses that players put on the table
    MaxClauses,     \* bound: clauses on all the tables together
    MaxOpen,        \* bound: meetings at the same time
    Learnable,      \* bound: the pairs <<p, t>> where p may find advance t
    Forgettable,    \* bound: the pairs <<p, t>> where p may lose advance t
    Events          \* bound: the kinds of events between the handlers of a turn

Nobody == 0
EventKinds == {"contact", "war", "death", "control", "spend", "conquest",
               "palace"}
ClauseTypes == PactClauses \cup {"embassy", "advance", "gold", "city"}
Clauses == [type : ClauseTypes, from : Players, value : Nat]

\* find_treaty takes the two players of a meeting in any order.
Meetings == {{p, q} : p, q \in Players} \ {{p} : p \in Players}

ASSUME OffersAssumption ==
    Offers \subseteq Clauses /\ Cities \subseteq Nat /\ Techs \subseteq Nat
ASSUME GoldAssumption ==
    InitGold \in [Players -> Nat] /\ DiplGoldCost \in 0 .. 100
ASSUME CitiesAssumption ==
    InitOwner \in [Cities -> Players \cup {Nobody}] /\ Near \in [Cities -> SUBSET Players]
ASSUME TechsAssumption ==
    InitKnows \in [Players -> SUBSET Techs] /\ AdvanceNeeds \subseteq Techs
ASSUME BoundsAssumption ==
    /\ InitEmbassies \subseteq Pairs
    /\ TechLost \subseteq {"donor", "receiver"}
    /\ MaxClauses \in Nat
    /\ MaxOpen \in Nat
    /\ Learnable \cup Forgettable \subseteq Players \X Techs
    /\ Events \subseteq EventKinds

VARIABLES
    type, max_state, turns_left, reason, met, autoCancelled, alive, unborn,
    senate, cursor,     \* see Diplomacy
    open,               \* meetings with a struct Treaty in the list
    clauses,            \* the clauses of each treaty, in the order of the list
    accepted,           \* the players whose accept0 or accept1 is TRUE
    gold,               \* economic.gold
    owner,              \* the owner of each city, or Nobody
    capital,            \* cities with a palace
    knows,              \* advances in state TECH_KNOWN
    embassy,            \* real_embassy: <<p, q>> if p has one with q
    signed              \* history: the clauses each player last accepted

diplVars == <<type, max_state, turns_left, reason, met, autoCancelled, alive,
              unborn, senate, cursor>>
treatyVars == <<open, clauses, accepted, signed>>
wealthVars == <<gold, owner, capital, knows, embassy>>
vars == <<diplVars, treatyVars, wealthVars>>

D == INSTANCE Diplomacy WITH Senators <- {}, Grievances <- {}

TypeOK ==
    /\ D!TypeOK
    /\ open \in SUBSET Meetings
    /\ \A m \in Meetings :
          /\ clauses[m] \in Seq(Clauses)
          /\ accepted[m] \subseteq m
          /\ m \notin open => clauses[m] = <<>> /\ accepted[m] = {}
    /\ gold \in [Players -> Int]
    /\ owner \in [Cities -> Players \cup {Nobody}]
    /\ capital \in SUBSET Cities
    /\ knows \in [Players -> SUBSET Techs]
    /\ embassy \in SUBSET Pairs

Init ==
    /\ D!Init
    /\ open = {}
    /\ clauses = [m \in Meetings |-> <<>>]
    /\ accepted = [m \in Meetings |-> {}]
    /\ signed = [m \in Meetings |-> [p \in Players |-> <<>>]]
    /\ gold = InitGold
    /\ owner = InitOwner
    /\ capital = {}
    /\ knows = InitKnows
    /\ embassy = InitEmbassies

-----------------------------------------------------------------------------
(***************************************************************************)
(* Meetings.                                                               *)
(***************************************************************************)

\* could_meet_with_player.  Players who have met may be in touch, that is have
\* contact_turns_left > 0, or not any more.
CouldMeet(p, q) ==
    /\ {p, q} \subseteq alive
    /\ {p, q} \cap NoDiplomacy = {}
    /\ \/ Both(p, q) \cap embassy # {}
       \/ type[p][q] # "no_contact"

\* handle_diplomacy_init_meeting_req
InitMeeting(p, q) ==
    /\ p # q
    /\ {p, q} \notin open
    /\ CouldMeet(p, q)
    /\ Cardinality(open) < MaxOpen
    /\ open' = open \cup {{p, q}}
    /\ UNCHANGED <<clauses, accepted, signed, diplVars, wealthVars>>

\* treaty_remove for the meetings in S.
Close(S) ==
    /\ open' = open \ S
    /\ clauses' = [m \in Meetings |-> IF m \in S THEN <<>> ELSE clauses[m]]
    /\ accepted' = [m \in Meetings |-> IF m \in S THEN {} ELSE accepted[m]]
    /\ signed' = [m \in Meetings |->
                    IF m \in S THEN [p \in Players |-> <<>>] ELSE signed[m]]

MeetingsOf(S) == {m \in open : m \cap S # {}}

\* Slip: only the meeting of the two players themselves.
RejectBetween(S) ==
    /\ accepted' = [m \in Meetings |-> IF m \subseteq S THEN {} ELSE accepted[m]]
    /\ signed' = [m \in Meetings |->
                    IF m \subseteq S THEN [p \in Players |-> <<>>] ELSE signed[m]]
    /\ UNCHANGED <<open, clauses>>

\* reject_all_treaties for the players in S.
RejectAll(S) ==
    /\ accepted' = [m \in Meetings |-> IF m \in MeetingsOf(S) THEN {} ELSE accepted[m]]
    /\ signed' = [m \in Meetings |->
                    IF m \in MeetingsOf(S) THEN [p \in Players |-> <<>>] ELSE signed[m]]
    /\ UNCHANGED <<open, clauses>>

\* handle_diplomacy_cancel_meeting_req
CancelMeeting(p, q) ==
    /\ {p, q} \in open
    /\ Close({{p, q}})
    /\ UNCHANGED <<diplVars, wealthVars>>

-----------------------------------------------------------------------------
(***************************************************************************)
(* Clauses.                                                                *)
(***************************************************************************)
Other(m, p) == CHOOSE q \in m : q # p

\* The requirements of a clause type in the ruleset; only advances have any.
ReqsActive(m, c) ==
    c.type = "advance" => \A p \in m : AdvanceNeeds \subseteq knows[p]

\* The checks of add_clause before it looks at the clauses there are.
MayOffer(m, c) ==
    /\ c.from \in m
    /\ LET ds == type[c.from][Other(m, c.from)]
       IN  /\ IsPact(c) => c.type # ds
           /\ c.type = "peace" => ds # "armistice"
    /\ c.type = "embassy" => <<Other(m, c.from), c.from>> \notin embassy
    /\ ReqsActive(m, c)

\* Slip: the acceptances of the old clauses are kept.
ChangeClausesOnly(m, cs) ==
    /\ clauses' = [clauses EXCEPT ![m] = cs]
    /\ UNCHANGED <<open, accepted, signed>>

\* Whoever had accepted has to accept again.
ChangeClauses(m, cs) ==
    /\ clauses' = [clauses EXCEPT ![m] = cs]
    /\ accepted' = [accepted EXCEPT ![m] = {}]
    /\ signed' = [signed EXCEPT ![m] = [p \in Players |-> <<>>]]
    /\ UNCHANGED open

Tabled == MapThenSumSet(LAMBDA m : Len(clauses[m]), open)

\* handle_diplomacy_create_clause_req; either side may offer any clause.
CreateClause(m, c) ==
    /\ m \in open
    /\ MayOffer(m, c)
    /\ c \notin ToSet(clauses[m])
    /\ \/ Tabled < MaxClauses
       \/ Len(WithClause(clauses[m], c)) = Len(clauses[m])
    /\ ChangeClauses(m, WithClause(clauses[m], c))
    /\ UNCHANGED <<diplVars, wealthVars>>

\* handle_diplomacy_remove_clause_req
RemoveClause(m, c) ==
    /\ m \in open
    /\ c \in ToSet(clauses[m])
    /\ ChangeClauses(m, WithoutClause(clauses[m], c))
    /\ UNCHANGED <<diplVars, wealthVars>>

-----------------------------------------------------------------------------
(***************************************************************************)
(* handle_diplomacy_accept_treaty_req                                      *)
(***************************************************************************)
CanGiveCity(p, c) == c \in Cities /\ owner[c] = p /\ c \notin capital

\* p, who accepts, can keep what p promises to q.
CanPromise(p, q, c) ==
    /\ c.from = p =>
          /\ ReqsActive({p, q}, c)
          /\ c.type = "embassy" => <<q, p>> \notin embassy
          /\ c.type = "advance" => c.value \in knows[p]
          /\ c.type = "city" => CanGiveCity(p, c.value)
          /\ c.type = "gold" => gold[p] >= c.value
    /\ IsPact(c) => CanMakeTreaty(type, alive, p, q, c.type)

\* p accepts, or takes back an acceptance.
Accept(p, q) ==
    LET m == {p, q} IN
    /\ p # q
    /\ m \in open
    /\ q \notin accepted[m]
    /\ \/ /\ p \in accepted[m]
          /\ accepted' = [accepted EXCEPT ![m] = {}]
          /\ signed' = [signed EXCEPT ![m][p] = <<>>]
       \/ /\ p \notin accepted[m]
          /\ \A c \in ToSet(clauses[m]) : CanPromise(p, q, c)
          /\ accepted' = [accepted EXCEPT ![m] = {p}]
          /\ signed' = [signed EXCEPT ![m][p] = clauses[m]]
    /\ UNCHANGED <<open, clauses, diplVars, wealthVars>>

\* A treaty that has been left behind (see LeaveBehind) is taken back by one.
TakeBack(p, q) ==
    /\ p # q
    /\ {p, q} \in open
    /\ accepted[{p, q}] = {p, q}
    /\ accepted' = [accepted EXCEPT ![{p, q}] = {q}]
    /\ signed' = [signed EXCEPT ![{p, q}][p] = <<>>]
    /\ UNCHANGED <<open, clauses, diplVars, wealthVars>>

\* Slip: gold is not checked again when the treaty is concluded.
StillOwned(p, q, c) ==
    /\ c.type = "city" => CanGiveCity(q, c.value)
    /\ IsPact(c) => CanMakeTreaty(type, alive, p, q, c.type)

\* q, who accepted earlier, still has what q promised to p.  Advances and
\* embassies are not checked again.
StillHas(p, q, c) ==
    /\ c.type = "city" => CanGiveCity(q, c.value)
    /\ c.type = "gold" => gold[q] >= c.value
    /\ IsPact(c) => CanMakeTreaty(type, alive, p, q, c.type)

\* The first clause of q that does not pass the second check, or 0.
Failures(p, q) ==
    LET cs == clauses[{p, q}]
    IN  {i \in DOMAIN cs : /\ cs[i].from = q
                           /\ ~ (ReqsActive({p, q}, cs[i]) /\ StillHas(p, q, cs[i]))}
FirstFailure(p, q) ==
    IF Failures(p, q) = {} THEN 0
    ELSE CHOOSE i \in Failures(p, q) : \A j \in Failures(p, q) : i <= j

\* p is the second to accept.
AcceptsLast(p, q) ==
    /\ p # q
    /\ {p, q} \in open
    /\ accepted[{p, q}] = {q}
    /\ \A c \in ToSet(clauses[{p, q}]) : CanPromise(p, q, c)

\* The second check fails: goto cleanup.
FallThrough(p, q) ==
    /\ AcceptsLast(p, q)
    /\ FirstFailure(p, q) # 0
    /\ ReqsActive({p, q}, clauses[{p, q}][FirstFailure(p, q)])
    /\ Close({{p, q}})
    /\ UNCHANGED <<diplVars, wealthVars>>

\* The requirements of the ruleset fail: the handler returns without cleanup.
LeaveBehind(p, q) ==
    /\ AcceptsLast(p, q)
    /\ FirstFailure(p, q) # 0
    /\ ~ ReqsActive({p, q}, clauses[{p, q}][FirstFailure(p, q)])
    /\ accepted' = [accepted EXCEPT ![{p, q}] = {p, q}]
    /\ signed' = [signed EXCEPT ![{p, q}][p] = clauses[{p, q}]]
    /\ UNCHANGED <<open, clauses, diplVars, wealthVars>>

(***************************************************************************)
(* The execution of the clauses, one after the other.  w holds what they   *)
(* change.                                                                 *)
(***************************************************************************)
World == [type |-> type, max_state |-> max_state, turns_left |-> turns_left,
          met |-> met, gold |-> gold, owner |-> owner, knows |-> knows,
          embassy |-> embassy]

\* set_diplstate_type on the entries R.
WithState(w, R, ds) ==
    [w EXCEPT !.type = Put(@, R, ds),
              !.max_state = [p \in Players |-> [q \in Players |->
                  IF <<p, q>> \in R THEN MaxState(@[p][q], ds) ELSE @[p][q]]]]

\* maybe_make_contact: p meets everybody next to the city.
WithContact(w, p, c) ==
    LET meets(ds) == {r \in (Near[c] \cap alive) \ {p} :
                        /\ w.type[p][r] = "no_contact"
                        /\ DefaultDiplState(w.type, alive, p, r) = ds}
        R(ds) == UNION {Both(p, r) : r \in meets(ds)}
    IN  [WithState(WithState(w, R("war"), "war"), R("peace"), "peace")
            EXCEPT !.met = @ \cup R("war") \cup R("peace")]

\* Slip: the clock is not set.
WithPactOnly(w, p, q, pact) == WithState(w, Both(p, q), PactResult(pact))

WithPact(w, p, q, pact) ==
    LET new == WithState(w, Both(p, q), PactResult(pact))
    IN  IF pact = "alliance" THEN new
        ELSE [new EXCEPT !.turns_left = Put(@, Both(p, q), TurnsLeft)]

\* Slip: the giver gains the embassy.
GiversEmbassy(from, dest) == <<from, dest>>

\* establish_embassy(pdest, pgiver)
NewEmbassy(from, dest) == <<dest, from>>

Received(v) == (v * (100 - DiplGoldCost)) \div 100

\* lost: the mistakes in transferring advances, as pairs of a side and the clause.
\* By its own the giver forgets the advance, by its own the receiver never gets
\* it; one does not depend on the other (tech_transfer).
Executed(w, c, dest, lost) ==
    LET from == c.from
        v == c.value
    IN  CASE c.type = "gold" ->
               [w EXCEPT !.gold[from] = @ - v, !.gold[dest] = @ + Received(v)]
          [] c.type = "city" ->
               WithContact([w EXCEPT !.owner[v] = dest], dest, v)
          [] c.type = "embassy" ->
               [w EXCEPT !.embassy = @ \cup {NewEmbassy(from, dest)}]
          [] c.type = "advance" /\ v \in w.knows[dest] -> w
          [] c.type = "advance" /\ v \notin w.knows[dest] ->
               [w EXCEPT !.knows[dest] = IF <<"receiver", c>> \in lost THEN @ ELSE @ \cup {v},
                         !.knows[from] = IF <<"donor", c>> \in lost THEN @ \ {v} ELSE @]
          [] IsPact(c) -> WithPact(w, from, dest, c.type)

Taught(m) == {c \in ToSet(clauses[m]) : c.type = "advance"}
Mistakes(m) == SUBSET (TechLost \X Taught(m))

\* The advances that x has forgotten by giving them.
ForgottenBy(x, lost) == {s[2].value : s \in {s1 \in lost : s1[1] = "donor" /\ s1[2].from = x}}

Outcome(m, lost) ==
    FoldLeft(LAMBDA w, c : Executed(w, c, Other(m, c.from), lost), World, clauses[m])

Conclude(p, q, lost) ==
    /\ AcceptsLast(p, q)
    /\ FirstFailure(p, q) = 0
    /\ LET w == Outcome({p, q}, lost)
       IN  /\ type' = w.type
           /\ max_state' = w.max_state
           /\ turns_left' = w.turns_left
           /\ met' = w.met
           /\ gold' = w.gold
           /\ owner' = w.owner
           /\ knows' = w.knows
           /\ embassy' = w.embassy
    /\ Close({{p, q}})
    /\ UNCHANGED <<reason, autoCancelled, alive, unborn, senate, cursor, capital>>

-----------------------------------------------------------------------------
(***************************************************************************)
(* What happens between the handlers.                                      *)
(***************************************************************************)
MakeContact(p, q) ==
    /\ "contact" \in Events
    /\ D!MakeContact(p, q)
    /\ UNCHANGED <<treatyVars, wealthVars>>

\* Both sides of each pact that is broken lose what they had accepted.
CancelPact(p, q) ==
    /\ "war" \in Events
    /\ D!CancelPact(p, q)
    /\ LET leave == IF CancelPactResult(type[p][q]) = "war"
                    THEN D!FallOut(p, q) ELSE {}
       IN  RejectAll({p, q} \cup {rs[1] : rs \in leave})
    /\ UNCHANGED wealthVars

\* Slip: the meetings of the dead go on.
KillPlayerOnly(p, heirs) ==
    /\ "death" \in Events
    /\ D!KillPlayer(p, {})
    /\ UNCHANGED <<treatyVars, wealthVars>>

\* The cities of the dead are handed back or destroyed.
KillPlayer(p, heirs) ==
    /\ "death" \in Events
    /\ D!KillPlayer(p, {})
    /\ Close(MeetingsOf({p}))
    /\ owner' = [c \in Cities |-> IF owner[c] = p THEN heirs[c] ELSE owner[c]]
    /\ capital' = {c \in capital : owner[c] # p}
    /\ UNCHANGED <<gold, knows, embassy>>

\* player_set_to_ai_mode and player_set_under_human_control
ChangeControl(p) ==
    /\ "control" \in Events
    /\ MeetingsOf({p}) # {}
    /\ Close(MeetingsOf({p}))
    /\ UNCHANGED <<diplVars, wealthVars>>

Spend(p) ==
    /\ "spend" \in Events
    /\ gold[p] > 0
    /\ gold' = [gold EXCEPT ![p] = @ - 1]
    /\ UNCHANGED <<diplVars, treatyVars, owner, capital, knows, embassy>>

\* Conquest, incitement or destruction.
LoseCity(c, p) ==
    /\ "conquest" \in Events
    /\ owner[c] \notin {p, Nobody}
    /\ owner' = [owner EXCEPT ![c] = p]
    /\ capital' = capital \ {c}
    /\ UNCHANGED <<diplVars, treatyVars, gold, knows, embassy>>

BuildPalace(c) ==
    /\ "palace" \in Events
    /\ owner[c] # Nobody
    /\ capital' = {d \in capital : owner[d] # owner[c]} \cup {c}
    /\ UNCHANGED <<diplVars, treatyVars, gold, owner, knows, embassy>>

\* found_new_tech: by research, in a hut, from a conquered city.
Learn(p, t) ==
    /\ <<p, t>> \in Learnable
    /\ t \notin knows[p]
    /\ knows' = [knows EXCEPT ![p] = @ \cup {t}]
    /\ UNCHANGED <<diplVars, treatyVars, gold, owner, capital, embassy>>

\* Tech upkeep, or a theft with techlost_donor.
Forget(p, t) ==
    /\ <<p, t>> \in Forgettable
    /\ t \in knows[p]
    /\ knows' = [knows EXCEPT ![p] = @ \ {t}]
    /\ UNCHANGED <<diplVars, treatyVars, gold, owner, capital, embassy>>

Negotiate ==
    \/ \E p \in Players : \E q \in Players \ {p} :
          \/ InitMeeting(p, q)
          \/ CancelMeeting(p, q)
          \/ Accept(p, q)
          \/ TakeBack(p, q)
          \/ FallThrough(p, q)
          \/ LeaveBehind(p, q)
          \/ \E lost \in Mistakes({p, q}) : Conclude(p, q, lost)
    \/ \E m \in Meetings, c \in Offers : CreateClause(m, c)
    \/ \E m \in open : \E c \in ToSet(clauses[m]) : RemoveClause(m, c)

Next ==
    \/ Negotiate
    \/ \E p, q \in Players : MakeContact(p, q) \/ CancelPact(p, q)
    \/ \E p \in Players :
          \/ \E heirs \in [Cities -> (alive \ {p}) \cup {Nobody}] : KillPlayer(p, heirs)
          \/ ChangeControl(p)
          \/ Spend(p)
          \/ \E t \in Techs : Learn(p, t) \/ Forget(p, t)
    \/ \E c \in Cities :
          \/ \E p \in Players \cup {Nobody} : LoseCity(c, p)
          \/ BuildPalace(c)

Spec == Init /\ [][Next]_vars

-----------------------------------------------------------------------------
(***************************************************************************)
(* Properties.                                                             *)
(***************************************************************************)

\* An acceptance counts only for the very clauses its player accepted: it is
\* withdrawn by every change of the clauses, whoever makes it, and never
\* carried over into another meeting of the same two players.
AcceptedAsSigned ==
    \A m \in Meetings : \A p \in accepted[m] :
        p \in m /\ m \in open /\ signed[m][p] = clauses[m]

\* No treaty lets a player pay gold twice, however many treaties promise it and
\* whatever is spent after the first acceptance.
GoldNeverNegative == \A p \in Players : gold[p] >= 0

\* A treaty is executed whole or not at all: when it is, each giver had what
\* was promised and each receiver gets it, and nobody loses an advance but by a
\* mistake in giving it.  An advance arrives unless its receiver makes a mistake
\* (techlost_recv), or both sides promise it to each other: giving it back may
\* lose it again (techlost_donor).
PromisesKept ==
    [][\A p \in Players : \A q \in Players \ {p} :
       \A lost \in Mistakes({p, q}) : Conclude(p, q, lost) =>
          /\ \A c \in ToSet(clauses[{p, q}]) :
                LET dest == Other({p, q}, c.from)
                IN  /\ c.type = "gold" => gold[c.from] >= c.value
                    /\ c.type = "city" => owner[c.value] = c.from /\ owner'[c.value] = dest
                    /\ c.type = "advance" =>
                          \/ c.value \in knows'[dest]
                          \/ <<"receiver", c>> \in lost
                          \/ [type |-> "advance", from |-> dest, value |-> c.value]
                                \in ToSet(clauses[{p, q}])
                    /\ c.type = "embassy" => <<dest, c.from>> \in embassy'
                    /\ IsPact(c) => type'[p][q] = PactResult(c.type)
          /\ \A x \in Players : knows[x] \subseteq knows'[x] \cup ForgottenBy(x, lost)]_vars

\* Nobody negotiates with the dead, or with players who have no diplomacy.
MeetingsOfTheLiving ==
    \A m \in open : m \subseteq alive \ NoDiplomacy

\* A treaty that both have accepted is executed or cancelled, as both are told:
\* it is not left in the list, where it would stop all meetings of the two.
NoTreatyLeftBehind ==
    \A m \in open : ~ m \subseteq accepted[m]

\* A broken pact voids what its two players have accepted from anybody, those
\* who break it because of an alliance included.
BrokenPactsVoidAcceptances ==
    [][\A p, q \in Players :
          (HowClose(type'[p][q]) < HowClose(type[p][q]) /\ clauses' = clauses)
            => \A m \in MeetingsOf({p}) : accepted'[m] = {}]_vars

\* No treaty, whatever was checked when it was accepted, leads to a triad.
NoLoveLoveHate == D!NoLoveLoveHate

\* What negotiation does to the pacts is what Diplomacy says of MakePact: the
\* pact is allowed at the moment it is made, not only when it was promised.
RefinesDiplomacy == D!Spec
=============================================================================
