------------------------------ MODULE MCTreaty ------------------------------
(***************************************************************************)
(* Instances of Treaty for TLC: what the players own and what they offer.  *)
(***************************************************************************)
EXTENDS Treaty

Rome == 7
Writing == 1
Pottery == 2

OneForgetsWriting == {<<1, Writing>>}
TwoFindsPottery == {<<2, Pottery>>}

Alone == [p \in Players |-> p]
Everyone == {pq \in Pairs : pq[1] < pq[2]}
WithOne == {<<1, 2>>, <<1, 3>>}
OneAndTwo == {<<1, 2>>}

OneRich == [p \in Players |-> IF p = 1 THEN 2 ELSE 0]
NoGold == [p \in Players |-> 0]
OnesCities == [c \in Cities |-> 1]
NobodyNear == [c \in Cities |-> {}]
ThreeNear == [c \in Cities |-> {1, 3}]
OneKnowsAll == [p \in Players |-> IF p = 1 THEN Techs ELSE {}]
WritingKnown == [p \in Players |-> IF p = 1 THEN Techs ELSE {Writing} \cap Techs]

Offer(t, p, v) == [type |-> t, from |-> p, value |-> v]

\* Gold, a city and an advance that player 1 can promise to both others.
Wealth == {Offer("gold", 1, 2), Offer("gold", 1, 1), Offer("city", 1, Rome),
           Offer("advance", 1, Pottery), Offer("embassy", 2, 0)}
Pacts == {Offer("alliance", 1, 0), Offer("ceasefire", 2, 0)}
CityForAlliance == {Offer("city", 1, Rome), Offer("alliance", 1, 0)}
Pottery4Two == {Offer("advance", 1, Pottery)}

\* Nothing reads max_state, and its type is always right.
WithoutMaxState ==
    <<type, turns_left, reason, met, autoCancelled, alive, unborn, senate, cursor,
      treatyVars, wealthVars, max_state \in Matrix(DiplStates)>>
=============================================================================
