----------------------------- MODULE MCDiplomacy -----------------------------
(***************************************************************************)
(* Instances of Diplomacy for TLC: who is in a team with whom, and which   *)
(* casus belli are explored.                                               *)
(***************************************************************************)
EXTENDS Diplomacy

EveryoneAlone == [p \in Players |-> p]
FirstTwoTogether == [p \in Players |-> IF p = 1 THEN 2 ELSE p]

NoGrievances == {}
OneAgainstTwo == {<<1, 2>>}

\* Nothing reads max_state, so two states that differ in it alone behave alike.
\* Its type, which is always right, makes TLC evaluate it.
WithoutMaxState ==
    <<type, turns_left, reason, met, autoCancelled, playerVars, cursor,
      max_state \in Matrix(DiplStates)>>
=============================================================================
