---------------------------- MODULE MCTreatySync ----------------------------
(***************************************************************************)
(* Instances of TreatySync for TLC.                                        *)
(***************************************************************************)
EXTENDS TreatySync

Clause(t, p, v) == [type |-> t, from |-> p, value |-> v]

\* Two C clients, with pacts that are replaced in place.
TwoC == [web |-> {},
         offers |-> {Clause("peace", 1, 0), Clause("alliance", 2, 0), Clause("gold", 2, 1)}]

\* A web client and a C client, with one clause of each giver and type.
Mixed == [web |-> {1},
          offers |-> {Clause("embassy", 1, 0), Clause("city", 2, 7)}]

\* The same with two advances of one giver.
TwoAdvances == [web |-> {1},
                offers |-> {Clause("advance", 1, 5), Clause("advance", 1, 6)}]

ConsistentSetups == {TwoC, Mixed}
AdvanceSetups == {TwoAdvances}
=============================================================================
