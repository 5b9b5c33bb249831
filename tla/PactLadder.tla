----------------------------- MODULE PactLadder -----------------------------
(***************************************************************************)
(* What the server promises about the relation of any two players, with    *)
(* no other player in sight: the ladder of states a relation climbs by     *)
(* treaties and descends by cancelling, and the one clock that limits a    *)
(* cease-fire or an armistice.                                             *)
(*                                                                         *)
(* Diplomacy keeps the relation twice, once for each side, changes it from *)
(* handlers that act on other pairs as well, and counts the two copies     *)
(* down in separate steps of a loop; Diplomacy!PairsFollowLadder says that *)
(* none of this shows.                                                     *)
(***************************************************************************)
EXTENDS Integers

CONSTANT TurnsLeft

VARIABLES state, clock

Timed == {"ceasefire", "armistice"}

Init == state \in {"no_contact", "team"} /\ clock = 0

Meet ==
    /\ state = "no_contact"
    /\ state' \in {"war", "peace"}
    /\ clock' = 0

SignCeasefire ==
    /\ state = "war"
    /\ state' = "ceasefire"
    /\ clock' = TurnsLeft

SignPeace ==
    /\ state \in {"war", "ceasefire"}
    /\ state' = "armistice"
    /\ clock' = TurnsLeft

\* There may be an alliance without a contact: an embassy is enough to talk.
SignAlliance ==
    /\ state \notin {"team", "alliance"}
    /\ state' = "alliance"
    /\ clock' = 0

DeclareWar ==
    /\ state \in {"ceasefire", "armistice", "peace"}
    /\ state' = "war"
    /\ clock' = 0

\* An alliance never turns into a war in one step.  When it is given up in
\* the middle of a turn change, that turn counts.
LeaveAlliance ==
    /\ state = "alliance"
    /\ state' = "armistice"
    /\ clock' \in {TurnsLeft, TurnsLeft - 1}

Tick ==
    /\ state \in Timed
    /\ clock > 1
    /\ clock' = clock - 1
    /\ UNCHANGED state

TimeOut ==
    /\ clock = 1
    /\ state' = IF state = "ceasefire" THEN "war" ELSE "peace"
    /\ state \in Timed
    /\ clock' = 0

Next == Meet \/ SignCeasefire \/ SignPeace \/ SignAlliance \/ DeclareWar
          \/ LeaveAlliance \/ Tick \/ TimeOut

Spec == Init /\ [][Next]_<<state, clock>>
=============================================================================
