----------------------------- MODULE PactRules -----------------------------
(***************************************************************************)
(* The rules of diplomatic states that hold for any two players: what      *)
(* cancelling a pact leads to, who may cancel, who may sign, and when an   *)
(* alliance is allowed.  Translated from common/player.c and the helpers   *)
(* at the top of server/diplhand.c.                                        *)
(*                                                                         *)
(* The operators take the matrix of states as an argument, so the module   *)
(* has no variable and is shared by Diplomacy and Treaty.                  *)
(***************************************************************************)
EXTENDS Naturals, FiniteSets

CONSTANTS
    N,              \* players are the indices 1 .. N, in iteration order
    Team,           \* the team of each player
    NoDiplomacy,    \* players with EFT_NO_DIPLOMACY: barbarians and animals
    Unborn,         \* players that do not exist when the game starts
    TurnsLeft       \* TURNS_LEFT, 16 in the code

Players == 1 .. N
Pairs == Players \X Players

\* A value for each ordered pair: m[p][q] is what p holds about q.
Matrix(S) == [Players -> [Players -> S]]

DiplStates == {"no_contact", "war", "ceasefire", "armistice", "peace",
               "alliance", "team"}
PactClauses == {"ceasefire", "peace", "alliance"}

ASSUME NAssumption == N \in Nat \ {0}
ASSUME TurnsLeftAssumption == TurnsLeft \in Nat \ {0, 1}
ASSUME PlayersAssumption == NoDiplomacy \subseteq Unborn /\ Unborn \subseteq Players

SameTeam(p, q) == Team[p] = Team[q]

\* Barbarians and the rebels of a civil war get a team of their own.
ASSUME TeamAssumption ==
    \A p \in Unborn, q \in Players : SameTeam(p, q) => p = q

-----------------------------------------------------------------------------
\* cancel_pact_result
CancelPactResult(ds) ==
    CASE ds \in {"war", "armistice", "ceasefire", "peace"} -> "war"
      [] ds = "alliance"   -> "armistice"
      [] ds = "team"       -> "team"
      [] ds = "no_contact" -> "no_contact"

\* The table how_close of dst_closest.
HowClose(ds) ==
    CASE ds = "no_contact" -> 0
      [] ds = "war"        -> 1
      [] ds = "ceasefire"  -> 2
      [] ds = "armistice"  -> 3
      [] ds = "peace"      -> 4
      [] ds = "alliance"   -> 5
      [] ds = "team"       -> 6

Closest(a, b) == IF HowClose(a) < HowClose(b) THEN b ELSE a

\* Slip: an armistice is recorded as an armistice.
MaxStateAsIs(old, ds) == Closest(ds, old)

\* What set_diplstate_type records in max_state: an armistice counts as the
\* peace it turns into.
MaxState(old, ds) ==
    Closest(IF ds = "armistice" THEN "peace" ELSE ds, old)

-----------------------------------------------------------------------------
(***************************************************************************)
(* type[p][q] is player_diplstate_get(p, q)->type.                         *)
(***************************************************************************)
Allied(type, p, q) == p = q \/ type[p][q] \in {"alliance", "team"}

\* The players r, alive and distinct from p and q, that are allied with both.
CommonAllies(type, alive, p, q) ==
    {r \in alive \ {p, q} : Allied(type, r, p) /\ Allied(type, r, q)}

\* p is at war with no ally of q; "never met" does not count as war.
IsValidAlliance(type, alive, p, q) ==
    \A r \in alive \ {p, q} : type[p][r] = "war" => ~ Allied(type, q, r)

\* Slip: the senate is not asked.
CanCancelUnasked(type, reason, alive, senate, p, q) ==
    /\ p # q
    /\ type[p][q] \notin {"war", "no_contact"}
    /\ ~ SameTeam(p, q)
    /\ {p, q} \subseteq alive

\* pplayer_can_cancel_treaty(p, q) = DIPL_OK.  senate is the set of players
\* with EFT_HAS_SENATE and without EFT_NO_ANARCHY.
CanCancel(type, reason, alive, senate, p, q) ==
    /\ p # q
    /\ type[p][q] \notin {"war", "no_contact"}
    /\ ~ SameTeam(p, q)
    /\ {p, q} \subseteq alive
    /\ p \in senate => reason[p][q] > 0

\* pplayer_can_make_treaty(p, q, pact) = DIPL_OK
CanMakeTreaty(type, alive, p, q, pact) ==
    /\ ~ SameTeam(p, q)
    /\ {p, q} \cap NoDiplomacy = {}
    /\ pact \in PactClauses
    /\ pact = "ceasefire" => type[p][q] = "war"
    /\ pact = "peace" => type[p][q] \in {"war", "ceasefire"}
    /\ pact = "alliance" => /\ IsValidAlliance(type, alive, p, q)
                            /\ IsValidAlliance(type, alive, q, p)
    /\ pact # type[p][q]

\* Slip: peace begins at once.
PactResultAtOnce(pact) == pact

\* The state a pact clause leads to: peace begins as an armistice.
PactResult(pact) == IF pact = "peace" THEN "armistice" ELSE pact

\* get_default_diplstate: the state of two players who have just met.
DefaultDiplState(type, alive, p, q) ==
    IF CommonAllies(type, alive, p, q) # {} THEN "peace" ELSE "war"

\* Slip: only the side of the caller is set.
OneSide(p, q) == {<<p, q>>}

\* The two entries of the matrix that describe one pair of players.
Both(p, q) == {<<p, q>>, <<q, p>>}

\* Assign v to the entries R of a matrix.
Put(f, R, v) ==
    [p \in Players |-> [q \in Players |-> IF <<p, q>> \in R THEN v ELSE f[p][q]]]
=============================================================================
