----------------------------- MODULE ClauseList -----------------------------
(***************************************************************************)
(* The clause list of a struct Treaty: add_clause and remove_clause of     *)
(* common/diptreaty.c, which the server and the C clients share.  A clause *)
(* is a record [type, from, value].                                        *)
(***************************************************************************)
EXTENDS Naturals, Sequences, SequencesExt

IsPact(c) == c.type \in {"ceasefire", "peace", "alliance"}

\* Slip: a second gold clause is appended.
ReplacesPactOnly(c, old) == IsPact(c) /\ IsPact(old)

\* There is one pact clause, and one gold clause of each giver: the new one
\* takes the place of the old.
Replaces(c, old) ==
    \/ IsPact(c) /\ IsPact(old)
    \/ c.type = "gold" /\ old.type = "gold" /\ c.from = old.from

\* The new pact keeps the giver of the old one.
Replacement(c, old) ==
    IF IsPact(c) THEN [old EXCEPT !.type = c.type] ELSE c

WithClause(cs, c) ==
    IF \E old \in ToSet(cs) : Replaces(c, old)
    THEN [i \in DOMAIN cs |->
            IF Replaces(c, cs[i]) THEN Replacement(c, cs[i]) ELSE cs[i]]
    ELSE Append(cs, c)

\* A clause is in the list once.
WithoutClause(cs, c) == RemoveAt(cs, CHOOSE i \in DOMAIN cs : cs[i] = c)
=============================================================================
