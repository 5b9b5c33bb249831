----------------------------- MODULE MCPublite ------------------------------
\* Instances of Publite for TLC.
EXTENDS Publite

\* One type of games, a server of which is to be free.
MCTypes == <<"singleplayer">>
MCCapacity == [t \in {"singleplayer"} |-> 1]

\* One server with crashes and reports that fail; three of which one is used.
Bound(s, u, f) ==
    [servers |-> s, inUse |-> u, failures |-> f]
MCBounds == {Bound(1, 1, 2), Bound(2, 1, 0), Bound(3, 0, 0)}
=============================================================================
