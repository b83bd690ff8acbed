------------------------------ MODULE MCLogin ------------------------------
EXTENDS Login
\* Two accounts; account b's id is not the one of dev mode.
MCAccountID == [a \in Accounts |-> IF a = "alice" THEN 1 ELSE 2]
\* Two tokens and one game connection, and one token and two, through a fault
\* and a restart; two and two through a fault.
Scene(auths, games, most, starts) ==
    [auth |-> auths, game |-> games, faults |-> most, restarts |-> starts]
MCScenes == {Scene(AuthConns, {g}, 1, 1) : g \in {CHOOSE g \in GameConns : TRUE}}
            \cup {Scene({1}, GameConns, 1, 1), Scene(AuthConns, GameConns, 1, 0)}
=============================================================================
