--------------------------- MODULE MCRobloxGames ---------------------------
EXTENDS RobloxGames

CONSTANTS tycoon, obby, lobby, level, map

\* A game of two maps and a game of one.
MCUniverseOf == [p \in {lobby, level, map} |-> IF p = map THEN obby ELSE tycoon]
MCLists == {{}, {tycoon}}
=============================================================================
