----------------------------- MODULE MCKillLane -----------------------------
EXTENDS KillLane

MCLimits == {0, 1}
MCGrants == {0, 1}
MCLeaves == {0, 2}
=============================================================================
