----------------------------- MODULE MCMetering -----------------------------
EXTENDS Metering

MCAddress == 1..2
MCForeigners == {{},{2}}
=============================================================================
