----------------------------- MODULE MCStpCrash -----------------------------
EXTENDS StpCrash, MCStp
=============================================================================
