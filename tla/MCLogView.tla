------------------------------ MODULE MCLogView -----------------------------
EXTENDS LogView
=============================================================================
