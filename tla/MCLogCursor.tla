---------------------------- MODULE MCLogCursor ----------------------------
EXTENDS LogCursor, TLC
=============================================================================
