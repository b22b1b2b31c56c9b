----------------------------- MODULE MCHttpLogs -----------------------------
EXTENDS HttpLogs, TLC
=============================================================================
