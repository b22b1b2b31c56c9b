---------------------------- MODULE MCLocomotive ----------------------------
EXTENDS Locomotive, TLC
=============================================================================
