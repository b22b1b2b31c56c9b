---------------------------- MODULE MCDispatcher ----------------------------
EXTENDS Dispatcher, TLC
=============================================================================
