--------------------------- MODULE MCSubscription ---------------------------
EXTENDS Subscription, TLC
=============================================================================
