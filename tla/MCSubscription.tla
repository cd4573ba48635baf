--------------------------- MODULE MCSubscription ---------------------------
(* Small instances of Subscription for TLC.                                *)
EXTENDS Subscription

CONSTANTS n1, n2

=============================================================================
