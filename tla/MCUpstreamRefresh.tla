------------------------- MODULE MCUpstreamRefresh -------------------------
(* Two subscriptions that may list the same nodes; the scheduler refreshes    *)
(* one of them, the other is refreshed when the administrator asks for it.   *)
EXTENDS UpstreamRefresh, TLC
=============================================================================
