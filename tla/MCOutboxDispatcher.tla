------------------------- MODULE MCOutboxDispatcher -------------------------
(* OutboxDispatcher for TLC: two events and two dispatchers, given by the
   configuration.  Liveness is checked, so no symmetry is used.            *)
EXTENDS OutboxDispatcher
=============================================================================
