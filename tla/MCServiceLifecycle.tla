------------------------- MODULE MCServiceLifecycle -------------------------
(* Two loops, in the order they are registered; the cfg gives the rest. *)
EXTENDS ServiceLifecycle

CONSTANTS consumer, publisher

MCOrder == << consumer, publisher >>
=============================================================================
