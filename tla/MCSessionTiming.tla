-------------------------- MODULE MCSessionTiming --------------------------
(***************************************************************************)
(* Small instances of SessionTiming. A repair interval is two thirds of a  *)
(* checkpoint instead of half of one, so that a boundary can fall          *)
(* between an estimated start and the end of what was settled before it.   *)
(***************************************************************************)
EXTENDS SessionProperties
=============================================================================
