-------------------------- MODULE MCOffsetController --------------------------
(* One unit of offset either way, one unit per tick and two per move:       *)
(* estimates ask for more than the limits allow on one side, for little on  *)
(* the other, and an acquisition may hand over an offset so far out that    *)
(* one move does not bring it back.                                         *)
EXTENDS OffsetController

MCTarget   == {-2, 1}
MCAcquired == {0, 4}
=============================================================================
