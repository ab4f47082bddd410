-------------------------- MODULE MCRoomPlacement --------------------------
(***************************************************************************)
(* Instances of RoomPlacement for TLC; the cfgs give every constant its     *)
(* value.                                                                   *)
(***************************************************************************)
EXTENDS RoomPlacement
=============================================================================
