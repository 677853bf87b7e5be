----------------------------- MODULE MCRoomGame -----------------------------
(***************************************************************************)
(* RoomGame for TLC: few people, few rounds, the totals next to a          *)
(* threshold.                                                              *)
(***************************************************************************)
EXTENDS RoomGame, TLC

Symmetry == Permutations(People)

=============================================================================
