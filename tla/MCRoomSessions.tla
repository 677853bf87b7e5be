--------------------------- MODULE MCRoomSessions ---------------------------
(***************************************************************************)
(* RoomSessions for TLC: a host and one seat, three requests.              *)
(***************************************************************************)
EXTENDS RoomSessions, TLC

Symmetry == Permutations(Requests)

=============================================================================
