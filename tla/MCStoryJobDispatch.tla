------------------------- MODULE MCStoryJobDispatch -------------------------
(***************************************************************************)
(* StoryJobDispatch for TLC: two rows, an old and a new publisher process, *)
(* as few tokens as the assumption allows.  No symmetry: liveness is       *)
(* checked with it.                                                        *)
(***************************************************************************)
EXTENDS StoryJobDispatch

=============================================================================
