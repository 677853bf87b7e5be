-------------------------- MODULE MCStoryPipeline --------------------------
(***************************************************************************)
(* StoryPipeline for TLC: one room, one or two jobs, two workers.          *)
(***************************************************************************)
EXTENDS StoryPipeline, TLC

Symmetry == Permutations(Workers)

=============================================================================
