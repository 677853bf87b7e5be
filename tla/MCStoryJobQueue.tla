-------------------------- MODULE MCStoryJobQueue --------------------------
(***************************************************************************)
(* StoryJobQueue for TLC: two jobs, two workers, two results, the deployed *)
(* three attempts.  No symmetry: liveness is checked with it.              *)
(***************************************************************************)
EXTENDS StoryJobQueue

=============================================================================
