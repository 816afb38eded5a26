---------------------------- MODULE MCRootlessJb -----------------------------
(* Two or three names for jailbreak directories, all alike. *)
EXTENDS RootlessJb, TLC

Names == Permutations(JbNames)
=============================================================================
