---------------------------- MODULE MCSubmission ----------------------------
(* Submission with small sets of submissions. *)
EXTENDS Submission, TLC

Symmetry == Permutations(Subs)
=============================================================================
