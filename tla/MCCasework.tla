------------------------------ MODULE MCCasework ------------------------------
(***************************************************************************)
(* Instances of Casework for TLC: the constants a cfg cannot write.        *)
(***************************************************************************)
EXTENDS Casework, TLC

CONSTANTS f1   \* a finding, to name in the definitions below

(* The owner links one finding, once or named twice in one request. *)
OnceOrTwice == {<<f1>>, <<f1, f1>>}

(* Request slots are alike, and so are reviewers. *)
Alike == Permutations(Reqs) \union Permutations(Reviewers)

=============================================================================
