--------------------------- MODULE MCIllustration ---------------------------
(* Instances of Illustration for TLC.                                      *)
EXTENDS Illustration, TLC

Symmetry == Permutations(Requests)

OnlyFresh == {FreshPage}
AnyRow == {FreshPage, [status |-> "COMPLETED", image |-> TRUE],
           [status |-> "FAILED", image |-> FALSE]}

=============================================================================
