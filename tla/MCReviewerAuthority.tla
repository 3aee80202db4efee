------------------------ MODULE MCReviewerAuthority ------------------------
(* ReviewerAuthority on a small instance.  Reviewer ids, principals and     *)
(* invitations are only compared, so states that differ by a permutation    *)
(* of them are the same to every property.                                 *)
EXTENDS ReviewerAuthority, TLC

Symmetry ==
  Permutations(Reviewers) \cup Permutations(Principals) \cup Permutations(Invitations)
=============================================================================
