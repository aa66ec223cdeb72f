-------------------------- MODULE MCChatDocuments --------------------------
(* Small instances of ChatDocuments for TLC. *)
EXTENDS ChatDocuments, TLC

CONSTANTS r1, r2, c1, c2, u1, u2

\* No definition names a request, a chat or a user.
DocumentSymmetry ==
  Permutations({r1, r2}) \cup Permutations({c1, c2}) \cup Permutations({u1, u2})

=============================================================================
