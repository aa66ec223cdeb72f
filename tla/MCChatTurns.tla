---------------------------- MODULE MCChatTurns ----------------------------
(* Small instances of ChatTurns for TLC. *)
EXTENDS ChatTurns, TLC

CONSTANTS r1, r2, r3

\* Requests are interchangeable: no definition names one of them.
RequestSymmetry == Permutations({r1, r2, r3})

=============================================================================
