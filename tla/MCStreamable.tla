---------------------------- MODULE MCStreamable ----------------------------
(* Small instances of Streamable for TLC.                                  *)
EXTENDS Streamable, TLC

Symmetric ==
  Permutations(Sid) \cup Permutations(Post) \cup Permutations(Stream)
    \cup Permutations(Deleter) \cup Permutations(Sender)

=============================================================================
