------------------------------- MODULE MCSse --------------------------------
(* Small instances of Sse for TLC.                                         *)
EXTENDS Sse, TLC

Symmetric ==
  Permutations(Sid) \cup Permutations(Post) \cup Permutations(Stream)
    \cup Permutations(Sender)

=============================================================================
