---------------------------- MODULE MCHttpStack -----------------------------
(* Small instances of HttpStack for TLC.                                   *)
EXTENDS HttpStack, TLC

Symmetric == Permutations(Request) \cup Permutations(Token)

=============================================================================
