------------------------------ MODULE MCSignIn ------------------------------
(* SignIn on small instances.                                               *)
EXTENDS SignIn, TLC

Symmetric == Permutations(Request) \cup Permutations(Token) \cup Permutations(Name)
=============================================================================
