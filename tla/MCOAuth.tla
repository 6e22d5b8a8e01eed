------------------------------ MODULE MCOAuth ------------------------------
(* Constants of the model-checking instances of OAuth.                     *)
EXTENDS OAuth, TLC

Symmetric ==
  Permutations(Clients) \union Permutations(Grants) \union Permutations(Workers)
=============================================================================
