--------------------------- MODULE MCSessionStore ---------------------------
(* Two users and three tokens: two devices of one user and a login of      *)
(* another one, or three devices.  Users and tokens are interchangeable.   *)
EXTENDS SessionStore, TLC

Symmetry == Permutations(Tokens) \cup Permutations(Users)
=============================================================================
