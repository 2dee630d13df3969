------------------------------ MODULE MCSocial ------------------------------
(* Social on a small instance: two accounts and a free name, two calls. *)
EXTENDS Social, TLC

CONSTANTS a, b, c, s1, s2

SocialSymmetry == Permutations({a, b}) \cup Permutations({s1, s2})
=============================================================================
