----------------------------- MODULE MCUniverse -----------------------------
(* Constants of Universe for TLC. *)
EXTENDS Universe

CONSTANTS old, new, token1, p1

Names == {old, new}
OneToken == {token1}
OneProcess == {p1}
=============================================================================
