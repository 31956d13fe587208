---------------------------- MODULE MCGdfSession ----------------------------
(* Constants of GdfSession for TLC. *)
EXTENDS GdfSession

CONSTANTS w1, w2

Workers == {w1, w2}
=============================================================================
