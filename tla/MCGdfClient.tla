---------------------------- MODULE MCGdfClient ----------------------------
(* Constants of GdfClient for TLC. *)
EXTENDS GdfClient

CONSTANTS a, b, s1, s2, s3

TwoCalls   == {a, b}
TwoSocks   == {s1, s2}
ThreeSocks == {s1, s2, s3}
=============================================================================
