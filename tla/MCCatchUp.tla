----------------------------- MODULE MCCatchUp -----------------------------
(* Constants of CatchUp for TLC. *)
EXTENDS CatchUp

CONSTANTS full, none, a1, u

Symbols  == {full, none}
NoData   == {none}
OneAdmin == {a1}
OneSlot  == {u}
=============================================================================
