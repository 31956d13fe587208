----------------------------- MODULE SessionLock -----------------------------
(***************************************************************************)
(* What the GlobalDataFeeds session broker promises to the rest of the     *)
(* program, free of Redis, leases and clocks: the right to talk to the     *)
(* provider belongs to at most one process, and it changes hands only      *)
(* through a moment at which nobody has it.                                *)
(***************************************************************************)
CONSTANTS Process, Nobody

VARIABLE right          \* the process that may open the provider socket

TypeOK == right \in Process \union {Nobody}

Init == right = Nobody

Take(p) ==
    /\ right = Nobody
    /\ right' = p

GiveUp ==
    /\ right # Nobody
    /\ right' = Nobody

Next == GiveUp \/ \E p \in Process : Take(p)

Spec == Init /\ [][Next]_right

==============================================================================
