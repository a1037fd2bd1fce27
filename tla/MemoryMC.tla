------------------------------ MODULE MemoryMC ------------------------------
(* Memory with facts of this organisation and of another, and a turn in    *)
(* this one.                                                               *)
EXTENDS Memory

CONSTANTS here, elsewhere, t1

Narrow == [t \in {t1} |-> {here}]
=============================================================================
