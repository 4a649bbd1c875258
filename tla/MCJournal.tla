----------------------------- MODULE MCJournal -----------------------------
(* Journal on two small instances: with a power loss, and with process     *)
(* exits.  A behaviour explores one of them and leaves the variables of    *)
(* the other alone.                                                        *)
EXTENDS Journal

CONSTANTS k1, k2, o1

VARIABLES part, x1, x2, x3, x4, x5, x6, x7, x8, x9, x10

rest == <<x1, x2, x3, x4, x5, x6, x7, x8, x9, x10>>

Exits == INSTANCE Journal WITH
    Keys <- {k1, k2}, Objects <- {o1}, SegmentCells <- 5, MaxMutations <- 2, MaxSequence <- 2,
    MaxGeneration <- 2, MaxCells <- 8, MaxLosses <- 0, file <- x1, stable <- x2, anchors <- x3, fixed <- x4,
    mem <- x5, job <- x6, acked <- x7, wanted <- x8, served <- x9, losses <- x10

PartsInit == Init /\ Exits!Init /\ part \in {"power", "exits"}

PartsNext ==
    \/ part = "power" /\ Next /\ UNCHANGED <<part, rest>>
    \/ part = "exits" /\ Exits!Next /\ UNCHANGED <<part, vars>>

PartsSpec == PartsInit /\ [][PartsNext]_<<part, vars, rest>>

-----------------------------------------------------------------------------
\* Exits between any two writes of the log, its checkpoints and its anchors:
\* the container opens again with every acknowledged commit, and what it
\* serves changes as the abstract store does.
ExitsRecovered == Exits!Recovers
=============================================================================
