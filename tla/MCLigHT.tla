------------------------------ MODULE MCLigHT ------------------------------
(* The tables of libinject, on three slots.                                *)
EXTENDS LigHT

CONSTANTS nil, info

\* Descriptors below the capacity and -1; lines that collide, more of them than slots;
\* descriptors at and beyond the capacity, which collide, with -1 and another bad one.
ThreeUsages == { [keys |-> -1 .. 2, removes |-> TRUE],
                 [keys |-> {0, 1, 3, 4, 6}, removes |-> FALSE],
                 [keys |-> {-2, -1, 0, 1, 3}, removes |-> TRUE] }
=============================================================================
