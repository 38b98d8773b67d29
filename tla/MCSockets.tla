----------------------------- MODULE MCSockets -----------------------------
(* Instances of Sockets for TLC.                                            *)
EXTENDS Sockets, TLC

CONSTANTS t1, t2, f1, p1, p2, nil
=============================================================================
