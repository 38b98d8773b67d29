------------------------------- MODULE MCCall -------------------------------
(* Instances of Call for TLC.                                               *)
EXTENDS Call

AllFunctions == DOMAIN Directions

\* One buffer, empty or not, two and three of different lengths.
SomeVectors == {<<0>>, <<1>>, <<4>>, <<1, 3>>, <<2, 0, 2>>}
=============================================================================
