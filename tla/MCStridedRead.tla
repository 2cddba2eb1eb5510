-------------------------- MODULE MCStridedRead --------------------------
(* The gang shapes for StridedRead.                                        *)
EXTENDS StridedRead

AllShapes == {<<1, 1>>, <<4, 1>>, <<4, 4>>, <<9, 1>>, <<16, 4>>}
TwoByTwo == {<<4, 1>>}
FourGangs == {<<4, 4>>}
===========================================================================
