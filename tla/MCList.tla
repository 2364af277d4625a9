------------------------------- MODULE MCList -------------------------------
EXTENDS List

MCIndices == {-2, -1, 0, 1, 7}
MCOthers == {<<1>>, <<1, 2, 1, 2>>}
MCFactors == {-1, 0, 2}
=============================================================================
