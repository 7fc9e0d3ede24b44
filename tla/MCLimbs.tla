------------------------------ MODULE MCLimbs -------------------------------
EXTENDS Limbs

\* Limbs of 3 bits, shifts by 1 and by 2.
ThreeBitCounts == {<<2, 4>>, <<4, 2>>}
=============================================================================
