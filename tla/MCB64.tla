------------------------------- MODULE MCB64 -------------------------------
EXTENDS B64

\* Bit patterns that tell every shift and mask of a quantum apart.
MCByte == {0, 107, 255}
=============================================================================
