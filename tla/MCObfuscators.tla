---------------------------- MODULE MCObfuscators ---------------------------
(* Bytes of one bit.                                                       *)
EXTENDS Obfuscators

Bit == {0, 1}
XorBits == [a \in Bit |-> [m \in Bit |-> (a + m) % 2]]
=============================================================================
