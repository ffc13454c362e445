----------------------------- MODULE MCFifoBuffer ------------------------------
(* A buffer of two or three bytes, of two values.                         *)
EXTENDS FifoBuffer

InputValue == UNION {[1 .. n -> Byte] : n \in 0 .. 2}
LengthValue == 0 .. 2
===============================================================================
