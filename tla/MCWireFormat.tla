---------------------------- MODULE MCWireFormat ----------------------------
(***************************************************************************)
(* A small instance of WireFormat for TLC: zero, the largest value, and a  *)
(* value with a different digit in each byte.                              *)
(***************************************************************************)
EXTENDS WireFormat

Digits16 == {0, 1 + 2 * Byte, Byte * Byte - 1}

Digits32 ==
    {0, 1 + Byte * (2 + Byte * (3 + Byte * 4)), Byte * Byte * Byte * Byte - 1}

Hash == 1 + Byte * (2 + Byte * (3 + Byte * 4))
=============================================================================
