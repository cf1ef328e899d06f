------------------------------ MODULE Encodings ------------------------------
(* How the plug-ins make a key's two bytes of a number (utils.h): a UInt16 that is  *)
(* copied into the key with its low byte first.                                     *)
EXTENDS Integers

Word == 65536
LittleEndian(v) == <<v % 256, v \div 256>>

SwapValue(v) == (v % 256) * 256 + v \div 256

\* Mutant: the bytes are not swapped.
EncodeFp2e_Little(v) == ((v * 2^14) \div 1000) % Word

\* Of thousandths: millivolts, for a key in volts.
EncodeFp2e(v) == SwapValue(((v * 2^14) \div 1000) % Word)

\* ~value is an int: a negative voltage becomes 2^32 - n.  (2^32 is 4294967 * 1000 + 296.)
EncodeSp4b(v) ==
  LET n == (v + 1) * 2^11
  IN  SwapValue((IF v < 2^15 THEN (v * 2^11) \div 1000
                 ELSE 4294967 - n \div 1000 - (IF n % 1000 > 296 THEN 1 ELSE 0)) % Word)

\* Of whole units.
EncodeFpe2(v) == SwapValue((v * 4) % Word)
=============================================================================
