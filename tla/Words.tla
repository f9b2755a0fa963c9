--------------------------------- MODULE Words ---------------------------------
(***************************************************************************)
(* Unsigned integers of 32 bits, as pairs of halves of 16: the integers of *)
(* the digests wrap around and lose no bit.                                *)
(***************************************************************************)
EXTENDS Bitwise, Naturals, Sequences, SequencesExt

Half == 65536
Zero == <<0, 0>>

Both(x, y) == <<x[1] & y[1], x[2] & y[2]>>
Either(x, y) == <<x[1] | y[1], x[2] | y[2]>>
Differ(x, y) == <<x[1] ^^ y[1], x[2] ^^ y[2]>>
Inverted(x) == <<Half - 1 - x[1], Half - 1 - x[2]>>

Plus(x, y) ==
    <<(x[1] + y[1] + ((x[2] + y[2]) \div Half)) % Half, (x[2] + y[2]) % Half>>

Total(words) == FoldLeft(Plus, Zero, words)

(* A rotation to the left: by a half, and by fewer bits than that.         *)
Rotated(x, n) ==
    <<((x[1] * 2 ^ n) % Half) + (x[2] \div 2 ^ (16 - n)), ((x[2] * 2 ^ n) % Half) + (x[1] \div 2 ^ (16 - n))>>

rol(x, n) == IF n < 16 THEN Rotated(x, n) ELSE Rotated(<<x[2], x[1]>>, n - 16)

(* Four bytes as a word, the first the highest, and back.                  *)
BigEndian(b) == <<b[1] * 256 + b[2], b[3] * 256 + b[4]>>
BytesOfWord(x) == <<x[1] \div 256, x[1] % 256, x[2] \div 256, x[2] % 256>>
LittleEndian(b) == BigEndian(Reverse(b))

(* A sequence in pieces of n.                                              *)
Pieces(s, n) == [i \in 1 .. Len(s) \div n |-> SubSeq(s, (i - 1) * n + 1, i * n)]
===============================================================================
