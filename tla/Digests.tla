-------------------------------- MODULE Digests --------------------------------
(***************************************************************************)
(* The digests in the answers to a handshake: SHA-1 and base64 for the     *)
(* key of versions 7 to 13, MD5 for the keys of version 0.  Bytes are      *)
(* numbers up to 255.                                                      *)
(***************************************************************************)
EXTENDS Words, HttpHeaders

Zeros(n) == [i \in 1 .. n |-> 0]

(* x after Step(x, 1), Step(x, 2) and so on to n, in four lots.            *)
Steps(Step(_, _), x, n) ==
    LET Numbers(lot) == [i \in 1 .. n \div 4 |-> (lot - 1) * (n \div 4) + i]
        Lot(y, lot) == Of(LAMBDA v : FoldLeft(Step, v, Numbers(lot)), y)
    IN  FoldLeft(Lot, x, <<1, 2, 3, 4>>)

-----------------------------------------------------------------------------
(* sha1.hpp.                                                               *)

Initially == <<<<\h6745, \h2301>>, <<\hefcd, \hab89>>, <<\h98ba, \hdcfe>>,
               <<\h1032, \h5476>>, <<\hc3d2, \he1f0>>>>

(* The words of the rounds: those of the block, and 64 made of them.       *)
Schedule(block) ==
    LET Extended(w, i) ==
            Append(w, rol(Differ(Differ(w[i + 13], w[i + 8]), Differ(w[i + 2], w[i])), 1))
    IN  Steps(Extended, [i \in 1 .. 16 |-> BigEndian(Pieces(block, 4)[i])], 64)

Mix(round, b, c, d) ==
    CASE round <= 20 -> Either(Both(b, c), Both(Inverted(b), d))
      [] round \in 41 .. 60 -> Either(Either(Both(b, c), Both(b, d)), Both(c, d))
      [] OTHER -> Differ(b, Differ(c, d))

Val(round) ==
    CASE round <= 20 -> <<\h5a82, \h7999>>
      [] round \in 21 .. 40 -> <<\h6ed9, \heba1>>
      [] round \in 41 .. 60 -> <<\h8f1b, \hbcdc>>
      [] round > 60 -> <<\hca62, \hc1d6>>

innerHash(result, block) ==
    LET Mixed(w) ==
            LET Round(r, round) ==
                    <<Total(<<rol(r[1], 5), Mix(round, r[2], r[3], r[4]), r[5], Val(round), w[round]>>),
                      r[1], rol(r[2], 30), r[3], r[4]>>
            IN  Steps(Round, result, 80)
        Added(r) == [i \in 1 .. 5 |-> Plus(result[i], r[i])]
    IN  Of(Added, Of(Mixed, Schedule(block)))

(* What is left after the full blocks has a bit behind it, and the number  *)
(* of all bits in the last word, of a block of its own if there is no room. *)
Padding(n) == <<128>> \o Zeros((119 - (n % 64)) % 64)

(* The bytes of a sequence of words.                                       *)
Bytes(words) == FlattenSeq([i \in 1 .. Len(words) |-> BytesOfWord(words[i])])

calc(bytes) ==
    LET blocks == bytes \o Padding(Len(bytes)) \o Zeros(4) \o BytesOfWord(<<0, Len(bytes) * 8>>)
    IN  Of(Bytes, FoldLeft(innerHash, Initially, Pieces(blocks, 64)))

-----------------------------------------------------------------------------
(* base64.hpp.                                                             *)

base64_chars == <<
    "A", "B", "C", "D", "E", "F", "G", "H", "I", "J", "K", "L", "M", "N", "O", "P",
    "Q", "R", "S", "T", "U", "V", "W", "X", "Y", "Z", "a", "b", "c", "d", "e", "f",
    "g", "h", "i", "j", "k", "l", "m", "n", "o", "p", "q", "r", "s", "t", "u", "v",
    "w", "x", "y", "z", "0", "1", "2", "3", "4", "5", "6", "7", "8", "9", "+", "/">>

(* Three bytes are four characters; what is missing of the last three is   *)
(* filled up with zeros, and their characters with "=".                    *)
Four(b) ==
    <<b[1] \div 4, ((b[1] % 4) * 16) + (b[2] \div 16), ((b[2] % 16) * 4) + (b[3] \div 64), b[3] % 64>>

base64_encode(input) ==
    LET missing == (3 - (Len(input) % 3)) % 3
        Characters(b) == LET four == Four(b) IN [i \in 1 .. 4 |-> base64_chars[four[i] + 1]]
        Encoded(groups) == FlattenSeq([i \in 1 .. Len(groups) |-> Characters(groups[i])])
        Ended(chars) == SubSeq(chars, 1, Len(chars) - missing) \o SubSeq(<<"=", "=">>, 1, missing)
    IN  Of(Ended, Of(Encoded, Pieces(input \o Zeros(missing), 3)))

-----------------------------------------------------------------------------
(* md5.hpp.  md5_T are its 64 words; the registers change places after each *)
(* operation, so that the operation is always on the first.                *)

md5_T == <<
      <<\hd76a, \ha478>>, <<\he8c7, \hb756>>, <<\h2420, \h70db>>, <<\hc1bd, \hceee>>,
      <<\hf57c, \h0faf>>, <<\h4787, \hc62a>>, <<\ha830, \h4613>>, <<\hfd46, \h9501>>,
      <<\h6980, \h98d8>>, <<\h8b44, \hf7af>>, <<\hffff, \h5bb1>>, <<\h895c, \hd7be>>,
      <<\h6b90, \h1122>>, <<\hfd98, \h7193>>, <<\ha679, \h438e>>, <<\h49b4, \h0821>>,
      <<\hf61e, \h2562>>, <<\hc040, \hb340>>, <<\h265e, \h5a51>>, <<\he9b6, \hc7aa>>,
      <<\hd62f, \h105d>>, <<\h0244, \h1453>>, <<\hd8a1, \he681>>, <<\he7d3, \hfbc8>>,
      <<\h21e1, \hcde6>>, <<\hc337, \h07d6>>, <<\hf4d5, \h0d87>>, <<\h455a, \h14ed>>,
      <<\ha9e3, \he905>>, <<\hfcef, \ha3f8>>, <<\h676f, \h02d9>>, <<\h8d2a, \h4c8a>>,
      <<\hfffa, \h3942>>, <<\h8771, \hf681>>, <<\h6d9d, \h6122>>, <<\hfde5, \h380c>>,
      <<\ha4be, \hea44>>, <<\h4bde, \hcfa9>>, <<\hf6bb, \h4b60>>, <<\hbebf, \hbc70>>,
      <<\h289b, \h7ec6>>, <<\heaa1, \h27fa>>, <<\hd4ef, \h3085>>, <<\h0488, \h1d05>>,
      <<\hd9d4, \hd039>>, <<\he6db, \h99e5>>, <<\h1fa2, \h7cf8>>, <<\hc4ac, \h5665>>,
      <<\hf429, \h2244>>, <<\h432a, \hff97>>, <<\hab94, \h23a7>>, <<\hfc93, \ha039>>,
      <<\h655b, \h59c3>>, <<\h8f0c, \hcc92>>, <<\hffef, \hf47d>>, <<\h8584, \h5dd1>>,
      <<\h6fa8, \h7e4f>>, <<\hfe2c, \he6e0>>, <<\ha301, \h4314>>, <<\h4e08, \h11a1>>,
      <<\hf753, \h7e82>>, <<\hbd3a, \hf235>>, <<\h2ad7, \hd2bb>>, <<\heb86, \hd391>>>>

md5_F(x, y, z) == Either(Both(x, y), Both(Inverted(x), z))
md5_G(x, y, z) == Either(Both(x, z), Both(y, Inverted(z)))
md5_H(x, y, z) == Differ(x, Differ(y, z))
md5_I(x, y, z) == Differ(y, Either(x, Inverted(z)))

md5_SET(r, f, k, s, i, X) ==
    <<r[4], Plus(rol(Total(<<r[1], f, X[k + 1], md5_T[i]>>), s), r[2]), r[2], r[3]>>

Turn(shifts, i) == shifts[((i - 1) % 4) + 1]

Round1(r, i, X) == md5_SET(r, md5_F(r[2], r[3], r[4]), i - 1, Turn(<<7, 12, 17, 22>>, i), i, X)
Round2(r, i, X) == md5_SET(r, md5_G(r[2], r[3], r[4]), (5 * i + 12) % 16, Turn(<<5, 9, 14, 20>>, i), i, X)
Round3(r, i, X) == md5_SET(r, md5_H(r[2], r[3], r[4]), (3 * i + 2) % 16, Turn(<<4, 11, 16, 23>>, i), i, X)
Round4(r, i, X) == md5_SET(r, md5_I(r[2], r[3], r[4]), (7 * i + 9) % 16, Turn(<<6, 10, 15, 21>>, i), i, X)

md5_process(abcd, data) ==
    LET X == [i \in 1 .. 16 |-> LittleEndian(Pieces(data, 4)[i])]
        Operation(r, i) ==
            CASE i <= 16 -> Round1(r, i, X)
              [] i \in 17 .. 32 -> Round2(r, i, X)
              [] i \in 33 .. 48 -> Round3(r, i, X)
              [] i > 48 -> Round4(r, i, X)
        done == Steps(Operation, abcd, 64)
    IN  [i \in 1 .. 4 |-> Plus(abcd[i], done[i])]

md5_init == [count |-> 0, abcd |-> SubSeq(Initially, 1, 4), buf |-> <<>>]

(* Every full block is processed, the rest waits in buf.                   *)
md5_append(pms, data) ==
    LET bytes == pms.buf \o data
        full == Len(bytes) - (Len(bytes) % 64)
    IN  [count |-> pms.count + Len(data),
         abcd |-> FoldLeft(md5_process, pms.abcd, Pieces(SubSeq(bytes, 1, full), 64)),
         buf |-> SubSeq(bytes, full + 1, Len(bytes))]

md5_finish(pms) ==
    LET size == Reverse(BytesOfWord(<<0, pms.count * 8>>)) \o Zeros(4)
        Digest(last) == FlattenSeq([i \in 1 .. 4 |-> Reverse(BytesOfWord(last.abcd[i]))])
    IN  Of(Digest, md5_append(md5_append(pms, Padding(pms.count)), size))

md5_hash_string(s) == md5_finish(md5_append(md5_init, s))
===============================================================================
