--------------------------------- MODULE Utf8 ---------------------------------
(***************************************************************************)
(* websocketpp's streaming UTF-8 validator (utf8_validator.hpp): a table   *)
(* that sorts bytes into types and a table of what each state makes of     *)
(* each type.  The code point that the code also collects is not read.     *)
(***************************************************************************)
EXTENDS Naturals, Sequences, SequencesExt

utf8_accept == 0
utf8_reject == 1

(* The first 256 entries of utf8d.                                         *)
TypeOfByte(b) ==
    CASE b \in 0 .. 127 -> 0
      [] b \in 128 .. 143 -> 1
      [] b \in 144 .. 159 -> 9
      [] b \in 160 .. 191 -> 7
      [] b \in {192, 193} \cup 245 .. 255 -> 8
      [] b \in 194 .. 223 -> 2
      [] b = 224 -> 10
      [] b = 237 -> 4
      [] b \in 225 .. 239 \ {237} -> 3
      [] b = 240 -> 11
      [] b \in 241 .. 243 -> 6
      [] b = 244 -> 5

(* The rows s0 to s8 of utf8d, up to the last type there is.               *)
Transitions == <<
    <<0, 1, 2, 3, 5, 8, 7, 1, 1, 1, 4, 6>>,
    <<1, 1, 1, 1, 1, 1, 1, 1, 1, 1, 1, 1>>,
    <<1, 0, 1, 1, 1, 1, 1, 0, 1, 0, 1, 1>>,
    <<1, 2, 1, 1, 1, 1, 1, 2, 1, 2, 1, 1>>,
    <<1, 1, 1, 1, 1, 1, 1, 2, 1, 1, 1, 1>>,
    <<1, 2, 1, 1, 1, 1, 1, 1, 1, 2, 1, 1>>,
    <<1, 1, 1, 1, 1, 1, 1, 3, 1, 3, 1, 1>>,
    <<1, 3, 1, 1, 1, 1, 1, 3, 1, 3, 1, 1>>,
    <<1, 3, 1, 1, 1, 1, 1, 1, 1, 1, 1, 1>> >>

decode(state, byte) == Transitions[state + 1][TypeOfByte(byte) + 1]

(* The state after a range of bytes; what is rejected stays rejected.      *)
decodeRange(state, bytes) == FoldLeft(decode, state, bytes)

validate(bytes) == decodeRange(utf8_accept, bytes) = utf8_accept

-----------------------------------------------------------------------------
(***************************************************************************)
(* What UTF-8 is: a sequence of code points, each in its only encoding.    *)
(***************************************************************************)
LengthOfLead(b) ==
    CASE b < 128 -> 1
      [] b \in 192 .. 223 -> 2
      [] b \in 224 .. 239 -> 3
      [] b \in 240 .. 247 -> 4
      [] OTHER -> 0

CodePoint(s) ==
    LET bits == <<128, 32, 16, 8>>[Len(s)]
    IN  FoldLeft(LAMBDA v, b : v * 64 + b - 128, s[1] % bits, Tail(s))

IsCodePoint(s) ==
    /\ Len(s) = LengthOfLead(s[1])
    /\ \A k \in 2 .. Len(s) : s[k] \in 128 .. 191
    /\ CodePoint(s) >= <<0, 128, 2048, 65536>>[Len(s)]
    /\ CodePoint(s) \notin 55296 .. 57343
    /\ CodePoint(s) <= 1114111

IsUtf8(s) ==
    LET upTo[n \in 0 .. Len(s)] ==
            n = 0 \/ \E k \in 1 .. 4 : /\ k <= n
                                       /\ IsCodePoint(SubSeq(s, n - k + 1, n))
                                       /\ upTo[n - k]
    IN  upTo[Len(s)]

(* A text of which more may be to come.                                    *)
Continuations == UNION {[1 .. k -> {128, 143, 144, 159, 160, 191}] : k \in 0 .. 3}

IsStartOfUtf8(s) == \E rest \in Continuations : IsUtf8(s \o rest)
===============================================================================
