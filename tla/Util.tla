---------------------------------- MODULE Util ----------------------------------
(***************************************************************************)
(* What Util (source_files/Util.cpp) makes of a text: its tokens.  A text  *)
(* is a sequence of symbols, and a number is one of them.                  *)
(***************************************************************************)
EXTENDS Naturals, Sequences

(* From every symbol that begins a token to the last before a delimiter.   *)
Tokenize(str, delimiter) ==
    LET IsInside(i, j) == \A n \in i .. j : str[n] # delimiter
        Begins(i)      == IsInside(i, i) /\ (i = 1 \/ str[i - 1] = delimiter)
        Ends(j)        == j = Len(str) \/ str[j + 1] = delimiter
        pos(lastPos)   == CHOOSE j \in lastPos .. Len(str) : Ends(j) /\ IsInside(lastPos, j)
        tokens[i \in 0 .. Len(str)] ==
            IF i = 0 THEN <<>>
            ELSE IF Begins(i) THEN Append(tokens[i - 1], SubSeq(str, i, pos(i)))
            ELSE tokens[i - 1]
    IN  tokens[Len(str)]

(* std::stod: the number that a token begins with.                         *)
stod(token) == Head(token)
===============================================================================
