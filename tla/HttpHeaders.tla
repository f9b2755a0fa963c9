------------------------------ MODULE HttpHeaders ------------------------------
(***************************************************************************)
(* The lines of an HTTP request and the values of its headers, as          *)
(* http::parser reads them.  A text is a sequence of symbols: a separator  *)
(* is a symbol, and so is a run of other characters.  A position in a text *)
(* s is a number from 1 to End(s).                                         *)
(***************************************************************************)
EXTENDS Naturals, Sequences, SequencesExt, FiniteSetsExt, TLC

Blanks == {" ", "\t"}
Separators == Blanks \cup {",", ";", "=", "\"", "\\", ":", "/", "[", "]", "@"}

is_token_char(c) == c \notin Separators

End(s) == Len(s) + 1

(* The first position from i on that holds one of the symbols, or the end. *)
Find(s, i, symbols) == Min({End(s)} \cup {j \in i .. Len(s) : s[j] \in symbols})

(* ... and the last one, or 0.                                             *)
rfind(s, symbol) == Max({0} \cup {j \in 1 .. Len(s) : s[j] = symbol})

From(s, i) == SubSeq(s, i, Len(s))

(* F(x), with x computed once.                                             *)
Of(F(_), x) == CHOOSE r \in {F(v) : v \in {x}} : TRUE

-----------------------------------------------------------------------------
(* The lexical elements, as functions from the position where one is read  *)
(* to the position behind it, which is the same when it is not there.      *)

extract_token(s) == [i \in 1 .. End(s) |-> Find(s, i, Separators)]

(* Blanks, and line breaks that a blank follows.                           *)
extract_all_lws(s) ==
    LET Folded(i) == /\ End(s) - i > 2
                     /\ SubSeq(s, i, i + 1) = <<"\r", "\n">> /\ s[i + 2] \in Blanks
        lws[i \in 1 .. End(s)] ==
            IF i = End(s) THEN i
            ELSE IF s[i] \in Blanks THEN lws[i + 1]
            ELSE IF Folded(i) THEN lws[i + 3]
            ELSE i
    IN  lws

(* From a quote to the next one that has no backslash before it.           *)
ClosingQuote(s, i) ==
    Min({End(s)} \cup {j \in i + 1 .. Len(s) : s[j] = "\"" /\ s[j - 1] # "\\"})

extract_quoted_string(s) ==
    [i \in 1 .. Len(s) |-> IF s[i] # "\"" \/ ClosingQuote(s, i) = End(s)
                           THEN i ELSE ClosingQuote(s, i) + 1]

(* What the quotes hold, with the backslashes before quotes left out.      *)
Unquoted(s, i) ==
    LET last == ClosingQuote(s, i) - 1
        kept == {j \in i + 1 .. last : ~(s[j] = "\\" /\ j < last /\ s[j + 1] = "\"")}
        text == SetToSortSeq(kept, <)
    IN  [k \in 1 .. Len(text) |-> s[text[k]]]

Stripped(s) ==
    LET first == extract_all_lws(s)[1]
        last == End(s) - extract_all_lws(Reverse(s))[1]
    IN  IF first = End(s) THEN <<>> ELSE SubSeq(s, first, last)

strip_lws(s) == Of(Stripped, s)

-----------------------------------------------------------------------------
(* The elements of a list.  A read gives where it stopped, which is 0 when *)
(* what is there is not one, and what it read.                             *)

Syntax == [at |-> 0, read |-> <<>>]

(***************************************************************************)
(* extract_attributes: *( ";" name [ "=" value ] ), where the first ";" has *)
(* been read.  It ends at the first thing that is no ";".                  *)
(***************************************************************************)
extract_attributes(s, begin) ==
    LET attributes[cursor \in 1 .. End(s), first \in BOOLEAN] ==
            LET start == extract_all_lws(s)[cursor]
                name == extract_all_lws(s)[IF first THEN start ELSE start + 1]
                behind == extract_token(s)[name]
                sign == extract_all_lws(s)[behind]
                value == extract_all_lws(s)[sign + 1]
                quoted == extract_quoted_string(s)[value]
                word == extract_token(s)[value]
                Then(text, rest) ==
                    IF rest.at = 0 THEN Syntax
                    ELSE [rest EXCEPT !.read = @ @@ (SubSeq(s, name, behind - 1) :> text)]
            IN
            IF start = End(s) THEN [at |-> start, read |-> <<>>]
            ELSE IF ~first /\ s[start] # ";" THEN [at |-> start, read |-> <<>>]
            ELSE IF behind = name THEN Syntax
            ELSE IF sign = End(s) \/ s[sign] # "=" THEN Then(<<>>, attributes[sign, FALSE])
            ELSE IF value = End(s) THEN Syntax
            ELSE IF quoted # value THEN Then(Unquoted(s, value), attributes[quoted, FALSE])
            ELSE IF word = value THEN Syntax
            ELSE Then(SubSeq(s, value, word - 1), attributes[word, FALSE])
    IN  IF begin = End(s) THEN Syntax ELSE attributes[begin, TRUE]

(***************************************************************************)
(* extract_parameters: names with attributes, between commas.  It ends at  *)
(* the first thing that is no comma, whatever follows it.                  *)
(***************************************************************************)
extract_parameters(s) ==
    LET parameters[cursor \in 1 .. End(s)] ==
            LET name == extract_all_lws(s)[cursor]
                behind == extract_token(s)[name]
                sign == extract_all_lws(s)[behind]
                this(attributes) ==
                    [name |-> SubSeq(s, name, behind - 1), attributes |-> attributes.read]
                comma(attributes) == extract_all_lws(s)[attributes.at]
                Listed(attributes) ==
                    IF attributes.at = 0 THEN Syntax
                    ELSE IF comma(attributes) = End(s) \/ s[comma(attributes)] # ","
                    THEN [at |-> comma(attributes), read |-> <<this(attributes)>>]
                    ELSE IF comma(attributes) + 1 = End(s) \/ parameters[comma(attributes) + 1].at = 0
                    THEN Syntax
                    ELSE [parameters[comma(attributes) + 1] EXCEPT !.read = <<this(attributes)>> \o @]
            IN
            IF name = End(s) THEN [at |-> name, read |-> <<>>]
            ELSE IF behind = name THEN Syntax
            ELSE Of(Listed, IF sign # End(s) /\ s[sign] = ";"
                            THEN extract_attributes(s, sign + 1)
                            ELSE [at |-> sign, read |-> <<>>])
    IN  parameters[1]

parse_parameter_list(s) ==
    IF s = <<>> THEN [at |-> 1, read |-> <<>>] ELSE Of(extract_parameters, s)

-----------------------------------------------------------------------------
(* The headers of a message: a function from names to values.              *)

get_header(headers, name) == IF name \in DOMAIN headers THEN headers[name] ELSE <<>>

replace_header(headers, name, value) == (name :> value) @@ headers

remove_header(headers, name) == [other \in DOMAIN headers \ {name} |-> headers[other]]

(* A header that is there already is gone on with, behind a comma.         *)
append_header(headers, name, value) ==
    LET old == get_header(headers, name)
    IN  replace_header(headers, name, IF old = <<>> THEN value ELSE old \o <<",", " ">> \o value)

get_header_as_plist(headers, name) == parse_parameter_list(get_header(headers, name))

(* process_header: a name that is a token, a colon and a value.            *)
HeaderName(line) == strip_lws(SubSeq(line, 1, Find(line, 1, {":"}) - 1))
HeaderValue(line) == strip_lws(From(line, Find(line, 1, {":"}) + 1))

IsHeader(line) ==
    /\ \E j \in 1 .. Len(line) : line[j] = ":"
    /\ \A c \in ToSet(HeaderName(line)) : is_token_char(c)

process_header(headers, line) == append_header(headers, HeaderName(line), HeaderValue(line))

(* process, for the request line: method, resource and version.            *)
MethodEnd(line) == Find(line, 1, {" "})
ResourceEnd(line) == Find(line, MethodEnd(line) + 1, {" "})

IsRequest(line) ==
    /\ MethodEnd(line) <= Len(line) /\ ResourceEnd(line) <= Len(line)
    /\ \A j \in 1 .. MethodEnd(line) - 1 : is_token_char(line[j])

RequestOfLine(line) ==
    [method |-> SubSeq(line, 1, MethodEnd(line) - 1),
     uri |-> SubSeq(line, MethodEnd(line) + 1, ResourceEnd(line) - 1),
     version |-> From(line, ResourceEnd(line) + 1)]

(* A number at the beginning of a text, as atoi, strtoul and >> read it:   *)
(* the value of its first symbol behind blanks, if it is one of Numerals.  *)
Numerals ==
    [c \in {"0", "2", "7", "8", "13", "80", "99", "8080", "65535", "65536"} |->
        CASE c = "0" -> 0 [] c = "2" -> 2 [] c = "7" -> 7 [] c = "8" -> 8 [] c = "13" -> 13
          [] c = "80" -> 80 [] c = "99" -> 99 [] c = "8080" -> 8080
          [] c = "65535" -> 65535 [] c = "65536" -> 65536]

StartsWithNumber(s) == strip_lws(s) # <<>> /\ strip_lws(s)[1] \in DOMAIN Numerals
Number(s) == IF StartsWithNumber(s) THEN Numerals[strip_lws(s)[1]] ELSE 0

(* The bytes of a text, for the symbols that digests are made of.          *)
Spelled ==
    ("nonce" :> <<100, 71, 104, 108, 73, 72, 78, 104, 98, 88, 66, 115,
                  90, 83, 66, 117, 98, 50, 53, 106, 90, 81, 61, 61>>)
    @@ ("k19" :> [i \in 1 .. 19 |-> 107]) @@ ("k20" :> [i \in 1 .. 20 |-> 107])
    @@ ("k28" :> [i \in 1 .. 28 |-> 107])

Spelling(text) == FlattenSeq([i \in 1 .. Len(text) |-> Spelled[text[i]]])
===============================================================================
