----------------------------- MODULE HttpRequest -----------------------------
(***************************************************************************)
(* The opening handshake of a connection up to its response:               *)
(* http::parser::request, which collects the lines of the request from the *)
(* pieces that are read, the requests that the server accepts, and what    *)
(* its answer says.                                                        *)
(*                                                                         *)
(* A line of the request is one symbol of the stream, its delimiter two: a *)
(* read may end anywhere, and between the two of a delimiter.              *)
(***************************************************************************)
EXTENDS Uri, Digests

CONSTANTS
    CR, LF,
    max_header_size,
    max_http_body_size,
    FinalKeys           \* what clients of version 0 give md5 to digest

VARIABLES
    parser,             \* what consume is doing: "waiting", "lines", "ready", "refused"
    chunk,              \* the last read, in the connection's buf
    lines,              \* request::buf, from the line that is looked at
    request,            \* method, uri and version
    headers,
    header_bytes,
    body_bytes_needed,
    bytes_processed,    \* of chunk
    status,             \* of the response
    response            \* its headers

requestVars == <<chunk, lines, request, headers, header_bytes, body_bytes_needed, bytes_processed>>
httpVars == <<parser, requestVars, status, response>>

HttpInit ==
    /\ parser = "waiting" /\ chunk = <<>> /\ lines = <<>>
    /\ request = [method |-> <<>>, uri |-> <<>>, version |-> <<>>]
    /\ headers = <<>> /\ header_bytes = 0
    /\ body_bytes_needed = 0 /\ bytes_processed = 0 /\ status = 0 /\ response = <<>>

-----------------------------------------------------------------------------
delimiter_size == 3  \* sizeof("\r\n") counts the zero at the end

(* Where a delimiter begins in lines, or 0.                                *)
Delimiter ==
    LET at == {i \in 1 .. Len(lines) - 1 : lines[i] = CR /\ lines[i + 1] = LF}
    IN  IF at = {} THEN 0 ELSE Min(at)

LineSize == IF Delimiter = 0 THEN Len(lines) ELSE Delimiter - 1

Counted == header_bytes + LineSize + delimiter_size

(* An exception of consume, and the response with its status.              *)
Refuse(code) == parser' = "refused" /\ status' = code

TooLong ==
    /\ parser = "lines" /\ Counted > max_header_size
    /\ Refuse(431)
    /\ UNCHANGED <<requestVars, response>>

CountTheRest ==
    /\ parser = "lines" /\ Counted <= max_header_size /\ Delimiter = 0
    /\ header_bytes' = Counted
    /\ parser' = "waiting"
    /\ UNCHANGED <<chunk, lines, request, headers, body_bytes_needed, bytes_processed, status, response>>

(* What is left of lines stays there; the count forgets it, but not the    *)
(* delimiter that was not found.                                           *)
OutOfBytes ==
    /\ parser = "lines" /\ Counted <= max_header_size /\ Delimiter = 0
    /\ header_bytes' = Counted - LineSize
    /\ parser' = "waiting"
    /\ UNCHANGED <<chunk, lines, request, headers, body_bytes_needed, bytes_processed, status, response>>

(* The first line is the request, the others are headers.                  *)
GoodLine(text) == IF request.method = <<>> THEN IsRequest(text) ELSE IsHeader(text)

Line ==
    /\ parser = "lines" /\ Counted <= max_header_size /\ Delimiter > 1
    /\ header_bytes' = Counted
    /\ lines' = SubSeq(lines, Delimiter + 2, Len(lines))
    /\ \E text \in {FlattenSeq(SubSeq(lines, 1, Delimiter - 1))} :
         IF GoodLine(text)
         THEN /\ IF request.method = <<>>
                 THEN request' = RequestOfLine(text) /\ UNCHANGED headers
                 ELSE headers' = process_header(headers, text) /\ UNCHANGED request
              /\ UNCHANGED <<parser, status>>
         ELSE Refuse(400) /\ UNCHANGED <<request, headers>>
    /\ UNCHANGED <<chunk, body_bytes_needed, bytes_processed, response>>

Header(name) == get_header(headers, <<name>>)

(* The blank line: how much of chunk belongs to the request so far.        *)
EndOfHeaders == Len(chunk) - Len(lines) + 2

process_body(needed, available) == IF needed < available THEN needed ELSE available

body_size == Number(Header("Content-Length"))

(* prepare_body, with the body that is there already.                      *)
BlankLine ==
    /\ parser = "lines" /\ Counted <= max_header_size /\ Delimiter = 1
    /\ LET taken == process_body(body_size, Len(chunk) - EndOfHeaders) IN
       IF request.method = <<>> \/ Header("Host") = <<>>
       THEN Refuse(400) /\ UNCHANGED <<body_bytes_needed, bytes_processed>>
       ELSE IF body_size > max_http_body_size
       THEN Refuse(413) /\ UNCHANGED <<body_bytes_needed, bytes_processed>>
       ELSE /\ body_bytes_needed' = body_size - taken
            /\ bytes_processed' = EndOfHeaders + taken
            /\ parser' = IF body_size = taken THEN "ready" ELSE "waiting"
            /\ UNCHANGED status
    /\ header_bytes' = 0  \* nothing counts on
    /\ lines' = <<>>
    /\ UNCHANGED <<chunk, request, headers, response>>

(* handle_read_handshake: what was read is looked at by consume.           *)
HandleReadHandshake(bytes) ==
    /\ parser = "waiting"
    /\ chunk' = bytes
    /\ IF body_bytes_needed > 0
       THEN LET taken == process_body(body_bytes_needed, Len(bytes)) IN
            /\ body_bytes_needed' = body_bytes_needed - taken
            /\ bytes_processed' = taken
            /\ parser' = IF body_bytes_needed' = 0 THEN "ready" ELSE "waiting"
            /\ UNCHANGED lines
       ELSE /\ lines' = lines \o bytes
            /\ parser' = "lines"
            /\ UNCHANGED <<body_bytes_needed, bytes_processed>>
    /\ UNCHANGED <<request, headers, header_bytes, status, response>>

-----------------------------------------------------------------------------
(* initialize_processor.                                                   *)

(* Capitals do not matter.                                                 *)
Capitals == ("upgrade" :> {"Upgrade"}) @@ ("websocket" :> {"WebSocket"})
ci_find_substr(haystack, needle) == ToSet(haystack) \cap ({needle} \cup Capitals[needle]) # {}

is_websocket_handshake ==
    ci_find_substr(Header("Upgrade"), "websocket") /\ ci_find_substr(Header("Connection"), "upgrade")

(* No version is version 0; what is no number is the version -1.           *)
NoVersion == 0 - 1
get_websocket_version ==
    CASE Header("Sec-WebSocket-Version") = <<>> -> 0
      [] StartsWithNumber(Header("Sec-WebSocket-Version")) -> Number(Header("Sec-WebSocket-Version"))
      [] OTHER -> NoVersion

versions_supported == <<0, 7, 8, 13>>

get_processor(version) ==
    CASE version = 0 -> "hybi00" [] version \in {7, 8, 13} -> "hybi13" [] OTHER -> "none"

UnsupportedVersion ==
    is_websocket_handshake /\ get_websocket_version # NoVersion
    /\ get_processor(get_websocket_version) = "none"

(* The answer to such a version names those that there are.                *)
RefusedVersion ==
    <<"Sec-WebSocket-Version">> :>
        Tail(FlattenSeq([n \in DOMAIN versions_supported |-> <<",", ToString(versions_supported[n])>>]))

(* A request of version 0 needs eight bytes more, from the same read.      *)
key3_size == 8
short_key3 == Len(chunk) - bytes_processed < key3_size
Key3 == SubSeq(chunk, bytes_processed + 1, bytes_processed + key3_size)

-----------------------------------------------------------------------------
(* process_handshake_request.                                              *)

(* The processor of version 0 splits the Host header itself.               *)
get_uri ==
    LET h           == Header("Host")
        last_colon  == rfind(h, ":")
        last_sbrace == rfind(h, "]")
    IN  IF last_colon = 0 \/ last_sbrace > last_colon
        THEN uri_of_host(h, request.uri)
        ELSE uri(SubSeq(h, 1, last_colon - 1), From(h, last_colon + 1), request.uri)

u == IF is_websocket_handshake /\ get_websocket_version = 0
     THEN get_uri
     ELSE get_uri_from_host(Header("Host"), request.uri)

GoodRequestLine == request.method = <<"GET">> /\ request.version = <<"HTTP", "/", "1.1">>

RequiredHeaders ==
    IF get_websocket_version = 0 THEN {"Sec-WebSocket-Key1", "Sec-WebSocket-Key2"}
                                 ELSE {"Sec-WebSocket-Key"}

validate_handshake ==
    GoodRequestLine /\ \A name \in RequiredHeaders : Header(name) # <<>>

(* Only the syntax of the extensions matters: this build has none.  The    *)
(* processor of version 0 does not look at them.                           *)
negotiate_extensions ==
    get_websocket_version = 0
    \/ get_header_as_plist(headers, <<"Sec-WebSocket-Extensions">>).at # 0

(* What each processor makes of the list of subprotocols; an error in it   *)
(* is ignored, and the list stays empty.                                   *)
Names(list) == [i \in 1 .. Len(list) |-> list[i].name]

requested_subprotocols ==
    Names(get_header_as_plist(headers, <<"Sec-WebSocket-Protocol">>).read)

StatusOfRequest ==
    CASE ~is_websocket_handshake -> IF u.valid THEN 426 ELSE 400
      [] is_websocket_handshake /\ get_processor(get_websocket_version) = "none" -> 400
      [] is_websocket_handshake /\ get_websocket_version = 0 /\ short_key3 -> 500
      [] OTHER -> IF validate_handshake /\ negotiate_extensions /\ u.valid THEN 101 ELSE 400

(* The digits of a key, divided by the number of its spaces.               *)
decode_client_key(key) ==
    LET spaces == Cardinality({i \in 1 .. Len(key) : key[i] = " "})
        digits == SelectSeq(key, LAMBDA c : c \in DOMAIN Numerals)
        Shift(c) == 10 ^ (CASE Numerals[c] < 10 -> 1 [] Numerals[c] \in 10 .. 99 -> 2
                            [] Numerals[c] \in 100 .. 9999 -> 4 [] OTHER -> 5)
        number == FoldLeft(LAMBDA n, c : n * Shift(c) + Numerals[c], 0, digits)
    IN  IF spaces > 0 THEN number \div spaces ELSE 0

(* "258EAFA5-E914-47DA-95CA-C5AB0DC85B11"                                  *)
handshake_guid ==
    <<50, 53, 56, 69, 65, 70, 65, 53, 45, 69, 57, 49, 52, 45, 52, 55, 68, 65,
      45, 57, 53, 67, 65, 45, 67, 53, 65, 66, 48, 68, 67, 56, 53, 66, 49, 49>>

process_handshake_key(key) == base64_encode(calc(Spelling(key) \o handshake_guid))

(* The keys that there are, with their digests, each computed once.        *)
HandshakeKeys == {<<key, process_handshake_key(key)>> : key \in {<<k>> : k \in DOMAIN Spelled}}

server_key == (CHOOSE pair \in HandshakeKeys : pair[1] = Header("Sec-WebSocket-Key"))[2]

Accepted13 ==
    append_header(append_header(
        replace_header(<<>>, <<"Sec-WebSocket-Accept">>, server_key),
        <<"Upgrade">>, <<"websocket">>), <<"Connection">>, <<"upgrade">>)

(* Both numbers in network order, and the third key.                       *)
key_final ==
    Bytes(<<<<0, decode_client_key(Header("Sec-WebSocket-Key1"))>>,
            <<0, decode_client_key(Header("Sec-WebSocket-Key2"))>>>>) \o Key3

FinalDigests == {<<final, md5_hash_string(final)>> : final \in FinalKeys}

Accepted0 ==
    (<<"Sec-WebSocket-Key3">> :> (CHOOSE pair \in FinalDigests : pair[1] = key_final)[2])
    @@ (<<"Upgrade">> :> <<"WebSocket">>) @@ (<<"Connection">> :> <<"Upgrade">>)
    @@ (<<"Sec-WebSocket-Origin">> :> Header("Origin"))
    @@ (<<"Sec-WebSocket-Location">> :> str(u))

process_handshake ==
    CASE UnsupportedVersion -> RefusedVersion
      [] StatusOfRequest # 101 /\ ~UnsupportedVersion -> <<>>
      [] StatusOfRequest = 101 /\ get_websocket_version = 0 -> Accepted0
      [] OTHER -> Accepted13

-----------------------------------------------------------------------------
(* The response on the wire, the headers in the order of their names, and  *)
(* one word for those behind the status.                                   *)

user_agent == <<"WebSocket++", "/", "0.7.0">>

raw_headers(h) ==
    FoldLeft(LAMBDA text, name : text \o name \o <<":", " ">> \o h[name] \o <<CR, LF>>,
             <<>>, SetToSeq(DOMAIN h))

raw(h) == <<"HTTP", "/", "1.1", " ", ToString(status), " ", "Reason", CR, LF>> \o raw_headers(h) \o <<CR, LF>>

(* The processor of version 0 sends its answer behind the headers.         *)
get_raw(h) ==
    LET key3 == <<"Sec-WebSocket-Key3">> IN
    IF key3 \in DOMAIN h
    THEN raw(remove_header(h, key3)) \o h[key3]
    ELSE raw(h)

handshake_buffer == get_raw(replace_header(response, <<"Server">>, user_agent))

(* What was read behind the request.                                       *)
Leftover ==
    SubSeq(chunk, bytes_processed + 1 + (IF get_websocket_version = 0 THEN key3_size ELSE 0), Len(chunk))

HttpNext == TooLong \/ OutOfBytes \/ Line \/ BlankLine
===============================================================================
