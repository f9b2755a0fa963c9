---------------------------- MODULE ClientHandshake ----------------------------
(***************************************************************************)
(* The other side of the opening handshake, as the library itself plays    *)
(* it: the request that hybi13::client_handshake_request makes, and what   *)
(* handle_read_http_response makes of the answer.                          *)
(***************************************************************************)
EXTENDS HttpRequest

(* The names of the subprotocols, with a comma and a blank between them.   *)
Joined(names) == SubSeq(FlattenSeq([n \in DOMAIN names |-> <<",", " ">> \o names[n]]), 3,
                        Len(FlattenSeq(names)) + 2 * Len(names))

client_handshake_request(location, subprotocols, key) ==
    LET upgrade == append_header(append_header(<<>>, <<"Upgrade">>, <<"websocket">>),
                                 <<"Connection">>, <<"Upgrade">>)
        version == replace_header(upgrade, <<"Sec-WebSocket-Version">>, <<"13">>)
        host    == replace_header(version, <<"Host">>, get_host_port(location))
        asking  == IF subprotocols = <<>> THEN host
                   ELSE replace_header(host, <<"Sec-WebSocket-Protocol">>, Joined(subprotocols))
    IN  [method |-> <<"GET">>, uri |-> location.resource, version |-> <<"HTTP", "/", "1.1">>,
         headers |-> replace_header(asking, <<"Sec-WebSocket-Key">>, key)]

(* send_http_request, and request::raw: the lines that go out, but for the *)
(* blank one.                                                              *)
send_http_request(req) ==
    LET headers_sent == replace_header(req.headers, <<"User-Agent">>, user_agent)
        names        == SetToSeq(DOMAIN headers_sent)
    IN  <<req.method \o <<" ">> \o req.uri \o <<" ">> \o req.version>>
        \o [n \in DOMAIN names |-> names[n] \o <<":", " ">> \o headers_sent[names[n]]]

-----------------------------------------------------------------------------
(* response::process: the line up to its second blank.                     *)
SecondBlank(text) == Find(text, Find(text, 1, {" "}) + 1, {" "})
IsResponse(text) == SecondBlank(text) <= Len(text)
CodeOf(text) == SubSeq(text, Find(text, 1, {" "}) + 1, SecondBlank(text) - 1)

(* response::consume of an answer that is there as a whole and within the  *)
(* limits: the lines up to the blank one, which ends the headers.          *)
consume_response(bytes) ==
    LET breaks  == {i \in 1 .. Len(bytes) - 1 : bytes[i] = CR /\ bytes[i + 1] = LF}
        blank   == Min({i \in breaks : i + 2 \in breaks})
        ends    == SetToSortSeq({i \in breaks : i <= blank}, <)
        line(n) == SubSeq(bytes, IF n = 1 THEN 1 ELSE ends[n - 1] + 2, ends[n] - 1)
        fields  == [n \in 1 .. Len(ends) - 1 |-> line(n + 1)]
    IN  IF IsResponse(line(1)) /\ \A n \in DOMAIN fields : IsHeader(fields[n])
        THEN [code |-> CodeOf(line(1)), headers |-> FoldLeft(process_header, <<>>, fields)]
        ELSE [code |-> <<>>, headers |-> <<>>]

validate_server_handshake_response(key, res) ==
    /\ res.code = <<"101">>
    /\ ci_find_substr(get_header(res.headers, <<"Upgrade">>), "websocket")
    /\ ci_find_substr(get_header(res.headers, <<"Connection">>), "upgrade")
    /\ <<key, get_header(res.headers, <<"Sec-WebSocket-Accept">>)>> \in HandshakeKeys

(* handle_read_http_response: the client goes on with an open connection.  *)
OpensWith(key, bytes) == validate_server_handshake_response(key, consume_response(bytes))
===============================================================================
