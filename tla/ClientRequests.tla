----------------------------- MODULE ClientRequests -----------------------------
(***************************************************************************)
(* What clients send to open a connection: the lines that they may put     *)
(* into a request, with what each one means, and the answer that a request *)
(* deserves.  Nothing here is read the way the parser reads it.            *)
(***************************************************************************)
EXTENDS ClientHandshake

H(name, value) == <<name, ":", " ">> \o value

(* Request lines.                                                          *)
Get == <<"GET", " ", "/", " ", "HTTP", "/", "1.1">>
GetOld == <<"GET", " ", "/", " ", "HTTP", "/", "1.0">>
Post == <<"POST", " ", "/", " ", "HTTP", "/", "1.1">>
RequestLines == {Get, GetOld, Post}
NoRequests == {<<"GET", " ", "/">>, <<"GET">>, <<"G", ",", "T", " ", "/", " ", "HTTP", "/", "1.1">>}

(* Addresses, with the location that each one names, and bad ports.        *)
Location ==
    [h \in {<<"planner">>, <<"planner", ":", "8080">>, <<"planner", ":", "80">>, <<"planner", ":">>,
            <<"planner", ":", " ", "8080">>, <<"[", ":", ":", "2", "]">>,
            <<"[", ":", ":", "2", "]", ":", "65535">>} |->
        <<"ws", ":", "/", "/">>
        \o (CASE h \in {<<"planner", ":", "80">>, <<"planner", ":">>} -> <<"planner">>
              [] h = <<"planner", ":", " ", "8080">> -> <<"planner", ":", "8080">>
              [] OTHER -> h)
        \o <<"/">>]
Hosts == {H("Host", h) : h \in DOMAIN Location}
BadHosts == {H("Host", <<"planner", ":", p>>) : p \in {"0", "65536", "x"}}
Host == H("Host", <<"planner", ":", "8080">>)

Upgrades == {H("Upgrade", <<"websocket">>), H("Upgrade", <<"h2c", ",", " ", "WebSocket">>)}
Upgrade == H("Upgrade", <<"websocket">>)
ConnectionUpgrade == H("Connection", <<"keep-alive", ",", "upgrade">>)
ConnectionUpgrades == {ConnectionUpgrade, H("Connection", <<"Upgrade">>)}

(* Keys, with the answer that each one must get.                           *)
Accept ==
    ("nonce" :> <<"s","3","p","P","L","M","B","i","T","x","a","Q","9","k","Y","G","z","z","h","Z","R","b","K","+","x","O","o","=">>)
    @@ ("k19" :> <<"t","W","c","l","c","P","2","1","h","r","R","+","x","g","j","Y","V","s","w","t","Q","R","W","7","1","G","Q","=">>)
    @@ ("k20" :> <<"t","S","s","j","s","I","A","v","E","V","I","Q","+","I","C","5","K","8","+","T","/","O","k","G","8","n","U","=">>)
    @@ ("k28" :> <<"x","9","b","m","f","L","Y","I","x","L","M","a","a","T","5","h","0","s","F","u","R","l","A","h","h","b","8","=">>)
Keys == {H("Sec-WebSocket-Key", <<k>>) : k \in DOMAIN Accept}
Key == H("Sec-WebSocket-Key", <<"nonce">>)
NoKey == H("Sec-WebSocket-Key", <<" ">>)

Version(v) == H("Sec-WebSocket-Version", <<v>>)
Versions == {Version(v) : v \in {"7", "8", "13"}}
NewVersions == {Version("2"), Version("99")}
OddVersions == NewVersions \cup {Version("x")}
VersionsToTry == H("Sec-WebSocket-Version", <<"0", ",", "7", ",", "8", ",", "13">>)

(* The keys of version 0, which stand for 827 \div 2 and 80 \div 1, the    *)
(* third one, and the answer to them.                                      *)
Key3Bytes == <<55, 0, 255, 61, 1, 2, 3, 4>>
Accept0 == <<121, 47, 1, 119, 206, 67, 100, 54, 148, 39, 237, 113, 191, 136, 55, 70>>
Key1 == H("Sec-WebSocket-Key1", <<"8", "x", " ", "2", " ", "7", "y">>)
Key2 == H("Sec-WebSocket-Key2", <<"a", " ", "80">>)
Origin == H("Origin", <<"here">>)

Body(size) == H("Content-Length", <<size>>)

(* Lists of extensions and subprotocols: names alone, names with           *)
(* attributes, and what is no list.                                        *)
Extensions(value) == H("Sec-WebSocket-Extensions", value)
GoodExtensions ==
    {Extensions(v) : v \in
        {<<"foo">>, <<"foo", ";", "a">>, <<"foo", " ", ";", "a", "=", "2", ";", " ", "b">>,
         <<"foo", ";", "a", "=", "\"", "x", " ", "\\", "\"", ",", "\"", " ", ",", "bar">>,
         <<"foo", ";", "a", "=", "\"", "\"">>, <<"foo", " ", "\t", ",", " ", "bar", ";", "c", "=", " ", "x">>,
         <<>>}}
BadExtensions ==
    {Extensions(v) : v \in
        {<<",">>, <<"foo", ",">>, <<"foo", ",", ",", "bar">>, <<";", "a">>, <<"foo", ";">>,
         <<"foo", ";", "=", "2">>, <<"foo", ";", "a", "=">>, <<"foo", ";", "a", "=", ",">>,
         <<"foo", ";", "a", "=", "\"", "x">>, <<"foo", ";", "a", "=", "\"", "x", "\\", "\"">>,
         <<"foo", ";", "a", ";", ";", "b">>}}
Protocols ==
    [v \in {<<"chat">>, <<"chat", ",", " ", "super">>, <<"chat", ",", " ", "super", "\t", ",", "x">>, <<"chat", ";", "a", "=", "b", ",", "x">>,
            <<"chat", ",">>, <<"[">>} |->
        CASE v = <<"chat">> -> <<<<"chat">>>>
          [] v = <<"chat", ",", " ", "super">> -> <<<<"chat">>, <<"super">>>>
          [] v = <<"chat", ",", " ", "super", "\t", ",", "x">> -> <<<<"chat">>, <<"super">>, <<"x">>>>
          [] v = <<"chat", ";", "a", "=", "b", ",", "x">> -> <<<<"chat">>, <<"x">>>>
          [] OTHER -> <<>>]
Subprotocols(v) == H("Sec-WebSocket-Protocol", v)

NoHeaders == {<<"Cookie">>, <<"Coo", " ", "kie", ":", "x">>}

-----------------------------------------------------------------------------
(* The answer that a client with these lines deserves.                     *)

(* A line and the two symbols of its delimiter each, and the blank line.   *)
HeaderSize(c) == 3 * Len(c.lines) + 2

Oversized(c) == HeaderSize(c) > max_header_size

Malformed(c) ==
    \/ c.lines = <<>> \/ c.lines[1] \notin RequestLines
    \/ ToSet(c.lines) \cap NoHeaders # {}
    \/ ToSet(c.lines) \cap (Hosts \cup BadHosts) = {}

Has(c, somelines) == ToSet(c.lines) \cap somelines # {}

IsUpgrade(c) == Has(c, Upgrades) /\ Has(c, ConnectionUpgrades)

IsVersion0(c) == ~Has(c, Versions \cup OddVersions) \/ Has(c, {Version("0")})

StatusDeserved(c) ==
    CASE Oversized(c) -> {431}
      [] ~Oversized(c) /\ Malformed(c) -> {400}
      [] ~Oversized(c) /\ ~Malformed(c) /\ Has(c, {Body("99")}) -> {413}
      [] ~Oversized(c) /\ ~Malformed(c) /\ ~Has(c, {Body("99")}) /\ ~IsUpgrade(c) ->
           {IF Has(c, BadHosts) THEN 400 ELSE 426}
      [] OTHER ->
           IF Has(c, BadHosts) \/ c.lines[1] # Get THEN IF IsVersion0(c) THEN {400, 500} ELSE {400}
           ELSE IF IsVersion0(c) THEN {IF Has(c, {Key1}) /\ Has(c, {Key2}) THEN 101 ELSE 400, 500}
           ELSE {IF Has(c, Keys) /\ Has(c, Versions) /\ ~Has(c, BadExtensions) THEN 101 ELSE 400}

(* The lines of an answer, and what is behind them.                        *)
AnswerRead(bytes) ==
    LET breaks == {i \in 1 .. Len(bytes) - 1 : bytes[i] = CR /\ bytes[i + 1] = LF}
        blank  == Min({i \in breaks : i + 2 \in breaks}) + 2
    IN  [lines |-> {SubSeq(bytes, i + 2, Min({j \in breaks : j > i}) - 1) :
                       i \in {j \in breaks : j + 2 < blank}},
         first |-> SubSeq(bytes, 1, Min(breaks) - 1),
         body |-> SubSeq(bytes, blank + 2, Len(bytes))]

(* What a client makes sure of before it goes on: in the answer to the     *)
(* versions after 0 there is what a client of the library looks for, too.  *)
AcceptedBy(c, bytes) ==
    LET answer == AnswerRead(bytes) IN
    /\ answer.first = <<"HTTP", "/", "1.1", " ", "101", " ", "Reason">>
    /\ IF IsVersion0(c)
       THEN /\ answer.body = Accept0
            /\ H("Upgrade", <<"WebSocket">>) \in answer.lines
            /\ H("Sec-WebSocket-Origin", IF Has(c, {Origin}) THEN <<"here">> ELSE <<>>) \in answer.lines
            /\ \E h \in DOMAIN Location :
                 Has(c, {H("Host", h)}) /\ H("Sec-WebSocket-Location", Location[h]) \in answer.lines
       ELSE /\ answer.body = <<>>
            /\ \E k \in DOMAIN Accept :
                 /\ Has(c, {H("Sec-WebSocket-Key", <<k>>)})
                 /\ H("Sec-WebSocket-Accept", Accept[k]) \in answer.lines
                 /\ OpensWith(<<k>>, bytes)
            /\ {H("Upgrade", <<"websocket">>), H("Connection", <<"upgrade">>)} \subseteq answer.lines

ProtocolsOf(c) ==
    LET asked == {v \in DOMAIN Protocols : Has(c, {Subprotocols(v)})}
    IN  IF asked = {} THEN <<>> ELSE Protocols[CHOOSE v \in asked : TRUE]
===============================================================================
