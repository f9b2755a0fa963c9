------------------------------ MODULE MCReadPath ------------------------------
(* Clients for ReadPath: requests of every kind, and frames of every kind. *)
EXTENDS ReadPath

Upgrading == <<Get, Host, Upgrade, ConnectionUpgrade, Key, Version("13")>>
Old == <<Get, Host, Upgrade, ConnectionUpgrade, Origin, Key1, Key2>>

k1 == <<55, 250, 33, 61>>
k2 == <<0, 255, 170, 85>>

Sizes(n) == IF n <= 125 THEN 0 ELSE 2

F(fin, op, payload) ==
    [fin |-> fin, op |-> op, rsv |-> 0, mask |-> TRUE, extra |-> Sizes(Len(payload)),
     key |-> IF op \in {CONTINUATION, PING} THEN k2 ELSE k1, payload |-> payload]

Filled(n) == [i \in 1 .. n |-> i]

(* A good request, with one line more, one line less or another one.       *)
More == GoodExtensions \cup BadExtensions \cup {Subprotocols(v) : v \in DOMAIN Protocols} \cup NoHeaders
            \cup {Version("13"), Body("99")}
Instead(i, somelines) == {[Upgrading EXCEPT ![i] = l] : l \in somelines}

Requests ==
    {Append(Upgrading, l) : l \in More}
    \cup {Remove(Upgrading, l) : l \in ToSet(Upgrading)}
    \cup Instead(1, RequestLines \cup NoRequests) \cup Instead(2, Hosts \cup BadHosts)
    \cup Instead(3, Upgrades) \cup Instead(5, Keys \cup {NoKey}) \cup Instead(6, Versions \cup OddVersions)
    \cup {<<Get, h>> : h \in BadHosts \cup {Host}} \cup {<<Get>>, <<Host, Get>>, <<>>}

(* What a client of the library sends.                                     *)
LibraryRequests ==
    {send_http_request(client_handshake_request(uri(<<"planner">>, <<port>>, <<>>), names, <<"nonce">>)) :
        port \in {"80", "8080"}, names \in {<<>>, <<<<"chat">>>>, <<<<"chat">>, <<"super">>>>}}

OldRequests ==
    {Old, Append(Old, Version("0")), Append(Old, CHOOSE l \in BadExtensions : TRUE)}
    \cup {Remove(Old, l) : l \in ToSet(Old)} \cup {[Old EXCEPT ![2] = l] : l \in Hosts \cup BadHosts}

Texts ==
    {<<>>, <<72, 105>>, <<195, 169>>, <<194, 128>>, <<193, 191>>, <<223, 191>>, <<195, 65>>,
     <<226, 130, 172>>, <<224, 160, 128>>, <<224, 159, 191>>, <<237, 159, 191>>, <<237, 160, 128>>,
     <<238, 128, 128>>, <<239, 191, 191>>, <<240, 144, 128, 128>>, <<240, 143, 191, 191>>,
     <<241, 128, 191, 160>>, <<244, 143, 191, 191>>, <<244, 144, 128, 128>>,
     <<245, 128, 128, 128>>, <<128>>, <<255>>, <<226, 130>>, <<65, 240, 159>>}

Hi == F(TRUE, TEXT, <<72, 105>>)

Fragments ==
    {<<F(FALSE, TEXT, <<65, 226>>), F(TRUE, PING, <<1>>), F(TRUE, CONTINUATION, <<130, 172>>), Hi>>,
     <<F(FALSE, TEXT, <<>>), F(FALSE, CONTINUATION, <<65>>), F(TRUE, CONTINUATION, <<>>)>>,
     <<F(FALSE, TEXT, <<65, 226>>), F(TRUE, CONTINUATION, <<65>>)>>,
     <<F(FALSE, BINARY, <<226>>), F(TRUE, PONG, <<>>), F(TRUE, CONTINUATION, <<255, 0>>)>>,
     <<F(FALSE, TEXT, <<65>>), Hi>>, <<Hi, F(TRUE, CONTINUATION, <<65>>)>>,
     <<F(FALSE, BINARY, <<1>>), F(TRUE, CLOSE, <<>>), F(TRUE, CONTINUATION, <<2>>)>>}

(* One thing wrong with a frame that comes after a good one.               *)
Faulty ==
    {<<Hi, f>> : f \in
        {[Hi EXCEPT !.rsv = r] : r \in {1, 2, 4}}
        \cup {[Hi EXCEPT !.op = op] : op \in {3, 7, 11, 15}}
        \cup {[Hi EXCEPT !.mask = FALSE], [Hi EXCEPT !.extra = 2], [Hi EXCEPT !.extra = 8],
              [Hi EXCEPT !.op = PING, !.fin = FALSE], [Hi EXCEPT !.op = PING, !.extra = 2]}}

Code(n) == <<n \div 256, n % 256>>
Closing ==
    {<<F(TRUE, CLOSE, p), Hi>> :
       p \in {<<>>, <<3>>, Code(1000) \o <<79, 75>>, Code(1000) \o <<255>>, Code(1000) \o <<226>>}
             \cup {Code(n) : n \in {999, 1000, 1004, 1005, 1006, 1015, 1016, 2999, 3000, 4999, 5000}}}
    \cup {<<F(TRUE, CLOSE, <<>>), F(TRUE, CLOSE, <<3>>), F(TRUE, PING, <<>>)>>,
          <<F(TRUE, CLOSE, <<>>), [Hi EXCEPT !.rsv = 1]>>}

Long ==
    {<<F(TRUE, PING, Filled(125))>>,
     <<F(TRUE, CLOSE, Code(1000) \o Filled(123))>>,
     <<F(FALSE, BINARY, Filled(126)), F(TRUE, CONTINUATION, <<1, 2, 3, 4>>)>>,
     <<F(FALSE, BINARY, Filled(126)), F(TRUE, CONTINUATION, <<1, 2, 3, 4, 5>>)>>,
     <<F(TRUE, BINARY, Filled(131))>>,
     <<[F(TRUE, BINARY, Filled(126)) EXCEPT !.extra = 8]>>}

OldFrames ==
    {<<Hi, F(TRUE, TEXT, <<>>), F(TRUE, TEXT, <<195, 169, 0>>)>>, <<Hi, F(TRUE, CLOSE, <<>>), Hi>>}


MCFinalKeys == {<<0, 0, 1, 157, 0, 0, 0, 80>> \o Key3Bytes}

MCClients ==
    [lines : Requests, frames : {<<Hi, F(TRUE, PING, <<1>>)>>}, body : {<<>>}, whole : {FALSE}, reads : {{1, 2, 9}}]
    \cup [lines : LibraryRequests, frames : {<<Hi>>}, body : {<<>>}, whole : {FALSE}, reads : {{20}}]
    \cup [lines : {Upgrading \o [i \in 1 .. 34 |-> Host]}, frames : {<<Hi>>}, body : {<<>>},
          whole : {FALSE}, reads : {{7, 40}}]
    \cup [lines : {Upgrading \o [i \in 1 .. 2 |-> Host]}, frames : {<<Hi>>}, body : {<<>>},
          whole : {FALSE}, reads : {{1}}]
    \cup [lines : {Upgrading \o <<Body("2")>>}, body : {<<1, 2>>}, frames : {<<Hi>>},
          whole : {FALSE}, reads : {{1, 2, 20}}]
    \cup [lines : {Upgrading},
          frames : {<<F(TRUE, TEXT, p)>> : p \in Texts} \cup Fragments \cup Faulty \cup Closing,
          body : {<<>>}, whole : {TRUE}, reads : {{1, 2, 3, 4, 20, 21, 22, 23, 26, 29}}]
    \cup [lines : {Upgrading}, frames : Long, body : {<<>>}, whole : {TRUE}, reads : {{1, 3, 14, 20, 64}}]
    \cup [lines : OldRequests, frames : OldFrames, body : {Key3Bytes}, whole : {FALSE}, reads : {{1, 9, 30}}]

(* A text in several frames whose last code point is cut short.            *)
CutTextClients ==
    [lines : {Upgrading}, body : {<<>>}, whole : {TRUE}, reads : {{4, 26}},
     frames : {<<F(FALSE, TEXT, <<65, 226>>), F(TRUE, PING, <<1>>), F(TRUE, CONTINUATION, rest)>> :
                 rest \in {<<>>, <<130>>, <<130, 172>>}}]
===============================================================================
