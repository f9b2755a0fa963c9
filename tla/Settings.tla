-------------------------------- MODULE Settings --------------------------------
(***************************************************************************)
(* What an endpoint of websocketpp knows of handlers, timeouts and limits, *)
(* and how a new connection comes to its own: its constructor takes them   *)
(* from the configuration, and create_connection copies the endpoint's     *)
(* over them.  What is set on the endpoint later does not reach it.        *)
(***************************************************************************)
EXTENDS Naturals

Handlers == {"open", "close", "fail", "ping", "pong", "pong_timeout", "interrupt",
             "http", "validate", "message"}
TransportHandlers == {"tcp_pre_init", "tcp_post_init"}

(* config::core: milliseconds and bytes.                                   *)
config == [open_handshake_timeout |-> 5000, close_handshake_timeout |-> 5000,
           pong_timeout |-> 5000,
           max_message_size |-> 32000000, max_http_body_size |-> 32000000]

NewEndpoint == [handlers |-> {}, limits |-> config]

SetHandler(e, h) == [e EXCEPT !.handlers = @ \cup {h}]

SetLimit(e, limit, value) == [e EXCEPT !.limits[limit] = value]

-----------------------------------------------------------------------------
NewConnection == [handlers |-> {}, limits |-> config]

SetHandlersOf(con, e) == [con EXCEPT !.handlers = @ \cup (e.handlers \cap Handlers)]

(* A limit is set only where it differs from the configuration, but for    *)
(* that of the body of a request.                                          *)
SetLimitsOf(con, e) ==
    [con EXCEPT !.limits = [limit \in DOMAIN config |->
        IF e.limits[limit] # config[limit] \/ limit = "max_http_body_size"
        THEN e.limits[limit] ELSE @[limit]]]

(* The endpoint's transport gives the connection's its handlers.           *)
InitTransport(con, e) ==
    [con EXCEPT !.handlers = @ \cup (e.handlers \cap TransportHandlers)]

CreateConnection(e) == InitTransport(SetLimitsOf(SetHandlersOf(NewConnection, e), e), e)
===============================================================================
