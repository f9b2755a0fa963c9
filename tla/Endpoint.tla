------------------------------- MODULE Endpoint -------------------------------
(***************************************************************************)
(* The server around a connection: what Server::Server does with the asio  *)
(* endpoint, and the loop of start_accept and handle_accept.  Of all the   *)
(* connections one is followed in detail (Connection); of the others the   *)
(* accept loop sees only that they come, or that accepting them fails.     *)
(***************************************************************************)
EXTENDS Connection

CONSTANT
    Disabled    \* the timeouts that the program sets to 0: none in Server.cpp

ASSUME DisabledAssumption ==
    Disabled \subseteq {"open_handshake_timeout", "close_handshake_timeout"}

VARIABLES
    endpoint,         \* its handlers and limits
    transport_state,  \* m_state of the asio endpoint, "exited" when listen throws
    created,          \* create_connection has made the connection that is followed
    accepting         \* the connections handed to async_accept: "this" or "another"

acceptVars == <<created, accepting>>
serverVars == <<endpoint, transport_state, acceptVars, settings, vars>>

ServerInit ==
    /\ Init
    /\ endpoint = NewEndpoint
    /\ transport_state = "UNINITIALIZED" /\ created = FALSE /\ accepting = <<>>

-----------------------------------------------------------------------------
(* The constructor.                                                        *)

SetHandlers ==
    /\ transport_state = "UNINITIALIZED" /\ endpoint.handlers = {}
    /\ endpoint' = SetHandler(SetHandler(endpoint, "message"), "open")
    /\ UNCHANGED <<transport_state, acceptVars, settings, vars>>

Disable ==
    /\ transport_state = "UNINITIALIZED"
    /\ \E limit \in Disabled :
           /\ endpoint.limits[limit] # 0
           /\ endpoint' = SetLimit(endpoint, limit, 0)
    /\ UNCHANGED <<transport_state, acceptVars, settings, vars>>

InitAsio ==
    /\ transport_state = "UNINITIALIZED" /\ endpoint.handlers # {}
    /\ transport_state' = "READY"
    /\ UNCHANGED <<endpoint, acceptVars, settings, vars>>

AsyncAccept(left, con) == accepting' = Append(left, con)

(* start_accept: a new connection waits for a client.                      *)
AcceptNext(left) == AsyncAccept(left, "another") /\ UNCHANGED <<created, settings>>

Create(left) ==
    /\ ~created /\ created' = TRUE
    /\ settings' = CreateConnection(endpoint) /\ InitSocket
    /\ AsyncAccept(left, "this")
    /\ UNCHANGED <<state, ec, ended, istate, was_clean, reads, writes, response, opened,
                   timerVars, inputVars, outputVars>>

StartAccept(left) == (AcceptNext(left) /\ UNCHANGED vars) \/ Create(left)

Listen ==
    /\ transport_state = "READY"
    /\ transport_state' = "LISTENING"
    /\ StartAccept(accepting)
    /\ UNCHANGED endpoint

(* The port is taken: listen throws, and nothing catches it.               *)
ListenFails ==
    /\ transport_state = "READY"
    /\ transport_state' = "exited"
    /\ UNCHANGED <<endpoint, acceptVars, settings, vars>>

-----------------------------------------------------------------------------
(* server.run(): the handlers, one at a time.                              *)

AcceptCompletes(con) ==
    /\ transport_state = "LISTENING" /\ ~running
    /\ accepting # <<>> /\ Head(accepting) = con
    /\ UNCHANGED <<endpoint, transport_state>>

(* handle_accept: start the connection, or terminate it when the accept    *)
(* failed, and go on accepting either way.                                 *)
AcceptThis == AcceptCompletes("this") /\ HandleAccept /\ AcceptNext(Tail(accepting))

StopAtAFailure ==
    AcceptCompletes("this") /\ AcceptFails /\ accepting' = <<>> /\ UNCHANGED <<created, settings>>

AcceptThisFails == AcceptCompletes("this") /\ AcceptFails /\ AcceptNext(Tail(accepting))

AcceptAnother == AcceptCompletes("another") /\ StartAccept(Tail(accepting))

Serve == Serving /\ UNCHANGED <<endpoint, transport_state, acceptVars, settings>>

ServerNext ==
    \/ SetHandlers \/ Disable \/ InitAsio \/ Listen \/ ListenFails
    \/ AcceptThis \/ AcceptThisFails \/ AcceptAnother
    \/ Serve

(* Whether a client comes is up to the clients.                            *)
ServerSpec == ServerInit /\ [][ServerNext]_serverVars /\ Fairness

-----------------------------------------------------------------------------
(***************************************************************************)
(* One accept is in flight as long as the server listens, however accepts  *)
(* and connections end, so run() never runs out of work; and "the          *)
(* connection must either be started or terminated": none is left over.    *)
(***************************************************************************)
AlwaysAccepting ==
    /\ transport_state = "LISTENING" <=> Len(accepting) = 1
    /\ Len(accepting) <= 1
    /\ created => accepting = <<"this">> \/ istate # "USER_INIT" \/ state = "closed"

(***************************************************************************)
(* No client holds a connection for ever in a handshake: an accepted one   *)
(* opens or ends, a closing one ends, and of an ended one nothing is left. *)
(* Only the program gives the timeouts up, for all connections to come.    *)
NoHandshakeForEver ==
    /\ (endpoint.limits.open_handshake_timeout > 0 /\ istate # "USER_INIT" /\ state = "connecting")
           ~> (state # "connecting")
    /\ (endpoint.limits.close_handshake_timeout > 0 /\ state = "closing") ~> (state = "closed")
    /\ (state = "closed") ~> Drained
===============================================================================
