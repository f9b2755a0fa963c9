------------------------------ MODULE Connection ------------------------------
(***************************************************************************)
(* The life of one client connection of the server: websocketpp's          *)
(* connection<config::asio> over its asio transport, with the handlers     *)
(* that Server registers.  Everything runs on the one thread that is in    *)
(* server.run(), so a handler is one step, except that handle_read_frame   *)
(* takes one step for each frame of its buffer while it holds the thread.  *)
(* What is in flight (the read, the write, the posted calls, the timers)   *)
(* completes in any order.                                                 *)
(*                                                                         *)
(* The names are those of the source, without the prefix m_.               *)
(***************************************************************************)
EXTENDS Naturals, Sequences, FiniteSets, Settings

CONSTANTS
    MaxFrames,  \* bound: frames the client sends
    MaxRead     \* bound: frames that one read delivers

ASSUME BoundsAssumption == MaxFrames \in Nat /\ MaxRead \in Nat

(***************************************************************************)
(* What processor->consume makes of the bytes of one frame: a data message *)
(* for Server::OnMessage, a ping, a close frame with a code and a reason   *)
(* that are valid or not, or an error.                                     *)
(***************************************************************************)
Frames == {"data", "ping", "close", "badclose", "junk"}

VARIABLES
    settings,         \* the handlers, timeouts and limits that it was created with
    state,            \* session::state
    istate,           \* istate, for a server
    ec,               \* the error code kept for get_ec()
    was_clean,
    \* timers
    timers,           \* every timer set: its kind and what has become of it
    handshake_timer,  \* the one the connection can still cancel, or 0
    \* the socket
    socket,           \* m_state of the socket, or "shut" after shutdown_both
    reads,            \* the handlers of the reads in flight
    writes,           \* the handlers of the writes in flight
    \* reading
    running,          \* handle_read_frame has the thread
    buf,              \* the frames of buf that are still to be consumed
    received,
    response,         \* the status of the HTTP response
    \* writing
    send_queue,
    current_msgs,
    write_flag,
    posted,           \* calls of write_frame posted to the io_service
    \* what the two sides have seen
    answered,         \* messages that OnMessage was given, each with one reply
    sent,             \* the messages handed to the transport, in order
    opened,           \* the open handler was called
    ended             \* what handle_terminate was called with

timerVars == <<timers, handshake_timer>>
endVars == <<state, ec, socket, ended>>
inputVars == <<running, buf, received>>
outputVars == <<send_queue, current_msgs, write_flag, posted, answered, sent>>
vars == <<istate, was_clean, reads, writes, response, opened,
          timerVars, endVars, inputVars, outputVars>>

Reply(n) == [op |-> "text", n |-> n, terminal |-> FALSE]
Pong == [op |-> "pong", n |-> 0, terminal |-> FALSE]
CloseFrame == [op |-> "close", n |-> 0, terminal |-> TRUE]

Inputs(n) == UNION {[1 .. k -> Frames] : k \in 0 .. n}
Room == IF MaxFrames - received < MaxRead THEN MaxFrames - received ELSE MaxRead

-----------------------------------------------------------------------------
(* Timers.  cancel() has no effect on one whose callback is queued.        *)

SetTimer(ts, kind) == Append(ts, [kind |-> kind, status |-> "armed", tstat |-> "unknown"])

Cancelled(ts, k) ==
    IF k # 0 /\ ts[k].status = "armed" THEN [ts EXCEPT ![k].status = "cancelled"] ELSE ts

CancelTimer(ts) == timers' = Cancelled(ts, handshake_timer) /\ handshake_timer' = 0

(* The transport: what is asked of it completes later, once.               *)
AsyncRead(left, handler) == reads' = Append(left, handler)
AsyncWrite(handler) == writes' = Append(writes, handler)
Dispatch == posted' = posted + 1

(* The fail handler's turn, or the close handler's.                        *)
HandleTerminate(tstat) == ended' = Append(ended, tstat)

(***************************************************************************)
(* handle_async_shutdown runs within async_shutdown.  When the thread was  *)
(* held up until the shutdown timer ran out it leaves the rest to the      *)
(* timer's callback.                                                       *)
(***************************************************************************)
HandleAsyncShutdown(ts, tstat) ==
    \/ timers' = Cancelled(ts, Len(ts)) /\ HandleTerminate(tstat)
    \/ timers' = [ts EXCEPT ![Len(ts)].status = "expired"] /\ UNCHANGED ended

ShutdownBoth == socket' = "shut"

AsyncShutdown(ts, tstat) ==
    /\ ShutdownBoth
    /\ HandleAsyncShutdown(
           [SetTimer(ts, "shutdown") EXCEPT ![Len(ts) + 1].tstat = tstat], tstat)

EndAgain(ts, error) ==
    /\ handshake_timer' = 0
    /\ ec' = IF error = "none" THEN ec ELSE error
    /\ state' = "closed"
    /\ AsyncShutdown(Cancelled(ts, handshake_timer),
                     IF state = "connecting" THEN "failed" ELSE "closed")

(***************************************************************************)
(* terminate: the socket is shut down.  On a closed connection only the    *)
(* error code is written.  What is in flight is left to complete.          *)
(***************************************************************************)
Terminate(ts, error) ==
    /\ handshake_timer' = 0
    /\ ec' = IF error = "none" THEN ec ELSE error
    /\ state' = "closed"
    /\ IF state = "closed"
       THEN timers' = Cancelled(ts, handshake_timer) /\ UNCHANGED <<socket, ended>>
       ELSE AsyncShutdown(Cancelled(ts, handshake_timer),
                          IF state = "connecting" THEN "failed" ELSE "closed")

-----------------------------------------------------------------------------
Init ==
    /\ settings = NewConnection
    /\ state = "connecting" /\ istate = "USER_INIT"
    /\ ec = "none" /\ was_clean = FALSE
    /\ timers = <<>> /\ handshake_timer = 0
    /\ socket = "UNINITIALIZED" /\ reads = <<>> /\ writes = <<>>
    /\ running = FALSE /\ buf = <<>> /\ received = 0 /\ response = "none"
    /\ send_queue = <<>> /\ current_msgs = <<>> /\ write_flag = FALSE /\ posted = 0
    /\ answered = 0 /\ sent = <<>> /\ opened = FALSE /\ ended = <<>>

(* init_asio, when the endpoint creates the connection.                    *)
InitSocket == socket = "UNINITIALIZED" /\ socket' = "READY"

(* read_handshake: the timer that bounds the handshake, and the read.      *)
ReadHandshake(ts) ==
    /\ IF settings.limits.open_handshake_timeout > 0
       THEN timers' = SetTimer(ts, "open") /\ handshake_timer' = Len(timers')
       ELSE timers' = ts /\ UNCHANGED handshake_timer
    /\ AsyncRead(reads, "handshake")

HandleTransportInit(ts) ==
    /\ istate' = "READ_HTTP_REQUEST"
    /\ ReadHandshake(ts)

(* handle_post_init: the timer is cancelled, or has run out by now and is  *)
(* left to end it all.                                                     *)
HandlePostInit(ts) ==
    \/ HandleTransportInit(Cancelled(ts, Len(ts)))
    \/ /\ istate' = "TRANSPORT_INIT"
       /\ timers' = [ts EXCEPT ![Len(ts)].status = "expired"]
       /\ UNCHANGED <<handshake_timer, reads>>

(* post_init of a socket without TLS calls back at once.                   *)
PostInit(ts) == HandlePostInit(SetTimer(ts, "post_init"))

(* No proxy is set, and this server has no tcp_pre_init handler.           *)
HandlePreInit(ts) == PostInit(ts)

PreInit == socket = "READY" /\ socket' = "READING" /\ HandlePreInit(timers)

InitConnection == PreInit

(***************************************************************************)
(* handle_accept: start() and, since neither pre_init nor post_init waits  *)
(* without TLS, all of it up to the first read of the request.             *)
(***************************************************************************)
HandleAccept ==
    /\ istate = "USER_INIT" /\ state = "connecting"
    /\ InitConnection
    /\ UNCHANGED <<state, ec, ended, was_clean, writes, response, opened,
                   inputVars, outputVars>>

AcceptFails ==
    /\ istate = "USER_INIT" /\ state = "connecting"
    /\ Terminate(timers, "error")
    /\ UNCHANGED <<istate, was_clean, reads, writes, response, opened, inputVars, outputVars>>

-----------------------------------------------------------------------------
(* The opening handshake.                                                  *)

ReadCompletes(handler) ==
    /\ ~running /\ reads # <<>> /\ Head(reads) = handler

(* The transport tells the end of the stream from everything else that can *)
(* happen to a socket, of which a socket without TLS knows no more.        *)
SocketErrors == {"eof", "connection_reset", "operation_aborted"}
translate_ec(error) == "pass_through"
ReadError(error) == IF error = "eof" THEN "eof" ELSE translate_ec(error)

(* A read that fails, or that ends because the socket is shut or the       *)
(* client has left, is the end of the connection; eof of a closed one is   *)
(* no news.                                                                *)
ReadFails ==
    /\ ~running /\ reads # <<>>
    /\ reads' = Tail(reads)
    /\ \E error \in {ReadError(e) : e \in SocketErrors} :
           IF error = "eof" /\ state = "closed"
           THEN UNCHANGED <<timerVars, endVars>>
           ELSE Terminate(timers, error)
    /\ UNCHANGED <<istate, was_clean, writes, response, opened, inputVars, outputVars>>

(* The request goes on: read at least one more byte.                       *)
ReadMoreOfTheRequest ==
    /\ ReadCompletes("handshake") /\ state = "connecting" /\ istate = "READ_HTTP_REQUEST"
    /\ AsyncRead(Tail(reads), "handshake")
    /\ UNCHANGED <<istate, was_clean, writes, response, opened,
                   timerVars, endVars, inputVars, outputVars>>

(* write_http_response: the status goes out, an error is kept for later.   *)
WriteHttpResponse(status) ==
    /\ response' = status
    /\ ec' = IF status = "switching_protocols" THEN "none" ELSE "error"
    /\ AsyncWrite("http_response")

(***************************************************************************)
(* The request is complete, or hopeless, and its response is written; the  *)
(* bytes behind it stay in buf until the response is out.                  *)
(***************************************************************************)
Respond(status, rest) ==
    /\ ReadCompletes("handshake") /\ state = "connecting" /\ istate = "READ_HTTP_REQUEST"
    /\ reads' = Tail(reads)
    /\ istate' = "PROCESS_HTTP_REQUEST"
    /\ WriteHttpResponse(status)
    /\ buf' = rest /\ received' = received + Len(rest)
    /\ UNCHANGED <<state, socket, ended, was_clean, opened, running, timerVars, outputVars>>

SwitchProtocols == \E rest \in Inputs(Room) : Respond("switching_protocols", rest)

RefuseRequest == Respond("http_error", <<>>)

(* A read of the request that completes after the timer ended it all.      *)
ReadTooLate ==
    /\ ReadCompletes("handshake") /\ state = "closed"
    /\ reads' = Tail(reads)
    /\ UNCHANGED <<istate, was_clean, writes, response, opened,
                   timerVars, endVars, inputVars, outputVars>>

WriteCompletes(handler) == ~running /\ writes # <<>> /\ Head(writes) = handler

(***************************************************************************)
(* handle_write_http_response: the connection opens, and handle_read_frame *)
(* is called for the bytes that came behind the request.                   *)
(***************************************************************************)
Open ==
    /\ WriteCompletes("http_response") /\ state = "connecting"
    /\ response = "switching_protocols"
    /\ writes' = Tail(writes)
    /\ CancelTimer(timers)
    /\ istate' = "PROCESS_CONNECTION"
    /\ state' = "open"
    /\ opened' = ("open" \in settings.handlers)
    /\ running' = TRUE
    /\ UNCHANGED <<was_clean, reads, response, ec, socket, ended, buf, received, outputVars>>

HandshakeRefused ==
    /\ WriteCompletes("http_response") /\ state = "connecting"
    /\ response = "http_error"
    /\ writes' = Tail(writes)
    /\ Terminate(timers, ec)
    /\ UNCHANGED <<istate, was_clean, reads, response, opened, inputVars, outputVars>>

ResponseTooLate ==
    /\ WriteCompletes("http_response") /\ state = "closed"
    /\ writes' = Tail(writes)
    /\ UNCHANGED <<istate, was_clean, reads, response, opened,
                   timerVars, endVars, inputVars, outputVars>>

ResponseFails ==
    /\ WriteCompletes("http_response")
    /\ writes' = Tail(writes)
    /\ Terminate(timers, "pass_through")
    /\ UNCHANGED <<istate, was_clean, reads, response, opened, inputVars, outputVars>>

-----------------------------------------------------------------------------
(* Writing messages.                                                       *)

PushInFront(msg) ==
    /\ send_queue' = <<msg>> \o send_queue
    /\ IF write_flag THEN UNCHANGED posted ELSE Dispatch

(* send, pong and send_close_frame: queue the message and, unless a write  *)
(* is in flight, post a call of write_frame.                               *)
Push(msg) ==
    /\ send_queue' = Append(send_queue, msg)
    /\ IF write_flag THEN UNCHANGED posted ELSE Dispatch

Everything(q) == Len(q)

(* The messages that write_frame takes off the queue: all of them, up to   *)
(* the first that is marked terminal.                                      *)
Batch(q) ==
    CHOOSE n \in 0 .. Len(q) :
        /\ \A k \in 1 .. n - 1 : ~q[k].terminal
        /\ n = Len(q) \/ (n > 0 /\ q[n].terminal)

(* write_pop until a terminal message, and one write for all of them.      *)
WriteBatch ==
    LET n == Batch(send_queue) IN
    /\ current_msgs' = SubSeq(send_queue, 1, n)
    /\ send_queue' = SubSeq(send_queue, n + 1, Len(send_queue))
    /\ write_flag' = TRUE
    /\ AsyncWrite("frames")
    /\ sent' = sent \o current_msgs'

WriteNothing == UNCHANGED <<send_queue, current_msgs, write_flag, writes, sent>>

WriteUnasked ==
    /\ ~running
    /\ posted' = posted - 1
    /\ WriteNothing
    /\ UNCHANGED <<istate, was_clean, reads, response, opened, answered,
                   timerVars, endVars, inputVars>>

WriteRegardless ==
    /\ ~running /\ posted > 0
    /\ posted' = posted - 1
    /\ IF send_queue = <<>> THEN WriteNothing ELSE WriteBatch
    /\ UNCHANGED <<istate, was_clean, reads, response, opened, answered,
                   timerVars, endVars, inputVars>>

WriteFrame ==
    /\ ~running /\ posted > 0
    /\ posted' = posted - 1
    /\ IF write_flag \/ send_queue = <<>> THEN WriteNothing ELSE WriteBatch
    /\ UNCHANGED <<istate, was_clean, reads, response, opened, answered,
                   timerVars, endVars, inputVars>>

FramesWrittenAndDone ==
    /\ WriteCompletes("frames")
    /\ writes' = Tail(writes)
    /\ current_msgs' = <<>>
    /\ IF current_msgs[Len(current_msgs)].terminal
       THEN Terminate(timers, "none") /\ UNCHANGED write_flag
       ELSE write_flag' = FALSE /\ UNCHANGED <<timerVars, endVars>>
    /\ UNCHANGED <<istate, was_clean, reads, response, opened, send_queue,
                   answered, sent, posted, inputVars>>

(* handle_write_frame.  The flag is kept when the connection ends here.    *)
FramesWritten ==
    /\ WriteCompletes("frames")
    /\ writes' = Tail(writes)
    /\ current_msgs' = <<>>
    /\ IF current_msgs[Len(current_msgs)].terminal
       THEN /\ Terminate(timers, "none")
            /\ UNCHANGED <<write_flag, posted>>
       ELSE /\ write_flag' = FALSE
            /\ posted' = IF send_queue = <<>> THEN posted ELSE posted + 1
            /\ UNCHANGED <<timerVars, endVars>>
    /\ UNCHANGED <<istate, was_clean, reads, response, opened, send_queue,
                   answered, sent, inputVars>>

WriteFramesFails ==
    /\ WriteCompletes("frames")
    /\ writes' = Tail(writes)
    /\ current_msgs' = <<>>
    /\ Terminate(timers, "pass_through")
    /\ UNCHANGED <<istate, was_clean, reads, response, opened, send_queue,
                   write_flag, posted, answered, sent, inputVars>>

CloseWithoutATimer(ack) ==
    /\ state' = "closing"
    /\ was_clean' = (was_clean \/ ack)
    /\ Push(CloseFrame)
    /\ UNCHANGED <<ec, socket, ended, timerVars>>

(***************************************************************************)
(* send_close_frame.  Every one this server sends is terminal: it is an    *)
(* acknowledgement, or it tells of a protocol error.                       *)
(***************************************************************************)
SendCloseFrame(ack) ==
    /\ state' = "closing"
    /\ was_clean' = (was_clean \/ ack)
    /\ IF settings.limits.close_handshake_timeout > 0
       THEN timers' = SetTimer(timers, "close") /\ handshake_timer' = Len(timers')
       ELSE UNCHANGED timerVars
    /\ Push(CloseFrame)
    /\ UNCHANGED <<ec, socket, ended>>

-----------------------------------------------------------------------------
(* handle_read_frame.                                                      *)

ReadFrames ==
    /\ ReadCompletes("frame")
    /\ \E input \in Inputs(Room) \ {<<>>} :
           /\ buf' = input
           /\ received' = received + Len(input)
    /\ reads' = Tail(reads)
    /\ running' = TRUE
    /\ UNCHANGED <<istate, was_clean, writes, response, opened, timerVars, endVars, outputVars>>

NextFrame(f) == running /\ buf # <<>> /\ Head(buf) = f /\ buf' = Tail(buf)

(* A handle is weak: a connection lives as long as its handlers are held.  *)
alive ==
    \/ running \/ reads # <<>> \/ writes # <<>> \/ posted > 0
    \/ \E k \in 1 .. Len(timers) : timers[k].status \in {"armed", "expired"}

get_con_from_hdl == IF alive THEN "none" ELSE "bad_connection"

(* The endpoint's send, which throws what keeps it from sending.           *)
SendError == IF alive /\ state # "open" THEN "invalid_state" ELSE get_con_from_hdl

Send == answered' = answered + 1 /\ Push(Reply(answered'))

EndpointSend ==
    IF SendError = "none" THEN Send ELSE UNCHANGED <<answered, send_queue, posted>>

(* A message for the message handler, OnMessage, which answers with one    *)
(* call of send; not while closing.                                        *)
DataMessage ==
    /\ NextFrame("data")
    /\ IF state = "open" /\ "message" \in settings.handlers
       THEN EndpointSend
       ELSE UNCHANGED <<answered, send_queue, posted>>
    /\ UNCHANGED <<istate, was_clean, reads, writes, response, opened, running, received,
                   current_msgs, write_flag, sent, timerVars, endVars>>

SendPong == IF state = "open" THEN Push(Pong) ELSE UNCHANGED <<send_queue, posted>>

Ping ==
    /\ NextFrame("ping")
    /\ SendPong
    /\ UNCHANGED <<istate, was_clean, reads, writes, response, opened, running, received,
                   answered, current_msgs, write_flag, sent, timerVars, endVars>>

(* A valid close frame is acknowledged, once; the answer to a close frame  *)
(* of this server ends the connection.                                     *)
PeerCloses ==
    /\ NextFrame("close")
    /\ IF state = "open"
       THEN SendCloseFrame(TRUE)
       ELSE IF state = "closing" /\ ~was_clean
       THEN /\ Terminate(timers, "none")
            /\ was_clean' = TRUE
            /\ UNCHANGED <<send_queue, posted>>
       ELSE UNCHANGED <<was_clean, send_queue, posted, timerVars, endVars>>
    /\ UNCHANGED <<istate, reads, writes, response, opened, running, received,
                   answered, current_msgs, write_flag, sent>>

(* One with an invalid code or reason is acknowledged, each time.          *)
PeerClosesBadly ==
    /\ NextFrame("badclose")
    /\ IF state = "closed"
       THEN UNCHANGED <<was_clean, send_queue, posted, timerVars, endVars>>
       ELSE SendCloseFrame(TRUE)
    /\ UNCHANGED <<istate, reads, writes, response, opened, running, received,
                   answered, current_msgs, write_flag, sent>>

(* close(), which is for open connections only.                            *)
Close == state = "open" /\ SendCloseFrame(FALSE)

(* An error of consume: close, or terminate when the connection is not     *)
(* open; the rest of buf is not looked at and no read is issued.           *)
ProtocolError ==
    /\ running /\ buf # <<>> /\ Head(buf) = "junk"
    /\ buf' = <<>>
    /\ running' = FALSE
    /\ \/ Close
       \/ /\ state # "open"
          /\ Terminate(timers, "error")
          /\ UNCHANGED <<was_clean, send_queue, posted>>
    /\ UNCHANGED <<istate, reads, writes, response, opened, received,
                   answered, current_msgs, write_flag, sent>>

(* The buffer is consumed: read_frame.                                     *)
ReadOn ==
    /\ running /\ buf = <<>>
    /\ running' = FALSE
    /\ AsyncRead(reads, "frame")
    /\ UNCHANGED <<istate, was_clean, writes, response, opened, buf, received,
                   timerVars, endVars, outputVars>>

ProcessFrame == DataMessage \/ Ping \/ PeerCloses \/ PeerClosesBadly \/ ProtocolError \/ ReadOn

-----------------------------------------------------------------------------
(* The time runs out, and the callback is queued whatever the thread does. *)
Expire(k) ==
    /\ timers[k].status = "armed"
    /\ timers' = [timers EXCEPT ![k].status = "expired"]
    /\ UNCHANGED <<istate, was_clean, reads, writes, response, opened, handshake_timer,
                   endVars, inputVars, outputVars>>

Expired(k, kinds) ==
    ~running /\ timers[k].status = "expired" /\ timers[k].kind \in kinds

Handled(k) == [timers EXCEPT ![k].status = "handled"]

(* handle_open_handshake_timeout and handle_close_handshake_timeout.       *)
HandleTimeout(k) ==
    /\ Expired(k, {"open", "close"})
    /\ Terminate(Handled(k), IF timers[k].kind = "open" THEN "open_timeout" ELSE "close_timeout")
    /\ UNCHANGED <<istate, was_clean, reads, writes, response, opened, inputVars, outputVars>>

(* handle_post_init_timeout; handle_transport_init takes its error.        *)
HandlePostInitTimeout(k) ==
    /\ Expired(k, {"post_init"})
    /\ Terminate(Handled(k), "error")
    /\ UNCHANGED <<istate, was_clean, reads, writes, response, opened, inputVars, outputVars>>

(* What is in flight is cancelled: it ends as on any socket that is shut.  *)
HandleAsyncShutdownTimeout(k) ==
    /\ Expired(k, {"shutdown"})
    /\ timers' = Handled(k)
    /\ HandleTerminate(timers[k].tstat)
    /\ UNCHANGED <<istate, was_clean, reads, writes, response, opened, handshake_timer,
                   state, ec, socket, inputVars, outputVars>>

Timeout ==
    \E k \in 1 .. Len(timers) :
        \/ Expire(k)
        \/ HandleTimeout(k) \/ HandlePostInitTimeout(k) \/ HandleAsyncShutdownTimeout(k)

Handshake ==
    \/ ReadMoreOfTheRequest \/ SwitchProtocols \/ RefuseRequest \/ ReadTooLate
    \/ Open \/ HandshakeRefused \/ ResponseTooLate \/ ResponseFails

(* What happens to a connection once it is accepted.                       *)
Serving ==
    \/ Handshake \/ Timeout
    \/ ReadFails \/ ReadFrames \/ ProcessFrame
    \/ WriteFrame \/ FramesWritten \/ WriteFramesFails

(***************************************************************************)
(* The thread runs what is ready and time passes.  A client may stay       *)
(* silent for ever; only on a socket that is shut does everything in       *)
(* flight end, with an error.                                              *)
(***************************************************************************)
EndsWithTheSocket ==
    socket = "shut" /\ (ReadFails \/ ResponseFails \/ WriteFramesFails)

Fairness ==
    /\ WF_vars(ProcessFrame) /\ WF_vars(WriteFrame)
    /\ WF_vars(Timeout) /\ WF_vars(EndsWithTheSocket)

-----------------------------------------------------------------------------
States == {"connecting", "open", "closing", "closed"}
InternalStates ==
    {"USER_INIT", "TRANSPORT_INIT", "READ_HTTP_REQUEST", "PROCESS_HTTP_REQUEST", "PROCESS_CONNECTION"}

(* What the fields of the connection hold, and no call of write_frame runs *)
(* that was not posted.                                                    *)
TypeOK ==
    /\ state \in States /\ istate \in InternalStates
    /\ ec \in {"none", "error", "eof", "pass_through", "open_timeout", "close_timeout"}
    /\ settings.handlers \subseteq Handlers /\ settings.limits \in [DOMAIN config -> Nat]
    /\ timers \in Seq([kind : {"post_init", "open", "close", "shutdown"},
                       status : {"armed", "cancelled", "expired", "handled"},
                       tstat : {"unknown", "failed", "closed"}])
    /\ handshake_timer \in 0 .. Len(timers)
    /\ reads \in Seq({"handshake", "frame"}) /\ writes \in Seq({"http_response", "frames"})
    /\ buf \in Seq(Frames) /\ received \in Nat
    /\ send_queue \in Seq([op : {"text", "pong", "close"}, n : Nat, terminal : BOOLEAN])
    /\ current_msgs \in Seq([op : {"text", "pong", "close"}, n : Nat, terminal : BOOLEAN])
    /\ sent \in Seq([op : {"text", "pong", "close"}, n : Nat, terminal : BOOLEAN])
    /\ posted \in Nat /\ answered \in Nat
    /\ running \in BOOLEAN /\ write_flag \in BOOLEAN
    /\ was_clean \in BOOLEAN /\ opened \in BOOLEAN
    /\ socket \in {"UNINITIALIZED", "READY", "READING", "shut"} /\ response \in {"none", "switching_protocols", "http_error"}
    /\ ended \in Seq({"failed", "closed"})

(***************************************************************************)
(* At most one read and one write are in flight: buf and the transport's   *)
(* buffer list are shared by all of them.  While handle_read_frame goes    *)
(* through buf no read is.                                                 *)
OneOfEach ==
    /\ Len(reads) <= 1 /\ Len(writes) <= 1
    /\ running => reads = <<>>
    /\ write_flag /\ state # "closed" => writes = <<"frames">>

(* Nobody forgets a queued message: unless the connection is over, a write *)
(* is in flight whose handler looks at the queue, or write_frame is posted.*)
NoLostWakeup ==
    send_queue # <<>> /\ state # "closed" => write_flag \/ posted > 0

(* The texts of s are the replies to n messages, in their order.           *)
AreReplies(s, n) ==
    LET texts == {i \in DOMAIN s : s[i].op = "text"}
    IN  /\ {s[i].n : i \in texts} = 1 .. n
        /\ \A i, j \in texts : i < j => s[i].n < s[j].n

(***************************************************************************)
(* What the client is sent: every reply in the order of the messages, none *)
(* left out and none twice, those still queued included.                   *)
RepliesInOrder == AreReplies(sent \o send_queue, answered)

(* A close frame is the last that is written, however many are queued.     *)
NothingAfterClose == \A k \in 1 .. Len(sent) - 1 : ~sent[k].terminal

(***************************************************************************)
(* A connection ends once, as failed if it never opened and as closed if   *)
(* it did (the close handler runs "exactly once for every connection for   *)
(* which the open handler was called"); when the thread was held up, only  *)
(* with the shutdown timer.  Nobody lets go of a connection before that.   *)
EndsOnce ==
    LET ending == {k \in 1 .. Len(timers) :
                       timers[k].kind = "shutdown" /\ timers[k].status = "expired"} IN
    /\ Len(ended) + Cardinality(ending) = IF state = "closed" THEN 1 ELSE 0
    /\ ended # <<>> => ended = <<IF opened THEN "closed" ELSE "failed">>
    /\ istate # "USER_INIT" /\ ~alive => ended # <<>>

Drained == reads = <<>> /\ writes = <<>> /\ posted = 0 /\ ~running /\ ended # <<>>
===============================================================================
