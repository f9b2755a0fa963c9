------------------------------- MODULE ReadPath -------------------------------
(***************************************************************************)
(* What a connection reads, from the first byte of the request to the last *)
(* frame: the bytes of the client come in reads of any size, HttpRequest   *)
(* takes the request out of them, and FrameReader, or Hybi00 for an old    *)
(* client, goes on with what is left of the read in which it ended.        *)
(***************************************************************************)
EXTENDS ClientRequests, Hybi00

CONSTANTS
    Clients   \* what a client may send: lines, frames, and how it arrives

VARIABLES
    client,   \* the client that is connected
    wire,     \* what it has sent and the server has not read
    expected  \* what a reader of whole frames makes of its frames

vars == <<client, wire, expected, httpVars, frameVars>>

-----------------------------------------------------------------------------
(* The client: lines end with CR LF, and frames are put together from      *)
(* their fields, rightly or not; extra is the number of bytes that hold    *)
(* the size.  The body of an old client is its third key, and its frames   *)
(* are texts between two marks.                                            *)

RequestOf(c) == FlattenSeq([i \in 1 .. Len(c.lines) |-> <<c.lines[i], CR, LF>>]) \o <<CR, LF>> \o c.body

EncodedFrame(f) ==
    <<(IF f.fin THEN 128 ELSE 0) + 16 * f.rsv + f.op,
      (IF f.mask THEN 128 ELSE 0)
        + (CASE f.extra = 0 -> Len(f.payload) [] f.extra = 2 -> 126 [] f.extra = 8 -> 127)>>
    \o hton(Len(f.payload), f.extra)
    \o (IF f.mask THEN f.key ELSE <<>>)
    \o (IF f.mask THEN byte_mask(f.payload, f.key, 0) ELSE f.payload)

OldFrame(f) == IF f.op = TEXT THEN <<0>> \o f.payload \o <<255>> ELSE <<255, 0>>

EncodedFrames(c) ==
    FlattenSeq([i \in 1 .. Len(c.frames) |->
        IF IsVersion0(c) THEN OldFrame(c.frames[i]) ELSE EncodedFrame(c.frames[i])])

(* How much a read may bring.                                              *)
Reads == {k \in 1 .. Len(wire) : k \in client.reads \/ k = Len(wire)}

-----------------------------------------------------------------------------
(* What the frames of a client are worth, frame by frame: the messages, up *)
(* to the first frame that is at fault, with the codes for its faults.     *)

BadFraming(f, open) ==
    \/ f.rsv # 0 \/ ~f.mask
    \/ f.op \notin {CONTINUATION, TEXT, BINARY, CLOSE, PING, PONG}
    \/ f.op \in {CLOSE, PING, PONG} /\ (~f.fin \/ f.extra # 0)
    \/ f.op = CONTINUATION /\ open = <<>>
    \/ f.op \in {TEXT, BINARY} /\ open # <<>>

NotMinimal(f) ==
    \/ f.extra = 2 /\ Len(f.payload) <= 125
    \/ f.extra = 8 /\ Len(f.payload) <= 65535

(* A text is UTF-8; as long as more of it is to come it starts like UTF-8. *)
BadText(f, whole) == IF f.fin THEN ~IsUtf8(whole) ELSE ~IsStartOfUtf8(whole)

FrameStep(r, f) ==
    LET data == ~is_control(f.op)
        before == IF data /\ r.open # <<>> THEN r.open[1].payload ELSE <<>>
        msg == [op |-> IF data /\ r.open # <<>> THEN r.open[1].op ELSE f.op,
                payload |-> before \o f.payload]
        faults == {c \in {protocol_error, internal_endpoint_error, message_too_big, invalid_payload} :
                     CASE c = protocol_error -> BadFraming(f, r.open)
                       [] c = internal_endpoint_error -> NotMinimal(f)
                       [] c = message_too_big -> data /\ Len(msg.payload) > max_message_size
                       [] c = invalid_payload -> msg.op = TEXT /\ BadText(f, msg.payload)}
    IN  IF r.faults # {} THEN r
        ELSE IF faults # {} THEN [r EXCEPT !.faults = faults]
        ELSE [r EXCEPT !.out = IF f.fin THEN Append(@, msg) ELSE @,
                       !.open = IF ~data THEN @ ELSE IF f.fin THEN <<>> ELSE <<msg>>]

OldFrameStep(r, f) ==
    IF r.faults # {} THEN r
    ELSE IF f.op # TEXT THEN [r EXCEPT !.faults = {protocol_error}]
    ELSE IF ~IsUtf8(f.payload) THEN [r EXCEPT !.faults = {invalid_payload}]
    ELSE [r EXCEPT !.out = Append(@, [op |-> TEXT, payload |-> f.payload])]

Meaning(c) ==
    LET Step(r, f) == IF IsVersion0(c) THEN OldFrameStep(r, f) ELSE FrameStep(r, f)
    IN  FoldLeft(Step, [open |-> <<>>, out |-> <<>>, faults |-> {}], c.frames)

-----------------------------------------------------------------------------
Init ==
    /\ HttpInit /\ FrameInit
    /\ client \in Clients
    /\ wire = RequestOf(client) \o EncodedFrames(client)
    /\ expected = Meaning(client)

Receive(k) == wire' = SubSeq(wire, k + 1, Len(wire))

ReadHandshake ==
    \E k \in Reads :
        /\ client.whole => k >= Len(RequestOf(client))
        /\ HandleReadHandshake(SubSeq(wire, 1, k))
        /\ Receive(k)
        /\ UNCHANGED <<client, expected, frameVars>>

ParseRequest == HttpNext /\ UNCHANGED <<client, wire, expected, frameVars>>

(* The response; behind it the frames begin with what is left of the read. *)
Respond ==
    /\ parser = "ready"
    /\ parser' = "responded"
    /\ status' = StatusOfRequest
    /\ response' = process_handshake
    /\ buf' = IF status' = 101 THEN Leftover ELSE <<>>
    /\ pstate' = IF status' = 101 /\ get_websocket_version = 0 THEN "HEADER" ELSE pstate
    /\ UNCHANGED requestVars
    /\ UNCHANGED <<bytes_needed, basic, extended, data_msg, control_msg, current>>
    /\ UNCHANGED <<client, wire, expected, connVars, consume_ec>>

(* read_frame, and handle_read_frame with what it brings.                  *)
Waiting ==
    /\ status = 101 /\ consume_ec = "none"
    /\ buf = <<>> /\ pstate \notin {"READY", "MESSAGE"} /\ bytes_needed > 0

ReadFrame ==
    /\ Waiting
    /\ \E k \in Reads : buf' = SubSeq(wire, 1, k) /\ Receive(k)
    /\ UNCHANGED <<client, expected, httpVars, readerVars, connVars, consume_ec>>

ConsumeFrames == (FrameNext \/ NextOfHybi00) /\ UNCHANGED <<client, wire, expected, httpVars>>

Next == ReadHandshake \/ ParseRequest \/ Respond \/ ReadFrame \/ ConsumeFrames

Spec == Init /\ [][Next]_vars /\ WF_vars(Next)

-----------------------------------------------------------------------------
(* The answer to a request does not depend on how it arrives, but for the  *)
(* eight bytes of version 0; and who is let in has been understood: the    *)
(* answer that goes out is the one its client waits for, with what the     *)
(* other end of this library looks for in it, and the subprotocols are     *)
(* those that it named.  A client of another version learns which ones     *)
(* there are.                                                              *)
GoesOut == parser = "responded" /\ basic = <<0, 0>> /\ delivered = <<>> /\ extended = <<>>

AnsweredOnItsMerits ==
    /\ status # 0 => status \in StatusDeserved(client)
    /\ GoesOut /\ status = 101 =>
         /\ \E bytes \in {handshake_buffer} : AcceptedBy(client, bytes)
         /\ requested_subprotocols = ProtocolsOf(client)
    /\ GoesOut /\ IsUpgrade(client) /\ Has(client, NewVersions) =>
         VersionsToTry \in AnswerRead(handshake_buffer).lines

(* Nor do the messages: the server is given those that the client sent, in *)
(* order and once, control frames between the pieces of a message or not,  *)
(* and stops at the frame that is at fault, for a fault that it has.       *)
Quiet == Waiting /\ wire = <<>>

DeliversWhatWasSent ==
    /\ IsPrefix(delivered, expected.out)
    /\ consume_ec # "none" => /\ delivered = expected.out
                              /\ to_ws(consume_ec) \in expected.faults
    /\ Quiet => delivered = expected.out /\ expected.faults = {}

(* What is delivered as a text is UTF-8 and ends with a code point, as the *)
(* comments of finalize_message (hybi13.hpp:514) and of version 0's        *)
(* consume (hybi00.hpp:301) have it.                                       *)
TextsAreUtf8 == \A m \in ToSet(delivered) : m.op = TEXT => IsUtf8(m.payload)

(* A client can tell the size of every frame it is sent, and every close   *)
(* frame that it sends, and every error, is answered with a close frame.   *)
ClientReadsSize(h) ==
    CASE h[2] < 126 -> h[2]
      [] h[2] = 126 -> h[3] * 256 + h[4]
      [] h[2] = 127 -> ntoh(SubSeq(h, 3, 10))

AnswersInFrames ==
    /\ written # NoFrame /\ IsVersion0(client) =>
         written.header = IF written.op = TEXT THEN <<0>> ELSE <<255, 0>>
    /\ written # NoFrame /\ ~IsVersion0(client) =>
         /\ written.header[1] = 128 + written.op
         /\ Len(written.header) = (CASE written.size < 126 -> 2
                                     [] written.size \in 126 .. 65535 -> 4
                                     [] OTHER -> 10)
         /\ ClientReadsSize(written.header) = written.size
    /\ (consume_ec # "none" \/ \E m \in ToSet(delivered) : m.op = CLOSE) => conn # "open"

(* Whatever is sent is read to the end or to the first fault: consume      *)
(* never goes round without getting on.                                    *)
ReadsToTheEnd == <>(Quiet \/ consume_ec # "none" \/ status \notin {0, 101})
===============================================================================
