----------------------------- MODULE FrameReader -----------------------------
(***************************************************************************)
(* The frames of a connection: what the hybi13 processor makes of the      *)
(* bytes of buf, in whatever pieces they arrive, and the frames that the   *)
(* connection writes in answer to each message.                            *)
(*                                                                         *)
(* consume is a loop over a state machine; an action is one turn of it.    *)
(* The names are those of the source, without the prefix m_.  A pointer is *)
(* a sequence of at most one element.                                      *)
(***************************************************************************)
EXTENDS FrameHeaders, Utf8

CONSTANTS
    max_message_size,
    ReplySizes         \* the sizes of the replies that OnMessage may send

VARIABLES
    pstate,        \* state of the processor
    bytes_needed,
    basic,         \* basic_header
    extended,      \* what was read of extended_header
    data_msg,      \* the data message that is being put together
    control_msg,
    current,       \* current_msg: which of the two
    buf,           \* the bytes of the connection's buf still to be consumed
    consume_ec,    \* the error that ended the reading
    conn,          \* session::state
    delivered,     \* the messages that get_message returned
    written        \* the last frame that was prepared for the client

readerVars == <<pstate, bytes_needed, basic, extended, data_msg, control_msg, current>>
connVars == <<conn, delivered, written>>
frameVars == <<readerVars, connVars, buf, consume_ec>>

NoFrame == [op |-> CONTINUATION, header |-> <<>>, size |-> 0]

FrameInit ==
    /\ pstate = "HEADER_BASIC" /\ bytes_needed = 2
    /\ basic = <<0, 0>> /\ extended = <<>>
    /\ data_msg = <<>> /\ control_msg = <<>> /\ current = "data"
    /\ buf = <<>> /\ consume_ec = "none"
    /\ conn = "open" /\ delivered = <<>> /\ written = NoFrame

-----------------------------------------------------------------------------
(* Writing.  The errors of prepare_close and prepare_control.              *)

Write(op, size) ==
    written' = [op |-> op, size |-> size,
                header |-> prepare_header(basic_header(op, size, TRUE, FALSE), size)]

prepare_close_ec(code, reasonSize) ==
    CASE reserved(code) -> "reserved_close_code"
      [] invalid(code) /\ code # no_status -> "invalid_close_code"
      [] code = no_status /\ reasonSize > 0 -> "reason_requires_code"
      [] reasonSize > payload_size_basic - 2 -> "control_too_big"
      [] OTHER -> "none"

(* send_close_frame with a code that is not blank; when the frame cannot   *)
(* be prepared the connection stays as it is.                              *)
send_close_frame(code, reasonSize) ==
    IF prepare_close_ec(code, reasonSize) = "none"
    THEN conn' = "closing" /\ Write(CLOSE, IF code = no_status THEN 0 ELSE reasonSize + 2)
    ELSE UNCHANGED <<conn, written>>

to_ws(error) ==
    CASE error = "invalid_utf8" -> invalid_payload
      [] error = "message_too_big" -> message_too_big
      [] error = "non_minimal_encoding" -> internal_endpoint_error
      [] OTHER -> protocol_error

ErrorText == 57  \* the length of the longest message of an error of consume

(* An error of consume: the rest of buf is dropped and nothing more read.  *)
Fail(error) ==
    /\ consume_ec' = error
    /\ buf' = <<>>
    /\ IF conn = "open"
       THEN send_close_frame(to_ws(error), ErrorText)
       ELSE conn' = "closed" /\ UNCHANGED written
    /\ UNCHANGED delivered

-----------------------------------------------------------------------------
(* Reading.                                                                *)

NewMsg(op, key) == [op |-> op, payload |-> <<>>, prepared_key |-> key, validator |-> utf8_accept]

reset_headers ==
    pstate' = "HEADER_BASIC" /\ bytes_needed' = 2 /\ basic' = <<0, 0>> /\ extended' = <<>>

Available == IF bytes_needed < Len(buf) THEN bytes_needed ELSE Len(buf)

ConsumeBytes(state) == pstate = state /\ consume_ec = "none" /\ buf # <<>>

Consume(state) ==
    /\ pstate = state /\ consume_ec = "none"
    /\ buf # <<>> \/ bytes_needed = 0

Advance == buf' = SubSeq(buf, Available + 1, Len(buf)) /\ UNCHANGED <<consume_ec, connVars>>

validate_incoming_basic_header(h, new_msg) ==
    LET op == get_opcode(h) IN
    CASE is_control(op) /\ get_basic_size(h) > payload_size_basic -> "control_too_big"
      [] get_rsv1(h) \/ get_rsv2(h) \/ get_rsv3(h) -> "invalid_rsv_bit"
      [] reserved_opcode(op) -> "invalid_opcode"
      [] is_control(op) /\ ~get_fin(h) -> "fragmented_control"
      [] new_msg /\ op = CONTINUATION -> "invalid_continuation"
      [] ~new_msg /\ ~is_control(op) /\ op # CONTINUATION -> "invalid_continuation"
      [] ~get_masked(h) -> "masking_required"
      [] OTHER -> "none"

validate_incoming_extended_header(h, e) ==
    IF \/ get_basic_size(h) = payload_size_code_16bit /\ get_payload_size(h, e) <= payload_size_basic
       \/ get_basic_size(h) = payload_size_code_64bit /\ get_payload_size(h, e) <= payload_size_extended
    THEN "non_minimal_encoding"
    ELSE "none"

copy_basic_header_bytes ==
    CASE bytes_needed = 1 -> <<basic[1], buf[1]>>
      [] Len(buf) = 1 -> <<buf[1], basic[2]>>
      [] OTHER -> SubSeq(buf, 1, 2)

BasicHeader ==
    /\ Consume("HEADER_BASIC")
    /\ basic' = copy_basic_header_bytes
    /\ LET error == validate_incoming_basic_header(basic', data_msg = <<>>) IN
       CASE Available < bytes_needed ->
              Advance /\ bytes_needed' = bytes_needed - Available /\ UNCHANGED pstate
         [] Available = bytes_needed /\ error # "none" ->
              Fail(error) /\ UNCHANGED <<pstate, bytes_needed>>
         [] OTHER ->
              /\ Advance
              /\ pstate' = "HEADER_EXTENDED"
              /\ bytes_needed' = get_header_len(basic') - 2
    /\ UNCHANGED <<extended, data_msg, control_msg, current>>

copy_extended_header_bytes == extended \o SubSeq(buf, 1, Available)

(* The header is complete: a control frame is a message of its own; a data *)
(* frame begins a message or goes on with one, and has its own key.        *)
BeginPayload(key) ==
    LET op == get_opcode(basic) IN
    CASE is_control(op) ->
           /\ control_msg' = <<NewMsg(op, key)>>
           /\ current' = "control"
           /\ UNCHANGED data_msg
      [] ~is_control(op) /\ data_msg = <<>> ->
           /\ data_msg' = <<NewMsg(op, key)>>
           /\ current' = "data"
           /\ UNCHANGED control_msg
      [] OTHER ->
           /\ data_msg' = [data_msg EXCEPT ![1].prepared_key = key]
           /\ current' = "data"
           /\ UNCHANGED control_msg

SizeSoFar == IF data_msg = <<>> THEN 0 ELSE Len(data_msg[1].payload)

TooBig(size) == ~is_control(get_opcode(basic)) /\ SizeSoFar + size > max_message_size

ExtendedHeader ==
    /\ Consume("HEADER_EXTENDED")
    /\ extended' = copy_extended_header_bytes
    /\ LET size == get_payload_size(basic, extended')
           error == validate_incoming_extended_header(basic, extended')
       IN
       CASE Available < bytes_needed ->
              /\ Advance
              /\ bytes_needed' = bytes_needed - Available
              /\ UNCHANGED <<pstate, data_msg, control_msg, current>>
         [] Available = bytes_needed /\ error # "none" ->
              Fail(error) /\ UNCHANGED <<pstate, bytes_needed, data_msg, control_msg, current>>
         [] Available = bytes_needed /\ error = "none" /\ TooBig(size) ->
              Fail("message_too_big") /\ pstate' = "APPLICATION" /\ bytes_needed' = size
              /\ UNCHANGED <<data_msg, control_msg, current>>
         [] OTHER ->
              /\ Advance
              /\ pstate' = "APPLICATION"
              /\ bytes_needed' = size
              /\ BeginPayload(get_masking_key(basic, extended'))
    /\ UNCHANGED basic

-----------------------------------------------------------------------------
current_msg == IF current = "data" THEN data_msg[1] ELSE control_msg[1]

(* Unmask, append, and go on with the validation of a text.                *)
process_payload_bytes(bytes) ==
    LET clear == byte_mask_circ(bytes, current_msg.prepared_key) IN
    [current_msg EXCEPT
        !.payload = @ \o clear,
        !.prepared_key = circshift_prepared_key(@, Len(bytes) % 4),
        !.validator = IF current_msg.op = TEXT THEN decodeRange(@, clear) ELSE @]

SetCurrent(msg) ==
    IF current = "data"
    THEN data_msg' = <<msg>> /\ UNCHANGED control_msg
    ELSE control_msg' = <<msg>> /\ UNCHANGED data_msg

(* finalize_message: whether the text is complete is asked of the opcode   *)
(* of this frame, the last one of the message.                             *)
EndsInCodePoint(msg) == get_opcode(basic) = TEXT /\ msg.validator # utf8_accept

Payload ==
    /\ Consume("APPLICATION")
    /\ LET msg == process_payload_bytes(SubSeq(buf, 1, Available)) IN
       /\ SetCurrent(msg)
       /\ CASE msg.validator = utf8_reject ->
                 Fail("invalid_utf8") /\ UNCHANGED <<pstate, bytes_needed, basic, extended>>
            [] msg.validator # utf8_reject /\ Available < bytes_needed ->
                 /\ Advance
                 /\ bytes_needed' = bytes_needed - Available
                 /\ UNCHANGED <<pstate, basic, extended>>
            [] msg.validator # utf8_reject /\ Available = bytes_needed /\ ~get_fin(basic) ->
                 Advance /\ reset_headers
            [] OTHER ->
                 /\ IF EndsInCodePoint(msg)
                    THEN Fail("invalid_utf8") /\ UNCHANGED pstate
                    ELSE Advance /\ pstate' = "READY"
                 /\ bytes_needed' = 0
                 /\ UNCHANGED <<basic, extended>>
    /\ UNCHANGED current

-----------------------------------------------------------------------------
(* get_message, and what handle_read_frame does with the message.          *)

extract_code(payload) ==
    IF Len(payload) = 0 THEN no_status
    ELSE IF Len(payload) = 1 THEN blank
    ELSE ntoh(SubSeq(payload, 1, 2))

(* process_control_frame for a close frame: the code and the reason are    *)
(* echoed, "normal" stands for no code, and an invalid code or reason is   *)
(* acknowledged with a protocol error and a text of 18 or 20 letters.      *)
Acknowledge(payload) ==
    LET code == extract_code(payload)
        reason == SubSeq(payload, 3, Len(payload))
    IN
    IF Len(payload) > 0 /\ (invalid(code) \/ reserved(code))
    THEN send_close_frame(protocol_error, 18)
    ELSE IF ~validate(reason)
    THEN send_close_frame(protocol_error, 20)
    ELSE IF conn = "open"
    THEN IF code = no_status THEN send_close_frame(normal, 0)
                             ELSE send_close_frame(code, Len(reason))
    ELSE UNCHANGED <<conn, written>>

Dispatch(msg) ==
    CASE ~is_control(msg.op) /\ conn = "open" ->
           (\E size \in ReplySizes : Write(TEXT, size)) /\ UNCHANGED conn
      [] msg.op = PING /\ conn = "open" -> Write(PONG, Len(msg.payload)) /\ UNCHANGED conn
      [] msg.op = CLOSE -> Acknowledge(msg.payload)
      [] OTHER -> UNCHANGED <<conn, written>>

get_message ==
    /\ pstate = "READY"
    /\ delivered' = Append(delivered, [op |-> current_msg.op, payload |-> current_msg.payload])
    /\ Dispatch(current_msg)
    /\ IF is_control(current_msg.op)
       THEN control_msg' = <<>> /\ UNCHANGED data_msg
       ELSE data_msg' = <<>> /\ UNCHANGED control_msg
    /\ reset_headers
    /\ UNCHANGED <<current, buf, consume_ec>>

FrameNext == BasicHeader \/ ExtendedHeader \/ Payload \/ get_message
===============================================================================
