--------------------------------- MODULE Hybi00 ---------------------------------
(***************************************************************************)
(* The processor of version 0 of the protocol, which a client without a    *)
(* Sec-WebSocket-Version header gets: a message is the bytes between a 0   *)
(* and a 255, and there are no control frames.  It shares the variables of *)
(* FrameReader; its states have names of their own.                        *)
(***************************************************************************)
EXTENDS FrameReader

msg_hdr == 0
msg_ftr == 255

(* prepare_data_frame and prepare_close, which ignores code and reason.    *)
WriteText == \E size \in ReplySizes : written' = [op |-> TEXT, size |-> size, header |-> <<msg_hdr>>]
WriteClose == written' = [op |-> CLOSE, size |-> 0, header |-> <<255, 0>>]

FailHybi00(error) ==
    /\ consume_ec' = error
    /\ buf' = <<>>
    /\ IF conn = "open" THEN conn' = "closing" /\ WriteClose
                        ELSE conn' = "closed" /\ UNCHANGED written
    /\ UNCHANGED delivered

Reading(state) == pstate = state /\ consume_ec = "none" /\ buf # <<>>

MessageHeader ==
    /\ Reading("HEADER")
    /\ IF buf[1] = msg_hdr
       THEN /\ buf' = Tail(buf)
            /\ data_msg' = <<NewMsg(TEXT, <<>>)>>
            /\ pstate' = "PAYLOAD"
            /\ UNCHANGED <<consume_ec, connVars>>
       ELSE /\ FailHybi00("protocol_violation")
            /\ pstate' = "FATAL_ERROR"
            /\ UNCHANGED data_msg
    /\ UNCHANGED <<bytes_needed, basic, extended, control_msg, current>>

Footer ==
    LET at == {i \in 1 .. Len(buf) : buf[i] = msg_ftr}
    IN  IF at = {} THEN Len(buf) + 1 ELSE CHOOSE i \in at : \A j \in at : i <= j

MessagePayload ==
    /\ Reading("PAYLOAD")
    /\ data_msg' = [data_msg EXCEPT ![1].payload = @ \o SubSeq(buf, 1, Footer - 1)]
    /\ buf' = SubSeq(buf, Footer + 1, Len(buf))
    /\ pstate' = IF Footer <= Len(buf) THEN "MESSAGE" ELSE "PAYLOAD"
    /\ UNCHANGED <<bytes_needed, basic, extended, control_msg, current, consume_ec, connVars>>

(* get_message, and the reply of OnMessage.                                *)
MessageDone ==
    /\ pstate = "MESSAGE"
    /\ delivered' = Append(delivered, [op |-> TEXT, payload |-> data_msg[1].payload])
    /\ data_msg' = <<>>
    /\ pstate' = "HEADER"
    /\ IF conn = "open" THEN WriteText ELSE UNCHANGED written
    /\ UNCHANGED <<bytes_needed, basic, extended, control_msg, current, buf, consume_ec, conn>>

NextOfHybi00 == MessageHeader \/ MessagePayload \/ MessageDone
===============================================================================
