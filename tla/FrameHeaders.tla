----------------------------- MODULE FrameHeaders -----------------------------
(***************************************************************************)
(* The header of a WebSocket frame and its masking key (frame.hpp), and    *)
(* close codes (close.hpp).  Bytes are 0 .. 255; a bit field is cut out of *)
(* its byte with \div and %.                                               *)
(***************************************************************************)
EXTENDS Naturals, Sequences, SequencesExt, Bitwise

CONTINUATION == 0
TEXT == 1
BINARY == 2
CLOSE == 8
PING == 9
PONG == 10

reserved_opcode(op) == op \in 3 .. 7 \/ op \in 11 .. 15
is_control(op) == op >= 8

payload_size_basic == 125
payload_size_extended == 65535
payload_size_code_16bit == 126
payload_size_code_64bit == 127

-----------------------------------------------------------------------------
(* The basic header h = <<b0, b1>>.                                        *)
get_fin(h) == h[1] \div 128 = 1
get_rsv1(h) == (h[1] \div 64) % 2 = 1
get_rsv2(h) == (h[1] \div 32) % 2 = 1
get_rsv3(h) == (h[1] \div 16) % 2 = 1
get_opcode(h) == h[1] % 16
get_masked(h) == h[2] \div 128 = 1
get_basic_size(h) == h[2] % 128

get_masking_key_offset(h) ==
    CASE get_basic_size(h) = payload_size_code_16bit -> 2
      [] get_basic_size(h) = payload_size_code_64bit -> 8
      [] OTHER -> 0

get_header_len(h) == 2 + get_masking_key_offset(h) + IF get_masked(h) THEN 4 ELSE 0

(* Network byte order, for numbers of at most 31 bits.                     *)
hton(n, k) ==
    [i \in 1 .. k |-> IF k - i > 3 THEN 0 ELSE (n \div 256 ^ (k - i)) % 256]
ntoh(bytes) == FoldLeft(LAMBDA n, b : n * 256 + b, 0, bytes)

(* The extended header e: the size, if it is not in h, and the key.        *)
get_payload_size(h, e) ==
    CASE get_basic_size(h) = payload_size_code_16bit -> ntoh(SubSeq(e, 1, 2))
      [] get_basic_size(h) = payload_size_code_64bit -> ntoh(SubSeq(e, 1, 8))
      [] OTHER -> get_basic_size(h)

get_masking_key(h, e) ==
    LET offset == get_masking_key_offset(h) IN SubSeq(e, offset + 1, offset + 4)

small_header(op, size, fin, mask) ==
    <<(IF fin THEN 128 ELSE 0) + op,
      (IF mask THEN 128 ELSE 0)
        + CASE size <= payload_size_basic -> size
            [] size \in payload_size_basic + 1 .. payload_size_extended - 1 -> payload_size_code_16bit
            [] OTHER -> payload_size_code_64bit>>

basic_header(op, size, fin, mask) ==
    <<(IF fin THEN 128 ELSE 0) + op,
      (IF mask THEN 128 ELSE 0)
        + CASE size <= payload_size_basic -> size
            [] size \in payload_size_basic + 1 .. payload_size_extended -> payload_size_code_16bit
            [] OTHER -> payload_size_code_64bit>>

copy_payload(size) ==
    CASE size <= payload_size_basic -> <<>>
      [] size \in payload_size_basic + 1 .. payload_size_extended -> hton(size, 2)
      [] OTHER -> hton(size, 8)

(* A frame of the server is not masked.                                    *)
prepare_header(h, size) ==
    LET bytes == copy_payload(size) \o [i \in 1 .. 12 |-> 0]
    IN  h \o SubSeq(bytes, 1, get_header_len(h) - 2)

-----------------------------------------------------------------------------
KeepKey(key, offset) == key

(* A prepared key is turned by the bytes it has masked, for the next ones. *)
circshift_prepared_key(key, offset) ==
    SubSeq(key, offset + 1, 4) \o SubSeq(key, 1, offset)

byte_mask_circ(bytes, key) ==
    [i \in 1 .. Len(bytes) |-> bytes[i] ^^ key[((i - 1) % 4) + 1]]

byte_mask(bytes, key, key_offset) ==
    [i \in 1 .. Len(bytes) |-> bytes[i] ^^ key[((key_offset + i - 1) % 4) + 1]]

-----------------------------------------------------------------------------
(* Close codes.                                                            *)
blank == 0
normal == 1000
protocol_error == 1002
no_status == 1005
abnormal_close == 1006
invalid_payload == 1007
message_too_big == 1009
internal_endpoint_error == 1011
tls_handshake == 1015

reserved(code) == code \in 1016 .. 2999 \cup {1004, 1014}
invalid(code) ==
    code <= 999 \/ code >= 5000 \/ code \in {no_status, abnormal_close, tls_handshake}
===============================================================================
