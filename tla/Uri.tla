---------------------------------- MODULE Uri ----------------------------------
(***************************************************************************)
(* The address that a client has asked for: the value of the Host header   *)
(* split into host and port, and back into a text.                         *)
(***************************************************************************)
EXTENDS HttpHeaders

uri_default_port == 80

(* A port: none is the default one, and it is not 0 and has 16 bits.       *)
get_port_from_string(port) == IF port = <<>> THEN uri_default_port ELSE Number(port)
port_valid(port) == get_port_from_string(port) \in 1 .. 65535

OrRoot(resource) == IF resource = <<>> THEN <<"/">> ELSE resource

(* A uri of a server without TLS.  The port of a bad uri is kept in its    *)
(* 16 bits, for nobody.                                                    *)
uri(host, port, resource) ==
    [host |-> host, port |-> get_port_from_string(port) % 65536,
     resource |-> OrRoot(resource), valid |-> port_valid(port)]

uri_of_host(host, resource) ==
    [host |-> host, port |-> uri_default_port, resource |-> OrRoot(resource), valid |-> TRUE]

(* The last colon separates the port, unless a bracket closes behind it.   *)
HasPort(h) == rfind(h, ":") > rfind(h, "]")

get_uri_from_host(h, resource) ==
    IF HasPort(h)
    THEN uri(SubSeq(h, 1, rfind(h, ":") - 1), From(h, rfind(h, ":") + 1), resource)
    ELSE uri_of_host(h, resource)

get_host_port(u) ==
    IF u.port = uri_default_port THEN u.host ELSE u.host \o <<":", ToString(u.port)>>

(* str(): the scheme, the host, the port unless it is the default, and the *)
(* resource.  The port stands for its digits.                              *)
str(u) ==
    <<"ws", ":", "/", "/">> \o u.host
    \o (IF u.port = uri_default_port THEN <<>> ELSE <<":", ToString(u.port)>>)
    \o u.resource
===============================================================================
