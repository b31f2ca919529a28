------------------------------ MODULE EthDetect ------------------------------
(***************************************************************************)
(* detect_eth_header_size: the size of the link header is the first offset *)
(* from 14 to 22 at which the bytes of a frame look like an IPv4 header.   *)
(* views[o] is what a header read at offset o would hold: its version, its *)
(* length in words and the total length of its datagram.                   *)
(***************************************************************************)
EXTENDS Integers

ETH_MIN == 14
ETH_MAX == 22
MIN_IP_HEADER_LEN == 20

ValidHeaderInside(h, off, caplen) ==
  /\ off + MIN_IP_HEADER_LEN <= caplen
  /\ h.version = 4 /\ h.ihl >= 5
  /\ h.total >= 4 * h.ihl /\ h.total < caplen - off
is_valid_ip_header(h, off, caplen) ==
  /\ off + MIN_IP_HEADER_LEN <= caplen
  /\ h.version = 4 /\ h.ihl >= 5
  /\ h.total >= 4 * h.ihl /\ h.total <= caplen - off

(* 0 when no offset will do.                                               *)
detect_eth_header_size(views, caplen) ==
  LET good == {o \in ETH_MIN .. ETH_MAX : is_valid_ip_header(views[o], o, caplen)}
  IN IF good = {} THEN 0 ELSE CHOOSE o \in good : \A o2 \in good : o <= o2
=============================================================================
