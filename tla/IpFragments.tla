----------------------------- MODULE IpFragments -----------------------------
(***************************************************************************)
(* IP_stream: the fragments of IP datagrams, one doubly linked list per    *)
(* ip_id, as pure operators.  A list is its fragments in the order they    *)
(* were made, each [offset, payload], and the pointers of each; 0 is NULL. *)
(***************************************************************************)
EXTENDS Integers, Sequences

(* ip_off as the program reads it, without ntohs: the flag and the offset  *)
(* (in units of eight bytes) of datagram d in network byte order, read on  *)
(* a machine that is little-endian or not.                                 *)
ip_off(d, little) ==
  LET high == (IF d.mf THEN 32 ELSE 0) + d.off \div 256
      low  == d.off % 256
  IN IF little THEN 256 * low + high ELSE 256 * high + low

(* ip_off & IP_MF.                                                         *)
IP_MF == 8192
HasFlagMF(raw) == (raw \div IP_MF) % 2 = 1

NewList(f) == [frag |-> <<f>>, next |-> <<0>>, prev |-> <<0>>, first |-> 1, last |-> 1]

(* enqueue walks along prev from the last node to one of smaller offset.   *)
InsertAfter(l, f) ==
  LET at[k \in 0 .. Len(l.frag)] ==
        IF k = 0 THEN l.last
        ELSE IF at[k - 1] = 0 THEN 0
        ELSE IF l.frag[at[k - 1]].offset < f.offset THEN at[k - 1]
        ELSE l.prev[at[k - 1]]
  IN at[Len(l.frag)]

(* In the middle of the list the node after the new one keeps its old prev.*)
LinkAfterCut(l, f, c) ==
  LET new == Len(l.frag) + 1
  IN [frag |-> Append(l.frag, f),
      next |-> Append([l.next EXCEPT ![c] = new], 0),
      prev |-> Append(l.prev, c),
      first |-> l.first, last |-> IF l.last = c THEN new ELSE l.last]
LinkAfter(l, f, c) ==
  LET new == Len(l.frag) + 1
  IN [frag |-> Append(l.frag, f),
      next |-> Append([l.next EXCEPT ![c] = new], l.next[c]),
      prev |-> Append(l.prev, c),
      first |-> l.first, last |-> IF l.last = c THEN new ELSE l.last]
LinkFirst(l, f) ==
  LET new == Len(l.frag) + 1
  IN [frag |-> Append(l.frag, f),
      next |-> Append(l.next, l.first),
      prev |-> Append([l.prev EXCEPT ![l.first] = new], 0),
      first |-> new, last |-> l.last]

EnqueueIn(l, f) ==
  LET c == InsertAfter(l, f) IN IF c = 0 THEN LinkFirst(l, f) ELSE LinkAfter(l, f, c)

(* packet_map after enqueue of fragment f of the datagram ip_id.           *)
enqueue(packet_map, ip_id, f) ==
  [id \in DOMAIN packet_map \cup {ip_id} |->
     IF id # ip_id THEN packet_map[id]
     ELSE IF id \in DOMAIN packet_map THEN EnqueueIn(packet_map[id], f) ELSE NewList(f)]

has_fragments(packet_map, ip_id) == ip_id \in DOMAIN packet_map

(* The nodes from first along next, as append_remaining_packets goes.      *)
Chain(l) ==
  LET upTo[k \in 0 .. Len(l.frag)] ==
        IF k = 0 THEN <<l.first>>
        ELSE LET c == upTo[k - 1]
                 nx == l.next[c[Len(c)]]
             IN IF nx = 0 THEN c ELSE Append(c, nx)
  IN upTo[Len(l.frag)]

get_first_fragment(l) == l.frag[l.first]
RemainingFragments(l) == LET c == Chain(l) IN [i \in 1 .. (Len(c) - 1) |-> l.frag[c[i + 1]]]
=============================================================================
