------------------------------ MODULE PacketSet ------------------------------
(***************************************************************************)
(* What the packet list of a Mysql_stream promises: packets are appended   *)
(* at the end, in the order they come, and any linked packet can be        *)
(* unlinked.  The packets are numbered as they come, so the list is the    *)
(* set of those still linked, in the order of their numbers.  This is how  *)
(* ReplayStream sees the list.                                             *)
(***************************************************************************)
EXTENDS Integers

VARIABLES n, linked

SetInit == n = 0 /\ linked = {}

SetAppend == n' = n + 1 /\ linked' = linked \cup {n + 1}

SetUnlink == /\ \E i \in linked : linked' = linked \ {i}
             /\ n' = n

SetNext == SetAppend \/ SetUnlink

SetSpec == SetInit /\ [][SetNext]_<<n, linked>>
=============================================================================
