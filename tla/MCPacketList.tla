---------------------------- MODULE MCPacketList ----------------------------
(* PacketList on a list that grows to seven packets.                       *)
EXTENDS PacketList
=============================================================================
