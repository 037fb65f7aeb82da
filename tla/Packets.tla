------------------------------- MODULE Packets -------------------------------
(***************************************************************************)
(* The packets an application builds, sends and parses: an RTP packet, an  *)
(* RTCP packet with a list or a tail, an RTCP source description, a FEC    *)
(* packet.  They share no state in the code, so that one is chosen and the *)
(* others left alone: the states are those of the four, not of their       *)
(* product.                                                                *)
(***************************************************************************)
EXTENDS RtpPacket, RtcpList, RtcpSdes, FecPkt, TLC

VARIABLE packet  \* the packet that is used

PacketsInit == /\ packet \in {"RTP", "list", "SDES", "FEC"}
               /\ RtpInit /\ ListInit /\ SdesInit /\ FecInit
               /\ packet # "list" => kind = "SR"

PacketsNext ==
  /\ UNCHANGED packet
  /\ \/ packet = "RTP" /\ RtpNext /\ UNCHANGED <<listVars, sdesVars, fecVars>>
     \/ packet = "list" /\ ListNext /\ UNCHANGED <<rtpVars, sdesVars, fecVars>>
     \/ packet = "SDES" /\ SdesNext /\ UNCHANGED <<rtpVars, listVars, fecVars>>
     \/ packet = "FEC" /\ FecNext /\ UNCHANGED <<rtpVars, listVars, sdesVars>>

Packets == PacketsInit /\ [][PacketsNext]_<<packet, rtpVars, listVars, sdesVars, fecVars>>

\* Type invariant of them all.
PacketTypeOK == RtpTypeOK /\ ListTypeOK /\ SdesTypeOK /\ FecTypeOK

\* Sources but the zero one are told apart only by being different: they are the members
\* of Csrc, and Source and Member are these and the zero source.
Symmetric == Permutations(Csrc)
=============================================================================
