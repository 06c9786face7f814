--------------------------- MODULE MCMirrorServer ---------------------------
(* Small instances of MirrorServer for TLC.  The server treats keyframe,    *)
(* frame and audio packets alike, so one of them stands for the three.      *)
EXTENDS MirrorServer, TLC

Symmetry == Permutations(Clients) \cup Permutations(Senders)
MCPackets == [type : {"config", "frame"}]
MCPacketSize == [type \in PacketTypes |-> IF type = "config" THEN 1 ELSE 2]
=============================================================================
