--------------------------- MODULE MCSampleHandler ---------------------------
(* Small instances of SampleHandler for TLC. *)
EXTENDS SampleHandler, TLC

Symmetry == Permutations(Dims)

MCPacketSize ==
    [type \in {"config", "keyframe", "frame", "audio"} |-> IF type = "config" THEN 1 ELSE 2]
MCUnitSize == [type \in {"config", "keyframe", "frame", "audio"} |-> 1]

\* Video until the end of the broadcast, or audio and everything that can fail.
MCFinishScenarios ==
    {{"video", "connectionFails", "finish"}, {"audio", "resume", "listenerFails", "connectionFails", "finish"}}
=============================================================================
