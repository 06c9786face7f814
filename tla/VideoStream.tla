----------------------------- MODULE VideoStream -----------------------------
(***************************************************************************)
(* What H264Encoder promises whoever consumes its parameter sets and        *)
(* frames: a succession of sessions, each of one picture size; once         *)
(* something of a session has been published, nothing of an earlier one is. *)
(***************************************************************************)
EXTENDS Integers

CONSTANTS Dims, NoDims

VARIABLES
    session,    \* session of the last thing published, 0 before
    dims        \* its picture size

streamVars == <<session, dims>>

Init == session = 0 /\ dims = NoDims

\* The first parameter sets or frame of a later session; those that follow in the
\* same session change neither variable.
Open(d) ==
    /\ session' \in Nat /\ session' > session
    /\ dims' = d

Next == \E d \in Dims : Open(d)

Spec == Init /\ [][Next]_streamVars
=============================================================================
