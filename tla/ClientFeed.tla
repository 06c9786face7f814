----------------------------- MODULE ClientFeed -----------------------------
(***************************************************************************)
(* What MirrorServer promises the rest of the extension: each attached      *)
(* desktop has a bounded, lossy feed.  A packet offered to the server is    *)
(* admitted to a feed as a whole or dropped; only a config packet opens a   *)
(* feed; a feed whose backlog is over the limit admits nothing.  How        *)
(* packets travel between admission and the peer is not part of it.         *)
(***************************************************************************)
EXTENDS Integers

CONSTANTS Clients, Packets, PacketSize, maxInFlightBytes

VARIABLES
    attached,       \* clients with an open feed
    primed,         \* clients that were ever offered a config packet
    backlog         \* per client: bytes admitted and not yet delivered or given up

feedVars == <<attached, primed, backlog>>

Init ==
    /\ attached = {}
    /\ primed = [c \in Clients |-> FALSE]
    /\ backlog = [c \in Clients |-> 0]

Attach(c) ==
    /\ c \notin attached /\ ~primed[c] /\ backlog[c] = 0
    /\ attached' = attached \cup {c}
    /\ UNCHANGED <<primed, backlog>>

\* Every attached client admits p or drops it, all in one step.
Offer(p) ==
    LET opens(c) == p.type = "config" \/ primed[c]
        admits == {c \in attached : opens(c) /\ backlog[c] <= maxInFlightBytes}
    IN  /\ primed' = [c \in Clients |-> primed[c] \/ (c \in attached /\ p.type = "config")]
        /\ backlog' = [c \in Clients |->
                         backlog[c] + IF c \in admits THEN PacketSize[p.type] ELSE 0]
        /\ UNCHANGED attached

\* A packet is delivered or given up; this goes on after the client has left.
Drain(c, p) ==
    /\ backlog[c] >= PacketSize[p.type]
    /\ backlog' = [backlog EXCEPT ![c] = @ - PacketSize[p.type]]
    /\ UNCHANGED <<attached, primed>>

Detach(S) ==
    /\ S # {} /\ S \subseteq attached
    /\ attached' = attached \ S
    /\ UNCHANGED <<primed, backlog>>

Next ==
    \/ \E c \in Clients : Attach(c)
    \/ \E p \in Packets : Offer(p)
    \/ \E c \in Clients, p \in Packets : Drain(c, p)
    \/ \E S \in SUBSET Clients : Detach(S)

Spec == Init /\ [][Next]_feedVars
=============================================================================
