---------------------------- MODULE MirrorServer ----------------------------
(***************************************************************************)
(* The TCP server of the broadcast extension, src/Shared/MirrorServer.swift *)
(* One NWListener accepts desktops; every attached desktop is a Client in   *)
(* the dictionary `connections`, guarded by `lock`.  `send` is called from  *)
(* several threads (VideoToolbox's callback, ReplayKit's audio queue, the   *)
(* ready handler of every connection): it decides under the lock which      *)
(* clients get the packet and calls NWConnection.send outside it.           *)
(*                                                                          *)
(* Granularity: a critical section of `lock` is one action, every           *)
(* NWConnection.send call is one action, and every access to the unguarded  *)
(* property `listener` is one action, so that stop() and the retry of a     *)
(* failed listener interleave as two threads do.                            *)
(***************************************************************************)
EXTENDS Integers, Sequences, Functions

CONSTANTS
    Clients,            \* NWConnection objects; each is accepted at most once
    Senders,            \* threads that call send
    Packets,            \* records with a field `type`
    PacketSize,         \* header and payload bytes of a packet of each type
    LargestPacket,      \* upper bound of PacketSize, for the properties only
    maxInFlightBytes

PacketTypes == {"config", "keyframe", "frame", "audio"}

ASSUME SizesAssumption ==
    /\ maxInFlightBytes \in Nat
    /\ LargestPacket \in Nat
    /\ PacketSize \in [PacketTypes -> 1..LargestPacket]

ASSUME PacketsAssumption ==
    /\ \A p \in Packets : p.type \in PacketTypes
    /\ Packets # {}

VARIABLES
    connections,            \* keys of the dictionary
    primed, inFlight,       \* fields of the Client object of each connection
    sendList,               \* per sender: the packet and the clients still to be handed it
    removals,               \* connections for which some callback is about to call remove
    conn,                   \* phase of each NWConnection
    wire,                   \* per connection: packets handed over, not yet completed
    listener,               \* 0 for nil, else the position in `listeners`
    listeners,              \* every NWListener created so far
    advertisementDisabled,
    life,                   \* program counters of the threads that run start and stop
    active,                 \* the connections each of them still has to cancel in stop
    \* History variables, read by the properties only:
    fedBare,                \* clients handed a packet before any config packet
    lastConfig              \* per client: the config packet handed over last

sendVars   == <<connections, primed, inFlight, sendList, wire, fedBare, lastConfig>>
listenVars == <<listener, listeners, advertisementDisabled, life, active>>
serverVars == <<sendVars, listenVars, removals, conn>>

Lifecycle == {"main", "retry"}
LifePhases == {"idle", "disable", "start", "assign", "running",
               "stop", "cancel", "nil", "finished"}
ListenerPhases == {"created", "live", "failed", "cancelled"}
ListenerRecord == [service : {"bonjour", "nil"}, phase : ListenerPhases]
ConnPhases == {"none", "arrived", "inserted", "starting", "ready",
               "failed", "cancelled"}
Dead == {"failed", "cancelled"}
NoPacket == [type |-> "none"]

Size(p) == PacketSize[p.type]

\* What a sender still has to do: hand p to the clients of S.
Idle == [pkt |-> NoPacket, to |-> {}]
Pending(p, S) == IF S = {} THEN Idle ELSE [pkt |-> p, to |-> S]

TypeOK ==
    /\ connections \subseteq Clients
    /\ primed \in [Clients -> BOOLEAN]
    /\ inFlight \in [Clients -> Int]
    /\ sendList \in [Senders -> [pkt : Packets \cup {NoPacket}, to : SUBSET Clients]]
    /\ removals \subseteq Clients
    /\ conn \in [Clients -> ConnPhases]
    /\ wire \in [Clients -> Seq(Packets)]
    /\ listeners \in Seq(ListenerRecord)
    /\ listener \in 0..Len(listeners)
    /\ advertisementDisabled \in BOOLEAN
    /\ life \in [Lifecycle -> LifePhases]
    /\ active \in [Lifecycle -> SUBSET Clients]
    /\ fedBare \subseteq Clients
    /\ lastConfig \in [Clients -> Packets \cup {NoPacket}]

ServerInit ==
    /\ connections = {}
    /\ primed = [c \in Clients |-> FALSE]
    /\ inFlight = [c \in Clients |-> 0]
    /\ sendList = [t \in Senders |-> Idle]
    /\ removals = {}
    /\ conn = [c \in Clients |-> "none"]
    /\ wire = [c \in Clients |-> <<>>]
    /\ listener = 0
    /\ listeners = <<>>
    /\ advertisementDisabled = FALSE
    /\ life = [t \in Lifecycle |-> "idle"]
    /\ active = [t \in Lifecycle |-> {}]
    /\ fedBare = {}
    /\ lastConfig = [c \in Clients |-> NoPacket]

-----------------------------------------------------------------------------
(* Threads that start and stop the listener.                               *)

Goto(t, phase) == life' = [life EXCEPT ![t] = phase]

\* broadcastStarted calls start(), once per SampleHandler.
Start ==
    /\ life["main"] = "idle"
    /\ Goto("main", "start")
    /\ UNCHANGED <<sendVars, listener, listeners, advertisementDisabled, active, removals, conn>>

AfterStart(t) == IF t = "main" THEN "running" ELSE "finished"
AfterStop(t)  == IF t = "main" THEN "finished" ELSE "start"

\* created.service: only the call that broadcastStarted makes asks to advertise.
ServiceOf(t) == IF t = "main" /\ ~advertisementDisabled THEN "bonjour" ELSE "nil"

\* start(advertise:) up to NWListener(using:on:), which may throw.
StartCreate(t) ==
    /\ life[t] = "start"
    /\ \/ /\ Goto(t, AfterStart(t))         \* already listening, or the port is taken
          /\ UNCHANGED listeners
       \/ /\ listener = 0
          /\ Goto(t, "assign")
          /\ listeners' = Append(listeners,
                [service |-> ServiceOf(t), phase |-> "created"])
    /\ UNCHANGED <<sendVars, listener, advertisementDisabled, active, removals, conn>>

\* Mutants: the listener is started but never published, or published one too far.
StartAssignForgotten(t) ==
    /\ life[t] = "assign"
    /\ listeners' = [listeners EXCEPT ![Len(listeners)].phase = "live"]
    /\ Goto(t, AfterStart(t))
    /\ UNCHANGED <<sendVars, listener, advertisementDisabled, active, removals, conn>>
StartAssignTooFar(t) ==
    /\ life[t] = "assign"
    /\ listener' = Len(listeners) + 1
    /\ Goto(t, AfterStart(t))
    /\ UNCHANGED <<sendVars, listeners, advertisementDisabled, active, removals, conn>>

\* listener = created; created.start(queue:).  No other thread can have created
\* a listener meanwhile: the retry starts only after main's listener is live.
StartAssign(t) ==
    /\ life[t] = "assign"
    /\ listener' = Len(listeners)
    /\ listeners' = [listeners EXCEPT ![Len(listeners)].phase = "live"]
    /\ Goto(t, AfterStart(t))
    /\ UNCHANGED <<sendVars, advertisementDisabled, active, removals, conn>>

\* broadcastFinished calls stop().
Finish ==
    /\ life["main"] = "running"
    /\ Goto("main", "stop")
    /\ UNCHANGED <<sendVars, listener, listeners, advertisementDisabled, active, removals, conn>>

\* Mutant: the dictionary is emptied before its values are read.
StopClearSwapped(t) ==
    /\ life[t] = "stop"
    /\ connections' = {}
    /\ Goto(t, "cancel")
    /\ UNCHANGED <<primed, inFlight, sendList, wire, fedBare, lastConfig,
                   listener, listeners, advertisementDisabled, active, removals, conn>>

\* stop(): the critical section takes every connection out of the dictionary ...
StopClear(t) ==
    /\ life[t] = "stop"
    /\ connections' = {}
    /\ active' = [active EXCEPT ![t] = connections]
    /\ Goto(t, "cancel")
    /\ UNCHANGED <<primed, inFlight, sendList, wire, fedBare, lastConfig,
                   listener, listeners, advertisementDisabled, removals, conn>>

\* Mutant: the loop never gets past a connection.
StopConnectionAgain(t, c) ==
    /\ c \in active[t]
    /\ conn' = [conn EXCEPT ![c] = "cancelled"]
    /\ removals' = IF conn[c] = "cancelled" THEN removals ELSE removals \cup {c}
    /\ UNCHANGED <<sendVars, listener, listeners, advertisementDisabled, life, active>>

\* ... and the loop cancels them one by one: a connection not yet cancelled reports
\* .cancelled, whose handler calls remove.
StopConnection(t, c) ==
    /\ c \in active[t]
    /\ active' = [active EXCEPT ![t] = @ \ {c}]
    /\ conn' = [conn EXCEPT ![c] = "cancelled"]
    /\ removals' = IF conn[c] = "cancelled" THEN removals ELSE removals \cup {c}
    /\ UNCHANGED <<sendVars, listener, listeners, advertisementDisabled, life>>

\* stop(): listener?.cancel()
StopCancel(t) ==
    /\ life[t] = "cancel" /\ active[t] = {}
    /\ listeners' = IF listener = 0 THEN listeners
                    ELSE [listeners EXCEPT ![listener].phase = "cancelled"]
    /\ Goto(t, "nil")
    /\ UNCHANGED <<sendVars, listener, advertisementDisabled, active, removals, conn>>

\* stop(): listener = nil
StopNil(t) ==
    /\ life[t] = "nil"
    /\ listener' = 0
    /\ Goto(t, AfterStop(t))
    /\ UNCHANGED <<sendVars, listeners, advertisementDisabled, active, removals, conn>>

\* Mutant: the retry does not ask whether the listener was advertising.
ListenerFailsRetriesAlways(k) ==
    /\ listeners[k].phase = "live"
    /\ listeners' = [listeners EXCEPT ![k].phase = "failed"]
    /\ life["retry"] \in {"idle", "finished"}
    /\ Goto("retry", "disable")
    /\ UNCHANGED <<sendVars, listener, advertisementDisabled, active, removals, conn>>

\* NWListener reports .failed; only an advertising one is retried.
ListenerFails(k) ==
    /\ listeners[k].phase = "live"
    /\ listeners' = [listeners EXCEPT ![k].phase = "failed"]
    /\ IF listeners[k].service = "bonjour"
       THEN /\ life["retry"] \in {"idle", "finished"}
            /\ Goto("retry", "disable")
       ELSE UNCHANGED life
    /\ UNCHANGED <<sendVars, listener, advertisementDisabled, active, removals, conn>>

\* advertisementDisabled = true, before stop() and start(advertise: false).
RetryDisable ==
    /\ life["retry"] = "disable"
    /\ advertisementDisabled' = TRUE
    /\ Goto("retry", "stop")
    /\ UNCHANGED <<sendVars, listener, listeners, active, removals, conn>>

LifeStep(t) ==
    \/ StartCreate(t) \/ StartAssign(t)
    \/ StopClear(t) \/ StopCancel(t) \/ StopNil(t)
    \/ \E c \in Clients : StopConnection(t, c)

-----------------------------------------------------------------------------
(* Connections.                                                            *)

SetPhase(c, phase) == conn' = [conn EXCEPT ![c] = phase]

\* A desktop dials in: the listener queues newConnectionHandler for it.  The
\* queued handler may run after the listener was cancelled.
Arrive(c) ==
    /\ conn[c] = "none"
    /\ \E k \in 1..Len(listeners) : listeners[k].phase = "live"
    /\ SetPhase(c, "arrived")
    /\ UNCHANGED <<sendVars, listenVars, removals>>

\* accept: the new Client enters the dictionary ...
Accept(c) ==
    /\ conn[c] = "arrived"
    /\ connections' = connections \cup {c}
    /\ SetPhase(c, "inserted")
    /\ UNCHANGED <<primed, inFlight, sendList, wire, fedBare, lastConfig,
                   listenVars, removals>>

\* ... and then the connection is started.  Starting a cancelled one does nothing.
AcceptStart(c) ==
    /\ conn[c] = "inserted"
    /\ SetPhase(c, "starting")
    /\ UNCHANGED <<sendVars, listenVars, removals>>

\* .ready: the handler calls onClientConnected, see SampleHandler.
Ready(c) ==
    /\ conn[c] = "starting"
    /\ SetPhase(c, "ready")
    /\ UNCHANGED <<sendVars, listenVars, removals>>

\* Mutant: .failed falls into the default case.
FailIgnored(c) ==
    /\ conn[c] \in {"starting", "ready"}
    /\ SetPhase(c, "failed")
    /\ UNCHANGED <<sendVars, listenVars, removals>>

\* .failed: the handler calls remove.
Fail(c) ==
    /\ conn[c] \in {"starting", "ready"}
    /\ SetPhase(c, "failed")
    /\ removals' = removals \cup {c}
    /\ UNCHANGED <<sendVars, listenVars>>

\* remove(key): cancels the connection if this call took it out.
Remove(c) ==
    /\ c \in removals
    /\ connections' = connections \ {c}
    /\ IF c \in connections /\ conn[c] # "cancelled"
       THEN SetPhase(c, "cancelled") /\ UNCHANGED removals  \* .cancelled is reported in turn
       ELSE removals' = removals \ {c} /\ UNCHANGED conn
    /\ UNCHANGED <<primed, inFlight, sendList, wire, fedBare, lastConfig, listenVars>>

-----------------------------------------------------------------------------
(* send.                                                                   *)

Sending(t) == sendList[t].to # {}

\* Mutants: a client without parameter sets, or one that is saturated, is not skipped.
AdmittedUnprimed(p) == {c \in connections : inFlight[c] <= maxInFlightBytes}
AdmittedSaturated(p) == {c \in connections : p.type = "config" \/ primed[c]}

\* The clients that get packet p, decided under the lock.
Admitted(p) ==
    {c \in connections : /\ p.type = "config" \/ primed[c]
                         /\ inFlight[c] <= maxInFlightBytes}

\* send: the critical section.
Send(t, p) ==
    /\ ~Sending(t)
    /\ primed' = [c \in Clients |-> primed[c] \/ (p.type = "config" /\ c \in connections)]
    /\ inFlight' = [c \in Clients |-> IF c \in Admitted(p) THEN inFlight[c] + Size(p)
                                                          ELSE inFlight[c]]
    /\ sendList' = [sendList EXCEPT ![t] = Pending(p, Admitted(p))]
    /\ UNCHANGED <<connections, wire, fedBare, lastConfig, listenVars, removals, conn>>

\* send: one iteration of the loop that follows, in the dictionary's arbitrary order.
Handoff(t, c) ==
    LET p == sendList[t].pkt IN
    /\ c \in sendList[t].to
    /\ sendList' = [sendList EXCEPT ![t] = Pending(p, @.to \ {c})]
    /\ wire' = [wire EXCEPT ![c] = Append(@, p)]
    /\ IF p.type = "config"
       THEN lastConfig' = [lastConfig EXCEPT ![c] = p] /\ UNCHANGED fedBare
       ELSE /\ fedBare' = IF lastConfig[c] = NoPacket THEN fedBare \cup {c} ELSE fedBare
            /\ UNCHANGED lastConfig
    /\ UNCHANGED <<connections, primed, inFlight, listenVars, removals, conn>>

\* Mutant: the completion handler returns early on an error.
CompleteLeaks(c) ==
    /\ wire[c] # <<>>
    /\ conn[c] \in Dead \cup {"ready"}
    /\ wire' = [wire EXCEPT ![c] = Tail(@)]
    /\ IF conn[c] \in Dead
       THEN removals' = removals \cup {c} /\ UNCHANGED inFlight
       ELSE /\ inFlight' = [inFlight EXCEPT ![c] = @ - Size(Head(wire[c]))]
            /\ UNCHANGED removals
    /\ UNCHANGED <<connections, primed, sendList, fedBare, lastConfig, listenVars, conn>>

\* .contentProcessed: NWConnection completes its sends in order, with an error
\* once the connection is dead; the error path then calls remove.
Complete(c) ==
    /\ wire[c] # <<>>
    /\ conn[c] \in Dead \cup {"ready"}
    /\ wire' = [wire EXCEPT ![c] = Tail(@)]
    /\ inFlight' = [inFlight EXCEPT ![c] = @ - Size(Head(wire[c]))]
    /\ removals' = IF conn[c] \in Dead THEN removals \cup {c} ELSE removals
    /\ UNCHANGED <<connections, primed, sendList, fedBare, lastConfig, listenVars, conn>>

-----------------------------------------------------------------------------
\* Everything but the calls of send.
ServerStep ==
    \/ Start \/ Finish \/ RetryDisable
    \/ \E t \in Lifecycle : LifeStep(t)
    \/ \E k \in 1..Len(listeners) : ListenerFails(k)
    \/ \E c \in Clients :
          \/ Arrive(c) \/ Accept(c) \/ AcceptStart(c) \/ Ready(c) \/ Fail(c)
          \/ Remove(c) \/ Complete(c)
    \/ \E t \in Senders, c \in Clients : Handoff(t, c)

Next == ServerStep \/ \E t \in Senders, p \in Packets : Send(t, p)

\* The threads keep running and a dead connection completes its sends; nothing
\* is assumed of the peer, of the number of sends or of the listener.
ServerFairness ==
    /\ \A t \in Lifecycle : WF_serverVars(LifeStep(t))
    /\ WF_serverVars(RetryDisable)
    /\ \A c \in Clients :
          /\ WF_serverVars(Accept(c)) /\ WF_serverVars(AcceptStart(c))
          /\ WF_serverVars(Remove(c))
          /\ WF_serverVars(conn[c] \in Dead /\ Complete(c))
    /\ \A t \in Senders, c \in Clients : WF_serverVars(Handoff(t, c))

Spec == ServerInit /\ [][Next]_serverVars
FairSpec == Spec /\ ServerFairness
-----------------------------------------------------------------------------
(* Properties.                                                             *)

\* Packets of client c that were admitted and whose send has not completed.
Owed(c) == {t \in Senders : c \in sendList[t].to}
OnLists(c) == SumFunction([t \in Owed(c) |-> Size(sendList[t].pkt)])
OnWire(c) == SumFunction([i \in DOMAIN wire[c] |-> Size(wire[c][i])])
Outstanding(c) == OnLists(c) + OnWire(c)

\* The backpressure counter of a client is exactly the bytes admitted for it and
\* not yet completed, whatever the threads, failures and removals do: it neither
\* leaks (the client would be starved for ever) nor goes negative.
InFlightAccounting == \A c \in Clients : inFlight[c] = Outstanding(c)

\* Unsent data of one client never exceeds the limit by more than one packet,
\* although several threads test the limit and send concurrently.
BacklogBounded == \A c \in Clients : inFlight[c] <= maxInFlightBytes + LargestPacket

\* A client that is not primed is owed nothing: neither a thread about to send
\* nor the transport holds a packet for it.
UnprimedHoldsNothing ==
    \A c \in Clients : ~primed[c] =>
        /\ inFlight[c] = 0 /\ wire[c] = <<>>
        /\ \A t \in Senders : c \notin sendList[t].to

\* A primed client has been handed a config packet or some thread is about to hand
\* it one: the saturation test that follows `primed = true` in send never swallows
\* the first config.
PrimedIsConfigured ==
    \A c \in Clients : primed[c] =>
        \/ lastConfig[c] # NoPacket
        \/ \E t \in Senders : c \in sendList[t].to /\ sendList[t].pkt.type = "config"

\* In the server's books a client is fed from its first config packet on, and only from then on.
FedFromConfigOn == UnprimedHoldsNothing /\ PrimedIsConfigured

\* A connection that could carry data is in the dictionary or on the list of a stop()
\* that is about to cancel it: nothing is left open behind the server's back.
NoOrphanConnection ==
    \A c \in Clients : conn[c] \in {"inserted", "starting", "ready"} =>
        c \in connections \/ \E t \in Lifecycle : c \in active[t]

\* While the broadcast runs, a listening socket is the one `listener` refers to, so
\* the stop() of broadcastFinished can cancel it.
ListenerReachable ==
    \A k \in 1..Len(listeners) :
        listeners[k].phase = "live" /\ life["main"] = "running" => listener = k

\* A failing listener is rebuilt at most once, and only without its Bonjour
\* service (the doc comment of start(advertise:)).
RetriedOnce ==
    /\ Len(listeners) <= 2
    /\ \A k \in 1..Len(listeners) : listeners[k].service = "bonjour" <=> k = 1

\* A dead connection is eventually forgotten for good: it leaves the dictionary and
\* every byte charged to it is given back.
DeadForgotten ==
    \A c \in Clients :
        conn[c] \in Dead ~> [](c \notin connections /\ inFlight[c] = 0)

\* The contract of send, see ClientFeed: the code's decisions on its counter are
\* those the contract takes on the bytes really outstanding.
Feed == INSTANCE ClientFeed WITH
            attached <- connections,
            backlog  <- [c \in Clients |-> Outstanding(c)]
ImplementsClientFeed == Feed!Spec

\* Statements of comments that the code does not keep, see README.
\* "a client that joins mid-stream must not be fed frames before its SPS"
ConfigFirst == fedBare = {}

\* "Config packets are what prime a client, so they always go out."
ConfigReachesAll ==
    [][\A t \in Senders, p \in Packets :
          Send(t, p) /\ p.type = "config" /\ connections # {}
              => sendList'[t] = [pkt |-> p, to |-> connections]]_serverVars
=============================================================================
