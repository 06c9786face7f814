------------------------- MODULE MirrorServerProofs -------------------------
(***************************************************************************)
(* MirrorServer for any number of clients, senders and packets: its types,  *)
(* what is fed to a client, the connections stop leaves behind, the         *)
(* listener, the bytes charged to the clients, and that it implements       *)
(* ClientFeed.                                                              *)
(***************************************************************************)
EXTENDS MirrorServer, FiniteSetTheorems, SequenceTheorems, TLAPS

(* Every packet has a size between 1 and LargestPacket. *)
LEMMA SizeBounds ==
    ASSUME NEW p \in Packets
    PROVE  Size(p) \in 1..LargestPacket
BY SizesAssumption, PacketsAssumption DEF Size

(* Changing the phase of a listener keeps the sequence well typed. *)
LEMMA PhaseUpdate ==
    ASSUME NEW s \in Seq(ListenerRecord), NEW k \in 1..Len(s), NEW ph \in ListenerPhases
    PROVE  /\ [s EXCEPT ![k].phase = ph] \in Seq(ListenerRecord)
           /\ Len([s EXCEPT ![k].phase = ph]) = Len(s)
           /\ \A i \in 1..Len(s) : [s EXCEPT ![k].phase = ph][i] =
                  IF i = k THEN [service |-> s[k].service, phase |-> ph] ELSE s[i]
<1> DEFINE e == [service |-> s[k].service, phase |-> ph]
<1>1. s[k] \in ListenerRecord
  BY ElementOfSeq
<1>2. e \in ListenerRecord /\ [s[k] EXCEPT !.phase = ph] = e
  BY <1>1 DEF ListenerRecord
<1>3. [s EXCEPT ![k].phase = ph] = [s EXCEPT ![k] = e]
  BY <1>2
<1>. QED  BY <1>2, <1>3, ExceptSeq

(* The packet a busy thread sends is a packet of the program. *)
SendListOK == \A t \in Senders : Sending(t) => sendList[t].pkt \in Packets

(* A thread about to publish a listener has created one. *)
AssignOK == \A t \in Lifecycle : life[t] = "assign" => Len(listeners) > 0

(* Only a thread inside the loop of stop has connections left to cancel. *)
ActiveOK == \A t \in Lifecycle : life[t] # "cancel" => active[t] = {}

IInv == TypeOK /\ SendListOK /\ AssignOK /\ ActiveOK

LEMMA TypeInit == ServerInit => IInv
<1> SUFFICES ASSUME ServerInit PROVE IInv
  OBVIOUS
<1>1. TypeOK
  <2>1. <<>> \in Seq(Packets) /\ <<>> \in Seq(ListenerRecord) /\ Len(<<>>) = 0
    BY EmptySeq
  <2>2. Idle \in [pkt : Packets \cup {NoPacket}, to : SUBSET Clients]
    BY DEF Idle
  <2>3. listener \in 0..Len(listeners)
    BY <2>1 DEF ServerInit
  <2>4. /\ wire \in [Clients -> Seq(Packets)]
        /\ listeners \in Seq(ListenerRecord)
    BY <2>1 DEF ServerInit
  <2>5. sendList \in [Senders -> [pkt : Packets \cup {NoPacket}, to : SUBSET Clients]]
    BY <2>2 DEF ServerInit
  <2>6. /\ conn \in [Clients -> ConnPhases]
        /\ life \in [Lifecycle -> LifePhases]
        /\ active \in [Lifecycle -> SUBSET Clients]
        /\ lastConfig \in [Clients -> Packets \cup {NoPacket}]
    BY DEF ServerInit, ConnPhases, LifePhases
  <2>7. /\ connections \subseteq Clients /\ removals \subseteq Clients /\ fedBare \subseteq Clients
        /\ advertisementDisabled \in BOOLEAN
    BY DEF ServerInit
  <2>8. primed \in [Clients -> BOOLEAN]
    BY DEF ServerInit
  <2>9. inFlight \in [Clients -> Int]
    BY DEF ServerInit
  <2>. QED  BY <2>3, <2>4, <2>5, <2>6, <2>7, <2>8, <2>9 DEF TypeOK
<1>2. SendListOK
  BY DEF ServerInit, SendListOK, Sending, Idle
<1>3. AssignOK
  BY DEF ServerInit, AssignOK
<1>4. ActiveOK
  BY DEF ServerInit, ActiveOK
<1>. QED  BY <1>1, <1>2, <1>3, <1>4 DEF IInv

LEMMA TypeStep == IInv /\ [Next]_serverVars => IInv'
<1> SUFFICES ASSUME IInv, [Next]_serverVars
             PROVE  IInv'
  OBVIOUS
<1> USE DEF IInv, TypeOK, SendListOK, AssignOK, ActiveOK, Sending, Goto, Lifecycle, LifePhases,
            ConnPhases, Dead, sendVars, listenVars
<1>1. CASE Start
  BY <1>1 DEF Start
<1>2. CASE Finish
  BY <1>2 DEF Finish
<1>3. CASE RetryDisable
  BY <1>3 DEF RetryDisable
<1>4. ASSUME NEW t \in Lifecycle, StartCreate(t) PROVE IInv'
  <2> DEFINE new == [service |-> ServiceOf(t), phase |-> "created"]
  <2>1. CASE UNCHANGED listeners
    BY <1>4, <2>1 DEF StartCreate, AfterStart
  <2>2. CASE listeners' = Append(listeners, new)
    <3>1. new \in ListenerRecord
      BY DEF ListenerRecord, ListenerPhases, ServiceOf
    <3>2. listeners' \in Seq(ListenerRecord) /\ Len(listeners') = Len(listeners) + 1
      BY <2>2, <3>1, AppendProperties
    <3>3. Len(listeners) \in Nat
      BY LenProperties
    <3>. QED  BY <1>4, <3>2, <3>3 DEF StartCreate, AfterStart
  <2>. QED  BY <1>4, <2>1, <2>2 DEF StartCreate
<1>5. ASSUME NEW t \in Lifecycle, StartAssign(t) PROVE IInv'
  <2>1. Len(listeners) \in 1..Len(listeners)
    BY <1>5, LenProperties DEF StartAssign
  <2>2. listeners' \in Seq(ListenerRecord) /\ Len(listeners') = Len(listeners)
    BY <1>5, <2>1, PhaseUpdate DEF StartAssign, ListenerPhases
  <2>. QED  BY <1>5, <2>1, <2>2 DEF StartAssign, AfterStart
<1>6. ASSUME NEW t \in Lifecycle, StopClear(t) PROVE IInv'
  BY <1>6 DEF StopClear
<1>7. ASSUME NEW t \in Lifecycle, StopCancel(t) PROVE IInv'
  <2>1. listeners' \in Seq(ListenerRecord) /\ Len(listeners') = Len(listeners)
    <3>1. CASE listener = 0
      BY <1>7, <3>1 DEF StopCancel
    <3>2. CASE listener # 0
      <4>1. listener \in 1..Len(listeners)
        BY <3>2, LenProperties
      <4>. QED  BY <1>7, <3>2, <4>1, PhaseUpdate DEF StopCancel, ListenerPhases
    <3>. QED  BY <3>1, <3>2
  <2>. QED  BY <1>7, <2>1 DEF StopCancel
<1>8. ASSUME NEW t \in Lifecycle, StopNil(t) PROVE IInv'
  BY <1>8 DEF StopNil, AfterStop
<1>9. ASSUME NEW k \in 1..Len(listeners), ListenerFails(k) PROVE IInv'
  <2>1. listeners' \in Seq(ListenerRecord) /\ Len(listeners') = Len(listeners)
    BY <1>9, PhaseUpdate DEF ListenerFails, ListenerPhases
  <2>. QED  BY <1>9, <2>1 DEF ListenerFails
<1>10. ASSUME NEW c \in Clients, Arrive(c) PROVE IInv'
  BY <1>10 DEF Arrive, SetPhase
<1>11. ASSUME NEW c \in Clients, Accept(c) PROVE IInv'
  BY <1>11 DEF Accept, SetPhase
<1>12. ASSUME NEW c \in Clients, AcceptStart(c) PROVE IInv'
  BY <1>12 DEF AcceptStart, SetPhase
<1>13. ASSUME NEW c \in Clients, Ready(c) PROVE IInv'
  BY <1>13 DEF Ready, SetPhase
<1>14. ASSUME NEW c \in Clients, Fail(c) PROVE IInv'
  BY <1>14 DEF Fail, SetPhase
<1>15. ASSUME NEW c \in Clients, Remove(c) PROVE IInv'
  BY <1>15 DEF Remove, SetPhase
<1>16. ASSUME NEW c \in Clients, Complete(c) PROVE IInv'
  <2>1. wire[c] # <<>> /\ Head(wire[c]) \in Packets /\ Tail(wire[c]) \in Seq(Packets)
    BY <1>16 DEF Complete
  <2>2. Size(Head(wire[c])) \in Int
    BY <2>1, SizeBounds, SizesAssumption
  <2>. QED  BY <1>16, <2>1, <2>2 DEF Complete
<1>17. ASSUME NEW t \in Senders, NEW c \in Clients, Handoff(t, c) PROVE IInv'
  <2>1. sendList[t].pkt \in Packets
    BY <1>17 DEF Handoff
  <2>2. Append(wire[c], sendList[t].pkt) \in Seq(Packets)
    BY <2>1, AppendProperties
  <2>3. /\ wire' \in [Clients -> Seq(Packets)]
        /\ fedBare' \subseteq Clients
        /\ lastConfig' \in [Clients -> Packets \cup {NoPacket}]
    BY <1>17, <2>1, <2>2 DEF Handoff
  <2>4. Pending(sendList[t].pkt, sendList[t].to \ {c})
           \in [pkt : Packets \cup {NoPacket}, to : SUBSET Clients]
    BY <2>1 DEF Pending, Idle
  <2>5. sendList' \in [Senders -> [pkt : Packets \cup {NoPacket}, to : SUBSET Clients]]
    BY <1>17, <2>4 DEF Handoff
  <2>6. SendListOK'
    BY <1>17, <2>1 DEF Handoff, Pending, Idle
  <2>. QED  BY <1>17, <2>3, <2>5, <2>6 DEF Handoff
<1>18. ASSUME NEW t \in Senders, NEW p \in Packets, Send(t, p) PROVE IInv'
  <2>1. Size(p) \in Int
    BY SizeBounds, SizesAssumption
  <2>2. Admitted(p) \subseteq Clients
    BY DEF Admitted
  <2>. QED  BY <1>18, <2>1, <2>2 DEF Send, Pending, Idle
<1>19. ASSUME NEW t \in Lifecycle, NEW c \in Clients, StopConnection(t, c) PROVE IInv'
  BY <1>19 DEF StopConnection
<1>20. CASE UNCHANGED serverVars
  BY <1>20 DEF serverVars
<1>. QED
  BY <1>1, <1>2, <1>3, <1>4, <1>5, <1>6, <1>7, <1>8, <1>9, <1>10, <1>11, <1>12, <1>13,
     <1>14, <1>15, <1>16, <1>17, <1>18, <1>19, <1>20 DEF Next, ServerStep, LifeStep

(* The variables keep their types, whatever the threads, peers and the listener do. *)
THEOREM TypeCorrect == Spec => []TypeOK
<1>1. IInv => TypeOK
  BY DEF IInv
<1>. QED  BY <1>1, TypeInit, TypeStep, PTL DEF Spec

-----------------------------------------------------------------------------
(* The feeds of the clients.                                                *)

feedState == <<primed, inFlight, sendList, wire, lastConfig>>

(* Only send, its hand-over loop and its completions touch the feeds. *)
LEMMA FeedSteps ==
    ASSUME [Next]_serverVars
    PROVE  \/ \E t \in Senders, p \in Packets : Send(t, p)
           \/ \E t \in Senders, c \in Clients : Handoff(t, c)
           \/ \E c \in Clients : Complete(c)
           \/ UNCHANGED feedState
<1> USE DEF sendVars, feedState
<1>1. CASE Start \/ Finish \/ RetryDisable
  BY <1>1 DEF Start, Finish, RetryDisable
<1>2. ASSUME NEW t \in Lifecycle, LifeStep(t) PROVE UNCHANGED feedState
  BY <1>2 DEF LifeStep, StartCreate, StartAssign, StopClear, StopConnection, StopCancel, StopNil
<1>3. ASSUME NEW k \in 1..Len(listeners), ListenerFails(k) PROVE UNCHANGED feedState
  BY <1>3 DEF ListenerFails
<1>4. ASSUME NEW c \in Clients,
             Arrive(c) \/ Accept(c) \/ AcceptStart(c) \/ Ready(c) \/ Fail(c) \/ Remove(c)
      PROVE  UNCHANGED feedState
  BY <1>4 DEF Arrive, Accept, AcceptStart, Ready, Fail, Remove
<1>5. CASE UNCHANGED serverVars
  BY <1>5 DEF serverVars
<1>. QED  BY <1>1, <1>2, <1>3, <1>4, <1>5 DEF Next, ServerStep

FeedInv == BacklogBounded /\ UnprimedHoldsNothing /\ PrimedIsConfigured

LEMMA FeedInit == ServerInit => FeedInv
<1> SUFFICES ASSUME ServerInit PROVE FeedInv
  OBVIOUS
<1>1. BacklogBounded
  BY SizesAssumption DEF ServerInit, BacklogBounded
<1>2. UnprimedHoldsNothing
  BY DEF ServerInit, UnprimedHoldsNothing, Idle
<1>3. PrimedIsConfigured
  BY DEF ServerInit, PrimedIsConfigured
<1>. QED  BY <1>1, <1>2, <1>3 DEF FeedInv

(* The critical section of send: an unprimed client it primes has no backlog, so
   the saturation test lets the config packet through. *)
LEMMA SendKeepsFeedInv ==
    ASSUME IInv, FeedInv, NEW t \in Senders, NEW p \in Packets, Send(t, p)
    PROVE  FeedInv'
<1>1. Size(p) \in 1..LargestPacket /\ LargestPacket \in Nat /\ maxInFlightBytes \in Nat
  BY SizeBounds, SizesAssumption
<1>2. inFlight \in [Clients -> Int] /\ primed \in [Clients -> BOOLEAN]
  BY DEF IInv, TypeOK
<1>3. /\ wire' = wire /\ lastConfig' = lastConfig
      /\ sendList \in [Senders -> [pkt : Packets \cup {NoPacket}, to : SUBSET Clients]]
      /\ sendList[t].to = {}
      /\ sendList' = [sendList EXCEPT ![t] = Pending(p, Admitted(p))]
      /\ Pending(p, Admitted(p)).to = Admitted(p)
      /\ Admitted(p) # {} => Pending(p, Admitted(p)).pkt = p
  BY DEF Send, Sending, Pending, Idle, IInv, TypeOK
<1>4. BacklogBounded'
  <2> SUFFICES ASSUME NEW c \in Clients
               PROVE  inFlight'[c] <= maxInFlightBytes + LargestPacket
    BY DEF BacklogBounded
  <2>1. CASE c \in Admitted(p)
    <3>1. inFlight'[c] = inFlight[c] + Size(p) /\ inFlight[c] <= maxInFlightBytes
      BY <2>1 DEF Send, Admitted
    <3>. QED  BY <1>1, <1>2, <3>1
  <2>2. CASE c \notin Admitted(p)
    BY <2>2 DEF Send, FeedInv, BacklogBounded
  <2>. QED  BY <2>1, <2>2
<1>5. UnprimedHoldsNothing'
  <2> SUFFICES ASSUME NEW c \in Clients, ~primed'[c]
               PROVE  /\ inFlight'[c] = 0 /\ wire'[c] = <<>>
                      /\ \A u \in Senders : c \notin sendList'[u].to
    BY DEF UnprimedHoldsNothing
  <2>1. ~primed[c] /\ c \notin Admitted(p)
    BY DEF Send, Admitted
  <2>2. inFlight'[c] = 0 /\ wire'[c] = <<>>
    BY <1>3, <2>1 DEF Send, FeedInv, UnprimedHoldsNothing
  <2>3. \A u \in Senders : c \notin sendList'[u].to
    BY <1>3, <2>1 DEF FeedInv, UnprimedHoldsNothing
  <2>. QED  BY <2>2, <2>3
<1>6. PrimedIsConfigured'
  <2> SUFFICES ASSUME NEW c \in Clients, primed'[c]
               PROVE  \/ lastConfig'[c] # NoPacket
                      \/ \E u \in Senders : /\ c \in sendList'[u].to
                                             /\ sendList'[u].pkt.type = "config"
    BY DEF PrimedIsConfigured
  <2>1. CASE primed[c]
    <3>1. CASE lastConfig[c] # NoPacket
      BY <1>3, <3>1
    <3>2. CASE \E u \in Senders : c \in sendList[u].to /\ sendList[u].pkt.type = "config"
      <4>1. PICK u \in Senders : c \in sendList[u].to /\ sendList[u].pkt.type = "config"
        BY <3>2
      <4>2. sendList'[u] = sendList[u]
        BY <1>3, <4>1
      <4>. QED  BY <4>1, <4>2
    <3>. QED  BY <2>1, <3>1, <3>2 DEF FeedInv, PrimedIsConfigured
  <2>2. CASE ~primed[c]
    <3>1. p.type = "config" /\ c \in connections
      BY <2>2 DEF Send
    <3>2. inFlight[c] = 0
      BY <2>2 DEF FeedInv, UnprimedHoldsNothing
    <3>3. c \in Admitted(p)
      BY <1>1, <3>1, <3>2 DEF Admitted
    <3>4. c \in sendList'[t].to /\ sendList'[t].pkt.type = "config"
      BY <1>3, <3>1, <3>3
    <3>. QED  BY <3>4
  <2>. QED  BY <2>1, <2>2
<1>. QED  BY <1>4, <1>5, <1>6 DEF FeedInv

(* The hand-over loop: a config packet that leaves the sender is recorded as the
   last one its client was handed. *)
LEMMA HandoffKeepsFeedInv ==
    ASSUME IInv, FeedInv, NEW t \in Senders, NEW c \in Clients, Handoff(t, c)
    PROVE  FeedInv'
<1> DEFINE p == sendList[t].pkt
<1>1. /\ inFlight' = inFlight /\ primed' = primed
      /\ c \in sendList[t].to
      /\ p \in Packets /\ p.type # "none"
      /\ sendList' = [sendList EXCEPT ![t] = Pending(p, sendList[t].to \ {c})]
      /\ sendList \in [Senders -> [pkt : Packets \cup {NoPacket}, to : SUBSET Clients]]
  BY PacketsAssumption DEF Handoff, IInv, SendListOK, Sending, TypeOK, PacketTypes
<1>2. Pending(p, sendList[t].to \ {c}).to = sendList[t].to \ {c}
  BY DEF Pending, Idle
<1>3. BacklogBounded'
  BY <1>1 DEF FeedInv, BacklogBounded
<1>4. UnprimedHoldsNothing'
  <2> SUFFICES ASSUME NEW d \in Clients, ~primed[d]
               PROVE  /\ inFlight[d] = 0 /\ wire'[d] = <<>>
                      /\ \A u \in Senders : d \notin sendList'[u].to
    BY <1>1 DEF UnprimedHoldsNothing
  <2>1. /\ inFlight[d] = 0 /\ wire[d] = <<>>
        /\ \A u \in Senders : d \notin sendList[u].to
    BY DEF FeedInv, UnprimedHoldsNothing
  <2>2. d # c
    BY <1>1, <2>1
  <2>3. wire'[d] = <<>>
    BY <2>1, <2>2 DEF Handoff, IInv, TypeOK
  <2>4. \A u \in Senders : d \notin sendList'[u].to
    BY <1>1, <1>2, <2>1
  <2>. QED  BY <2>1, <2>3, <2>4
<1>5. PrimedIsConfigured'
  <2> SUFFICES ASSUME NEW d \in Clients, primed[d]
               PROVE  \/ lastConfig'[d] # NoPacket
                      \/ \E u \in Senders : /\ d \in sendList'[u].to
                                             /\ sendList'[u].pkt.type = "config"
    BY <1>1 DEF PrimedIsConfigured
  <2>0. /\ p.type = "config" => lastConfig' = [lastConfig EXCEPT ![c] = p]
        /\ p.type # "config" => lastConfig' = lastConfig
        /\ lastConfig \in [Clients -> Packets \cup {NoPacket}]
    BY DEF Handoff, IInv, TypeOK
  <2>1. p # NoPacket
    BY <1>1 DEF NoPacket
  <2>2. CASE lastConfig[d] # NoPacket
    BY <2>0, <2>1, <2>2
  <2>3. CASE \E u \in Senders : d \in sendList[u].to /\ sendList[u].pkt.type = "config"
    <3>1. PICK u \in Senders : d \in sendList[u].to /\ sendList[u].pkt.type = "config"
      BY <2>3
    <3>2. CASE u = t /\ d = c
      BY <2>0, <2>1, <3>1, <3>2
    <3>3. CASE u = t /\ d # c
      <4>1. Pending(p, sendList[t].to \ {c}) = [pkt |-> p, to |-> sendList[t].to \ {c}]
        BY <3>1, <3>3 DEF Pending
      <4>. QED  BY <1>1, <3>1, <3>3, <4>1
    <3>4. CASE u # t
      BY <1>1, <3>1, <3>4
    <3>. QED  BY <3>2, <3>3, <3>4
  <2>. QED  BY <2>2, <2>3 DEF FeedInv, PrimedIsConfigured
<1>. QED  BY <1>3, <1>4, <1>5 DEF FeedInv

(* A completion only gives bytes back. *)
LEMMA CompleteKeepsFeedInv ==
    ASSUME IInv, FeedInv, NEW c \in Clients, Complete(c)
    PROVE  FeedInv'
<1>1. /\ wire[c] # <<>> /\ wire \in [Clients -> Seq(Packets)]
      /\ inFlight \in [Clients -> Int]
      /\ primed' = primed /\ sendList' = sendList /\ lastConfig' = lastConfig
  BY DEF Complete, IInv, TypeOK
<1>2. Head(wire[c]) \in Packets
  BY <1>1
<1>3. Size(Head(wire[c])) \in 1..LargestPacket
  BY <1>2, SizeBounds
<1>4. BacklogBounded'
  <2> SUFFICES ASSUME NEW d \in Clients
               PROVE  inFlight'[d] <= maxInFlightBytes + LargestPacket
    BY DEF BacklogBounded
  <2>1. inFlight[d] <= maxInFlightBytes + LargestPacket
    BY DEF FeedInv, BacklogBounded
  <2>2. CASE d = c
    <3>1. inFlight'[c] = inFlight[c] - Size(Head(wire[c]))
      BY <1>1 DEF Complete
    <3>. QED  BY <1>1, <1>3, <2>1, <2>2, <3>1, SizesAssumption
  <2>3. CASE d # c
    BY <1>1, <2>1, <2>3 DEF Complete
  <2>. QED  BY <2>2, <2>3
<1>5. UnprimedHoldsNothing'
  <2> SUFFICES ASSUME NEW d \in Clients, ~primed[d]
               PROVE  /\ inFlight'[d] = 0 /\ wire'[d] = <<>>
                      /\ \A u \in Senders : d \notin sendList[u].to
    BY <1>1 DEF UnprimedHoldsNothing
  <2>1. /\ inFlight[d] = 0 /\ wire[d] = <<>>
        /\ \A u \in Senders : d \notin sendList[u].to
    BY DEF FeedInv, UnprimedHoldsNothing
  <2>2. d # c
    BY <1>1, <2>1
  <2>. QED  BY <1>1, <2>1, <2>2 DEF Complete
<1>6. PrimedIsConfigured'
  BY <1>1 DEF FeedInv, PrimedIsConfigured
<1>. QED  BY <1>4, <1>5, <1>6 DEF FeedInv

LEMMA FeedStep == IInv /\ FeedInv /\ [Next]_serverVars => FeedInv'
<1> SUFFICES ASSUME IInv, FeedInv, [Next]_serverVars
             PROVE  FeedInv'
  OBVIOUS
<1>1. CASE UNCHANGED feedState
  BY <1>1 DEF feedState, FeedInv, BacklogBounded, UnprimedHoldsNothing, PrimedIsConfigured
<1>. QED
  BY <1>1, FeedSteps, SendKeepsFeedInv, HandoffKeepsFeedInv, CompleteKeepsFeedInv

(* However many threads send at once, the bytes charged to a client exceed the
   limit by less than one more packet. *)
THEOREM BacklogIsBounded == Spec => []BacklogBounded
<1>1. FeedInv => BacklogBounded
  BY DEF FeedInv
<1>. QED  BY <1>1, TypeInit, TypeStep, FeedInit, FeedStep, PTL DEF Spec

(* A client marked primed has been handed a config packet or is about to be. *)
THEOREM PrimedClientIsConfigured == Spec => []PrimedIsConfigured
<1>1. FeedInv => PrimedIsConfigured
  BY DEF FeedInv
<1>. QED  BY <1>1, TypeInit, TypeStep, FeedInit, FeedStep, PTL DEF Spec

(* Nothing is owed to a client that is not primed. *)
THEOREM UnprimedClientHoldsNothing == Spec => []UnprimedHoldsNothing
<1>1. FeedInv => UnprimedHoldsNothing
  BY DEF FeedInv
<1>. QED  BY <1>1, TypeInit, TypeStep, FeedInit, FeedStep, PTL DEF Spec

(* The two together: a client is fed from its first config packet on, and only from then on. *)
THEOREM FedFromConfig == Spec => []FedFromConfigOn
BY PrimedClientIsConfigured, UnprimedClientHoldsNothing, PTL DEF FedFromConfigOn

-----------------------------------------------------------------------------
(* Connections and listeners.                                               *)

LEMMA OrphanStep == IInv /\ NoOrphanConnection /\ [Next]_serverVars => NoOrphanConnection'
<1> SUFFICES ASSUME IInv, NoOrphanConnection, [Next]_serverVars
             PROVE  NoOrphanConnection'
  OBVIOUS
<1> USE DEF NoOrphanConnection
<1>0. conn \in [Clients -> ConnPhases] /\ active \in [Lifecycle -> SUBSET Clients]
  BY DEF IInv, TypeOK
<1>1. CASE UNCHANGED <<conn, connections, active>>
  BY <1>1
<1>2. ASSUME NEW t \in Lifecycle, StopClear(t) PROVE NoOrphanConnection'
  <2> SUFFICES ASSUME NEW c \in Clients, conn[c] \in {"inserted", "starting", "ready"}
               PROVE  \E u \in Lifecycle : c \in active'[u]
    BY <1>2 DEF StopClear
  <2>1. CASE c \in connections
    BY <1>0, <1>2, <2>1 DEF StopClear
  <2>2. CASE \E u \in Lifecycle : c \in active[u]
    <3>1. PICK u \in Lifecycle : c \in active[u]
      BY <2>2
    <3>2. u # t
      BY <1>2, <3>1 DEF StopClear, IInv, ActiveOK
    <3>. QED  BY <1>0, <1>2, <3>1, <3>2 DEF StopClear
  <2>. QED  BY <2>1, <2>2
<1>3. ASSUME NEW c \in Clients, Arrive(c) PROVE NoOrphanConnection'
  BY <1>0, <1>3 DEF Arrive, SetPhase, sendVars, listenVars
<1>4. ASSUME NEW c \in Clients, Accept(c) PROVE NoOrphanConnection'
  BY <1>0, <1>4 DEF Accept, SetPhase, listenVars
<1>5. ASSUME NEW c \in Clients, AcceptStart(c) \/ Ready(c) \/ Fail(c)
      PROVE  NoOrphanConnection'
  BY <1>0, <1>5 DEF AcceptStart, Ready, Fail, SetPhase, sendVars, listenVars
<1>6. ASSUME NEW c \in Clients, Remove(c) PROVE NoOrphanConnection'
  <2>1. CASE c \in connections /\ conn[c] # "cancelled"
    BY <1>0, <1>6, <2>1 DEF Remove, SetPhase, listenVars
  <2>2. CASE ~(c \in connections /\ conn[c] # "cancelled")
    BY <1>0, <1>6, <2>2 DEF Remove, listenVars
  <2>. QED  BY <2>1, <2>2
<1>7. ASSUME NEW t \in Lifecycle,
             StartCreate(t) \/ StartAssign(t) \/ StopCancel(t) \/ StopNil(t)
      PROVE  UNCHANGED <<conn, connections, active>>
  BY <1>7 DEF StartCreate, StartAssign, StopCancel, StopNil, sendVars, listenVars
<1>8. ASSUME Start \/ Finish \/ RetryDisable PROVE UNCHANGED <<conn, connections, active>>
  BY <1>8 DEF Start, Finish, RetryDisable, sendVars, listenVars
<1>9. ASSUME NEW k \in 1..Len(listeners), ListenerFails(k)
      PROVE  UNCHANGED <<conn, connections, active>>
  BY <1>9 DEF ListenerFails, sendVars, listenVars
<1>10. ASSUME NEW c \in Clients, Complete(c) PROVE UNCHANGED <<conn, connections, active>>
  BY <1>10 DEF Complete, listenVars
<1>11. ASSUME NEW t \in Senders, NEW c \in Clients, Handoff(t, c)
       PROVE  UNCHANGED <<conn, connections, active>>
  BY <1>11 DEF Handoff, listenVars
<1>12. ASSUME NEW t \in Senders, NEW p \in Packets, Send(t, p)
       PROVE  UNCHANGED <<conn, connections, active>>
  BY <1>12 DEF Send, listenVars
<1>13. ASSUME NEW t \in Lifecycle, NEW c \in Clients, StopConnection(t, c)
       PROVE  NoOrphanConnection'
  BY <1>0, <1>13 DEF StopConnection, sendVars, listenVars
<1>14. CASE UNCHANGED serverVars
  BY <1>14 DEF serverVars, sendVars, listenVars
<1>. QED
  BY <1>1, <1>2, <1>3, <1>4, <1>5, <1>6, <1>7, <1>8, <1>9, <1>10, <1>11, <1>12, <1>13, <1>14
     DEF Next, ServerStep, LifeStep

(* No connection that could carry data escapes stop() and the senders. *)
THEOREM NoConnectionEscapes == Spec => []NoOrphanConnection
<1>1. ServerInit => NoOrphanConnection
  BY DEF ServerInit, NoOrphanConnection
<1>. QED  BY <1>1, TypeInit, TypeStep, OrphanStep, PTL DEF Spec

(* The history of the two threads that start and stop the listener, as far as the
   listeners created tell it: the retry begins only when the first one has failed. *)
ControlInv ==
    /\ life["main"] \in {"idle", "start"} => Len(listeners) = 0
    /\ life["main"] = "assign" =>
          Len(listeners) = 1 /\ listeners[1].phase = "created" /\ life["retry"] = "idle"
    /\ Len(listeners) = 0 => life["retry"] = "idle"
    /\ life["retry"] # "idle" => listeners[1].phase \in {"failed", "cancelled"}
    /\ Len(listeners) = 2 => life["retry"] \in {"assign", "finished"}
    /\ life["retry"] = "assign" => Len(listeners) = 2
    /\ life["retry"] \in {"idle", "disable"} => ~advertisementDisabled

ListenInv == RetriedOnce /\ ListenerReachable /\ ControlInv

LEMMA ListenInit == ServerInit => ListenInv
<1> SUFFICES ASSUME ServerInit PROVE ListenInv
  OBVIOUS
<1>1. listeners = <<>> /\ Len(listeners) = 0 /\ life = [t \in Lifecycle |-> "idle"]
  BY EmptySeq DEF ServerInit
<1>2. RetriedOnce /\ ListenerReachable
  BY <1>1 DEF RetriedOnce, ListenerReachable
<1>. QED  BY <1>1, <1>2 DEF ListenInv, ControlInv, ServerInit, Lifecycle

(* What the lemmas below need of the types. *)
LEMMA ListenTypes ==
    ASSUME IInv
    PROVE  /\ life \in [Lifecycle -> LifePhases]
           /\ "main" \in Lifecycle /\ "retry" \in Lifecycle
           /\ Len(listeners) \in Nat /\ listener \in 0..Len(listeners)
           /\ listeners \in Seq(ListenerRecord)
<1>1. listeners \in Seq(ListenerRecord)
  BY DEF IInv, TypeOK
<1>2. Len(listeners) \in Nat
  BY <1>1, LenProperties
<1>3. "main" \in Lifecycle /\ "retry" \in Lifecycle
  BY DEF Lifecycle
<1>4. life \in [Lifecycle -> LifePhases] /\ listener \in 0..Len(listeners)
  BY DEF IInv, TypeOK
<1>. QED  BY <1>1, <1>2, <1>3, <1>4

LEMMA FewListeners ==
    ASSUME IInv, ListenInv
    PROVE  Len(listeners) \in 0..2
<1> DEFINE n == Len(listeners)
<1>1. n \in Nat
  BY ListenTypes
<1>2. n <= 2
  BY DEF ListenInv, RetriedOnce
<1>. HIDE DEF n
<1>3. n \in 0..2
  BY <1>1, <1>2
<1>. QED  BY <1>3 DEF n

(* Creating a listener: main's is the first, the retry's the second and last. *)
LEMMA CreateKeepsListenInv ==
    ASSUME IInv, ListenInv, NEW t \in Lifecycle, StartCreate(t)
    PROVE  ListenInv'
<1> DEFINE n == Len(listeners)
           new == [service |-> ServiceOf(t), phase |-> "created"]
<1>0. life \in [Lifecycle -> LifePhases] /\ "main" \in Lifecycle /\ "retry" \in Lifecycle
  BY ListenTypes
<1>1. n \in 0..2
  BY FewListeners
<1>2. listener' = listener /\ advertisementDisabled' = advertisementDisabled
  BY DEF StartCreate
<1>3. CASE listeners' = listeners /\ life' = [life EXCEPT ![t] = AfterStart(t)]
  <2>1. RetriedOnce'
    BY <1>3 DEF ListenInv, RetriedOnce
  <2>2. life[t] = "start"
    BY DEF StartCreate
  <2>3. CASE t = "main"
    <3>1. n = 0 /\ life["retry"] = "idle"
      BY <2>2, <2>3 DEF ListenInv, ControlInv
    <3>2. life'["main"] = "running" /\ life'["retry"] = "idle" /\ Len(listeners') = 0
      BY <1>0, <1>3, <2>3, <3>1 DEF AfterStart
    <3>3. ListenerReachable'
      BY <3>2 DEF ListenerReachable
    <3>4. ~advertisementDisabled
      BY <3>1 DEF ListenInv, ControlInv
    <3>. QED  BY <1>2, <2>1, <3>2, <3>3, <3>4 DEF ListenInv, ControlInv
  <2>4. CASE t = "retry"
    <3>1. life'["main"] = life["main"] /\ life'["retry"] = "finished" /\ life["retry"] = "start"
      BY <1>0, <1>3, <2>2, <2>4 DEF AfterStart
    <3>2. ListenerReachable'
      BY <1>2, <1>3, <3>1 DEF ListenInv, ListenerReachable
    <3>3. ControlInv'
      BY <1>2, <1>3, <3>1 DEF ListenInv, ControlInv
    <3>. QED  BY <2>1, <3>2, <3>3 DEF ListenInv
  <2>. QED  BY <2>3, <2>4 DEF Lifecycle
<1>4. CASE listeners' = Append(listeners, new) /\ life' = [life EXCEPT ![t] = "assign"]
  <2>1. /\ Len(listeners') = n + 1
        /\ listeners'[n + 1] = new
        /\ \A i \in 1..n : listeners'[i] = listeners[i]
    <3>1. new \in ListenerRecord
      BY DEF ListenerRecord, ListenerPhases, ServiceOf
    <3>. QED  BY <1>4, <3>1, ListenTypes, AppendProperties
  <2>2. life[t] = "start"
    BY DEF StartCreate
  <2>3. CASE t = "main"
    <3>1. n = 0 /\ life["retry"] = "idle" /\ ~advertisementDisabled
      BY <2>2, <2>3 DEF ListenInv, ControlInv
    <3>2. life'["main"] = "assign" /\ life'["retry"] = "idle"
      BY <1>0, <1>4, <2>3, <3>1
    <3>3. new.service = "bonjour" /\ new.phase = "created"
      BY <2>3, <3>1 DEF ServiceOf
    <3>4. Len(listeners') = 1 /\ listeners'[1].service = "bonjour"
                              /\ listeners'[1].phase = "created"
      BY <2>1, <3>1, <3>3
    <3>5. RetriedOnce'
      BY <3>4 DEF RetriedOnce
    <3>6. ListenerReachable'
      BY <3>2 DEF ListenerReachable
    <3>7. ControlInv'
      BY <1>2, <3>1, <3>2, <3>4 DEF ControlInv
    <3>. QED  BY <3>5, <3>6, <3>7 DEF ListenInv
  <2>4. CASE t = "retry"
    <3>1. n = 1
      BY <1>1, <2>2, <2>4 DEF ListenInv, ControlInv
    <3>2. life'["main"] = life["main"] /\ life'["retry"] = "assign"
      BY <1>0, <1>4, <2>4
    <3>3. life["main"] \notin {"idle", "start", "assign"}
          /\ listeners[1].phase \in {"failed", "cancelled"}
      BY <2>2, <2>4, <3>1 DEF ListenInv, ControlInv
    <3>4. new.service = "nil" /\ new.phase = "created"
      BY <2>4 DEF ServiceOf
    <3>5. /\ Len(listeners') = 2 /\ listeners'[1] = listeners[1]
          /\ listeners'[2].service = "nil" /\ listeners'[2].phase = "created"
      BY <2>1, <3>1, <3>4
    <3>6. \A i \in 1..2 : i = 1 \/ i = 2
      OBVIOUS
    <3>7. listeners[1].service = "bonjour"
      BY <3>1 DEF ListenInv, RetriedOnce
    <3>8. RetriedOnce'
      BY <3>5, <3>6, <3>7 DEF RetriedOnce
    <3>9. ListenerReachable'
      BY <3>3, <3>5, <3>6 DEF ListenerReachable
    <3>10. ControlInv'
      BY <3>2, <3>3, <3>5 DEF ControlInv
    <3>. QED  BY <3>8, <3>9, <3>10 DEF ListenInv
  <2>. QED  BY <2>3, <2>4 DEF Lifecycle
<1>. QED  BY <1>3, <1>4 DEF StartCreate, Goto

(* Publishing a listener makes `listener` refer to it before it can be live. *)
LEMMA AssignKeepsListenInv ==
    ASSUME IInv, ListenInv, NEW t \in Lifecycle, StartAssign(t)
    PROVE  ListenInv'
<1> DEFINE n == Len(listeners)
<1>0. life \in [Lifecycle -> LifePhases] /\ "main" \in Lifecycle /\ "retry" \in Lifecycle
  BY ListenTypes
<1>1. n \in 1..2
  <2>1. n > 0
    BY DEF IInv, AssignOK, StartAssign
  <2>. QED  BY <2>1, FewListeners
<1>2. /\ life[t] = "assign" /\ life' = [life EXCEPT ![t] = AfterStart(t)]
      /\ listener' = n /\ advertisementDisabled' = advertisementDisabled
  BY DEF StartAssign, Goto
<1>3. listeners' = [listeners EXCEPT ![n].phase = "live"]
  BY DEF StartAssign
<1>4. /\ Len(listeners') = n
      /\ \A i \in 1..n : listeners'[i] =
            IF i = n THEN [service |-> listeners[n].service, phase |-> "live"]
            ELSE listeners[i]
  <2>1. "live" \in ListenerPhases
    BY DEF ListenerPhases
  <2>2. n \in 1..n
    BY <1>1
  <2>. QED  BY <1>3, <2>1, <2>2, ListenTypes, PhaseUpdate
<1>5. RetriedOnce'
  BY <1>4 DEF ListenInv, RetriedOnce
<1>6. CASE t = "main"
  <2>1. n = 1 /\ life["retry"] = "idle"
    BY <1>2, <1>6 DEF ListenInv, ControlInv
  <2>2. life'["main"] = "running" /\ life'["retry"] = "idle"
    BY <1>0, <1>2, <1>6, <2>1 DEF AfterStart
  <2>3. ListenerReachable'
    BY <1>2, <1>4, <2>1 DEF ListenerReachable
  <2>4. ControlInv'
    BY <1>2, <1>4, <2>1, <2>2 DEF ListenInv, ControlInv
  <2>. QED  BY <1>5, <2>3, <2>4 DEF ListenInv
<1>7. CASE t = "retry"
  <2>1. n = 2 /\ listeners[1].phase \in {"failed", "cancelled"}
        /\ life["main"] \notin {"idle", "start", "assign"}
    BY <1>2, <1>7 DEF ListenInv, ControlInv
  <2>2. life'["main"] = life["main"] /\ life'["retry"] = "finished"
    BY <1>0, <1>2, <1>7 DEF AfterStart
  <2>3. listeners'[1] = listeners[1]
    BY <1>4, <2>1
  <2>4. ListenerReachable'
    <3>1. \A i \in 1..2 : i = 1 \/ i = 2
      OBVIOUS
    <3>. QED  BY <1>2, <1>4, <2>1, <2>3, <3>1 DEF ListenerReachable
  <2>5. ControlInv'
    BY <1>2, <1>4, <2>1, <2>2, <2>3 DEF ControlInv
  <2>. QED  BY <1>5, <2>4, <2>5 DEF ListenInv
<1>. QED  BY <1>6, <1>7 DEF Lifecycle

(* Cancelling or losing a listener only takes a live one away. *)
LEMMA DropKeepsListenInv ==
    ASSUME IInv, ListenInv, NEW k \in 1..Len(listeners),
           NEW ph \in {"failed", "cancelled"},
           listeners' = [listeners EXCEPT ![k].phase = ph],
           listener' = listener,
           life'["main"] = "running" => life["main"] = "running"
    PROVE  /\ RetriedOnce' /\ ListenerReachable'
           /\ Len(listeners') = Len(listeners)
           /\ Len(listeners) # 0
           /\ listeners[1].phase \in {"failed", "cancelled"}
                 => listeners'[1].phase \in {"failed", "cancelled"}
           /\ listeners'[k].phase = ph
<1>1. Len(listeners) \in Nat /\ ph \in ListenerPhases
  BY ListenTypes DEF ListenerPhases
<1>2. /\ Len(listeners') = Len(listeners)
      /\ \A i \in 1..Len(listeners) : listeners'[i] =
            IF i = k THEN [service |-> listeners[k].service, phase |-> ph]
            ELSE listeners[i]
  BY <1>1, ListenTypes, PhaseUpdate
<1>3. RetriedOnce'
  BY <1>2 DEF ListenInv, RetriedOnce
<1>4. ListenerReachable'
  BY <1>2 DEF ListenInv, ListenerReachable
<1>5. 1 \in 1..Len(listeners)
  BY <1>1
<1>. QED  BY <1>1, <1>2, <1>3, <1>4, <1>5

LEMMA StopCancelKeepsListenInv ==
    ASSUME IInv, ListenInv, NEW t \in Lifecycle, StopCancel(t)
    PROVE  ListenInv'
<1>0. life \in [Lifecycle -> LifePhases] /\ "main" \in Lifecycle /\ "retry" \in Lifecycle
  BY ListenTypes
<1>1. /\ life[t] = "cancel" /\ life' = [life EXCEPT ![t] = "nil"]
      /\ listener' = listener /\ advertisementDisabled' = advertisementDisabled
  BY DEF StopCancel, Goto
<1>2. /\ life'["main"] = life["main"] \/ (life["main"] = "cancel" /\ life'["main"] = "nil")
      /\ life'["retry"] = life["retry"] \/ (life["retry"] = "cancel" /\ life'["retry"] = "nil")
  BY <1>0, <1>1
<1>3. CASE listeners' = listeners
  <2>1. RetriedOnce' /\ ListenerReachable'
    BY <1>1, <1>2, <1>3 DEF ListenInv, RetriedOnce, ListenerReachable
  <2>2. ControlInv'
    BY <1>1, <1>2, <1>3 DEF ListenInv, ControlInv
  <2>. QED  BY <2>1, <2>2 DEF ListenInv
<1>4. CASE listener # 0 /\ listeners' = [listeners EXCEPT ![listener].phase = "cancelled"]
  <2>1. listener \in 1..Len(listeners)
    BY <1>4, ListenTypes
  <2>2. life'["main"] = "running" => life["main"] = "running"
    BY <1>2
  <2>3. /\ RetriedOnce' /\ ListenerReachable'
        /\ Len(listeners') = Len(listeners) /\ Len(listeners) # 0
        /\ listeners[1].phase \in {"failed", "cancelled"}
              => listeners'[1].phase \in {"failed", "cancelled"}
    BY <1>1, <1>4, <2>1, <2>2, DropKeepsListenInv
  <2>4. life["main"] # "assign" \/ t = "retry"
    BY <1>1 DEF Lifecycle
  <2>5. life["main"] # "assign"
    BY <1>1, <2>4 DEF ListenInv, ControlInv
  <2>6. ControlInv'
    BY <1>1, <1>2, <2>3, <2>5 DEF ListenInv, ControlInv
  <2>. QED  BY <2>3, <2>6 DEF ListenInv
<1>. QED  BY <1>3, <1>4 DEF StopCancel

LEMMA StopNilKeepsListenInv ==
    ASSUME IInv, ListenInv, NEW t \in Lifecycle, StopNil(t)
    PROVE  ListenInv'
<1>0. life \in [Lifecycle -> LifePhases] /\ "main" \in Lifecycle /\ "retry" \in Lifecycle
  BY ListenTypes
<1>1. /\ life[t] = "nil" /\ life' = [life EXCEPT ![t] = AfterStop(t)]
      /\ listeners' = listeners /\ advertisementDisabled' = advertisementDisabled
  BY DEF StopNil, Goto
<1>2. RetriedOnce'
  BY <1>1 DEF ListenInv, RetriedOnce
<1>3. CASE t = "main"
  <2>1. life'["main"] = "finished" /\ life'["retry"] = life["retry"]
    BY <1>0, <1>1, <1>3 DEF AfterStop
  <2>2. ListenerReachable'
    BY <2>1 DEF ListenerReachable
  <2>3. ControlInv'
    BY <1>1, <1>3, <2>1 DEF ListenInv, ControlInv
  <2>. QED  BY <1>2, <2>2, <2>3 DEF ListenInv
<1>4. CASE t = "retry"
  <2>1. life'["retry"] = "start" /\ life'["main"] = life["main"] /\ life["retry"] = "nil"
    BY <1>0, <1>1, <1>4 DEF AfterStop
  <2>2. Len(listeners) = 1 /\ listeners[1].phase \in {"failed", "cancelled"}
    <3>1. Len(listeners) \in 0..2
      BY FewListeners
    <3>. QED  BY <2>1, <3>1 DEF ListenInv, ControlInv
  <2>3. ListenerReachable'
    BY <1>1, <2>2 DEF ListenerReachable
  <2>4. ControlInv'
    BY <1>1, <2>1, <2>2 DEF ListenInv, ControlInv
  <2>. QED  BY <1>2, <2>3, <2>4 DEF ListenInv
<1>. QED  BY <1>3, <1>4 DEF Lifecycle

LEMMA FailKeepsListenInv ==
    ASSUME IInv, ListenInv, NEW k \in 1..Len(listeners), ListenerFails(k)
    PROVE  ListenInv'
<1>0. life \in [Lifecycle -> LifePhases] /\ "main" \in Lifecycle /\ "retry" \in Lifecycle
  BY ListenTypes
<1>1. /\ listeners[k].phase = "live"
      /\ listeners' = [listeners EXCEPT ![k].phase = "failed"]
      /\ listener' = listener /\ advertisementDisabled' = advertisementDisabled
  BY DEF ListenerFails
<1>2. life'["main"] = life["main"]
  BY <1>0 DEF ListenerFails, Goto
<1>3. /\ RetriedOnce' /\ ListenerReachable'
      /\ Len(listeners') = Len(listeners) /\ Len(listeners) # 0
      /\ listeners[1].phase \in {"failed", "cancelled"}
            => listeners'[1].phase \in {"failed", "cancelled"}
      /\ listeners'[k].phase = "failed"
  BY <1>1, <1>2, DropKeepsListenInv
<1>4. life["main"] # "assign"
  <2> SUFFICES ASSUME life["main"] = "assign" PROVE FALSE
    OBVIOUS
  <2>1. Len(listeners) = 1 /\ listeners[1].phase = "created"
    BY DEF ListenInv, ControlInv
  <2>2. k = 1
    BY <2>1
  <2>. QED  BY <1>1, <2>1, <2>2
<1>5. CASE listeners[k].service = "bonjour"
  <2>1. k = 1
    BY <1>5 DEF ListenInv, RetriedOnce
  <2>2. life["retry"] = "idle"
    BY <1>1, <2>1 DEF ListenInv, ControlInv
  <2>3. life'["retry"] = "disable"
    BY <1>0, <1>5 DEF ListenerFails, Goto
  <2>4. Len(listeners) # 2
    BY <2>2 DEF ListenInv, ControlInv
  <2>5. ControlInv'
    BY <1>1, <1>2, <1>3, <1>4, <2>1, <2>2, <2>3, <2>4 DEF ListenInv, ControlInv
  <2>. QED  BY <1>3, <2>5 DEF ListenInv
<1>6. CASE listeners[k].service # "bonjour"
  <2>1. life' = life
    BY <1>6 DEF ListenerFails
  <2>2. ControlInv'
    BY <1>1, <1>3, <1>4, <2>1 DEF ListenInv, ControlInv
  <2>. QED  BY <1>3, <2>2 DEF ListenInv
<1>. QED  BY <1>5, <1>6

(* The steps that move one thread between phases ListenInv does not tell apart. *)
LEMMA ThreadKeepsListenInv ==
    ASSUME IInv, ListenInv,
           Start \/ Finish \/ RetryDisable \/ (\E t \in Lifecycle : StopClear(t))
    PROVE  ListenInv'
<1>0. life \in [Lifecycle -> LifePhases] /\ "main" \in Lifecycle /\ "retry" \in Lifecycle
  BY ListenTypes
<1>1. /\ listeners' = listeners /\ listener' = listener
      /\ life'["main"] = "running" => life["main"] = "running"
  BY <1>0 DEF Start, Finish, RetryDisable, StopClear, Goto, Lifecycle
<1>2. RetriedOnce' /\ ListenerReachable'
  BY <1>1 DEF ListenInv, RetriedOnce, ListenerReachable
<1>3. CASE Start \/ Finish
  BY <1>0, <1>1, <1>2, <1>3 DEF Start, Finish, Goto, ListenInv, ControlInv
<1>4. CASE RetryDisable
  BY <1>0, <1>1, <1>2, <1>4 DEF RetryDisable, Goto, ListenInv, ControlInv
<1>5. CASE \E t \in Lifecycle : StopClear(t)
  BY <1>0, <1>1, <1>2, <1>5 DEF StopClear, Goto, ListenInv, ControlInv, Lifecycle
<1>. QED  BY <1>3, <1>4, <1>5

LEMMA ListenStep == IInv /\ ListenInv /\ [Next]_serverVars => ListenInv'
<1> SUFFICES ASSUME IInv, ListenInv, [Next]_serverVars
             PROVE  ListenInv'
  OBVIOUS
<1> DEFINE listenerState == <<listener, listeners, advertisementDisabled, life>>
<1>1. CASE UNCHANGED listenerState
  BY <1>1 DEF ListenInv, RetriedOnce, ListenerReachable, ControlInv
<1>2. ASSUME NEW c \in Clients,
             \/ Arrive(c) \/ Accept(c) \/ AcceptStart(c) \/ Ready(c) \/ Fail(c)
             \/ Remove(c) \/ Complete(c)
      PROVE  UNCHANGED listenerState
  BY <1>2 DEF listenVars, Arrive, Accept, AcceptStart, Ready, Fail, Remove, Complete
<1>3. ASSUME NEW t \in Senders, NEW c \in Clients, Handoff(t, c)
      PROVE  UNCHANGED listenerState
  BY <1>3 DEF listenVars, Handoff
<1>4. ASSUME NEW t \in Senders, NEW p \in Packets, Send(t, p)
      PROVE  UNCHANGED listenerState
  BY <1>4 DEF listenVars, Send
<1>5. CASE UNCHANGED serverVars
  BY <1>1, <1>5 DEF serverVars, listenVars
<1>6. CASE Start \/ Finish \/ RetryDisable
  BY <1>6, ThreadKeepsListenInv
<1>7. ASSUME NEW t \in Lifecycle, NEW c \in Clients, StopConnection(t, c)
      PROVE  ListenInv'
  BY <1>1, <1>7 DEF StopConnection
<1>8. ASSUME NEW t \in Lifecycle, LifeStep(t)
      PROVE  ListenInv'
  BY <1>8, CreateKeepsListenInv, AssignKeepsListenInv, ThreadKeepsListenInv,
     StopCancelKeepsListenInv, StopNilKeepsListenInv, <1>7 DEF LifeStep
<1>9. ASSUME NEW k \in 1..Len(listeners), ListenerFails(k)
      PROVE  ListenInv'
  BY <1>9, FailKeepsListenInv
<1>. QED
  BY <1>1, <1>2, <1>3, <1>4, <1>5, <1>6, <1>8, <1>9 DEF Next, ServerStep

(* A failing listener is rebuilt at most once, and then without advertisement. *)
THEOREM ListenerRetriedOnce == Spec => []RetriedOnce
<1>1. ListenInv => RetriedOnce
  BY DEF ListenInv
<1>. QED  BY <1>1, TypeInit, TypeStep, ListenInit, ListenStep, PTL DEF Spec

(* While the broadcast runs, stop() can reach the socket that is listening. *)
THEOREM ListenerStaysReachable == Spec => []ListenerReachable
<1>1. ListenInv => ListenerReachable
  BY DEF ListenInv
<1>. QED  BY <1>1, TypeInit, TypeStep, ListenInit, ListenStep, PTL DEF Spec

-----------------------------------------------------------------------------
(***************************************************************************)
(* Sums over finite sets.                                                   *)
(***************************************************************************)
(* Induction over the natural numbers, over a set instead of a predicate. *)
LEMMA Counting ==
  ASSUME NEW N, 0 \in N, \A n \in Nat : n \in N => n + 1 \in N
  PROVE  Nat \subseteq N
<1> SUFFICES ASSUME Nat \ N # {} PROVE FALSE
  OBVIOUS
<1>1. PICK m \in Nat \ N : \A n \in Nat \ N : <<n, m>> \notin OpToRel(<, Nat)
  <2>. HIDE DEF OpToRel
  <2>. QED BY NatLessThanWellFounded, WFMin, Zenon
<1>2. \A n \in Nat \ N : ~(n < m)
  BY <1>1 DEF OpToRel
<1>3. m - 1 \in Nat /\ m - 1 \notin N
  OBVIOUS
<1>. QED BY <1>2, <1>3

(* The recursion that defines a sum, with the element it takes out at every step. *)
First(S) == CHOOSE x \in S : TRUE

SumsUp(g, f, D) ==
  g = [s \in D |-> IF s = {} THEN 0 ELSE f[First(s)] + g[s \ {First(s)}]]

(* The library's sum is the value of a function that satisfies the recursion. *)
LEMMA SumDef ==
  ASSUME NEW f, NEW S
  PROVE  SumFunctionOnSet(f, S) = (CHOOSE g : SumsUp(g, f, SUBSET S))[S]
BY DEF SumFunctionOnSet, FoldFunctionOnSet, MapThenFoldSet, SumsUp, First

(* The subsets of a finite set with at most n elements. *)
Small(S, n) == {s \in SUBSET S : Cardinality(s) <= n}

LEMMA FirstIn == \A S : S # {} => First(S) \in S
BY DEF First

(* There is one for the subsets of a finite set ... *)
LEMMA SumExists ==
  ASSUME NEW f, NEW S, IsFiniteSet(S)
  PROVE  \E g : SumsUp(g, f, SUBSET S)
<1> DEFINE N == {n \in Nat : \E g : SumsUp(g, f, Small(S, n))}
<1>0. \A s \in SUBSET S : IsFiniteSet(s) /\ Cardinality(s) \in Nat
  BY FS_Subset, FS_CardinalityType
<1>1. 0 \in N
  <2>1. Small(S, 0) = {{}}
    BY <1>0, FS_EmptySet DEF Small
  <2>2. SumsUp([s \in Small(S, 0) |-> 0], f, Small(S, 0))
    BY <2>1 DEF SumsUp
  <2>. QED  BY <2>2
<1>2. ASSUME NEW n \in Nat, n \in N PROVE n + 1 \in N
  <2>1. PICK g : SumsUp(g, f, Small(S, n))
    BY <1>2
  <2> DEFINE h == [s \in Small(S, n + 1) |->
                     IF s = {} THEN 0 ELSE f[First(s)] + g[s \ {First(s)}]]
  <2>2. ASSUME NEW s \in Small(S, n + 1), s # {}
        PROVE  g[s \ {First(s)}] = h[s \ {First(s)}]
    <3>1. First(s) \in s /\ s \ {First(s)} \in SUBSET S /\ s \in SUBSET S
      BY <2>2, FirstIn DEF Small
    <3>2. Cardinality(s \ {First(s)}) = Cardinality(s) - 1
      BY <1>0, <3>1, FS_RemoveElement
    <3>3. Cardinality(s) \in Nat /\ Cardinality(s) <= n + 1
      BY <1>0, <3>1 DEF Small
    <3>4. s \ {First(s)} \in Small(S, n) /\ s \ {First(s)} \in Small(S, n + 1)
      BY <1>0, <3>1, <3>2, <3>3 DEF Small
    <3>. QED  BY <2>1, <3>4 DEF SumsUp
  <2>3. SumsUp(h, f, Small(S, n + 1))
    BY <2>2 DEF SumsUp
  <2>. QED  BY <2>3
<1>3. Cardinality(S) \in N
  <2>. HIDE DEF N
  <2>. QED  BY <1>1, <1>2, Counting, FS_CardinalityType
<1>4. Small(S, Cardinality(S)) = SUBSET S
  BY FS_Subset DEF Small
<1>. QED  BY <1>3, <1>4

(* ... and only one: what it says of a set depends on the summands of that set. *)
LEMMA SumsAgree ==
  ASSUME NEW f, NEW f1, NEW S, NEW S1, NEW g, NEW g1, IsFiniteSet(S),
         SumsUp(g, f, SUBSET S), SumsUp(g1, f1, SUBSET S1),
         NEW T \in SUBSET (S \cap S1), \A x \in T : f[x] = f1[x]
  PROVE  g[T] = g1[T]
<1> DEFINE N == {n \in Nat : \A s \in SUBSET T : Cardinality(s) <= n => g[s] = g1[s]}
<1>0. \A s \in SUBSET T : IsFiniteSet(s) /\ Cardinality(s) \in Nat
  BY FS_Subset, FS_CardinalityType
<1>1. 0 \in N
  <2>1. ASSUME NEW s \in SUBSET T, Cardinality(s) <= 0 PROVE g[s] = g1[s]
    <3>1. s = {}
      BY <1>0, <2>1, FS_EmptySet
    <3>. QED  BY <3>1 DEF SumsUp
  <2>. QED  BY <2>1
<1>2. ASSUME NEW n \in Nat, n \in N PROVE n + 1 \in N
  <2>1. ASSUME NEW s \in SUBSET T, Cardinality(s) <= n + 1, s # {} PROVE g[s] = g1[s]
    <3>1. First(s) \in s /\ s \ {First(s)} \in SUBSET T
      BY <2>1, FirstIn
    <3>2. Cardinality(s \ {First(s)}) = Cardinality(s) - 1
      BY <1>0, <3>1, FS_RemoveElement
    <3>3. g[s \ {First(s)}] = g1[s \ {First(s)}]
      BY <1>0, <1>2, <2>1, <3>1, <3>2
    <3>4. s \in SUBSET S /\ s \in SUBSET S1 /\ f[First(s)] = f1[First(s)]
      BY <3>1
    <3>. QED  BY <2>1, <3>3, <3>4 DEF SumsUp
  <2>2. g[{}] = g1[{}]
    BY DEF SumsUp
  <2>. QED  BY <2>1, <2>2
<1>3. Cardinality(T) \in N
  <2>. HIDE DEF N
  <2>. QED  BY <1>0, <1>1, <1>2, Counting
<1>. QED  BY <1>0, <1>3

(* The sum of the empty set, and of a set without its first element. *)
LEMMA SumFirst ==
  ASSUME NEW f, NEW S, IsFiniteSet(S)
  PROVE  SumFunctionOnSet(f, S) =
           IF S = {} THEN 0
           ELSE f[First(S)] + SumFunctionOnSet(f, S \ {First(S)})
<1> DEFINE g == CHOOSE s : SumsUp(s, f, SUBSET S)
           R == S \ {First(S)}
           h == CHOOSE s : SumsUp(s, f, SUBSET R)
<1>1. SumsUp(g, f, SUBSET S)
  BY SumExists
<1>2. IsFiniteSet(R)
  BY FS_Subset
<1>3. SumsUp(h, f, SUBSET R)
  BY <1>2, SumExists
<1>4. SumFunctionOnSet(f, S) = g[S] /\ SumFunctionOnSet(f, R) = h[R]
  BY SumDef
<1>. HIDE DEF g, h
<1>5. g[R] = h[R]
  <2>1. R \in SUBSET (S \cap R) /\ \A x \in R : f[x] = f[x]
    OBVIOUS
  <2>. HIDE DEF R
  <2>. QED  BY <1>1, <1>3, <2>1, SumsAgree
<1>6. g[S] = IF S = {} THEN 0 ELSE f[First(S)] + g[R]
  BY <1>1 DEF SumsUp
<1>. QED  BY <1>4, <1>5, <1>6

LEMMA SumEmpty == ASSUME NEW f, NEW S, S = {} PROVE SumFunctionOnSet(f, S) = 0
<1>1. IsFiniteSet(S)
  BY FS_EmptySet
<1>. QED  BY <1>1, SumFirst

(* A sum depends on the summands only. *)
LEMMA SumSame ==
  ASSUME NEW f, NEW h, NEW S, IsFiniteSet(S), \A x \in S : f[x] = h[x]
  PROVE  SumFunctionOnSet(f, S) = SumFunctionOnSet(h, S)
<1> DEFINE g == CHOOSE s : SumsUp(s, f, SUBSET S)
           k == CHOOSE s : SumsUp(s, h, SUBSET S)
<1>1. SumsUp(g, f, SUBSET S) /\ SumsUp(k, h, SUBSET S)
  BY SumExists
<1>2. SumFunctionOnSet(f, S) = g[S] /\ SumFunctionOnSet(h, S) = k[S]
  BY SumDef
<1>3. S \in SUBSET (S \cap S)
  OBVIOUS
<1>. HIDE DEF g, k
<1>4. g[S] = k[S]
  BY <1>1, <1>3, SumsAgree
<1>. QED  BY <1>2, <1>4

(* A sum of integers is one, and any summand may be taken out first. *)
LEMMA SumWithout ==
  ASSUME NEW f, NEW S, IsFiniteSet(S), \A x \in S : f[x] \in Int
  PROVE  /\ SumFunctionOnSet(f, S) \in Int
         /\ \A x \in S : SumFunctionOnSet(f, S) = f[x] + SumFunctionOnSet(f, S \ {x})
<1> DEFINE Sum(T) == SumFunctionOnSet(f, T)
           OK(T) == Sum(T) \in Int /\ \A x \in T : Sum(T) = f[x] + Sum(T \ {x})
           N == {n \in Nat : \A s \in SUBSET S : Cardinality(s) <= n => OK(s)}
<1>0. \A s \in SUBSET S : IsFiniteSet(s) /\ Cardinality(s) \in Nat
  BY FS_Subset, FS_CardinalityType
<1>f. \A s \in SUBSET S : Sum(s) = IF s = {} THEN 0 ELSE f[First(s)] + Sum(s \ {First(s)})
  BY <1>0, SumFirst
<1>. HIDE DEF Sum
<1>1. 0 \in N
  <2>1. ASSUME NEW s \in SUBSET S, Cardinality(s) <= 0 PROVE OK(s)
    <3>1. s = {}
      BY <1>0, <2>1, FS_EmptySet
    <3>2. Sum(s) = 0
      BY <3>1, <1>f
    <3>. QED  BY <3>1, <3>2
  <2>. QED  BY <2>1
<1>2. ASSUME NEW n \in Nat, n \in N PROVE n + 1 \in N
  <2>1. ASSUME NEW s \in SUBSET S, Cardinality(s) <= n + 1 PROVE OK(s)
    <3>1. CASE s = {}
      <4>1. Sum(s) = 0
        BY <3>1, <1>f
      <4>. QED  BY <3>1, <4>1
    <3>2. CASE s # {}
      <4> DEFINE y == First(s)
      <4>1. y \in s
        BY <3>2, FirstIn
      <4>. HIDE DEF y
      <4>2. \A x \in s : s \ {x} \in SUBSET S /\ OK(s \ {x})
        <5> SUFFICES ASSUME NEW x \in s PROVE s \ {x} \in SUBSET S /\ OK(s \ {x})
          OBVIOUS
        <5>1. Cardinality(s \ {x}) = Cardinality(s) - 1
          BY <1>0, FS_RemoveElement
        <5>2. Cardinality(s \ {x}) <= n
          BY <1>0, <2>1, <5>1
        <5>. QED  BY <1>2, <5>2
      <4>3. Sum(s) = f[y] + Sum(s \ {y}) /\ f[y] \in Int
        BY <1>f, <3>2, <4>1 DEF y
      <4>4. Sum(s) \in Int
        BY <4>1, <4>2, <4>3
      <4>5. ASSUME NEW x \in s, x # y PROVE Sum(s) = f[x] + Sum(s \ {x})
        <5>1. Sum(s \ {y}) = f[x] + Sum((s \ {y}) \ {x})
          BY <4>1, <4>2, <4>5
        <5>2. Sum(s \ {x}) = f[y] + Sum((s \ {x}) \ {y})
          BY <4>1, <4>2, <4>5
        <5>3. (s \ {y}) \ {x} = (s \ {x}) \ {y}
          OBVIOUS
        <5>4. Sum(s \ {x}) \in Int /\ Sum(s \ {y}) \in Int /\ f[x] \in Int
          BY <4>1, <4>2
        <5>5. (s \ {x}) \ {y} \in SUBSET S /\ OK((s \ {x}) \ {y})
          <6>1. Cardinality((s \ {x}) \ {y}) <= Cardinality(s) - 1
            <7>1. IsFiniteSet(s \ {x}) /\ Cardinality(s \ {x}) = Cardinality(s) - 1
              BY <1>0, FS_RemoveElement
            <7>. QED  BY <7>1, FS_Subset
          <6>2. Cardinality((s \ {x}) \ {y}) <= n
            BY <1>0, <2>1, <6>1
          <6>. QED  BY <1>2, <6>2
        <5>6. Sum((s \ {x}) \ {y}) \in Int
          BY <5>5
        <5>7. Sum(s \ {y}) = f[x] + Sum((s \ {x}) \ {y})
          BY <5>1, <5>3
        <5>. QED  BY <4>3, <5>2, <5>4, <5>6, <5>7
      <4>. QED  BY <4>3, <4>4, <4>5
    <3>. QED  BY <3>1, <3>2
  <2>. QED  BY <2>1
<1>3. Cardinality(S) \in N
  <2>. HIDE DEF N
  <2>. QED  BY <1>0, <1>1, <1>2, Counting
<1>. QED  BY <1>0, <1>3 DEF Sum

(* The sum over a sequence without its first entry. *)
LEMMA SumTail ==
  ASSUME NEW n \in Nat, NEW f, \A i \in 1..n + 1 : f[i] \in Int
  PROVE  SumFunctionOnSet(f, 1..n + 1)
           = f[1] + SumFunctionOnSet([i \in 1..n |-> f[i + 1]], 1..n)
<1> DEFINE h == [i \in 1..n |-> f[i + 1]]
           Sum(k, m) == SumFunctionOnSet(k, 1..m)
           N == {k \in Nat : k <= n => Sum(f, k + 1) = f[1] + Sum(h, k)}
<1>0. \A k \in 0..n + 1 : IsFiniteSet(1..k)
  BY FS_Interval
<1>1. Sum(f, 0) = 0 /\ Sum(h, 0) = 0
  <2>1. 1..0 = {}
    OBVIOUS
  <2>. QED  BY <2>1, FS_EmptySet, SumFirst
<1>2. ASSUME NEW k \in 1..n + 1
      PROVE  Sum(f, k) = f[k] + Sum(f, k - 1) /\ Sum(f, k) \in Int
  <2>1. k \in 1..k /\ 1..k - 1 = 1..k \ {k} /\ 1..k \subseteq 1..n + 1
    OBVIOUS
  <2>2. \A i \in 1..k : f[i] \in Int
    BY <2>1
  <2>3. IsFiniteSet(1..k)
    BY <1>0
  <2>4. /\ SumFunctionOnSet(f, 1..k) \in Int
        /\ SumFunctionOnSet(f, 1..k) = f[k] + SumFunctionOnSet(f, (1..k) \ {k})
    BY <2>1, <2>2, <2>3, SumWithout
  <2>. QED  BY <2>1, <2>4
<1>3. ASSUME NEW k \in 1..n
      PROVE  Sum(h, k) = h[k] + Sum(h, k - 1) /\ Sum(h, k) \in Int
  <2>1. k \in 1..k /\ 1..k - 1 = 1..k \ {k} /\ 1..k \subseteq 1..n
    OBVIOUS
  <2>2. \A i \in 1..k : h[i] \in Int
    BY <2>1
  <2>3. IsFiniteSet(1..k)
    BY <1>0
  <2>. HIDE DEF h
  <2>4. /\ SumFunctionOnSet(h, 1..k) \in Int
        /\ SumFunctionOnSet(h, 1..k) = h[k] + SumFunctionOnSet(h, (1..k) \ {k})
    BY <2>1, <2>2, <2>3, SumWithout
  <2>. QED  BY <2>1, <2>4
<1>. HIDE DEF Sum
<1>4. 0 \in N
  BY <1>1, <1>2
<1>5. ASSUME NEW k \in Nat, k \in N PROVE k + 1 \in N
  <2> SUFFICES ASSUME k + 1 <= n PROVE Sum(f, k + 2) = f[1] + Sum(h, k + 1)
    OBVIOUS
  <2>1. Sum(f, k + 1) = f[1] + Sum(h, k)
    BY <1>5
  <2>2. Sum(f, k + 2) = f[k + 2] + Sum(f, k + 1) /\ Sum(f, k + 1) \in Int
    BY <1>2
  <2>3. Sum(h, k + 1) = f[k + 2] + Sum(h, k)
    BY <1>3
  <2>4. Sum(h, k) \in Int
    BY <1>1, <1>3
  <2>5. f[1] \in Int /\ f[k + 2] \in Int
    OBVIOUS
  <2>. QED  BY <2>1, <2>2, <2>3, <2>4, <2>5
<1>6. n \in N
  <2>. HIDE DEF N
  <2>. QED  BY <1>4, <1>5, Counting
<1>. QED  BY <1>6 DEF Sum

(* A sum of natural numbers is one. *)
LEMMA SumNat ==
  ASSUME NEW f, NEW S, IsFiniteSet(S), \A x \in S : f[x] \in Nat
  PROVE  SumFunctionOnSet(f, S) \in Nat
<1> DEFINE N == {n \in Nat : \A s \in SUBSET S : Cardinality(s) <= n => SumFunctionOnSet(f, s) \in Nat}
<1>0. \A s \in SUBSET S : IsFiniteSet(s) /\ Cardinality(s) \in Nat
  BY FS_Subset, FS_CardinalityType
<1>1. 0 \in N
  <2>1. ASSUME NEW s \in SUBSET S, Cardinality(s) <= 0 PROVE SumFunctionOnSet(f, s) \in Nat
    <3>1. s = {}
      BY <1>0, <2>1, FS_EmptySet
    <3>. QED  BY <3>1, SumEmpty
  <2>. QED  BY <2>1
<1>2. ASSUME NEW n \in Nat, n \in N PROVE n + 1 \in N
  <2>1. ASSUME NEW s \in SUBSET S, Cardinality(s) <= n + 1, s # {}
        PROVE  SumFunctionOnSet(f, s) \in Nat
    <3>1. First(s) \in s /\ s \ {First(s)} \in SUBSET S
      BY <2>1, FirstIn
    <3>2. Cardinality(s \ {First(s)}) = Cardinality(s) - 1
      BY <1>0, <3>1, FS_RemoveElement
    <3>3. SumFunctionOnSet(f, s \ {First(s)}) \in Nat
      BY <1>0, <1>2, <2>1, <3>1, <3>2
    <3>4. SumFunctionOnSet(f, s) = f[First(s)] + SumFunctionOnSet(f, s \ {First(s)})
      BY <1>0, <2>1, SumFirst
    <3>. QED  BY <3>1, <3>3, <3>4
  <2>2. SumFunctionOnSet(f, {}) \in Nat
    BY SumEmpty
  <2>. QED  BY <2>1, <2>2
<1>3. Cardinality(S) \in N
  <2>. HIDE DEF N
  <2>. QED  BY <1>0, <1>1, <1>2, Counting
<1>. QED  BY <1>0, <1>3

(* One more summand. *)
LEMMA SumAdd ==
  ASSUME NEW S, IsFiniteSet(S), NEW x, x \notin S,
         NEW f, DOMAIN f = S, NEW g, DOMAIN g = S \cup {x},
         \A y \in S : g[y] = f[y], \A y \in S \cup {x} : g[y] \in Int
  PROVE  SumFunction(g) = SumFunction(f) + g[x]
<1> DEFINE T == S \cup {x}
<1>1. IsFiniteSet(T) /\ T \ {x} = S
  BY FS_AddElement
<1>2. SumFunctionOnSet(g, T) = g[x] + SumFunctionOnSet(g, S)
  BY <1>1, SumWithout
<1>3. SumFunctionOnSet(g, S) = SumFunctionOnSet(f, S)
  BY SumSame
<1>4. SumFunctionOnSet(g, S) \in Int
  BY SumWithout
<1>. QED  BY <1>2, <1>3, <1>4 DEF SumFunction

-----------------------------------------------------------------------------
(***************************************************************************)
(* The counters are exact.                                                  *)
(***************************************************************************)
(* Only finitely many threads are inside send. *)
Busy == {t \in Senders : Sending(t)}
BusyOK == IsFiniteSet(Busy)

AccountInv == InFlightAccounting /\ BusyOK

LEMMA OwedFinite ==
  ASSUME BusyOK, NEW c \in Clients
  PROVE  IsFiniteSet(Owed(c))
<1>1. Owed(c) \subseteq Busy
  BY DEF Owed, Busy, Sending
<1>. QED  BY <1>1, FS_Subset DEF BusyOK

(* Every packet that is owed or on the wire has a size. *)
LEMMA BytesTyped ==
  ASSUME IInv, NEW c \in Clients
  PROVE  /\ \A t \in Owed(c) : sendList[t].pkt \in Packets /\ Size(sendList[t].pkt) \in Nat
         /\ DOMAIN wire[c] = 1..Len(wire[c]) /\ Len(wire[c]) \in Nat
         /\ \A i \in DOMAIN wire[c] : wire[c][i] \in Packets /\ Size(wire[c][i]) \in Nat
<1>1. \A p \in Packets : Size(p) \in Nat
  BY SizeBounds, SizesAssumption
<1>2. wire[c] \in Seq(Packets)
  BY DEF IInv, TypeOK
<1>3. \A t \in Owed(c) : sendList[t].pkt \in Packets
  BY DEF Owed, IInv, SendListOK, Sending
<1>. QED  BY <1>1, <1>2, <1>3, LenProperties, ElementOfSeq

LEMMA OutstandingNat ==
  IInv /\ BusyOK => \A c \in Clients : OnLists(c) \in Nat /\ OnWire(c) \in Nat
<1> SUFFICES ASSUME IInv, BusyOK, NEW c \in Clients
             PROVE  OnLists(c) \in Nat /\ OnWire(c) \in Nat
  OBVIOUS
<1>1. OnLists(c) \in Nat
  <2> DEFINE f == [t \in Owed(c) |-> Size(sendList[t].pkt)]
  <2>1. IsFiniteSet(Owed(c)) /\ \A t \in Owed(c) : f[t] \in Nat
    BY OwedFinite, BytesTyped
  <2>2. OnLists(c) = SumFunctionOnSet(f, Owed(c))
    BY DEF OnLists, SumFunction
  <2>. HIDE DEF f
  <2>. QED  BY <2>1, <2>2, SumNat
<1>2. OnWire(c) \in Nat
  <2> DEFINE f == [i \in DOMAIN wire[c] |-> Size(wire[c][i])]
  <2>1. IsFiniteSet(DOMAIN wire[c]) /\ \A i \in DOMAIN wire[c] : f[i] \in Nat
    BY BytesTyped, FS_Interval
  <2>2. OnWire(c) = SumFunctionOnSet(f, DOMAIN wire[c])
    BY DEF OnWire, SumFunction
  <2>. HIDE DEF f
  <2>. QED  BY <2>1, <2>2, SumNat
<1>. QED  BY <1>1, <1>2

LEMMA AccountInit == ServerInit => AccountInv
<1> SUFFICES ASSUME ServerInit PROVE AccountInv
  OBVIOUS
<1>1. BusyOK
  <2>1. Busy = {}
    BY DEF ServerInit, Busy, Sending, Idle
  <2>. QED  BY <2>1, FS_EmptySet DEF BusyOK
<1>2. ASSUME NEW c \in Clients PROVE inFlight[c] = Outstanding(c)
  <2>1. Owed(c) = {} /\ DOMAIN wire[c] = {} /\ inFlight[c] = 0
    BY DEF ServerInit, Owed, Idle
  <2>2. OnLists(c) = 0 /\ OnWire(c) = 0
    BY <2>1, SumEmpty DEF OnLists, OnWire, SumFunction
  <2>. QED  BY <2>1, <2>2 DEF Outstanding
<1>. QED  BY <1>1, <1>2 DEF AccountInv, InFlightAccounting

(* What is owed and not touched by a step keeps its bytes. *)
LEMMA ListsSame ==
  ASSUME NEW c \in Clients, Owed(c)' = Owed(c),
         \A t \in Owed(c) : sendList'[t].pkt = sendList[t].pkt
  PROVE  OnLists(c)' = OnLists(c)
<1>1. [t \in Owed(c) |-> Size(sendList[t].pkt)]' = [t \in Owed(c) |-> Size(sendList[t].pkt)]
  BY DEF Size
<1>. QED  BY <1>1 DEF OnLists

LEMMA WireSame ==
  ASSUME NEW c \in Clients, wire'[c] = wire[c]
  PROVE  OnWire(c)' = OnWire(c)
BY DEF OnWire, Size

(* The critical section of send charges the packet to every client it admits. *)
LEMMA SendKeepsAccount ==
  ASSUME IInv, IInv', AccountInv, NEW t \in Senders, NEW p \in Packets, Send(t, p)
  PROVE  AccountInv'
<1>1. /\ wire' = wire
      /\ sendList \in [Senders -> [pkt : Packets \cup {NoPacket}, to : SUBSET Clients]]
      /\ sendList[t].to = {}
      /\ sendList' = [sendList EXCEPT ![t] = Pending(p, Admitted(p))]
      /\ Pending(p, Admitted(p)).to = Admitted(p)
      /\ Admitted(p) # {} => Pending(p, Admitted(p)).pkt = p
  BY DEF Send, Sending, Pending, Idle, IInv, TypeOK
<1>2. BusyOK'
  <2>1. Busy' \subseteq Busy \cup {t}
    BY <1>1 DEF Busy, Sending
  <2>2. IsFiniteSet(Busy \cup {t})
    BY FS_AddElement DEF AccountInv, BusyOK
  <2>. QED  BY <2>1, <2>2, FS_Subset DEF BusyOK
<1>3. ASSUME NEW c \in Clients PROVE inFlight'[c] = Outstanding(c)'
  <2>1. OnWire(c)' = OnWire(c)
    BY <1>1, WireSame
  <2>2. t \notin Owed(c)
    BY <1>1 DEF Owed
  <2>3. inFlight[c] = OnLists(c) + OnWire(c)
    BY DEF AccountInv, InFlightAccounting, Outstanding
  <2>4. OnLists(c) \in Nat /\ OnWire(c) \in Nat /\ Size(p) \in Int
    BY OutstandingNat, SizeBounds, SizesAssumption DEF AccountInv
  <2>5. CASE c \notin Admitted(p)
    <3>1. Owed(c)' = Owed(c) /\ \A u \in Owed(c) : sendList'[u].pkt = sendList[u].pkt
      BY <1>1, <2>2, <2>5 DEF Owed
    <3>2. OnLists(c)' = OnLists(c)
      BY <3>1, ListsSame
    <3>3. inFlight'[c] = inFlight[c]
      BY <2>5 DEF Send
    <3>. QED  BY <2>1, <2>3, <3>2, <3>3 DEF Outstanding
  <2>6. CASE c \in Admitted(p)
    <3> DEFINE f == [u \in Owed(c) |-> Size(sendList[u].pkt)]
               g == [u \in Owed(c)' |-> Size(sendList'[u].pkt)]
    <3>1. /\ Owed(c)' = Owed(c) \cup {t} /\ sendList'[t].pkt = p
          /\ \A u \in Owed(c) : sendList'[u].pkt = sendList[u].pkt
      BY <1>1, <2>2, <2>6 DEF Owed
    <3>2. IsFiniteSet(Owed(c)) /\ \A u \in Owed(c) : f[u] \in Int
      BY OwedFinite, BytesTyped DEF AccountInv
    <3>3. DOMAIN f = Owed(c) /\ DOMAIN g = Owed(c) \cup {t} /\ g[t] = Size(p)
      BY <3>1
    <3>4. \A u \in Owed(c) : g[u] = f[u]
      BY <3>1
    <3>5. SumFunction(g) = SumFunction(f) + g[t]
      <4>1. \A u \in Owed(c) \cup {t} : g[u] \in Int
        BY <2>4, <3>2, <3>3, <3>4
      <4>. HIDE DEF f, g
      <4>. QED  BY <2>2, <3>2, <3>3, <3>4, <4>1, SumAdd
    <3>6. OnLists(c)' = SumFunction(g) /\ OnLists(c) = SumFunction(f)
      BY DEF OnLists, Size
    <3>7. inFlight'[c] = inFlight[c] + Size(p)
      BY <2>6 DEF Send
    <3>. HIDE DEF f, g
    <3>. QED  BY <2>1, <2>3, <2>4, <3>3, <3>5, <3>6, <3>7 DEF Outstanding
  <2>. QED  BY <2>5, <2>6
<1>. QED  BY <1>2, <1>3 DEF AccountInv, InFlightAccounting

(* The hand-over loop moves a packet from a list to a wire. *)
LEMMA HandoffKeepsAccount ==
  ASSUME IInv, IInv', AccountInv, NEW t \in Senders, NEW d \in Clients, Handoff(t, d)
  PROVE  AccountInv'
<1> DEFINE p == sendList[t].pkt
<1>1. /\ inFlight' = inFlight
      /\ d \in sendList[t].to
      /\ p \in Packets
      /\ sendList \in [Senders -> [pkt : Packets \cup {NoPacket}, to : SUBSET Clients]]
      /\ sendList' = [sendList EXCEPT ![t] = Pending(p, sendList[t].to \ {d})]
      /\ wire \in [Clients -> Seq(Packets)]
      /\ wire' = [wire EXCEPT ![d] = Append(wire[d], p)]
  BY DEF Handoff, IInv, SendListOK, Sending, TypeOK
<1>2. /\ Pending(p, sendList[t].to \ {d}).to = sendList[t].to \ {d}
      /\ sendList[t].to \ {d} # {} => Pending(p, sendList[t].to \ {d}).pkt = p
  BY DEF Pending, Idle
<1>3. BusyOK'
  <2>1. Busy' \subseteq Busy
    BY <1>1, <1>2 DEF Busy, Sending
  <2>. QED  BY <2>1, FS_Subset DEF AccountInv, BusyOK
<1>4. BusyOK /\ Size(p) \in Nat
  BY <1>1, SizeBounds, SizesAssumption DEF AccountInv
<1>5. ASSUME NEW c \in Clients, c # d PROVE Outstanding(c)' = Outstanding(c)
  <2>1. Owed(c)' = Owed(c) /\ \A u \in Owed(c) : sendList'[u].pkt = sendList[u].pkt
    BY <1>1, <1>2, <1>5 DEF Owed
  <2>2. wire'[c] = wire[c]
    BY <1>1, <1>5
  <2>. QED  BY <2>1, <2>2, ListsSame, WireSame DEF Outstanding
<1>6. OnLists(d) = OnLists(d)' + Size(p)
  <2> DEFINE S == Owed(d)'
             f == [u \in S |-> Size(sendList'[u].pkt)]
             g == [u \in Owed(d) |-> Size(sendList[u].pkt)]
  <2>1. /\ Owed(d) = S \cup {t} /\ t \notin S
        /\ \A u \in S : sendList'[u].pkt = sendList[u].pkt
    BY <1>1, <1>2 DEF Owed
  <2>2. IsFiniteSet(S) /\ \A u \in Owed(d) : g[u] \in Int
    <3>1. IsFiniteSet(Owed(d))
      BY <1>4, OwedFinite
    <3>2. IsFiniteSet(S)
      BY <2>1, <3>1, FS_Subset
    <3>. QED  BY <3>2, BytesTyped
  <2>3. /\ DOMAIN f = S /\ DOMAIN g = S \cup {t} /\ g[t] = Size(p)
        /\ \A u \in S : g[u] = f[u]
    BY <2>1
  <2>4. SumFunction(g) = SumFunction(f) + g[t]
    <3>1. \A u \in S \cup {t} : g[u] \in Int
      BY <2>1, <2>2
    <3>2. IsFiniteSet(S) /\ t \notin S /\ DOMAIN f = S /\ DOMAIN g = S \cup {t}
      BY <2>1, <2>2, <2>3
    <3>3. \A u \in S : g[u] = f[u]
      BY <2>3
    <3>. HIDE DEF f, g, S
    <3>. QED  BY <3>1, <3>2, <3>3, SumAdd
  <2>5. OnLists(d)' = SumFunction(f) /\ OnLists(d) = SumFunction(g)
    BY DEF OnLists, Size
  <2>. HIDE DEF f, g
  <2>. QED  BY <2>3, <2>4, <2>5
<1>7. OnWire(d)' = OnWire(d) + Size(p)
  <2> DEFINE n == Len(wire[d])
             f == [i \in DOMAIN wire[d] |-> Size(wire[d][i])]
             g == [i \in DOMAIN wire'[d] |-> Size(wire'[d][i])]
  <2>1. wire[d] \in Seq(Packets) /\ wire'[d] = Append(wire[d], p)
    BY <1>1
  <2>2. /\ n \in Nat /\ DOMAIN wire[d] = 1..n /\ DOMAIN wire'[d] = 1..n + 1
        /\ \A i \in 1..n : wire'[d][i] = wire[d][i]
        /\ wire'[d][n + 1] = p
    BY <1>1, <2>1, AppendProperties, LenProperties
  <2>3. 1..n + 1 = (1..n) \cup {n + 1} /\ n + 1 \notin 1..n /\ IsFiniteSet(1..n)
    <3>1. n \in Nat
      BY <2>2
    <3>. HIDE DEF n
    <3>2. IsFiniteSet(1..n)
      BY <3>1, FS_Interval
    <3>. QED  BY <3>1, <3>2
  <2>4. /\ DOMAIN f = 1..n /\ DOMAIN g = (1..n) \cup {n + 1} /\ g[n + 1] = Size(p)
        /\ \A i \in 1..n : g[i] = f[i]
    BY <2>2, <2>3
  <2>5. \A i \in (1..n) \cup {n + 1} : g[i] \in Int
    BY <1>4, <2>2, <2>4, BytesTyped
  <2>6. SumFunction(g) = SumFunction(f) + g[n + 1]
    <3> DEFINE S == 1..n
               x == n + 1
    <3>1. IsFiniteSet(S) /\ x \notin S /\ DOMAIN f = S /\ DOMAIN g = S \cup {x}
      BY <2>3, <2>4
    <3>2. (\A i \in S : g[i] = f[i]) /\ \A i \in S \cup {x} : g[i] \in Int
      BY <2>4, <2>5
    <3>3. SumFunction(g) = SumFunction(f) + g[x]
      <4>. HIDE DEF f, g, S, x
      <4>. QED  BY <3>1, <3>2, SumAdd
    <3>. QED  BY <3>3
  <2>7. OnWire(d)' = SumFunction(g) /\ OnWire(d) = SumFunction(f)
    BY DEF OnWire, Size
  <2>. HIDE DEF f, g
  <2>. QED  BY <2>4, <2>6, <2>7
<1>8. OnLists(d) \in Nat /\ OnLists(d)' \in Nat /\ OnWire(d) \in Nat
  <2>1. (IInv /\ BusyOK => \A c \in Clients : OnLists(c) \in Nat /\ OnWire(c) \in Nat)'
    BY OutstandingNat, PTL
  <2>. QED  BY <1>3, <1>4, <2>1, OutstandingNat
<1>9. Outstanding(d)' = Outstanding(d)
  BY <1>4, <1>6, <1>7, <1>8 DEF Outstanding
<1>. QED  BY <1>1, <1>3, <1>5, <1>9 DEF AccountInv, InFlightAccounting

(* A completion gives back the packet at the head of the wire. *)
LEMMA CompleteKeepsAccount ==
  ASSUME IInv, IInv', AccountInv, NEW d \in Clients, Complete(d)
  PROVE  AccountInv' /\ OnWire(d) = OnWire(d)' + Size(Head(wire[d]))
<1> DEFINE p == Head(wire[d])
<1>1. /\ sendList' = sendList
      /\ wire \in [Clients -> Seq(Packets)] /\ wire[d] # <<>>
      /\ wire' = [wire EXCEPT ![d] = Tail(wire[d])]
      /\ inFlight \in [Clients -> Int]
      /\ inFlight' = [inFlight EXCEPT ![d] = inFlight[d] - Size(p)]
  BY DEF Complete, IInv, TypeOK
<1>2. BusyOK'
  BY <1>1 DEF AccountInv, BusyOK, Busy, Sending
<1>3. \A c \in Clients : OnLists(c)' = OnLists(c)
  BY <1>1, ListsSame DEF Owed
<1>4. \A c \in Clients : c # d => OnWire(c)' = OnWire(c)
  BY <1>1, WireSame
<1>5. p \in Packets /\ Size(p) \in Nat
  BY <1>1, SizeBounds, SizesAssumption
<1>6. OnWire(d) = Size(p) + OnWire(d)'
  <2> DEFINE n == Len(wire[d]) - 1
             f == [i \in DOMAIN wire[d] |-> Size(wire[d][i])]
             g == [i \in DOMAIN wire'[d] |-> Size(wire'[d][i])]
  <2>1. wire[d] \in Seq(Packets) /\ wire'[d] = Tail(wire[d])
    BY <1>1
  <2>2. /\ n \in Nat /\ DOMAIN wire[d] = 1..n + 1 /\ DOMAIN wire'[d] = 1..n
        /\ \A i \in 1..n : wire'[d][i] = wire[d][i + 1]
        /\ wire[d][1] = p
    BY <1>1, <2>1, HeadTailProperties, LenProperties
  <2>3. \A i \in 1..n + 1 : f[i] \in Int
    BY <2>2, BytesTyped
  <2>4. g = [i \in 1..n |-> f[i + 1]] /\ f[1] = Size(p) /\ DOMAIN f = 1..n + 1 /\ DOMAIN g = 1..n
    BY <2>2
  <2>5. SumFunctionOnSet(f, 1..n + 1)
          = f[1] + SumFunctionOnSet([i \in 1..n |-> f[i + 1]], 1..n)
    <3>. HIDE DEF f, g, n
    <3>. QED  BY <2>2, <2>3, SumTail
  <2>6. SumFunction(f) = Size(p) + SumFunction(g)
    BY <2>4, <2>5 DEF SumFunction
  <2>7. OnWire(d)' = SumFunction(g) /\ OnWire(d) = SumFunction(f)
    BY DEF OnWire, Size
  <2>. HIDE DEF f, g
  <2>. QED  BY <2>6, <2>7
<1>7. \A c \in Clients : OnLists(c) \in Nat /\ OnWire(c) \in Nat /\ OnWire(c)' \in Nat
  <2>1. (IInv /\ BusyOK => \A c \in Clients : OnLists(c) \in Nat /\ OnWire(c) \in Nat)'
    BY OutstandingNat, PTL
  <2>. QED  BY <1>2, <2>1, OutstandingNat DEF AccountInv
<1>8. ASSUME NEW c \in Clients PROVE inFlight'[c] = OnLists(c)' + OnWire(c)'
  <2>1. inFlight[c] = OnLists(c) + OnWire(c)
    BY DEF AccountInv, InFlightAccounting, Outstanding
  <2>2. CASE c = d
    BY <1>1, <1>3, <1>5, <1>6, <1>7, <2>1, <2>2
  <2>3. CASE c # d
    BY <1>1, <1>3, <1>4, <2>1, <2>3
  <2>. QED  BY <2>2, <2>3
<1>. QED  BY <1>2, <1>5, <1>6, <1>7, <1>8 DEF AccountInv, InFlightAccounting, Outstanding

LEMMA AccountStep == IInv /\ IInv' /\ AccountInv /\ [Next]_serverVars => AccountInv'
<1> SUFFICES ASSUME IInv, IInv', AccountInv, [Next]_serverVars PROVE AccountInv'
  OBVIOUS
<1>1. CASE UNCHANGED feedState
  <2>1. sendList' = sendList /\ wire' = wire /\ inFlight' = inFlight
    BY <1>1 DEF feedState
  <2>2. BusyOK'
    BY <2>1 DEF AccountInv, BusyOK, Busy, Sending
  <2>3. \A c \in Clients : OnLists(c)' = OnLists(c) /\ OnWire(c)' = OnWire(c)
    BY <2>1, ListsSame, WireSame DEF Owed
  <2>. QED  BY <2>1, <2>2, <2>3 DEF AccountInv, InFlightAccounting, Outstanding
<1>. QED
  BY <1>1, FeedSteps, SendKeepsAccount, HandoffKeepsAccount, CompleteKeepsAccount

(* The backpressure counter of a client is exactly the bytes admitted for it and not
   completed, whatever the threads, failures and removals do. *)
THEOREM CountersAreExact == Spec => []InFlightAccounting
<1>1. AccountInv => InFlightAccounting
  BY DEF AccountInv
<1>. QED  BY <1>1, TypeInit, TypeStep, AccountInit, AccountStep, PTL DEF Spec

-----------------------------------------------------------------------------
(***************************************************************************)
(* The server implements ClientFeed.                                        *)
(***************************************************************************)
(* A connection that was not accepted yet is new to the dictionary. *)
NewcomersOK ==
    \A c \in Clients : conn[c] \in {"none", "arrived"} => c \notin connections /\ ~primed[c]

LEMMA NewcomersInit == ServerInit => NewcomersOK
BY DEF ServerInit, NewcomersOK

LEMMA NewcomersStep == IInv /\ NewcomersOK /\ [Next]_serverVars => NewcomersOK'
<1> SUFFICES ASSUME IInv, NewcomersOK, [Next]_serverVars PROVE NewcomersOK'
  OBVIOUS
<1> USE DEF IInv, TypeOK, NewcomersOK, sendVars, listenVars, SetPhase
<1>1. CASE Start \/ Finish \/ RetryDisable
  BY <1>1 DEF Start, Finish, RetryDisable
<1>2. ASSUME NEW t \in Lifecycle, LifeStep(t) PROVE NewcomersOK'
  <2>1. CASE StartCreate(t) \/ StartAssign(t) \/ StopCancel(t) \/ StopNil(t)
    BY <2>1 DEF StartCreate, StartAssign, StopCancel, StopNil
  <2>2. CASE StopClear(t)
    BY <2>2 DEF StopClear
  <2>3. ASSUME NEW c \in Clients, StopConnection(t, c) PROVE NewcomersOK'
    BY <2>3 DEF StopConnection
  <2>. QED  BY <1>2, <2>1, <2>2, <2>3 DEF LifeStep
<1>3. ASSUME NEW k \in 1..Len(listeners), ListenerFails(k) PROVE NewcomersOK'
  BY <1>3 DEF ListenerFails
<1>4. ASSUME NEW c \in Clients, Arrive(c) \/ Accept(c) \/ AcceptStart(c) \/ Ready(c) \/ Fail(c)
      PROVE  NewcomersOK'
  BY <1>4 DEF Arrive, Accept, AcceptStart, Ready, Fail
<1>5. ASSUME NEW c \in Clients, Remove(c) PROVE NewcomersOK'
  BY <1>5 DEF Remove
<1>6. ASSUME NEW c \in Clients, Complete(c) PROVE NewcomersOK'
  BY <1>6 DEF Complete
<1>7. ASSUME NEW t \in Senders, NEW c \in Clients, Handoff(t, c) PROVE NewcomersOK'
  BY <1>7 DEF Handoff
<1>8. ASSUME NEW t \in Senders, NEW p \in Packets, Send(t, p) PROVE NewcomersOK'
  BY <1>8 DEF Send
<1>9. CASE UNCHANGED serverVars
  BY <1>9 DEF serverVars
<1>. QED
  BY <1>1, <1>2, <1>3, <1>4, <1>5, <1>6, <1>7, <1>8, <1>9 DEF Next, ServerStep

(* The backlogs of the feeds are the counters. *)
backlog == [c \in Clients |-> Outstanding(c)]

LEMMA BacklogIsCounter == IInv /\ AccountInv => backlog = inFlight
<1> SUFFICES ASSUME IInv, AccountInv PROVE backlog = inFlight
  OBVIOUS
<1>1. \A c \in Clients : inFlight[c] = Outstanding(c)
  BY DEF AccountInv, InFlightAccounting
<1>2. inFlight \in [Clients -> Int]
  BY DEF IInv, TypeOK
<1>. QED  BY <1>1, <1>2 DEF backlog

LEMMA FeedInitOK == ServerInit => Feed!Init
<1> SUFFICES ASSUME ServerInit PROVE Feed!Init
  OBVIOUS
<1>1. backlog = inFlight
  BY TypeInit, AccountInit, BacklogIsCounter
<1>2. connections = {} /\ primed = [c \in Clients |-> FALSE] /\ inFlight = [c \in Clients |-> 0]
  BY DEF ServerInit
<1>. QED  BY <1>1, <1>2 DEF Feed!Init, backlog


LEMMA ConnectionSteps ==
  ASSUME [Next]_serverVars
  PROVE  \/ connections' = connections
         \/ \E c \in Clients : Accept(c) \/ Remove(c)
         \/ \E t \in Lifecycle : StopClear(t)
<1> USE DEF sendVars
<1>1. CASE Start \/ Finish \/ RetryDisable
  BY <1>1 DEF Start, Finish, RetryDisable
<1>2. ASSUME NEW t \in Lifecycle, LifeStep(t), ~StopClear(t) PROVE connections' = connections
  BY <1>2 DEF LifeStep, StartCreate, StartAssign, StopConnection, StopCancel, StopNil
<1>3. ASSUME NEW k \in 1..Len(listeners), ListenerFails(k) PROVE connections' = connections
  BY <1>3 DEF ListenerFails
<1>4. ASSUME NEW c \in Clients, Arrive(c) \/ AcceptStart(c) \/ Ready(c) \/ Fail(c) \/ Complete(c)
      PROVE  connections' = connections
  BY <1>4 DEF Arrive, AcceptStart, Ready, Fail, Complete
<1>5. ASSUME NEW t \in Senders, NEW c \in Clients, Handoff(t, c) PROVE connections' = connections
  BY <1>5 DEF Handoff
<1>6. ASSUME NEW t \in Senders, NEW p \in Packets, Send(t, p) PROVE connections' = connections
  BY <1>6 DEF Send
<1>7. CASE UNCHANGED serverVars
  BY <1>7 DEF serverVars
<1>. QED  BY <1>1, <1>2, <1>3, <1>4, <1>5, <1>6, <1>7 DEF Next, ServerStep

LEMMA FeedStepOK ==
  IInv /\ IInv' /\ AccountInv /\ AccountInv' /\ FeedInv /\ NewcomersOK /\ [Next]_serverVars
    => [Feed!Next]_Feed!feedVars
<1> SUFFICES ASSUME IInv, IInv', AccountInv, AccountInv', FeedInv, NewcomersOK,
                    [Next]_serverVars
             PROVE  [Feed!Next]_Feed!feedVars
  OBVIOUS
<1>0. (IInv /\ BusyOK => \A c \in Clients : OnLists(c) \in Nat /\ OnWire(c) \in Nat)'
  BY OutstandingNat, PTL
<1>1. backlog = inFlight /\ backlog' = inFlight'
  <2>1. (IInv /\ AccountInv => backlog = inFlight)'
    BY BacklogIsCounter, PTL
  <2>. QED  BY <2>1, BacklogIsCounter
<1>2. ASSUME UNCHANGED <<connections, primed, inFlight>> PROVE UNCHANGED Feed!feedVars
  BY <1>1, <1>2 DEF Feed!feedVars, backlog
<1>3. inFlight \in [Clients -> Int] /\ inFlight' \in [Clients -> Int] /\ connections \subseteq Clients
  BY DEF IInv, TypeOK
<1>4. ASSUME NEW c \in Clients, Accept(c) PROVE Feed!Attach(c)
  <2>1. c \notin connections /\ ~primed[c]
    BY <1>4 DEF Accept, NewcomersOK
  <2>2. inFlight[c] = 0
    BY <2>1 DEF FeedInv, UnprimedHoldsNothing
  <2>3. connections' = connections \cup {c} /\ primed' = primed /\ inFlight' = inFlight
    BY <1>4 DEF Accept
  <2>. QED  BY <1>1, <2>1, <2>2, <2>3 DEF Feed!Attach, backlog
<1>5. ASSUME NEW t \in Lifecycle, StopClear(t), connections # {} PROVE Feed!Detach(connections)
  BY <1>1, <1>5 DEF StopClear, Feed!Detach, backlog
<1>6. ASSUME NEW c \in connections, Remove(c) PROVE Feed!Detach({c})
  BY <1>1, <1>6 DEF Remove, Feed!Detach, backlog
<1>7. ASSUME NEW t \in Senders, NEW p \in Packets, Send(t, p) PROVE Feed!Offer(p)
  <2> DEFINE admits == {c \in connections : /\ p.type = "config" \/ primed[c]
                                            /\ backlog[c] <= maxInFlightBytes}
  <2>1. admits = Admitted(p)
    BY <1>1 DEF Admitted
  <2>2. connections' = connections
        /\ primed' = [c \in Clients |-> primed[c] \/ (c \in connections /\ p.type = "config")]
    BY <1>7, Zenon DEF Send
  <2>3. inFlight' = [c \in Clients |->
                       inFlight[c] + IF c \in admits THEN PacketSize[p.type] ELSE 0]
    BY <1>3, <1>7, <2>1 DEF Send, Size
  <2>. QED  BY <1>1, <2>2, <2>3 DEF Feed!Offer, backlog
<1>8. ASSUME NEW c \in Clients, Complete(c) PROVE Feed!Drain(c, Head(wire[c]))
  <2> DEFINE p == Head(wire[c])
  <2>1. OnWire(c) = OnWire(c)' + Size(p)
    BY <1>8, CompleteKeepsAccount
  <2>3. OnLists(c) \in Nat /\ OnWire(c)' \in Nat
    BY <1>0, OutstandingNat DEF AccountInv
  <2>4. inFlight[c] = OnLists(c) + OnWire(c)
    BY DEF AccountInv, InFlightAccounting, Outstanding
  <2>5. p \in Packets /\ Size(p) \in Nat
    <3>1. wire[c] \in Seq(Packets) /\ wire[c] # <<>>
      BY <1>8 DEF Complete, IInv, TypeOK
    <3>. QED  BY <3>1, SizeBounds, SizesAssumption
  <2>6. backlog[c] >= PacketSize[p.type]
    BY <1>1, <2>1, <2>3, <2>4, <2>5 DEF Size
  <2>7. /\ inFlight' = [inFlight EXCEPT ![c] = @ - PacketSize[p.type]]
        /\ connections' = connections /\ primed' = primed
    BY <1>8 DEF Complete, Size
  <2>. QED  BY <1>1, <2>6, <2>7 DEF Feed!Drain, backlog
<1>9. ASSUME NEW t \in Senders, NEW c \in Clients, Handoff(t, c)
      PROVE  UNCHANGED <<connections, primed, inFlight>>
  BY <1>9 DEF Handoff
<1>10. CASE UNCHANGED feedState
  <2>1. primed' = primed /\ inFlight' = inFlight
    BY <1>10 DEF feedState
  <2>2. ASSUME NEW c \in Clients, Remove(c), c \notin connections PROVE connections' = connections
    BY <2>2 DEF Remove
  <2>3. ASSUME NEW t \in Lifecycle, StopClear(t), connections = {} PROVE connections' = connections
    BY <2>3 DEF StopClear
  <2>4. CASE connections' = connections
    BY <1>2, <2>1, <2>4
  <2>5. ASSUME NEW c \in Clients, Accept(c) \/ Remove(c) PROVE [Feed!Next]_Feed!feedVars
    BY <1>3, <1>4, <1>6, <2>2, <2>4, <2>5 DEF Feed!Next
  <2>6. ASSUME NEW t \in Lifecycle, StopClear(t) PROVE [Feed!Next]_Feed!feedVars
    BY <1>3, <1>5, <2>3, <2>4, <2>6 DEF Feed!Next
  <2>. QED  BY <2>4, <2>5, <2>6, ConnectionSteps
<1>11. ASSUME NEW c \in Clients, Complete(c) PROVE Feed!Next
  <2>1. Head(wire[c]) \in Packets
    BY <1>11 DEF Complete, IInv, TypeOK
  <2>. QED  BY <1>8, <1>11, <2>1 DEF Feed!Next
<1>12. ASSUME NEW t \in Senders, NEW p \in Packets, Send(t, p) PROVE Feed!Next
  BY <1>7, <1>12 DEF Feed!Next
<1>. QED  BY <1>2, <1>9, <1>10, <1>11, <1>12, FeedSteps

(* The server's decisions on its counters are those that the contract takes on the bytes
   really outstanding: every step is a step of ClientFeed or leaves the feeds alone. *)
THEOREM ServerImplementsFeed == Spec => ImplementsClientFeed
<1> DEFINE All == IInv /\ AccountInv /\ FeedInv /\ NewcomersOK
<1>1. ServerInit => All
  BY TypeInit, AccountInit, FeedInit, NewcomersInit
<1>2. All /\ [Next]_serverVars => All'
  BY TypeStep, AccountStep, FeedStep, NewcomersStep
<1>3. All /\ All' /\ [Next]_serverVars => [Feed!Next]_Feed!feedVars
  BY FeedStepOK
<1>. HIDE DEF All
<1>. QED  BY <1>1, <1>2, <1>3, FeedInitOK, PTL DEF Spec, ImplementsClientFeed, Feed!Spec
=============================================================================
