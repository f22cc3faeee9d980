---------------------------- MODULE SessionProofs ----------------------------
(***************************************************************************)
(* Proofs about Session for every window width, patience, delay, number of *)
(* retries and bound.                                                      *)
(*                                                                         *)
(* TypeInv gives every packet, tracker item and connection its type: a     *)
(* token comes from a Hello or a Welcome in flight, so the type of one end *)
(* rests on that of the datagrams and of the other end.  AckInv says that  *)
(* whatever acknowledges a number (the server's window, a packet in        *)
(* flight, a packet the server may resend) names one the server heard, in  *)
(* this connection or in one it has forgotten since.  WhoInv says how late *)
(* a copy of a Hello or a Welcome can be, and that a server that is        *)
(* patient enough outlives those that would confuse it.                    *)
(***************************************************************************)
EXTENDS SessionProperties, TLAPS

ClientPackets ==
    [seq : Nat \ {0}, ack : Nat, bits : SUBSET Offset,
     type : {"Hello", "Ping", "PlayerState", "Goodbye"},
     token : 0..issued, playerId : Nat, report : Nat]

ServerPackets ==
    [connectionId : Nat, seq : Nat \ {0}, ack : Nat, bits : SUBSET Offset,
     type : {"Welcome", "Pong", "Snapshot"}, token : 0..issued, playerId : Nat]

Items(packets) == [packet : packets, retries : 0..MaxRetries, lastSent : Nat]

Datagrams(packets) == [packet : packets, at : Nat]

Clients ==
    [state : {"Disconnected", "Handshaking", "Connected"}, playerId : Nat,
     token : 0..issued, lastReceive : Nat, lastHello : Nat, lastHeartbeat : Nat,
     next : 1..(MaxClientSeq + 1), history : History,
     pending : SUBSET Items(ClientPackets), reports : Nat, hellos : SUBSET Nat]

\* Connections numbered up to n, with tokens up to m, heard of up to t.
ConnectionsTo(n, m, t, packets) ==
    [connectionId : 1..n, welcomed : BOOLEAN, playerId : Nat, token : 0..m,
     last : 1..t, next : 1..(MaxServerSeq + 1), history : History,
     pending : SUBSET Items(packets), report : Nat, welcomes : SUBSET Nat]

Connections == ConnectionsTo(opened, issued, now, ServerPackets)

ResumeRecords == [playerId : Nat, token : 1..issued, report : Nat, expires : Nat]

TypeInv ==
    /\ now \in Start..MaxTime
    /\ issued \in Nat /\ opened \in Nat
    /\ client \in Clients
    /\ server # Nothing =>
          server \in Connections /\ (server.welcomed => server.token # 0)
    /\ resume # Nothing => resume \in ResumeRecords
    /\ toServer \subseteq Datagrams(ClientPackets)
    /\ toClient \subseteq Datagrams(ServerPackets)

-----------------------------------------------------------------------------
LEMMA Numbers ==
    /\ Start \in Nat /\ Start = ServerPatience + 2 /\ MaxTime \in Nat
    /\ Start <= MaxTime
    /\ ServerPatience \in Nat \ {0} /\ ResumeGrace \in Nat /\ MaxRetries \in Nat
    /\ MaxClientSeq \in Nat /\ MaxServerSeq \in Nat
    /\ \A n \in Start..MaxTime : n \in Nat /\ n - ServerPatience - 1 \in 1..n /\ n \in 1..n
  BY SessionAssumption DEF Start

LEMMA RecordType ==
    ASSUME NEW h \in History, NEW s \in Nat PROVE Record(h, s) \in History
  BY WAssumption DEF Record, History, Shifted, Offset

LEMMA HeaderFields ==
    ASSUME NEW h \in History PROVE h.highest \in Nat /\ h.bits \in SUBSET Offset
  BY DEF History

LEMMA EmptyHistoryType == EmptyHistory \in History
  BY DEF EmptyHistory, History

\* More tokens, connections and time only widen the types.
LEMMA Wider ==
    ASSUME TypeInv, issued' \in Nat, issued <= issued'
    PROVE  /\ ClientPackets \subseteq ClientPackets'
           /\ ServerPackets \subseteq ServerPackets'
           /\ Items(ClientPackets) \subseteq Items(ClientPackets)'
           /\ Items(ServerPackets) \subseteq Items(ServerPackets)'
           /\ Datagrams(ClientPackets) \subseteq Datagrams(ClientPackets)'
           /\ Datagrams(ServerPackets) \subseteq Datagrams(ServerPackets)'
           /\ Clients \subseteq Clients'
           /\ ResumeRecords \subseteq ResumeRecords'
<1>1. 0..issued \subseteq 0..issued' /\ 1..issued \subseteq 1..issued'
  BY DEF TypeInv
<1>2. ClientPackets \subseteq ClientPackets' /\ ServerPackets \subseteq ServerPackets'
  BY <1>1 DEF ClientPackets, ServerPackets
<1>3. /\ Items(ClientPackets) \subseteq Items(ClientPackets)'
      /\ Items(ServerPackets) \subseteq Items(ServerPackets)'
      /\ Datagrams(ClientPackets) \subseteq Datagrams(ClientPackets)'
      /\ Datagrams(ServerPackets) \subseteq Datagrams(ServerPackets)'
  BY <1>2 DEF Items, Datagrams
<1>4. Clients \subseteq Clients' /\ ResumeRecords \subseteq ResumeRecords'
  BY <1>1, <1>3 DEF Clients, ResumeRecords
<1> QED
  BY <1>2, <1>3, <1>4

LEMMA WiderConnections ==
    ASSUME TypeInv, issued' \in Nat, issued <= issued', opened' \in Nat,
           opened <= opened', now' \in Nat, now <= now'
    PROVE  Connections \subseteq Connections'
<1>1. /\ 0..issued \subseteq 0..issued' /\ 1..opened \subseteq 1..opened'
      /\ 1..now \subseteq 1..now'
  BY Numbers DEF TypeInv
<1> QED
  BY <1>1, Wider DEF Connections, ConnectionsTo

\* Sending: what each end puts on the wire and into its tracker.
LEMMA ClientPacketType ==
    ASSUME TypeInv, NEW type \in {"Hello", "Ping", "PlayerState", "Goodbye"}
    PROVE  /\ ClientPacket(type) \in ClientPackets
           /\ ClientPacket(type).seq = client.next
  BY HeaderFields DEF TypeInv, Clients, ClientPacket, ClientPackets

LEMMA ServerPacketType ==
    ASSUME NEW s, NEW tokens, s.connectionId \in Nat, s.next \in Nat \ {0},
           s.history \in History, s.token \in tokens, s.playerId \in Nat,
           NEW type \in {"Welcome", "Pong", "Snapshot"}
    PROVE  ServerPacket(s, type) \in
             [connectionId : Nat, seq : Nat \ {0}, ack : Nat, bits : SUBSET Offset,
              type : {"Welcome", "Pong", "Snapshot"}, token : tokens, playerId : Nat]
  BY HeaderFields DEF ServerPacket

LEMMA ItemType ==
    ASSUME TypeInv, NEW packets, NEW p \in packets
    PROVE  Item(p) \in Items(packets) /\ Sent(p) \in Datagrams(packets)
  BY Numbers DEF TypeInv, Item, Items, Sent, Datagrams

LEMMA PendingTypes ==
    ASSUME TypeInv, NEW packets, NEW pending \in SUBSET Items(packets)
    PROVE  /\ Aged(pending) \in SUBSET Items(packets)
           /\ Resends(pending) \subseteq Datagrams(packets)
           /\ \A p : Unacknowledged(pending, p) \in SUBSET Items(packets)
<1>1. ASSUME NEW item \in Items(packets), Due(item)
      PROVE  [item EXCEPT !.retries = @ + 1, !.lastSent = now] \in Items(packets)
  <2>1. item.retries + 1 \in 0..MaxRetries /\ now \in Nat
    BY <1>1, Numbers DEF TypeInv, Items, Due
  <2>2. [item EXCEPT !.retries = @ + 1] \in Items(packets)
    BY <2>1 DEF Items
  <2> QED
    BY <2>1, <2>2 DEF Items
<1>2. Aged(pending) \in SUBSET Items(packets)
  BY <1>1 DEF Aged
<1>3. Resends(pending) \subseteq Datagrams(packets)
  BY Numbers DEF TypeInv, Resends, Sent, Items, Datagrams
<1> QED
  BY <1>2, <1>3 DEF Unacknowledged

-----------------------------------------------------------------------------
\* The client's actions change the client and what is on its way to the server.
LEMMA ClientSide ==
    ASSUME TypeInv, client' \in Clients, toServer' \subseteq Datagrams(ClientPackets),
           UNCHANGED <<now, server, resume, issued, opened, toClient>>
    PROVE  TypeInv'
  BY DEF TypeInv, Clients, Connections, ConnectionsTo, ResumeRecords, Datagrams, Items,
         ClientPackets, ServerPackets

LEMMA ClientStartType == ASSUME TypeInv, ClientStart PROVE TypeInv'
<1> DEFINE hello == ClientPacket("Hello")
<1>1. hello \in ClientPackets /\ hello.seq = client.next
  BY ClientPacketType
<1>2. Item(hello) \in Items(ClientPackets) /\ Sent(hello) \in Datagrams(ClientPackets)
  BY <1>1, ItemType
<1> HIDE DEF hello
<1>3. client.next + 1 \in 1..(MaxClientSeq + 1) /\ client.next \in Nat
  BY Numbers DEF ClientStart, ClientCanSend, TypeInv, Clients
<1>4. /\ client' = [client EXCEPT !.state = "Handshaking", !.lastHello = now,
                        !.next = @ + 1, !.pending = {Item(hello)},
                        !.hellos = {hello.seq}]
      /\ toServer' = toServer \cup {Sent(hello)}
  BY DEF ClientStart, hello
<1>5. client' \in Clients
  BY <1>1, <1>2, <1>3, <1>4, Numbers DEF TypeInv, Clients
<1> QED
  BY <1>2, <1>4, <1>5, ClientSide DEF ClientStart, TypeInv

LEMMA ClientStopType == ASSUME TypeInv, ClientStop PROVE TypeInv'
<1> DEFINE goodbye == ClientPacket("Goodbye")
<1>1. goodbye \in ClientPackets
  BY ClientPacketType
<1>2. Item(goodbye) \in Items(ClientPackets) /\ Sent(goodbye) \in Datagrams(ClientPackets)
  BY <1>1, ItemType
<1> HIDE DEF goodbye
<1>3. client.next + 1 \in 1..(MaxClientSeq + 1)
  BY Numbers DEF ClientStop, ClientCanSend, TypeInv, Clients
<1>4. /\ client' = [client EXCEPT !.state = "Disconnected", !.next = @ + 1,
                                  !.pending = @ \cup {Item(goodbye)}]
      /\ toServer' = toServer \cup {Sent(goodbye)}
  BY DEF ClientStop, goodbye
<1>5. client' \in Clients
  BY <1>2, <1>3, <1>4 DEF TypeInv, Clients
<1> QED
  BY <1>2, <1>4, <1>5, ClientSide DEF ClientStop, TypeInv

LEMMA ClientSubmitType == ASSUME TypeInv, ClientSubmit PROVE TypeInv'
<1> DEFINE state == [ClientPacket("PlayerState") EXCEPT !.report = client.reports + 1]
<1>1. client.reports + 1 \in Nat
  BY DEF TypeInv, Clients
<1>2. state \in ClientPackets
  BY <1>1, ClientPacketType DEF ClientPackets
<1> HIDE DEF state
<1>3. client.next + 1 \in 1..(MaxClientSeq + 1)
  BY Numbers DEF ClientSubmit, ClientCanSend, TypeInv, Clients
<1>4. /\ client' = [client EXCEPT !.next = @ + 1, !.reports = @ + 1]
      /\ toServer' = toServer \cup {Sent(state)}
  BY DEF ClientSubmit, state
<1>5. client' \in Clients
  BY <1>1, <1>3, <1>4 DEF TypeInv, Clients
<1> QED
  BY <1>2, <1>4, <1>5, ItemType, ClientSide DEF ClientSubmit, TypeInv

LEMMA ReceivedType ==
    ASSUME TypeInv, NEW packet \in ServerPackets
    PROVE  /\ Received(packet) \in Clients
           /\ Received(packet).hellos = client.hellos
           /\ Received(packet).pending = Unacknowledged(client.pending, packet)
<1>1. Unacknowledged(client.pending, packet) \in SUBSET Items(ClientPackets)
  BY PendingTypes DEF TypeInv, Clients
<1>2. Record(client.history, packet.seq) \in History
  BY RecordType DEF TypeInv, Clients, ServerPackets
<1> QED
  BY <1>1, <1>2 DEF Received, TypeInv, Clients

LEMMA ClientReceiveType ==
    ASSUME TypeInv, NEW d \in toClient, ClientReceive(d.packet)
    PROVE  /\ TypeInv' /\ client'.hellos = client.hellos
           /\ client'.pending = Unacknowledged(client.pending, d.packet)
<1> DEFINE r == Received(d.packet)
<1>1. d.packet \in ServerPackets
  BY DEF TypeInv, Datagrams
<1>2. /\ r \in Clients /\ r.hellos = client.hellos
      /\ r.pending = Unacknowledged(client.pending, d.packet)
  BY <1>1, ReceivedType
<1>3. \/ client' = r
      \/ client' = [r EXCEPT !.lastReceive = now]
      \/ client' = [r EXCEPT !.lastReceive = now, !.playerId = d.packet.playerId,
                             !.token = d.packet.token, !.state = "Connected"]
  BY DEF ClientReceive
<1> HIDE DEF r
<1>4. d.packet.playerId \in Nat /\ d.packet.token \in 0..issued /\ now \in Nat
  BY <1>1, Numbers DEF ServerPackets, TypeInv
<1>5. /\ client' \in Clients /\ client'.hellos = client.hellos
      /\ client'.pending = Unacknowledged(client.pending, d.packet)
  BY <1>2, <1>3, <1>4 DEF Clients
<1> QED
  BY <1>5, ClientSide DEF ClientReceive, TypeInv

\* What a tick of the client says, and what its tracker holds when it resends.
Said == IF SayHello THEN {ClientPacket("Hello")} ELSE {}
Pinged == IF SayPing THEN {ClientPacket("Ping")} ELSE {}
Tracked == client.pending \cup {Item(p) : p \in Said}

LEMMA ClientTickType == ASSUME TypeInv, ClientTick PROVE TypeInv'
<1>1. Said \subseteq ClientPackets /\ Pinged \subseteq ClientPackets
      /\ \A p \in Said : p.seq \in Nat
  BY ClientPacketType DEF Said, Pinged, ClientPackets
<1>2. Tracked \in SUBSET Items(ClientPackets)
  BY <1>1, ItemType DEF Tracked, TypeInv, Clients
<1>3. SayHello \/ SayPing => client.next + 1 \in 1..(MaxClientSeq + 1)
  BY Numbers DEF SayHello, SayPing, ClientCanSend, TypeInv, Clients
<1>4. /\ toServer' = toServer \cup {Sent(p) : p \in Said \cup Pinged} \cup Resends(Tracked)
      /\ client' = [client EXCEPT
                 !.next          = IF SayHello \/ SayPing THEN @ + 1 ELSE @,
                 !.lastHello     = IF SayHello THEN now ELSE @,
                 !.lastHeartbeat = IF SayPing THEN now ELSE @,
                 !.pending       = Aged(Tracked),
                 !.hellos        = @ \cup {p.seq : p \in Said},
                 !.state         = IF TimedOut THEN "Handshaking" ELSE @,
                 !.playerId      = IF TimedOut THEN 0 ELSE @,
                 !.lastReceive   = IF TimedOut THEN now ELSE @]
  BY DEF ClientTick, Said, Pinged, Tracked
<1>5. Aged(Tracked) \in SUBSET Items(ClientPackets)
      /\ Resends(Tracked) \subseteq Datagrams(ClientPackets)
  BY <1>2, PendingTypes
<1>6. {p.seq : p \in Said} \in SUBSET Nat /\ now \in Nat
  BY <1>1, Numbers DEF TypeInv
<1>7. client' \in Clients
  BY <1>3, <1>4, <1>5, <1>6 DEF TypeInv, Clients
<1>8. {Sent(p) : p \in Said \cup Pinged} \subseteq Datagrams(ClientPackets)
  BY <1>1, ItemType
<1> QED
  BY <1>4, <1>5, <1>7, <1>8, ClientSide DEF ClientTick, TypeInv

-----------------------------------------------------------------------------
\* The connection a datagram is handled in, found or created.
LEMMA NotedType ==
    ASSUME TypeInv, NEW n \in Nat, n >= opened, server = Nothing => n >= opened + 1,
           NEW packet \in ClientPackets
    PROVE  /\ Noted(packet) \in ConnectionsTo(n, issued, now, ServerPackets)
           /\ Noted(packet).pending = Unacknowledged(Found.pending, packet)
           /\ Noted(packet).history = Record(Found.history, packet.seq)
           /\ Noted(packet).welcomed = Found.welcomed
           /\ Noted(packet).token = Found.token
           /\ Noted(packet).welcomed => Noted(packet).token # 0
           /\ Noted(packet).connectionId = Found.connectionId
<1> USE Numbers
<1>1. /\ Found \in ConnectionsTo(n, issued, now, ServerPackets)
      /\ Found.welcomed => Found.token # 0
  <2>1. CASE server = Nothing
    <3>1. Found = NewConnection
      BY <2>1 DEF Found
    <3>2. opened + 1 \in 1..n /\ now \in 1..now /\ 0 \in 0..issued
          /\ 1 \in 1..(MaxServerSeq + 1)
      BY <2>1 DEF TypeInv
    <3> QED
      BY <3>1, <3>2, EmptyHistoryType DEF NewConnection, ConnectionsTo
  <2>2. CASE server # Nothing
    <3>1. 1..opened \subseteq 1..n
      BY DEF TypeInv
    <3> QED
      BY <2>2, <3>1 DEF Found, TypeInv, Connections, ConnectionsTo
  <2> QED
    BY <2>1, <2>2
<1>2. Unacknowledged(Found.pending, packet) \in SUBSET Items(ServerPackets)
  BY <1>1, PendingTypes DEF ConnectionsTo
<1>3. Record(Found.history, packet.seq) \in History
  BY <1>1, RecordType DEF ConnectionsTo, ClientPackets
<1>4. now \in 1..now
  BY DEF TypeInv
<1> QED
  BY <1>1, <1>2, <1>3, <1>4 DEF Noted, ConnectionsTo

\* The server's actions on a datagram change the rest.
LEMMA ServerSide ==
    ASSUME TypeInv, UNCHANGED <<now, client, toServer>>,
           issued' \in Nat, issued <= issued', opened' \in Nat, opened <= opened',
           server' \in ConnectionsTo(opened', issued', now, ServerPackets'),
           server'.welcomed => server'.token # 0,
           resume' # Nothing => resume' \in ResumeRecords',
           toClient' \subseteq Datagrams(ServerPackets)'
    PROVE  TypeInv'
<1>1. server' \in Connections'
  BY DEF Connections
<1>2. client' \in Clients' /\ toServer' \subseteq Datagrams(ClientPackets)'
  BY Wider DEF TypeInv
<1> QED
  BY <1>1, <1>2 DEF TypeInv

\* With no new token the types of packets are what they were.
LEMMA ServerSideQuiet ==
    ASSUME TypeInv, UNCHANGED <<now, client, toServer, issued, resume>>,
           opened' \in Nat, opened <= opened',
           server' \in ConnectionsTo(opened', issued, now, ServerPackets),
           server'.welcomed => server'.token # 0,
           toClient' \subseteq Datagrams(ServerPackets)
    PROVE  TypeInv'
<1>1. issued' \in Nat /\ issued <= issued' /\ ServerPackets' = ServerPackets
  BY DEF TypeInv, ServerPackets
<1>2. Datagrams(ServerPackets)' = Datagrams(ServerPackets)
      /\ ResumeRecords' = ResumeRecords
  BY <1>1 DEF Datagrams, ResumeRecords
<1> QED
  BY <1>1, <1>2, ServerSide DEF TypeInv

LEMMA OpeningType ==
    ASSUME TypeInv, Opening
    PROVE  /\ opened' \in Nat /\ opened <= opened'
           /\ server = Nothing => opened' >= opened + 1
  BY DEF TypeInv, Opening

LEMMA EmptyIsFresh ==
    ASSUME NEW packet, ~IsFresh(packet) PROVE server # Nothing
  BY DEF IsFresh, Found, NewConnection, EmptyHistory, Fresh

LEMMA ServerDiscardType ==
    ASSUME TypeInv, NEW packet \in ClientPackets, ServerDiscard(packet),
           UNCHANGED <<now, client, toServer>>
    PROVE  TypeInv'
<1>1. server # Nothing /\ opened \in Nat /\ opened' = opened
  BY EmptyIsFresh DEF ServerDiscard, TypeInv
<1>2. /\ Noted(packet) \in ConnectionsTo(opened, issued, now, ServerPackets)
      /\ Noted(packet).welcomed => Noted(packet).token # 0
  BY <1>1, NotedType
<1> QED
  BY <1>1, <1>2, ServerSideQuiet DEF ServerDiscard, TypeInv

LEMMA ServerPlayerStateType ==
    ASSUME TypeInv, NEW packet \in ClientPackets, ServerPlayerState(packet),
           UNCHANGED <<now, client, toServer>>
    PROVE  TypeInv'
<1>1. /\ opened' \in Nat /\ opened <= opened'
      /\ server = Nothing => opened' >= opened + 1
  BY OpeningType DEF ServerPlayerState
<1>2. /\ Noted(packet) \in ConnectionsTo(opened', issued, now, ServerPackets)
      /\ Noted(packet).welcomed => Noted(packet).token # 0
  BY <1>1, NotedType
<1> DEFINE n == Noted(packet)
<1>3. server' = n \/ server' = [n EXCEPT !.report = packet.report]
  BY DEF ServerPlayerState
<1>4. packet.report \in Nat
  BY DEF ClientPackets
<1> HIDE DEF n
<1>5. /\ server' \in ConnectionsTo(opened', issued, now, ServerPackets)
      /\ server'.welcomed => server'.token # 0
  <2>1. n \in ConnectionsTo(opened', issued, now, ServerPackets)
        /\ (n.welcomed => n.token # 0)
    BY <1>2 DEF n
  <2> QED
    BY <1>3, <1>4, <2>1 DEF ConnectionsTo
<1> QED
  BY <1>1, <1>5, ServerSideQuiet DEF ServerPlayerState, TypeInv

LEMMA ServerGoodbyeType ==
    ASSUME TypeInv, NEW packet \in ClientPackets, ServerGoodbye(packet),
           UNCHANGED <<now, client, toServer>>
    PROVE  TypeInv'
<1> DEFINE n == Noted(packet)
           last == IF now > ServerPatience THEN now - ServerPatience - 1 ELSE 1
<1>1. /\ opened' \in Nat /\ opened <= opened'
      /\ server = Nothing => opened' >= opened + 1
  BY OpeningType DEF ServerGoodbye
<1>2. n \in ConnectionsTo(opened', issued, now, ServerPackets)
      /\ (n.welcomed => n.token # 0)
  BY <1>1, NotedType
<1>3. server' = [n EXCEPT !.last = last] /\ last \in 1..now
  BY Numbers DEF ServerGoodbye, TypeInv
<1> HIDE DEF n, last
<1>4. /\ server' \in ConnectionsTo(opened', issued, now, ServerPackets)
      /\ server'.welcomed => server'.token # 0
  BY <1>2, <1>3 DEF ConnectionsTo
<1> QED
  BY <1>1, <1>4, ServerSideQuiet DEF ServerGoodbye, TypeInv

LEMMA ServerPingType ==
    ASSUME TypeInv, NEW packet \in ClientPackets, ServerPing(packet),
           UNCHANGED <<now, client, toServer>>
    PROVE  TypeInv'
<1> DEFINE n == Noted(packet)
           pong == ServerPacket(n, "Pong")
<1>1. /\ opened' \in Nat /\ opened <= opened'
      /\ server = Nothing => opened' >= opened + 1
  BY OpeningType DEF ServerPing
<1>2. n \in ConnectionsTo(opened', issued, now, ServerPackets)
      /\ (n.welcomed => n.token # 0)
  BY <1>1, NotedType
<1>3. server' = [n EXCEPT !.next = @ + 1] /\ n.next <= MaxServerSeq
      /\ toClient' = toClient \cup {Sent(pong)}
  BY DEF ServerPing
<1> HIDE DEF n
<1>4. n.next + 1 \in 1..(MaxServerSeq + 1)
  BY <1>2, <1>3, Numbers DEF ConnectionsTo
<1>5. /\ server' \in ConnectionsTo(opened', issued, now, ServerPackets)
      /\ server'.welcomed => server'.token # 0
  BY <1>2, <1>3, <1>4 DEF ConnectionsTo
<1>6. pong \in ServerPackets
  <2>1. /\ n.connectionId \in Nat /\ n.next \in Nat \ {0} /\ n.history \in History
        /\ n.token \in 0..issued /\ n.playerId \in Nat
    BY <1>2, Numbers DEF ConnectionsTo
  <2> QED
    BY <2>1, ServerPacketType DEF ServerPackets
<1>7. toClient' \subseteq Datagrams(ServerPackets)
  BY <1>3, <1>6, ItemType DEF TypeInv
<1> QED
  BY <1>1, <1>5, <1>7, ServerSideQuiet DEF ServerPing, TypeInv

\* Who a Hello's connection is, in the types after the step.
LEMMA IdentifiedType ==
    ASSUME TypeInv, NEW packet \in ClientPackets, ServerHello(packet)
    PROVE  /\ issued' \in Nat /\ issued <= issued'
           /\ opened' \in Nat /\ opened <= opened'
           /\ Identified(packet) \in ConnectionsTo(opened', issued', now, ServerPackets')
           /\ Identified(packet).welcomed => Identified(packet).token # 0
           /\ Identified(packet).history = Noted(packet).history
           /\ Identified(packet).pending = Noted(packet).pending
<1> DEFINE n == Noted(packet)
           first == ~n.welcomed
<1>1. /\ opened' = IF first THEN opened + 1 ELSE opened
      /\ issued' = IF first /\ ~Resumable(packet.token) THEN issued + 1 ELSE issued
  BY DEF ServerHello
<1>2. /\ issued' \in Nat /\ issued <= issued'
      /\ opened' \in Nat /\ opened <= opened'
  BY <1>1 DEF TypeInv
<1>3. server = Nothing => first
  <2>1. n.welcomed = Found.welcomed
    <3>1. opened + 1 \in Nat /\ opened + 1 >= opened
      BY DEF TypeInv
    <3> QED
      BY <3>1, NotedType
  <2> QED
    BY <2>1 DEF Found, NewConnection
<1>4. /\ n \in ConnectionsTo(opened', issued, now, ServerPackets)
      /\ n.welcomed => n.token # 0
  <2>1. server = Nothing => opened' >= opened + 1
    BY <1>1, <1>3 DEF TypeInv
  <2> QED
    BY <1>2, <2>1, NotedType
<1> HIDE DEF n
<1>5. /\ n \in ConnectionsTo(opened', issued', now, ServerPackets')
  <2>1. 0..issued \subseteq 0..issued' /\ Items(ServerPackets) \subseteq Items(ServerPackets)'
    BY <1>2, Wider DEF TypeInv
  <2> QED
    BY <1>4, <2>1 DEF ConnectionsTo, Items
<1>6. CASE n.welcomed
  BY <1>2, <1>4, <1>5, <1>6 DEF Identified, n
<1>7. CASE first /\ Resumable(packet.token)
  <2>1. resume \in ResumeRecords
    BY <1>7 DEF Resumable, TypeInv
  <2>2. /\ Identified(packet) = [n EXCEPT !.welcomed = TRUE, !.playerId = resume.playerId,
                   !.token = resume.token, !.report = resume.report,
                   !.connectionId = opened + 1]
        /\ opened + 1 \in 1..opened' /\ issued' = issued
    BY <1>1, <1>7 DEF Identified, n, TypeInv
  <2>3. resume.token \in 0..issued' /\ resume.token # 0 /\ resume.playerId \in Nat
        /\ resume.report \in Nat
    BY <2>1, <2>2 DEF ResumeRecords, TypeInv
  <2> QED
    BY <1>2, <1>5, <2>2, <2>3 DEF ConnectionsTo, n
<1>8. CASE first /\ ~Resumable(packet.token)
  <2>1. /\ Identified(packet) = [n EXCEPT !.welcomed = TRUE, !.playerId = issued + 1,
                   !.token = issued + 1, !.connectionId = opened + 1]
        /\ opened + 1 \in 1..opened' /\ issued + 1 \in 0..issued' /\ issued + 1 # 0
        /\ issued + 1 \in Nat
    BY <1>1, <1>8 DEF Identified, n, TypeInv
  <2> QED
    BY <1>2, <1>5, <2>1 DEF ConnectionsTo, n
<1> QED
  BY <1>6, <1>7, <1>8

LEMMA ServerHelloType ==
    ASSUME TypeInv, NEW packet \in ClientPackets, ServerHello(packet),
           UNCHANGED <<now, client, toServer>>
    PROVE  TypeInv'
<1> DEFINE s == Identified(packet)
           welcome == ServerPacket(s, "Welcome")
<1>1. /\ issued' \in Nat /\ issued <= issued'
      /\ opened' \in Nat /\ opened <= opened'
      /\ s \in ConnectionsTo(opened', issued', now, ServerPackets')
      /\ s.welcomed => s.token # 0
  BY IdentifiedType
<1>2. /\ s.next <= MaxServerSeq
      /\ server' = [s EXCEPT !.next = @ + 1, !.pending = @ \cup {Item(welcome)},
                             !.welcomes = @ \cup {s.next}]
      /\ toClient' = toClient \cup {Sent(welcome)}
      /\ resume' = Nothing \/ resume' = resume
  BY DEF ServerHello
<1> HIDE DEF s
<1>3. /\ s.connectionId \in Nat /\ s.next \in Nat \ {0} /\ s.history \in History
      /\ s.token \in 0..issued' /\ s.playerId \in Nat
  BY <1>1, Numbers DEF ConnectionsTo
<1>4. welcome \in ServerPackets'
  BY <1>3, ServerPacketType DEF ServerPackets
<1> HIDE DEF welcome
<1>5. Item(welcome) \in Items(ServerPackets') /\ Sent(welcome) \in Datagrams(ServerPackets')
  BY <1>4, ItemType
<1>6. s.next + 1 \in 1..(MaxServerSeq + 1) /\ s.next \in Nat
  BY <1>1, <1>2, Numbers DEF ConnectionsTo
<1>7. server' \in ConnectionsTo(opened', issued', now, ServerPackets')
      /\ (server'.welcomed => server'.token # 0)
  BY <1>1, <1>2, <1>5, <1>6 DEF ConnectionsTo
<1>8. toClient' \subseteq Datagrams(ServerPackets)'
  BY <1>1, <1>2, <1>5, Wider DEF TypeInv, Datagrams
<1>9. resume' # Nothing => resume' \in ResumeRecords'
  BY <1>1, <1>2, Wider DEF TypeInv
<1> QED
  BY <1>1, <1>7, <1>8, <1>9, ServerSide DEF TypeInv

LEMMA ServerReceiveType ==
    ASSUME TypeInv, NEW d \in toServer, ServerReceive(d.packet) PROVE TypeInv'
<1>1. d.packet \in ClientPackets
  BY DEF TypeInv, Datagrams
<1> QED
  BY <1>1, ServerDiscardType, ServerHelloType, ServerPlayerStateType, ServerPingType,
     ServerGoodbyeType DEF ServerReceive

LEMMA ServerTickType ==
    ASSUME TypeInv, ServerTick PROVE TypeInv'
<1>1. /\ UNCHANGED <<now, client, issued, opened, toServer>>
      /\ ServerPackets' = ServerPackets /\ ClientPackets' = ClientPackets
  BY DEF ServerTick, ServerPackets, ClientPackets
<1>2. /\ Items(ServerPackets)' = Items(ServerPackets)
      /\ Datagrams(ServerPackets)' = Datagrams(ServerPackets)
      /\ Datagrams(ClientPackets)' = Datagrams(ClientPackets)
      /\ ResumeRecords' = ResumeRecords /\ Connections' = Connections
  BY <1>1 DEF Items, Datagrams, ResumeRecords, Connections, ConnectionsTo
<1>3. Clients' = Clients
  BY <1>1 DEF Clients, Items
<1>4. server' # Nothing =>
          server' \in Connections /\ (server'.welcomed => server'.token # 0)
  <2> SUFFICES ASSUME server # Nothing, ~Pruned(server)
               PROVE  server' \in Connections /\ (server'.welcomed => server'.token # 0)
    BY DEF ServerTick
  <2>1. server' = [server EXCEPT !.next = IF Broadcasts THEN @ + 1 ELSE @,
                                 !.pending = Aged(@)]
    BY DEF ServerTick
  <2>2. server \in Connections /\ (server.welcomed => server.token # 0)
    BY DEF TypeInv
  <2>3. Broadcasts => server.next + 1 \in 1..(MaxServerSeq + 1)
    BY <2>2, Numbers DEF Broadcasts, Connections, ConnectionsTo
  <2>4. Aged(server.pending) \in SUBSET Items(ServerPackets)
    BY <2>2, PendingTypes DEF Connections, ConnectionsTo
  <2> QED
    BY <2>1, <2>2, <2>3, <2>4 DEF Connections, ConnectionsTo
<1>5. resume' # Nothing => resume' \in ResumeRecords
  <2>1. CASE Pruned(server) /\ server.welcomed
    <3>1. server \in Connections /\ server.token # 0
      BY <2>1 DEF Pruned, TypeInv
    <3>2. server.token \in 1..issued /\ now + ResumeGrace \in Nat
      BY <3>1, Numbers DEF Connections, ConnectionsTo, TypeInv
    <3> QED
      BY <2>1, <3>1, <3>2 DEF ServerTick, Remembered, ResumeRecords, Connections,
                              ConnectionsTo
  <2>2. CASE ~(Pruned(server) /\ server.welcomed)
    BY <2>2 DEF ServerTick, Remembered, TypeInv
  <2> QED
    BY <2>1, <2>2
<1>6. toClient' \subseteq Datagrams(ServerPackets)
  <2>1. Broadcasts => ServerPacket(server, "Snapshot") \in ServerPackets
    <3> SUFFICES ASSUME Broadcasts
                 PROVE  ServerPacket(server, "Snapshot") \in ServerPackets
      OBVIOUS
    <3>1. server \in Connections
      BY DEF Broadcasts, TypeInv
    <3>2. /\ server.connectionId \in Nat /\ server.next \in Nat \ {0}
          /\ server.history \in History
          /\ server.token \in 0..issued /\ server.playerId \in Nat
      BY <3>1, Numbers DEF Connections, ConnectionsTo, TypeInv
    <3> QED
      BY <3>2, ServerPacketType DEF ServerPackets
  <2>2. server # Nothing => Resends(server.pending) \subseteq Datagrams(ServerPackets)
    BY PendingTypes DEF TypeInv, Connections, ConnectionsTo
  <2> QED
    BY <2>1, <2>2, ItemType DEF ServerTick, TypeInv
<1> QED
  BY <1>1, <1>2, <1>3, <1>4, <1>5, <1>6 DEF TypeInv

LEMMA AdvanceType == ASSUME TypeInv, AdvanceClock PROVE TypeInv'
<1>1. /\ now' = now + 1 /\ now' \in Start..MaxTime /\ now \in Nat
      /\ UNCHANGED <<client, server, resume, issued, opened>>
      /\ toServer' \subseteq toServer /\ toClient' \subseteq toClient
  BY Numbers DEF AdvanceClock, TypeInv, Young
<1>2. issued' \in Nat /\ issued <= issued' /\ opened' \in Nat /\ opened <= opened'
      /\ now' \in Nat /\ now <= now'
  BY <1>1 DEF TypeInv
<1>3. Connections \subseteq Connections'
  BY <1>2, WiderConnections
<1> QED
  BY <1>1, <1>2, <1>3, Wider DEF TypeInv

LEMMA TypeInductive == Spec => []TypeInv
<1>1. Init => TypeInv
  <2> SUFFICES ASSUME Init PROVE TypeInv
    OBVIOUS
  <2>1. client \in Clients
    BY EmptyHistoryType, Numbers DEF Init, ClientInit, Clients
  <2> QED
    BY <2>1, Numbers DEF Init, TypeInv
<1>2. TypeInv /\ [Next]_vars => TypeInv'
  <2> SUFFICES ASSUME TypeInv, [Next]_vars PROVE TypeInv'
    OBVIOUS
  <2>1. CASE UNCHANGED vars
    BY <2>1 DEF vars, TypeInv, Clients, Connections, ConnectionsTo, ResumeRecords,
                Datagrams, Items, ClientPackets, ServerPackets
  <2> QED
    BY <2>1, ClientStartType, ClientStopType, ClientSubmitType, ClientReceiveType,
       ClientTickType, ServerReceiveType, ServerTickType, AdvanceType DEF Next
<1> QED
  BY <1>1, <1>2, PTL DEF Spec

(* The session is type correct on both ends: numbers stay in their bounds,  *)
(* a token was issued wherever it is, and a record is of a welcomed player. *)
THEOREM SessionTypeCorrect == Spec => []TypeOK
<1>1. TypeInv => TypeOK
  <2> SUFFICES ASSUME TypeInv PROVE TypeOK
    OBVIOUS
  <2>1. client \in Clients
    BY DEF TypeInv
  <2>2. {item.retries : item \in client.pending} \subseteq 0..MaxRetries
    BY <2>1 DEF Clients, Items
  <2> QED
    BY <2>1, <2>2 DEF TypeInv, TypeOK, Clients, Connections, ConnectionsTo, ResumeRecords
<1> QED
  BY <1>1, TypeInductive, PTL

-----------------------------------------------------------------------------
\* All that a header acknowledges is in a set.
Within(header, set) == \A s \in Nat \ {0} : Acks(header, s) => s \in set

PacketHeader(packet) == [ack |-> packet.ack, bits |-> packet.bits]

AckInv ==
    /\ server # Nothing =>
          /\ Within(HeaderOf(server.history), heard)
          /\ \A item \in server.pending : Within(PacketHeader(item.packet), heard)
    /\ \A d \in toClient : Within(PacketHeader(d.packet), heard)

\* accept() adds no acknowledgement but that of the packet it lets through.
LEMMA RecordWithin ==
    ASSUME NEW h \in History, NEW q \in Nat \ {0}, NEW set, Within(HeaderOf(h), set)
    PROVE  Within(HeaderOf(Record(h, q)), IF Fresh(h, q) THEN set \cup {q} ELSE set)
<1> DEFINE g == Record(h, q)
<1> USE WAssumption DEF History, Offset
<1>1. SUFFICES ASSUME NEW s \in Nat \ {0}, Acks(HeaderOf(g), s)
               PROVE  s \in set \/ (Fresh(h, q) /\ s = q)
  BY DEF Within
<1>2. s = g.highest \/ g.highest - s \in g.bits
  BY <1>1 DEF Acks, HeaderOf
<1>3. \A r \in Nat \ {0} : r = h.highest \/ h.highest - r \in h.bits => r \in set
  BY DEF Within, Acks, HeaderOf
<1>4. CASE ~h.initialized
  BY <1>2, <1>4 DEF Record, Fresh
<1>5. CASE h.initialized /\ q > h.highest
  <2>1. /\ g.highest = q /\ g.bits = Shifted(h.bits, q - h.highest)
        /\ Fresh(h, q) /\ h.highest \in Nat
    BY <1>5 DEF Record, Fresh
  <2>2. CASE s = q
    BY <2>1, <2>2
  <2>3. CASE q - s \in g.bits
    <3>1. q - s = q - h.highest \/ (q - s) - (q - h.highest) \in h.bits
      BY <2>1, <2>3 DEF Shifted
    <3>2. (q - s) - (q - h.highest) = h.highest - s
      BY <2>1
    <3> QED
      BY <1>3, <2>1, <3>1, <3>2
  <2> QED
    BY <1>2, <2>1, <2>2, <2>3
<1>6. CASE h.initialized /\ ~(q > h.highest)
  <2>1. /\ g.highest = h.highest /\ h.highest \in Nat
        /\ g.bits = h.bits \cup ({h.highest - q} \cap Offset)
    BY <1>6 DEF Record
  <2>2. CASE s = h.highest \/ h.highest - s \in h.bits
    BY <1>3, <2>2
  <2>3. CASE h.highest - s = h.highest - q /\ h.highest - q \in Offset \ h.bits
    BY <1>6, <2>1, <2>3 DEF Fresh
  <2> QED
    BY <1>2, <2>1, <2>2, <2>3
<1> QED
  BY <1>4, <1>5, <1>6

LEMMA WithinMore ==
    ASSUME NEW header, NEW set, NEW larger, Within(header, set), set \subseteq larger
    PROVE  Within(header, larger)
  BY DEF Within

LEMMA ServerPacketHeader ==
    ASSUME NEW s, NEW type
    PROVE  PacketHeader(ServerPacket(s, type)) = HeaderOf(s.history)
  BY DEF PacketHeader, ServerPacket, HeaderOf

\* The connection a datagram is handled in acknowledges what was heard, that
\* datagram included, also when it was created for it.
LEMMA NotedWithin ==
    ASSUME TypeInv, AckInv, NEW packet \in ClientPackets,
           heard' = IF IsFresh(packet) THEN heard \cup {packet.seq} ELSE heard
    PROVE  /\ Within(HeaderOf(Noted(packet).history), heard')
           /\ \A item \in Noted(packet).pending : Within(PacketHeader(item.packet), heard')
<1>1. /\ opened + 1 \in Nat /\ opened + 1 >= opened
      /\ packet.seq \in Nat \ {0} /\ heard \subseteq heard'
  BY DEF TypeInv, ClientPackets
<1>2. /\ Noted(packet).history = Record(Found.history, packet.seq)
      /\ Noted(packet).pending = Unacknowledged(Found.pending, packet)
  BY <1>1, NotedType
<1>3. /\ Found.history \in History
      /\ Within(HeaderOf(Found.history), heard)
      /\ \A item \in Found.pending : Within(PacketHeader(item.packet), heard)
  <2>1. CASE server = Nothing
    <3>1. Found.history = EmptyHistory /\ Found.pending = {}
      BY <2>1 DEF Found, NewConnection
    <3>2. Within(HeaderOf(EmptyHistory), heard)
      BY DEF Within, Acks, HeaderOf, EmptyHistory
    <3> QED
      BY <3>1, <3>2, EmptyHistoryType
  <2>2. CASE server # Nothing
    BY <2>2 DEF Found, AckInv, TypeInv, Connections, ConnectionsTo
  <2> QED
    BY <2>1, <2>2
<1>4. Within(HeaderOf(Noted(packet).history), heard')
  <2>1. heard' = IF Fresh(Found.history, packet.seq) THEN heard \cup {packet.seq} ELSE heard
    BY DEF IsFresh
  <2> QED
    BY <1>1, <1>2, <1>3, <2>1, RecordWithin
<1>5. \A item \in Noted(packet).pending : Within(PacketHeader(item.packet), heard')
  BY <1>1, <1>2, <1>3, WithinMore DEF Unacknowledged
<1> QED
  BY <1>4, <1>5

LEMMA ServerReceiveAck ==
    ASSUME TypeInv, AckInv, NEW d \in toServer, ServerReceive(d.packet) PROVE AckInv'
<1> DEFINE packet == d.packet
           n == Noted(packet)
<1>1. packet \in ClientPackets
  BY DEF TypeInv, Datagrams
<1>2. heard' = IF IsFresh(packet) THEN heard \cup {packet.seq} ELSE heard
  BY DEF ServerReceive
<1>3. /\ Within(HeaderOf(n.history), heard')
      /\ \A item \in n.pending : Within(PacketHeader(item.packet), heard')
      /\ \A e \in toClient : Within(PacketHeader(e.packet), heard')
  <2>1. heard \subseteq heard'
    BY <1>2
  <2> QED
    BY <1>1, <1>2, <2>1, NotedWithin, WithinMore DEF AckInv
<1>4. n \in ConnectionsTo(opened + 1, issued, now, ServerPackets)
  <2>1. opened + 1 \in Nat /\ opened + 1 >= opened
    BY DEF TypeInv
  <2> QED
    BY <1>1, <2>1, NotedType
<1>5. CASE \/ ServerDiscard(packet) \/ ServerPlayerState(packet) \/ ServerGoodbye(packet)
  <2>1. server'.history = n.history /\ server'.pending = n.pending /\ toClient' = toClient
    <3> HIDE DEF n
    <3>1. \/ server' = n
          \/ server' = [n EXCEPT !.report = packet.report]
          \/ server' = [n EXCEPT !.last =
                           IF now > ServerPatience THEN now - ServerPatience - 1 ELSE 1]
      BY <1>5 DEF ServerDiscard, ServerPlayerState, ServerGoodbye, n
    <3>2. toClient' = toClient
      BY <1>5 DEF ServerDiscard, ServerPlayerState, ServerGoodbye
    <3> QED
      BY <1>4, <3>1, <3>2 DEF ConnectionsTo
  <2> QED
    BY <1>3, <2>1 DEF AckInv
<1>6. CASE ServerPing(packet)
  <2> DEFINE pong == ServerPacket(n, "Pong")
  <2>1. PacketHeader(pong) = HeaderOf(n.history)
    BY ServerPacketHeader
  <2>2. server' = [n EXCEPT !.next = @ + 1] /\ toClient' = toClient \cup {Sent(pong)}
    BY <1>6 DEF ServerPing
  <2>3. Sent(pong).packet = pong
    BY DEF Sent
  <2> HIDE DEF n, pong
  <2>4. server'.history = n.history /\ server'.pending = n.pending
    BY <1>4, <2>2 DEF ConnectionsTo
  <2> QED
    BY <1>3, <2>1, <2>2, <2>3, <2>4 DEF AckInv
<1>7. CASE ServerHello(packet)
  <2> DEFINE s == Identified(packet)
             welcome == ServerPacket(s, "Welcome")
  <2>1. /\ s.history = n.history /\ s.pending = n.pending
        /\ s \in ConnectionsTo(opened', issued', now, ServerPackets')
    BY <1>1, <1>7, IdentifiedType
  <2>2. PacketHeader(welcome) = HeaderOf(n.history)
    BY <2>1, ServerPacketHeader
  <2>3. /\ server' = [s EXCEPT !.next = @ + 1, !.pending = @ \cup {Item(welcome)},
                               !.welcomes = @ \cup {s.next}]
        /\ toClient' = toClient \cup {Sent(welcome)}
    BY <1>7 DEF ServerHello
  <2>4. Sent(welcome).packet = welcome /\ Item(welcome).packet = welcome
    BY DEF Sent, Item
  <2> HIDE DEF n, s, welcome
  <2>5. server'.history = n.history /\ server'.pending = n.pending \cup {Item(welcome)}
    BY <2>1, <2>3 DEF ConnectionsTo
  <2> QED
    BY <1>3, <2>2, <2>3, <2>4, <2>5 DEF AckInv
<1> QED
  BY <1>5, <1>6, <1>7 DEF ServerReceive

LEMMA AgedPackets ==
    ASSUME TypeInv, NEW packets, NEW pending \in SUBSET Items(packets)
    PROVE  /\ \A item \in Aged(pending) : \E old \in pending : item.packet = old.packet
           /\ \A old \in pending : \E item \in Aged(pending) : item.packet = old.packet
<1> DEFINE Next1(item) == IF Due(item) THEN [item EXCEPT !.retries = @ + 1, !.lastSent = now]
                          ELSE item
<1>1. \A item \in pending : Next1(item).packet = item.packet
  BY DEF Items
<1>2. Aged(pending) = {Next1(item) : item \in pending}
  BY DEF Aged
<1> HIDE DEF Next1
<1> QED
  BY <1>1, <1>2

LEMMA ServerTickAck == ASSUME TypeInv, AckInv, ServerTick PROVE AckInv'
<1>1. heard' = heard
  BY DEF ServerTick
<1>2. ASSUME server # Nothing
      PROVE  /\ server.pending \in SUBSET Items(ServerPackets)
             /\ server \in Connections
             /\ Within(HeaderOf(server.history), heard)
             /\ \A item \in server.pending : Within(PacketHeader(item.packet), heard)
  BY <1>2 DEF TypeInv, Connections, ConnectionsTo, AckInv
<1>3. ASSUME server' # Nothing
      PROVE  /\ Within(HeaderOf(server'.history), heard)
             /\ \A item \in server'.pending : Within(PacketHeader(item.packet), heard)
  <2>1. /\ server # Nothing
        /\ server' = [server EXCEPT !.next = IF Broadcasts THEN @ + 1 ELSE @,
                                    !.pending = Aged(@)]
    BY <1>3 DEF ServerTick
  <2>2. server'.history = server.history /\ server'.pending = Aged(server.pending)
    BY <1>2, <2>1 DEF Connections, ConnectionsTo
  <2> QED
    BY <1>2, <2>1, <2>2, AgedPackets
<1>4. ASSUME NEW d \in toClient' PROVE Within(PacketHeader(d.packet), heard)
  <2>1. CASE d \in toClient
    BY <2>1 DEF AckInv
  <2>2. CASE Broadcasts /\ d = Sent(ServerPacket(server, "Snapshot"))
    BY <1>2, <2>2, ServerPacketHeader DEF Broadcasts, Sent
  <2>3. CASE server # Nothing /\ d \in Resends(server.pending)
    BY <1>2, <2>3 DEF Resends, Sent
  <2> QED
    BY <1>4, <2>1, <2>2, <2>3 DEF ServerTick
<1> QED
  BY <1>1, <1>3, <1>4 DEF AckInv

-----------------------------------------------------------------------------
\* What a client's tracker no longer holds was acknowledged.
LEMMA ClientKeeps ==
    ASSUME HelloAckSound, heard \subseteq heard', client'.hellos = client.hellos,
           \A old \in client.pending :
              \/ \E item \in client'.pending : item.packet.seq = old.packet.seq
              \/ old.packet.seq \in heard'
    PROVE  HelloAckSound'
  BY DEF HelloAckSound

LEMMA ClientStartHellos == ASSUME TypeInv, ClientStart PROVE HelloAckSound'
<1> DEFINE hello == ClientPacket("Hello")
<1>1. client' = [client EXCEPT !.state = "Handshaking", !.lastHello = now,
                        !.next = @ + 1, !.pending = {Item(hello)},
                        !.hellos = {hello.seq}]
  BY DEF ClientStart
<1>2. Item(hello).packet = hello
  BY DEF Item
<1> HIDE DEF hello
<1>3. client'.hellos = {hello.seq} /\ client'.pending = {Item(hello)}
  BY <1>1 DEF TypeInv, Clients
<1> QED
  BY <1>2, <1>3 DEF HelloAckSound

LEMMA ClientTickHellos == ASSUME TypeInv, HelloAckSound, ClientTick PROVE HelloAckSound'
<1>1. /\ client'.pending = Aged(Tracked)
      /\ client'.hellos = client.hellos \cup {p.seq : p \in Said}
      /\ heard' = heard
  <2>1. client' = [client EXCEPT
                 !.next          = IF SayHello \/ SayPing THEN @ + 1 ELSE @,
                 !.lastHello     = IF SayHello THEN now ELSE @,
                 !.lastHeartbeat = IF SayPing THEN now ELSE @,
                 !.pending       = Aged(Tracked),
                 !.hellos        = @ \cup {p.seq : p \in Said},
                 !.state         = IF TimedOut THEN "Handshaking" ELSE @,
                 !.playerId      = IF TimedOut THEN 0 ELSE @,
                 !.lastReceive   = IF TimedOut THEN now ELSE @]
    BY DEF ClientTick, Said, Tracked
  <2> QED
    BY <2>1 DEF TypeInv, Clients, ClientTick
<1>2. Tracked \in SUBSET Items(ClientPackets)
  <2>1. Said \subseteq ClientPackets
    BY ClientPacketType DEF Said
  <2> QED
    BY <2>1, ItemType DEF Tracked, TypeInv, Clients
<1>3. \A old \in Tracked : \E item \in client'.pending : item.packet = old.packet
  BY <1>1, <1>2, AgedPackets
<1>4. \A p \in Said : \E old \in Tracked : old.packet = p
  <2>1. \A p \in Said : Item(p) \in Tracked
    BY DEF Tracked
  <2>2. \A p \in Said : Item(p).packet = p
    BY DEF Item
  <2> QED
    BY <2>1, <2>2
<1>5. \A old \in client.pending : old \in Tracked
  BY DEF Tracked
<1> QED
  BY <1>1, <1>3, <1>4, <1>5 DEF HelloAckSound

LEMMA HellosInductive == Spec => [](AckInv /\ HelloAckSound)
<1>1. Init => AckInv /\ HelloAckSound
  BY DEF Init, ClientInit, AckInv, HelloAckSound
<1>2. TypeInv /\ AckInv /\ HelloAckSound /\ [Next]_vars => (AckInv /\ HelloAckSound)'
  <2> SUFFICES ASSUME TypeInv, AckInv, HelloAckSound, [Next]_vars
               PROVE  AckInv' /\ HelloAckSound'
    OBVIOUS
  <2>1. CASE ClientStart
    <3>1. AckInv'
      BY <2>1 DEF ClientStart, AckInv
    <3> QED
      BY <2>1, <3>1, ClientStartHellos
  <2>2. CASE ClientStop
    <3>1. AckInv'
      BY <2>2 DEF ClientStop, AckInv
    <3>2. client'.hellos = client.hellos /\ client.pending \subseteq client'.pending
          /\ heard' = heard
      BY <2>2 DEF ClientStop, TypeInv, Clients
    <3> QED
      BY <3>1, <3>2, ClientKeeps
  <2>3. CASE ClientSubmit
    <3>1. AckInv'
      BY <2>3 DEF ClientSubmit, AckInv
    <3>2. client'.hellos = client.hellos /\ client.pending \subseteq client'.pending
          /\ heard' = heard
      BY <2>3 DEF ClientSubmit, TypeInv, Clients
    <3> QED
      BY <3>1, <3>2, ClientKeeps
  <2>4. ASSUME NEW d \in toClient, ClientReceive(d.packet)
        PROVE  AckInv' /\ HelloAckSound'
    <3>1. AckInv' /\ heard' = heard
      BY <2>4 DEF ClientReceive, AckInv
    <3>2. /\ client'.hellos = client.hellos
          /\ client'.pending = Unacknowledged(client.pending, d.packet)
      BY <2>4, ClientReceiveType
    <3>3. ASSUME NEW old \in client.pending, old \notin client'.pending
          PROVE  old.packet.seq \in heard
      <4>1. Acks(PacketHeader(d.packet), old.packet.seq)
        BY <3>2, <3>3 DEF Unacknowledged, PacketHeader
      <4>2. old.packet.seq \in Nat \ {0}
        BY DEF TypeInv, Clients, Items, ClientPackets
      <4> QED
        BY <4>1, <4>2 DEF AckInv, Within
    <3> QED
      BY <3>1, <3>2, <3>3, ClientKeeps
  <2>5. CASE ClientTick
    <3>1. AckInv'
      BY <2>5 DEF ClientTick, AckInv
    <3> QED
      BY <2>5, <3>1, ClientTickHellos
  <2>6. ASSUME NEW d \in toServer, ServerReceive(d.packet)
        PROVE  AckInv' /\ HelloAckSound'
    <3>1. client' = client /\ heard \subseteq heard'
      BY <2>6 DEF ServerReceive
    <3> QED
      BY <2>6, <3>1, ServerReceiveAck DEF HelloAckSound
  <2>7. CASE ServerTick
    BY <2>7, ServerTickAck DEF ServerTick, HelloAckSound
  <2>8. CASE AdvanceClock
    BY <2>8 DEF AdvanceClock, Young, AckInv, HelloAckSound
  <2>9. CASE UNCHANGED vars
    BY <2>9 DEF vars, AckInv, HelloAckSound
  <2> QED
    BY <2>1, <2>2, <2>3, <2>4, <2>5, <2>6, <2>7, <2>8, <2>9 DEF Next
<1> QED
  BY <1>1, <1>2, TypeInductive, PTL DEF Spec

(* A Hello leaves the client's tracker only after the server handled it,    *)
(* across every connection the server opened and forgot in between.         *)
THEOREM HellosAcknowledged == Spec => []HelloAckSound
  BY HellosInductive, PTL
-----------------------------------------------------------------------------
(* Who is who.  Each end resends a packet for Resending after it sent it    *)
(* first, and the network holds what was sent for MaxDelay.  A Welcome can  *)
(* thus come that much later than the server last heard a Hello, and, once  *)
(* it has come, Hellos from before it that much later again.  A server that *)
(* is as patient as both together still has the connection then.            *)
Lag(retries) == retries * ResendDelay

Resending == Lag(MaxRetries)

Patient == ServerPatience >= 2 * (Resending + MaxDelay)

Running == client.state # "Disconnected"

\* Nobody has sent anything before the client starts.
Untouched ==
    client = ClientInit => /\ server = Nothing /\ resume = Nothing
                           /\ toServer = {} /\ toClient = {}

\* The tracker of an end that ticks at every instant resends when it is time.
Prompt(pending, end) ==
    \A item \in pending :
        /\ item.lastSent <= now
        /\ item.retries < MaxRetries =>
              now - item.lastSent <= IF end \in ticked THEN ResendDelay - 1 ELSE ResendDelay

OnTime ==
    /\ Untouched
    /\ \A d \in toServer \cup toClient : d.at <= now /\ now <= d.at + MaxDelay
    /\ server # Nothing => Prompt(server.pending, "server")
    /\ Running => Prompt(client.pending, "client")

\* The player and the session a Welcome names are those of the connection,
\* which heard from the client not long before.
Names(packet) ==
    /\ server # Nothing /\ server.welcomed
    /\ packet.token = server.token /\ packet.playerId = server.playerId

WelcomeInv ==
    /\ server # Nothing =>
          \A item \in server.pending :
              /\ item.packet.type = "Welcome" /\ Names(item.packet)
              /\ item.lastSent <= server.last + Lag(item.retries)
    /\ \A d \in toClient :
          d.packet.type = "Welcome" =>
              Names(d.packet) /\ d.at <= server.last + Resending

\* A Hello from before the client was welcomed as who it is now.
Outdated(packet) == client.state = "Connected" \/ packet.token # client.token

HelloInv ==
    /\ \A d \in toServer :
          /\ d.packet.type # "Goodbye"
          /\ d.packet.type = "Hello" /\ Outdated(d.packet) =>
                /\ server # Nothing /\ server.welcomed
                /\ d.at <= server.last + Resending + MaxDelay + Resending
    /\ \A item \in client.pending :
          /\ item.packet.type = "Hello"
          /\ item.retries < MaxRetries /\ Outdated(item.packet) =>
                /\ server # Nothing /\ server.welcomed
                /\ item.lastSent <= server.last + Resending + MaxDelay + Lag(item.retries)

WhoInv == OnTime /\ (Running => WelcomeInv /\ HelloInv /\ IdentityAgreement)

LEMMA Lags ==
    /\ Resending \in Nat /\ MaxDelay \in Nat /\ ResendDelay \in Nat \ {0}
    /\ Lag(0) = 0
    /\ \A r \in 0..MaxRetries :
          /\ Lag(r) \in Nat /\ Lag(r) <= Resending
          /\ r < MaxRetries =>
                r + 1 \in 0..MaxRetries /\ Lag(r + 1) = Lag(r) + ResendDelay
<1>1. ResendDelay \in Nat \ {0} /\ MaxRetries \in Nat /\ MaxDelay \in Nat
  BY SessionAssumption
<1>2. \A r \in Nat : r * ResendDelay \in Nat /\ (r + 1) * ResendDelay = r * ResendDelay + ResendDelay
  BY <1>1
<1>3. \A r \in 0..MaxRetries : r * ResendDelay <= MaxRetries * ResendDelay
  BY <1>1
<1>4. 0 * ResendDelay = 0
  BY <1>1
<1> QED
  BY <1>1, <1>2, <1>3, <1>4 DEF Lag, Resending

\* A tick resends what is due, just when it is due.
LEMMA Resent ==
    ASSUME TypeInv, NEW packets, NEW pending \in SUBSET Items(packets), NEW end,
           Prompt(pending, end), end \notin ticked
    PROVE  /\ \A d \in Resends(pending) :
                /\ d.at = now
                /\ \E item \in pending :
                     /\ d.packet = item.packet /\ item.retries < MaxRetries
                     /\ now = item.lastSent + ResendDelay
           /\ \A new \in Aged(pending) : \E item \in pending :
                /\ new.packet = item.packet
                /\ \/ new.retries = item.retries /\ new.lastSent = item.lastSent
                   \/ /\ item.retries < MaxRetries /\ new.retries = item.retries + 1
                      /\ now = item.lastSent + ResendDelay /\ new.lastSent = now
           /\ \A new \in Aged(pending) :
                /\ new.lastSent <= now
                /\ new.retries < MaxRetries => now - new.lastSent <= ResendDelay - 1
<1>1. /\ now \in Nat /\ MaxRetries \in Nat /\ ResendDelay \in Nat \ {0}
      /\ \A item \in pending : item.retries \in 0..MaxRetries /\ item.lastSent \in Nat
  BY Numbers, SessionAssumption DEF TypeInv, Items
<1>2. ASSUME NEW item \in pending, Due(item)
      PROVE  item.retries < MaxRetries /\ now = item.lastSent + ResendDelay
  BY <1>1, <1>2 DEF Due, Prompt
<1>3. \A d \in Resends(pending) :
         /\ d.at = now
         /\ \E item \in pending : d.packet = item.packet /\ Due(item)
  BY DEF Resends, Sent
<1> DEFINE aged(item) == [item EXCEPT !.retries = @ + 1, !.lastSent = now]
<1>4. \A item \in pending : /\ aged(item).packet = item.packet
                            /\ aged(item).retries = item.retries + 1
                            /\ aged(item).lastSent = now
  BY DEF Items
<1>5. \A new \in Aged(pending) : \E item \in pending :
         new = IF Due(item) THEN aged(item) ELSE item
  BY DEF Aged
<1> HIDE DEF aged
<1>6. \A new \in Aged(pending) : \E item \in pending :
         /\ new.packet = item.packet
         /\ \/ new = item /\ ~Due(item)
            \/ Due(item) /\ new.retries = item.retries + 1 /\ new.lastSent = now
  BY <1>4, <1>5
<1>7. ASSUME NEW new \in Aged(pending)
      PROVE  /\ new.lastSent <= now
             /\ new.retries < MaxRetries => now - new.lastSent <= ResendDelay - 1
  <2>1. PICK item \in pending :
           \/ new = item /\ ~Due(item)
           \/ Due(item) /\ new.retries = item.retries + 1 /\ new.lastSent = now
    BY <1>6
  <2>2. CASE new = item /\ ~Due(item)
    BY <1>1, <2>2 DEF Due, Prompt
  <2>3. CASE new.lastSent = now
    BY <1>1, <2>3
  <2> QED
    BY <2>1, <2>2, <2>3
<1> QED
  BY <1>2, <1>3, <1>6, <1>7

\* No connection is mistaken for none.
LEMMA ConnectionIsSomething ==
    ASSUME TypeInv, NEW n \in Nat, NEW m \in Nat, NEW c,
           c \in ConnectionsTo(n, m, now,
                    [connectionId : Nat, seq : Nat \ {0}, ack : Nat, bits : SUBSET Offset,
                     type : {"Welcome", "Pong", "Snapshot"}, token : 0..m, playerId : Nat])
    PROVE  c # Nothing
<1> DEFINE packets ==
        [connectionId : Nat, seq : Nat \ {0}, ack : Nat, bits : SUBSET Offset,
         type : {"Welcome", "Pong", "Snapshot"}, token : 0..m, playerId : Nat]
<1>1. now \in Nat /\ MaxServerSeq \in Nat /\ MaxRetries \in Nat
  BY Numbers, SessionAssumption DEF TypeInv
<1>2. /\ 1..n \subseteq Nat /\ 0..m \subseteq Nat /\ 1..now \subseteq Nat
      /\ 1..(MaxServerSeq + 1) \subseteq Nat /\ 0..MaxRetries \subseteq Nat
  BY <1>1
<1>3. Items(packets) \subseteq
        [packet : [connectionId : Nat, seq : Nat, ack : Nat, bits : SUBSET Offset,
                   type : {"Welcome", "Pong", "Snapshot"}, token : Nat, playerId : Nat],
         retries : Nat, lastSent : Nat]
  BY <1>2 DEF Items
<1>4. c \in Connection
  BY <1>2, <1>3 DEF ConnectionsTo, Connection
<1> QED
  BY <1>4, NothingAssumption

\* What handling a datagram leaves of the connection it is handled in.
LEMMA NotedKeeps ==
    ASSUME TypeInv, NEW packet \in ClientPackets
    PROVE  /\ Noted(packet) \in ConnectionsTo(opened + 1, issued, now, ServerPackets)
           /\ Noted(packet).welcomed = Found.welcomed
           /\ Noted(packet).token = Found.token
           /\ Noted(packet).playerId = Found.playerId
           /\ Noted(packet).pending \subseteq Found.pending
           /\ Noted(packet).last = IF IsFresh(packet) THEN now ELSE Found.last
           /\ Found.last \in Nat /\ Found.last <= now
<1>1. opened + 1 \in Nat /\ opened + 1 >= opened
  BY DEF TypeInv
<1>2. /\ Noted(packet) \in ConnectionsTo(opened + 1, issued, now, ServerPackets)
      /\ Noted(packet).welcomed = Found.welcomed
      /\ Noted(packet).token = Found.token
      /\ Noted(packet).pending = Unacknowledged(Found.pending, packet)
  BY <1>1, NotedType
<1>3. Found.last \in Nat /\ Found.last <= now
  BY Numbers DEF Found, NewConnection, TypeInv, Connections, ConnectionsTo
<1>4. /\ "playerId" \in DOMAIN Found /\ "last" \in DOMAIN Found /\ "pending" \in DOMAIN Found
      /\ "history" \in DOMAIN Found
  BY DEF Found, NewConnection, TypeInv, Connections, ConnectionsTo
<1>5. /\ Noted(packet).playerId = Found.playerId
      /\ Noted(packet).last = IF IsFresh(packet) THEN now ELSE Found.last
  BY <1>4 DEF Noted
<1> QED
  BY <1>2, <1>3, <1>5 DEF Unacknowledged

\* What the server's half of a step looks like from the client's side: a
\* welcomed connection stays who it is, only a Hello welcomes one, and what is
\* said in a Welcome is said by a connection that has just been heard from.
Speaks(packet) ==
    /\ packet.type = "Welcome" =>
          /\ packet.token = server'.token /\ packet.playerId = server'.playerId
          /\ server'.welcomed /\ server'.last = now

Heard(packet) ==
    /\ server' # Nothing
    /\ server'.last \in Nat /\ server'.last >= Found.last
    /\ Found.welcomed => /\ server'.welcomed /\ server'.token = Found.token
                         /\ server'.playerId = Found.playerId
    /\ server'.welcomed /\ ~Found.welcomed => packet.type = "Hello"
    /\ \A item \in server'.pending :
          \/ item \in Found.pending
          \/ /\ item.packet.type = "Welcome" /\ Speaks(item.packet)
             /\ item.lastSent = now /\ item.retries = 0
    /\ \A e \in toClient' : e \in toClient \/ (e.at = now /\ Speaks(e.packet))
    /\ issued' > issued => /\ packet.type = "Hello" /\ ~Found.welcomed
                           /\ ~Resumable(packet.token)

LEMMA HeardQuiet ==
    ASSUME TypeInv, NEW packet \in ClientPackets,
           ServerDiscard(packet) \/ ServerPlayerState(packet)
    PROVE  Heard(packet)
<1> DEFINE n == Noted(packet)
<1>1. /\ n \in ConnectionsTo(opened + 1, issued, now, ServerPackets)
      /\ n.welcomed = Found.welcomed
      /\ n.token = Found.token /\ n.playerId = Found.playerId
      /\ n.pending \subseteq Found.pending
      /\ n.last = IF IsFresh(packet) THEN now ELSE Found.last
      /\ Found.last \in Nat /\ Found.last <= now
  BY NotedKeeps
<1>2. server' = n \/ server' = [n EXCEPT !.report = packet.report]
  BY DEF ServerDiscard, ServerPlayerState
<1>3. toClient' = toClient /\ issued' = issued
  BY DEF ServerDiscard, ServerPlayerState
<1>4. packet.report \in Nat /\ now \in Nat /\ opened + 1 \in Nat /\ issued \in Nat
  BY Numbers DEF ClientPackets, TypeInv
<1> HIDE DEF n
<1>5. /\ server' \in ConnectionsTo(opened + 1, issued, now, ServerPackets)
      /\ server'.welcomed = n.welcomed
      /\ server'.token = n.token /\ server'.playerId = n.playerId
      /\ server'.pending = n.pending /\ server'.last = n.last
  BY <1>1, <1>2, <1>4 DEF ConnectionsTo
<1>6. server' # Nothing
  BY <1>4, <1>5, ConnectionIsSomething DEF ServerPackets
<1>7. n.last \in Nat /\ n.last >= Found.last
  BY <1>1, <1>4
<1>8. \A item \in server'.pending : item \in Found.pending
  BY <1>1, <1>5
<1>9. ~(issued' > issued)
  BY <1>3, <1>4
<1>10. /\ server'.last \in Nat /\ server'.last >= Found.last
       /\ server'.welcomed = Found.welcomed
       /\ server'.token = Found.token /\ server'.playerId = Found.playerId
  BY <1>1, <1>5, <1>7
<1> QED
  BY <1>3, <1>6, <1>8, <1>9, <1>10 DEF Heard

LEMMA HeardPing ==
    ASSUME TypeInv, NEW packet \in ClientPackets, ServerPing(packet)
    PROVE  Heard(packet)
<1> DEFINE n == Noted(packet)
           pong == ServerPacket(n, "Pong")
<1>1. /\ n \in ConnectionsTo(opened + 1, issued, now, ServerPackets)
      /\ n.welcomed = Found.welcomed
      /\ n.token = Found.token /\ n.playerId = Found.playerId
      /\ n.pending \subseteq Found.pending
      /\ n.last = now /\ Found.last \in Nat /\ Found.last <= now
  BY NotedKeeps DEF ServerPing
<1>2. server' = [n EXCEPT !.next = @ + 1] /\ n.next <= MaxServerSeq
      /\ toClient' = toClient \cup {Sent(pong)} /\ issued' = issued
  BY DEF ServerPing
<1>3. now \in Nat /\ opened + 1 \in Nat /\ issued \in Nat
  BY Numbers DEF TypeInv
<1>4. Sent(pong).at = now /\ Sent(pong).packet.type = "Pong"
  BY DEF Sent, ServerPacket
<1> HIDE DEF n, pong
<1>5. n.next + 1 \in 1..(MaxServerSeq + 1)
  BY <1>1, <1>2, Numbers DEF ConnectionsTo
<1>6. /\ server' \in ConnectionsTo(opened + 1, issued, now, ServerPackets)
      /\ server'.welcomed = n.welcomed
      /\ server'.token = n.token /\ server'.playerId = n.playerId
      /\ server'.pending = n.pending /\ server'.last = n.last
  BY <1>1, <1>2, <1>5 DEF ConnectionsTo
<1>7. server' # Nothing
  BY <1>3, <1>6, ConnectionIsSomething DEF ServerPackets
<1>8. \A item \in server'.pending : item \in Found.pending
  BY <1>1, <1>6
<1>9. \A e \in toClient' : e \in toClient \/ (e.at = now /\ Speaks(e.packet))
  BY <1>2, <1>4 DEF Speaks
<1>10. ~(issued' > issued)
  BY <1>2, <1>3
<1>11. /\ server'.last \in Nat /\ server'.last >= Found.last
       /\ server'.welcomed = Found.welcomed
       /\ server'.token = Found.token /\ server'.playerId = Found.playerId
  BY <1>1, <1>3, <1>6
<1> QED
  BY <1>7, <1>8, <1>9, <1>10, <1>11 DEF Heard

LEMMA HeardHello ==
    ASSUME TypeInv, NEW packet \in ClientPackets, ServerHello(packet)
    PROVE  Heard(packet)
<1> DEFINE n == Noted(packet)
           s == Identified(packet)
           welcome == ServerPacket(s, "Welcome")
<1>1. /\ n \in ConnectionsTo(opened + 1, issued, now, ServerPackets)
      /\ n.welcomed = Found.welcomed
      /\ n.token = Found.token /\ n.playerId = Found.playerId
      /\ n.pending \subseteq Found.pending
      /\ n.last = now /\ Found.last \in Nat /\ Found.last <= now
  BY NotedKeeps DEF ServerHello
<1>2. /\ issued' \in Nat /\ opened' \in Nat
      /\ s \in ConnectionsTo(opened', issued', now, ServerPackets')
      /\ s.pending = n.pending
  BY IdentifiedType
<1>3. /\ s.welcomed /\ s.last = now
      /\ Found.welcomed => s.token = Found.token /\ s.playerId = Found.playerId
  <2>1. \/ n.welcomed /\ s = n
        \/ s = [n EXCEPT !.welcomed = TRUE, !.playerId = resume.playerId,
                   !.token = resume.token, !.report = resume.report,
                   !.connectionId = opened + 1] /\ ~n.welcomed
        \/ s = [n EXCEPT !.welcomed = TRUE, !.playerId = issued + 1,
                   !.token = issued + 1, !.connectionId = opened + 1] /\ ~n.welcomed
    BY DEF Identified
  <2> HIDE DEF n, s
  <2> QED
    BY <1>1, <2>1 DEF ConnectionsTo
<1>4. /\ s.next <= MaxServerSeq
      /\ server' = [s EXCEPT !.next = @ + 1, !.pending = @ \cup {Item(welcome)},
                             !.welcomes = @ \cup {s.next}]
      /\ toClient' = toClient \cup {Sent(welcome)}
      /\ issued' = IF ~n.welcomed /\ ~Resumable(packet.token) THEN issued + 1 ELSE issued
      /\ packet.type = "Hello"
  BY DEF ServerHello
<1>5. now \in Nat /\ issued \in Nat
  BY Numbers DEF TypeInv
<1> HIDE DEF n, s
<1>6. /\ welcome.type = "Welcome" /\ welcome.token = s.token
      /\ welcome.playerId = s.playerId
      /\ Sent(welcome).at = now /\ Sent(welcome).packet = welcome
      /\ Item(welcome).packet = welcome /\ Item(welcome).lastSent = now
      /\ Item(welcome).retries = 0
  BY DEF ServerPacket, Sent, Item
<1>7. welcome \in ServerPackets'
  <2>1. /\ s.connectionId \in Nat /\ s.next \in Nat \ {0} /\ s.history \in History
        /\ s.token \in 0..issued' /\ s.playerId \in Nat
    BY <1>2, Numbers DEF ConnectionsTo
  <2> QED
    BY <2>1, ServerPacketType DEF ServerPackets
<1> HIDE DEF welcome
<1>8. /\ server' \in ConnectionsTo(opened', issued', now, ServerPackets')
      /\ server'.welcomed /\ server'.token = s.token /\ server'.playerId = s.playerId
      /\ server'.pending = s.pending \cup {Item(welcome)} /\ server'.last = s.last
  <2>1. Item(welcome) \in Items(ServerPackets')
    BY <1>7, ItemType
  <2>2. s.next + 1 \in 1..(MaxServerSeq + 1) /\ s.next \in Nat
    BY <1>2, <1>4, Numbers DEF ConnectionsTo
  <2>3. s.welcomed \in BOOLEAN
    BY <1>2 DEF ConnectionsTo
  <2> QED
    BY <1>2, <1>3, <1>4, <2>1, <2>2 DEF ConnectionsTo
<1>9. server' # Nothing
  BY <1>2, <1>8, ConnectionIsSomething DEF ServerPackets
<1>10. Speaks(welcome)
  BY <1>3, <1>6, <1>8 DEF Speaks
<1>11. \A item \in server'.pending :
          \/ item \in Found.pending
          \/ /\ item.packet.type = "Welcome" /\ Speaks(item.packet)
             /\ item.lastSent = now /\ item.retries = 0
  BY <1>1, <1>2, <1>6, <1>8, <1>10
<1>12. \A e \in toClient' : e \in toClient \/ (e.at = now /\ Speaks(e.packet))
  BY <1>4, <1>6, <1>10
<1>13. issued' > issued => ~Found.welcomed /\ ~Resumable(packet.token)
  BY <1>1, <1>4, <1>5
<1>14. server'.last \in Nat /\ server'.last >= Found.last
  BY <1>1, <1>3, <1>5, <1>8
<1> QED
  BY <1>3, <1>4, <1>8, <1>9, <1>11, <1>12, <1>13, <1>14 DEF Heard

LEMMA ReceiveHeard ==
    ASSUME TypeInv, NEW d \in toServer, ServerReceive(d.packet), d.packet.type # "Goodbye"
    PROVE  Heard(d.packet)
<1>1. d.packet \in ClientPackets
  BY DEF TypeInv, Datagrams
<1>2. ~ServerGoodbye(d.packet)
  BY DEF ServerGoodbye
<1> QED
  BY <1>1, <1>2, HeardQuiet, HeardPing, HeardHello DEF ServerReceive

\* The types the steps below compare instants with.
LEMMA Instants ==
    ASSUME TypeInv
    PROVE  /\ now \in Nat
           /\ \A d \in toServer \cup toClient : d.at \in Nat
           /\ \A item \in client.pending :
                 item.lastSent \in Nat /\ item.retries \in 0..MaxRetries
           /\ server # Nothing =>
                 /\ server.last \in Nat /\ server.last <= now
                 /\ \A item \in server.pending :
                       item.lastSent \in Nat /\ item.retries \in 0..MaxRetries
  BY Numbers DEF TypeInv, Clients, Connections, ConnectionsTo, Items, Datagrams

LEMMA ClientKeepsTime ==
    ASSUME TypeInv, OnTime, UNCHANGED <<now, server, toClient>>, client' # ClientInit,
           \A d \in toServer' : d \in toServer \/ d.at = now,
           "server" \in ticked' <=> "server" \in ticked,
           client'.state # "Disconnected" =>
              \A item \in client'.pending :
                 /\ item.lastSent <= now
                 /\ item.retries < MaxRetries =>
                    now - item.lastSent <= IF "client" \in ticked' THEN ResendDelay - 1
                                           ELSE ResendDelay
    PROVE  OnTime'
<1>1. now \in Nat /\ MaxDelay \in Nat
  BY Instants, Lags
<1>2. Untouched'
  BY DEF Untouched, ClientInit
<1>3. (\A d \in toServer \cup toClient : d.at <= now /\ now <= d.at + MaxDelay)'
  BY <1>1 DEF OnTime
<1>4. (server # Nothing => Prompt(server.pending, "server"))'
  BY DEF OnTime, Prompt
<1>5. (Running => Prompt(client.pending, "client"))'
  BY DEF Running, Prompt
<1> QED
  BY <1>2, <1>3, <1>4, <1>5 DEF OnTime

\* A step of the client that receives nothing: it stays who it is or asks
\* anew; a Hello it makes is up to date.
LEMMA ClientKeepsWho ==
    ASSUME TypeInv, WelcomeInv, HelloInv, IdentityAgreement,
           UNCHANGED <<now, server, toClient>>,
           client'.token = client.token,
           client'.state = "Connected" =>
              client.state = "Connected" /\ client'.playerId = client.playerId,
           \A d \in toServer' :
              \/ d \in toServer
              \/ d.packet.type \in {"Ping", "PlayerState"}
              \/ /\ d.packet.type = "Hello" /\ client'.state # "Connected"
                 /\ d.packet.token = client.token
              \/ /\ d.at = now
                 /\ \E item \in client.pending :
                       /\ d.packet = item.packet /\ item.retries < MaxRetries
                       /\ now = item.lastSent + ResendDelay,
           \A new \in client'.pending :
              \/ /\ new.packet.type = "Hello" /\ client'.state # "Connected"
                 /\ new.packet.token = client.token
              \/ \E item \in client.pending :
                    /\ new.packet = item.packet
                    /\ \/ new.retries = item.retries /\ new.lastSent = item.lastSent
                       \/ /\ item.retries < MaxRetries /\ new.retries = item.retries + 1
                          /\ now = item.lastSent + ResendDelay /\ new.lastSent = now
    PROVE  WelcomeInv' /\ HelloInv' /\ IdentityAgreement'
<1>1. /\ now \in Nat
      /\ \A item \in client.pending :
            item.lastSent \in Nat /\ item.retries \in 0..MaxRetries
      /\ server # Nothing => server.last \in Nat
  BY Instants
<1>2. \A packet : Outdated(packet)' => Outdated(packet) /\ ~(client'.state # "Connected" /\ packet.token = client.token)
  BY DEF Outdated
<1>3. WelcomeInv'
  BY DEF WelcomeInv, Names
<1>4. IdentityAgreement'
  BY DEF IdentityAgreement
<1>5. ASSUME NEW d \in toServer'
      PROVE  /\ d.packet.type # "Goodbye"
             /\ d.packet.type = "Hello" /\ Outdated(d.packet)' =>
                   /\ server # Nothing /\ server.welcomed
                   /\ d.at <= server.last + Resending + MaxDelay + Resending
  <2>1. CASE d \in toServer
    BY <1>2, <2>1 DEF HelloInv
  <2>2. CASE d.packet.type \in {"Ping", "PlayerState"}
    BY <2>2
  <2>3. CASE /\ d.packet.type = "Hello" /\ client'.state # "Connected"
             /\ d.packet.token = client.token
    BY <1>2, <2>3
  <2>4. CASE /\ d.at = now
             /\ \E item \in client.pending :
                   /\ d.packet = item.packet /\ item.retries < MaxRetries
                   /\ now = item.lastSent + ResendDelay
    <3>1. PICK item \in client.pending :
             /\ d.packet = item.packet /\ item.retries < MaxRetries
             /\ now = item.lastSent + ResendDelay
      BY <2>4
    <3>2. item.packet.type = "Hello"
      BY DEF HelloInv
    <3>3. ASSUME Outdated(d.packet)'
          PROVE  /\ server # Nothing /\ server.welcomed
                 /\ d.at <= server.last + Resending + MaxDelay + Resending
      <4>1. /\ server # Nothing /\ server.welcomed
            /\ item.lastSent <= server.last + Resending + MaxDelay + Lag(item.retries)
        BY <1>2, <3>1, <3>3 DEF HelloInv
      <4>2. /\ Lag(item.retries) \in Nat
            /\ Lag(item.retries) + ResendDelay <= Resending
        BY <1>1, <3>1, Lags
      <4> QED
        BY <1>1, <2>4, <3>1, <4>1, <4>2, Lags
    <3> QED
      BY <3>1, <3>2, <3>3
  <2> QED
    BY <2>1, <2>2, <2>3, <2>4
<1>6. ASSUME NEW new \in client'.pending
      PROVE  /\ new.packet.type = "Hello"
             /\ new.retries < MaxRetries /\ Outdated(new.packet)' =>
                   /\ server # Nothing /\ server.welcomed
                   /\ new.lastSent <= server.last + Resending + MaxDelay + Lag(new.retries)
  <2>1. CASE /\ new.packet.type = "Hello" /\ client'.state # "Connected"
             /\ new.packet.token = client.token
    BY <1>2, <2>1
  <2>2. CASE \E item \in client.pending :
                /\ new.packet = item.packet
                /\ \/ new.retries = item.retries /\ new.lastSent = item.lastSent
                   \/ /\ item.retries < MaxRetries /\ new.retries = item.retries + 1
                      /\ now = item.lastSent + ResendDelay /\ new.lastSent = now
    <3>1. PICK item \in client.pending :
             /\ new.packet = item.packet
             /\ \/ new.retries = item.retries /\ new.lastSent = item.lastSent
                \/ /\ item.retries < MaxRetries /\ new.retries = item.retries + 1
                   /\ now = item.lastSent + ResendDelay /\ new.lastSent = now
      BY <2>2
    <3>2. item.packet.type = "Hello"
      BY DEF HelloInv
    <3>3. ASSUME new.retries < MaxRetries, Outdated(new.packet)'
          PROVE  /\ server # Nothing /\ server.welcomed
                 /\ new.lastSent <= server.last + Resending + MaxDelay + Lag(new.retries)
      <4>1. item.retries < MaxRetries /\ Lag(item.retries) \in Nat
            /\ Lag(item.retries + 1) = Lag(item.retries) + ResendDelay
        BY <1>1, <3>1, <3>3, Lags
      <4>2. /\ server # Nothing /\ server.welcomed
            /\ item.lastSent <= server.last + Resending + MaxDelay + Lag(item.retries)
        BY <1>2, <3>1, <3>3, <4>1 DEF HelloInv
      <4> QED
        BY <1>1, <3>1, <4>1, <4>2, Lags
    <3> QED
      BY <3>1, <3>2, <3>3
  <2> QED
    BY <2>1, <2>2
<1>7. HelloInv'
  BY <1>5, <1>6 DEF HelloInv
<1> QED
  BY <1>3, <1>4, <1>7

LEMMA ClientStartWho == ASSUME TypeInv, WhoInv, ClientStart PROVE WhoInv'
<1> DEFINE hello == ClientPacket("Hello")
<1>1. /\ server = Nothing /\ toServer = {} /\ toClient = {} /\ client.token = 0
  BY DEF ClientStart, WhoInv, OnTime, Untouched, ClientInit
<1>2. /\ client' = [client EXCEPT !.state = "Handshaking", !.lastHello = now,
                        !.next = @ + 1, !.pending = {Item(hello)},
                        !.hellos = {hello.seq}]
      /\ toServer' = {Sent(hello)}
      /\ UNCHANGED <<now, server, toClient, ticked>>
  BY <1>1 DEF ClientStart
<1>3. /\ hello.type = "Hello" /\ hello.token = client.token
      /\ Sent(hello).packet = hello /\ Sent(hello).at = now
      /\ Item(hello).packet = hello /\ Item(hello).lastSent = now
  BY DEF ClientPacket, Sent, Item
<1> HIDE DEF hello
<1>4. /\ client'.state = "Handshaking" /\ client'.token = client.token
      /\ client'.pending = {Item(hello)}
  BY <1>2 DEF TypeInv, Clients
<1>5. OnTime'
  <2>1. client' # ClientInit
    BY <1>4 DEF ClientInit
  <2>2. now - now <= ResendDelay - 1 /\ now - now <= ResendDelay /\ now <= now
    BY Instants, Lags
  <2> QED
    BY <1>2, <1>3, <1>4, <2>1, <2>2, ClientKeepsTime DEF WhoInv
<1>6. WelcomeInv' /\ IdentityAgreement'
  BY <1>1, <1>2, <1>4 DEF WelcomeInv, IdentityAgreement
<1>7. HelloInv'
  BY <1>2, <1>3, <1>4 DEF HelloInv, Outdated
<1> QED
  BY <1>5, <1>6, <1>7 DEF WhoInv

LEMMA ClientStopWho == ASSUME TypeInv, WhoInv, ClientStop PROVE WhoInv'
<1> DEFINE goodbye == ClientPacket("Goodbye")
<1>1. /\ client' = [client EXCEPT !.state = "Disconnected", !.next = @ + 1,
                                  !.pending = @ \cup {Item(goodbye)}]
      /\ toServer' = toServer \cup {Sent(goodbye)}
      /\ UNCHANGED <<now, server, toClient, ticked>>
  BY DEF ClientStop
<1>2. Sent(goodbye).at = now
  BY DEF Sent
<1> HIDE DEF goodbye
<1>3. client'.state = "Disconnected" /\ client'.next = client.next + 1
      /\ client.next \in Nat \ {0}
  BY <1>1, Numbers DEF TypeInv, Clients
<1>4. client' # ClientInit
  BY <1>3 DEF ClientInit
<1>5. OnTime'
  BY <1>1, <1>2, <1>3, <1>4, ClientKeepsTime DEF WhoInv
<1> QED
  BY <1>3, <1>5 DEF WhoInv, Running

LEMMA ClientSubmitWho == ASSUME TypeInv, WhoInv, ClientSubmit PROVE WhoInv'
<1> DEFINE state == [ClientPacket("PlayerState") EXCEPT !.report = client.reports + 1]
<1>1. /\ client' = [client EXCEPT !.next = @ + 1, !.reports = @ + 1]
      /\ toServer' = toServer \cup {Sent(state)}
      /\ UNCHANGED <<now, server, toClient, ticked>>
      /\ client.state = "Connected"
  BY DEF ClientSubmit
<1>2. Sent(state).at = now /\ Sent(state).packet.type = "PlayerState"
  BY DEF Sent, ClientPacket
<1> HIDE DEF state
<1>3. /\ client'.state = "Connected" /\ client'.token = client.token
      /\ client'.playerId = client.playerId /\ client'.pending = client.pending
  BY <1>1 DEF TypeInv, Clients
<1>4. client' # ClientInit /\ Running
  BY <1>1, <1>3 DEF ClientInit, Running
<1>5. OnTime'
  BY <1>1, <1>2, <1>3, <1>4, ClientKeepsTime DEF WhoInv, OnTime, Prompt
<1>6. WelcomeInv' /\ HelloInv' /\ IdentityAgreement'
  BY <1>1, <1>2, <1>3, <1>4, ClientKeepsWho DEF WhoInv
<1> QED
  BY <1>5, <1>6 DEF WhoInv

LEMMA ClientTickWho == ASSUME TypeInv, WhoInv, ClientTick PROVE WhoInv'
<1>1. /\ toServer' = toServer \cup {Sent(p) : p \in Said \cup Pinged} \cup Resends(Tracked)
      /\ client' = [client EXCEPT
                 !.next          = IF SayHello \/ SayPing THEN @ + 1 ELSE @,
                 !.lastHello     = IF SayHello THEN now ELSE @,
                 !.lastHeartbeat = IF SayPing THEN now ELSE @,
                 !.pending       = Aged(Tracked),
                 !.hellos        = @ \cup {p.seq : p \in Said},
                 !.state         = IF TimedOut THEN "Handshaking" ELSE @,
                 !.playerId      = IF TimedOut THEN 0 ELSE @,
                 !.lastReceive   = IF TimedOut THEN now ELSE @]
      /\ client.state # "Disconnected" /\ "client" \notin ticked
      /\ ticked' = ticked \cup {"client"}
      /\ UNCHANGED <<now, server, toClient>>
  BY DEF ClientTick, Said, Pinged, Tracked
<1>2. /\ client'.state = IF TimedOut THEN "Handshaking" ELSE client.state
      /\ client'.token = client.token
      /\ client'.playerId = IF TimedOut THEN 0 ELSE client.playerId
      /\ client'.pending = Aged(Tracked)
  BY <1>1 DEF TypeInv, Clients
<1>3. /\ client'.state # "Disconnected"
      /\ client'.state = "Connected" =>
            client.state = "Connected" /\ client'.playerId = client.playerId
      /\ SayHello => client'.state # "Connected"
  BY <1>1, <1>2 DEF TimedOut, SayHello
<1>4. \A p \in Said : /\ p.type = "Hello" /\ p.token = client.token
                      /\ client'.state # "Connected" /\ p \in ClientPackets
  BY <1>3, ClientPacketType DEF Said, ClientPacket
<1>5. \A p \in Pinged : p.type = "Ping"
  BY DEF Pinged, ClientPacket
<1>6. \A p : /\ Sent(p).packet = p /\ Sent(p).at = now
             /\ Item(p).packet = p /\ Item(p).lastSent = now /\ Item(p).retries = 0
  BY DEF Sent, Item
<1>7. Tracked \in SUBSET Items(ClientPackets)
  BY <1>4, ItemType DEF Tracked, TypeInv, Clients
<1>8. Prompt(Tracked, "client")
  <2>1. Prompt(client.pending, "client")
    BY <1>1 DEF WhoInv, OnTime, Running
  <2>2. now - now <= ResendDelay /\ now <= now
    BY Instants, Lags
  <2> QED
    BY <1>1, <1>6, <2>1, <2>2 DEF Prompt, Tracked
<1>9. /\ \A d \in Resends(Tracked) :
            /\ d.at = now
            /\ \E item \in Tracked :
                 /\ d.packet = item.packet /\ item.retries < MaxRetries
                 /\ now = item.lastSent + ResendDelay
      /\ \A new \in Aged(Tracked) : \E item \in Tracked :
            /\ new.packet = item.packet
            /\ \/ new.retries = item.retries /\ new.lastSent = item.lastSent
               \/ /\ item.retries < MaxRetries /\ new.retries = item.retries + 1
                  /\ now = item.lastSent + ResendDelay /\ new.lastSent = now
      /\ \A new \in Aged(Tracked) :
            /\ new.lastSent <= now
            /\ new.retries < MaxRetries => now - new.lastSent <= ResendDelay - 1
  BY <1>1, <1>7, <1>8, Resent
<1>10. OnTime'
  <2>1. client' # ClientInit
    BY <1>3 DEF ClientInit
  <2>2. \A d \in toServer' : d \in toServer \/ d.at = now
    BY <1>1, <1>6, <1>9
  <2> QED
    BY <1>1, <1>2, <1>9, <2>1, <2>2, ClientKeepsTime DEF WhoInv
<1>11. \A item \in Tracked :
          \/ item \in client.pending
          \/ /\ item.packet.type = "Hello" /\ client'.state # "Connected"
             /\ item.packet.token = client.token
  BY <1>4, <1>6 DEF Tracked
<1>12. \A d \in toServer' :
          \/ d \in toServer
          \/ d.packet.type \in {"Ping", "PlayerState"}
          \/ /\ d.packet.type = "Hello" /\ client'.state # "Connected"
             /\ d.packet.token = client.token
          \/ /\ d.at = now
             /\ \E item \in client.pending :
                   /\ d.packet = item.packet /\ item.retries < MaxRetries
                   /\ now = item.lastSent + ResendDelay
  <2> SUFFICES ASSUME NEW d \in toServer', d \notin toServer
               PROVE  \/ d.packet.type \in {"Ping", "PlayerState"}
                      \/ /\ d.packet.type = "Hello" /\ client'.state # "Connected"
                         /\ d.packet.token = client.token
                      \/ /\ d.at = now
                         /\ \E item \in client.pending :
                               /\ d.packet = item.packet /\ item.retries < MaxRetries
                               /\ now = item.lastSent + ResendDelay
    OBVIOUS
  <2>1. CASE d \in {Sent(p) : p \in Said \cup Pinged}
    BY <1>4, <1>5, <1>6, <2>1
  <2>2. CASE d \in Resends(Tracked)
    BY <1>9, <1>11, <2>2
  <2> QED
    BY <1>1, <2>1, <2>2
<1>13. WelcomeInv' /\ HelloInv' /\ IdentityAgreement'
  <2>1. WelcomeInv /\ HelloInv /\ IdentityAgreement
    BY <1>1 DEF WhoInv, Running
  <2>2. \A new \in client'.pending :
          \/ /\ new.packet.type = "Hello" /\ client'.state # "Connected"
             /\ new.packet.token = client.token
          \/ \E item \in client.pending :
                /\ new.packet = item.packet
                /\ \/ new.retries = item.retries /\ new.lastSent = item.lastSent
                   \/ /\ item.retries < MaxRetries /\ new.retries = item.retries + 1
                      /\ now = item.lastSent + ResendDelay /\ new.lastSent = now
    BY <1>2, <1>9, <1>11
  <2> HIDE DEF SayHello, TimedOut
  <2> QED
    BY <1>1, <1>2, <1>3, <1>12, <2>1, <2>2, ClientKeepsWho
<1> QED
  BY <1>10, <1>13 DEF WhoInv

LEMMA ClientReceiveWho ==
    ASSUME TypeInv, WhoInv, NEW d \in toClient, ClientReceive(d.packet) PROVE WhoInv'
<1> DEFINE packet == d.packet
           r == Received(packet)
<1>1. /\ client.state # "Disconnected"
      /\ UNCHANGED <<now, server, toServer, toClient, ticked>>
      /\ packet \in ServerPackets
  BY DEF ClientReceive, TypeInv, Datagrams
<1>2. r \in Clients /\ r.state = client.state /\ r.token = client.token
      /\ r.playerId = client.playerId
  BY <1>1, ReceivedType DEF Received, TypeInv, Clients
<1>3. client'.pending \subseteq client.pending
  BY ClientReceiveType DEF Unacknowledged
<1>4. \/ client' = r \/ client' = [r EXCEPT !.lastReceive = now]
      \/ /\ packet.type = "Welcome"
         /\ client' = [r EXCEPT !.lastReceive = now, !.playerId = packet.playerId,
                             !.token = packet.token, !.state = "Connected"]
  BY DEF ClientReceive
<1>5. WelcomeInv /\ HelloInv /\ IdentityAgreement /\ OnTime
  BY <1>1 DEF WhoInv, Running
<1> HIDE DEF r, packet
<1>6. client'.state # "Disconnected"
  BY <1>1, <1>2, <1>4 DEF Clients
<1>7. OnTime'
  <2>1. client' # ClientInit
    BY <1>6 DEF ClientInit
  <2>2. Prompt(client.pending, "client")
    BY <1>1, <1>5 DEF OnTime, Running
  <2> QED
    BY <1>1, <1>3, <1>5, <2>1, <2>2, ClientKeepsTime DEF Prompt
<1>8. CASE client' = r \/ client' = [r EXCEPT !.lastReceive = now]
  <2>1. /\ client'.state = client.state /\ client'.token = client.token
        /\ client'.playerId = client.playerId
    BY <1>2, <1>8 DEF Clients
  <2> QED
    BY <1>1, <1>3, <1>5, <1>7, <2>1, ClientKeepsWho DEF WhoInv
<1>9. CASE /\ packet.type = "Welcome"
           /\ client' = [r EXCEPT !.lastReceive = now, !.playerId = packet.playerId,
                             !.token = packet.token, !.state = "Connected"]
  <2>1. /\ client'.state = "Connected" /\ client'.token = packet.token
        /\ client'.playerId = packet.playerId
    BY <1>2, <1>9 DEF Clients
  <2>2. Names(packet) /\ d.at <= server.last + Resending
    BY <1>5, <1>9 DEF WelcomeInv, packet
  <2>3. now <= server.last + Resending + MaxDelay
    <3>1. now <= d.at + MaxDelay
      BY <1>5 DEF OnTime
    <3>2. server.last \in Nat /\ d.at \in Nat /\ now \in Nat
      BY <2>2, Instants DEF Names
    <3> QED
      BY <2>2, <3>1, <3>2, Lags
  <2>4. WelcomeInv' /\ IdentityAgreement'
    BY <1>1, <1>5, <2>1, <2>2 DEF WelcomeInv, IdentityAgreement, Names
  <2>5. ASSUME NEW e \in toServer
        PROVE  e.at <= server.last + Resending + MaxDelay + Resending
    <3>1. e.at <= now /\ e.at \in Nat /\ server.last \in Nat /\ now \in Nat
      BY <1>5, <2>2, Instants DEF OnTime, Names
    <3> QED
      BY <2>3, <3>1, Lags
  <2>6. ASSUME NEW item \in client.pending, item.retries < MaxRetries
        PROVE  item.lastSent <= server.last + Resending + MaxDelay + Lag(item.retries)
    <3>1. /\ item.lastSent \in Nat /\ server.last \in Nat /\ now \in Nat
          /\ item.retries \in 0..MaxRetries
      BY <2>2, Instants DEF Names
    <3>2. item.lastSent <= now
      BY <1>1, <1>5 DEF OnTime, Prompt, Running
    <3> QED
      BY <2>3, <3>1, <3>2, Lags
  <2>7. HelloInv'
    BY <1>1, <1>3, <1>5, <2>2, <2>5, <2>6 DEF HelloInv, Names
  <2> QED
    BY <1>7, <2>4, <2>7 DEF WhoInv
<1> QED
  BY <1>4, <1>8, <1>9

LEMMA ServerReceiveWho ==
    ASSUME TypeInv, WhoInv, NEW d \in toServer, ServerReceive(d.packet) PROVE WhoInv'
<1>1. UNCHANGED <<now, client, toServer, ticked>>
  BY DEF ServerReceive
<1>2. client # ClientInit
  BY DEF WhoInv, OnTime, Untouched
<1>3. /\ \A e \in toServer : e.at <= now /\ now <= e.at + MaxDelay
      /\ \A e \in toClient : e.at <= now /\ now <= e.at + MaxDelay
      /\ now \in Nat /\ MaxDelay \in Nat /\ ResendDelay \in Nat \ {0}
  BY Instants, Lags DEF WhoInv, OnTime
<1>4. d.packet \in ClientPackets
  BY DEF TypeInv, Datagrams
<1>5. CASE d.packet.type = "Goodbye"
  <2>1. ~Running
    BY <1>5 DEF WhoInv, HelloInv
  <2>2. server'.pending \subseteq Found.pending /\ toClient' = toClient
    <3> DEFINE n == Noted(d.packet)
               last == IF now > ServerPatience THEN now - ServerPatience - 1 ELSE 1
    <3>1. /\ n \in ConnectionsTo(opened + 1, issued, now, ServerPackets)
          /\ n.pending \subseteq Found.pending
      BY <1>4, NotedKeeps
    <3>2. (server' = n \/ server' = [n EXCEPT !.last = last]) /\ toClient' = toClient
      BY <1>5 DEF ServerReceive, ServerDiscard, ServerGoodbye, ServerHello,
                  ServerPlayerState, ServerPing
    <3> HIDE DEF n, last
    <3> QED
      BY <3>1, <3>2 DEF ConnectionsTo
  <2>3. Prompt(Found.pending, "server")
    BY DEF WhoInv, OnTime, Found, NewConnection, Prompt
  <2>4. OnTime'
    BY <1>1, <1>2, <1>3, <2>1, <2>2, <2>3 DEF OnTime, Untouched, Prompt, Running
  <2> QED
    BY <1>1, <2>1, <2>4 DEF WhoInv, Running
<1>6. CASE d.packet.type # "Goodbye"
  <2>1. Heard(d.packet)
    BY <1>6, ReceiveHeard
  <2>2. OnTime'
    <3>1. Prompt(Found.pending, "server")
      BY DEF WhoInv, OnTime, Found, NewConnection, Prompt
    <3>2. \A e \in toClient' : e.at <= now /\ now <= e.at + MaxDelay
      BY <1>3, <2>1 DEF Heard
    <3>3. now - now <= ResendDelay - 1 /\ now - now <= ResendDelay /\ now <= now
      BY <1>3
    <3>4. Prompt(server'.pending, "server")
      BY <2>1, <3>1, <3>3 DEF Heard, Prompt
    <3>5. (server # Nothing => Prompt(server.pending, "server"))'
      BY <1>1, <3>4 DEF Prompt
    <3>6. (Running => Prompt(client.pending, "client"))'
      BY <1>1 DEF WhoInv, OnTime, Prompt, Running
    <3> QED
      BY <1>1, <1>2, <1>3, <3>2, <3>5, <3>6 DEF OnTime, Untouched
  <2>3. ASSUME Running PROVE WelcomeInv' /\ HelloInv' /\ IdentityAgreement'
    <3>1. WelcomeInv /\ HelloInv /\ IdentityAgreement
      BY <2>3 DEF WhoInv
    <3>2. /\ server'.last \in Nat /\ server'.last >= Found.last
          /\ Found.last \in Nat
      BY <1>4, <2>1, NotedKeeps DEF Heard
    <3>3. \A packet : Names(packet) => /\ Found = server /\ Names(packet)'
      BY <2>1 DEF Names, Found, Heard
    <3>4. WelcomeInv'
      <4>1. ASSUME NEW item \in server'.pending
            PROVE  /\ item.packet.type = "Welcome" /\ Names(item.packet)'
                   /\ item.lastSent <= server'.last + Lag(item.retries)
        <5>1. CASE item \in Found.pending
          <6>1. server # Nothing /\ Found = server
            BY <5>1 DEF Found, NewConnection
          <6>2. /\ item.packet.type = "Welcome" /\ Names(item.packet)
                /\ item.lastSent <= server.last + Lag(item.retries)
            BY <3>1, <5>1, <6>1 DEF WelcomeInv
          <6>3. item.lastSent \in Nat /\ Lag(item.retries) \in Nat
            BY <5>1, <6>1, Instants, Lags
          <6> QED
            BY <3>2, <3>3, <6>1, <6>2, <6>3
        <5>2. CASE /\ item.packet.type = "Welcome" /\ Speaks(item.packet)
                   /\ item.lastSent = now /\ item.retries = 0
          BY <1>3, <2>1, <5>2, Lags DEF Speaks, Names, Heard
        <5> QED
          BY <2>1, <5>1, <5>2 DEF Heard
      <4>2. ASSUME NEW e \in toClient', e.packet.type = "Welcome"
            PROVE  Names(e.packet)' /\ e.at <= server'.last + Resending
        <5>1. CASE e \in toClient
          <6>1. Names(e.packet) /\ e.at <= server.last + Resending /\ e.at \in Nat
            BY <3>1, <4>2, <5>1, Instants DEF WelcomeInv
          <6> QED
            BY <3>2, <3>3, <6>1, Lags
        <5>2. CASE e.at = now /\ Speaks(e.packet)
          BY <1>3, <2>1, <4>2, <5>2, Lags DEF Speaks, Names, Heard
        <5> QED
          BY <2>1, <5>1, <5>2 DEF Heard
      <4> QED
        BY <4>1, <4>2 DEF WelcomeInv
    <3>5. HelloInv'
      <4>1. server # Nothing /\ server.welcomed =>
               server' # Nothing /\ server'.welcomed /\ Found = server
        BY <2>1 DEF Heard, Found
      <4>2. ASSUME NEW e \in toServer, e.packet.type = "Hello", Outdated(e.packet)
            PROVE  /\ server' # Nothing /\ server'.welcomed
                   /\ e.at <= server'.last + Resending + MaxDelay + Resending
        <5>1. /\ server # Nothing /\ server.welcomed /\ e.at \in Nat
              /\ e.at <= server.last + Resending + MaxDelay + Resending
          BY <3>1, <4>2, Instants DEF HelloInv
        <5> QED
          BY <3>2, <4>1, <5>1, Lags
      <4>3. ASSUME NEW item \in client.pending, item.retries < MaxRetries,
                   Outdated(item.packet)
            PROVE  /\ server' # Nothing /\ server'.welcomed
                   /\ item.lastSent <=
                         server'.last + Resending + MaxDelay + Lag(item.retries)
        <5>1. /\ server # Nothing /\ server.welcomed
              /\ item.lastSent <= server.last + Resending + MaxDelay + Lag(item.retries)
              /\ item.lastSent \in Nat /\ Lag(item.retries) \in Nat
          BY <3>1, <4>3, Instants, Lags DEF HelloInv
        <5> QED
          BY <3>2, <4>1, <5>1, Lags
      <4> QED
        BY <1>1, <3>1, <4>2, <4>3 DEF HelloInv, Outdated
    <3>6. IdentityAgreement'
      <4> SUFFICES ASSUME client.state = "Connected", server'.welcomed
                   PROVE  client.playerId = server'.playerId /\ client.token = server'.token
        BY <1>1 DEF IdentityAgreement
      <4>1. server # Nothing /\ server.welcomed /\ Found = server
        <5>1. CASE Found.welcomed
          BY <5>1 DEF Found, NewConnection
        <5>2. CASE ~Found.welcomed
          <6>1. d.packet.type = "Hello" /\ Outdated(d.packet)
            BY <2>1, <5>2 DEF Heard, Outdated
          <6>2. server # Nothing /\ server.welcomed
            BY <3>1, <6>1 DEF HelloInv
          <6> QED
            BY <5>2, <6>2 DEF Found
        <5> QED
          BY <5>1, <5>2
      <4> QED
        BY <2>1, <3>1, <4>1 DEF Heard, IdentityAgreement
    <3> QED
      BY <3>4, <3>5, <3>6
  <2> QED
    BY <1>1, <2>2, <2>3 DEF WhoInv, Running
<1> QED
  BY <1>5, <1>6

\* When the server's patience ends no Welcome of the connection is on its way
\* any more, nor a Hello it could take for a new player's.
LEMMA PatienceCovers ==
    ASSUME Patient, TypeInv, WhoInv, Running, server # Nothing, Silent(server)
    PROVE  /\ \A d \in toClient : d.packet.type # "Welcome"
           /\ \A item \in server.pending : ~(item.retries < MaxRetries)
           /\ \A d \in toServer : d.packet.type = "Hello" => ~Outdated(d.packet)
           /\ \A item \in client.pending :
                 item.retries < MaxRetries => ~Outdated(item.packet)
<1>1. now > server.last + 2 * (Resending + MaxDelay)
  BY Instants, Numbers, Lags DEF Silent, Patient
<1>2. /\ now \in Nat /\ server.last \in Nat
      /\ Resending \in Nat /\ MaxDelay \in Nat /\ ResendDelay \in Nat \ {0}
  BY Instants, Lags
<1>3. /\ \A d \in toServer \cup toClient : d.at \in Nat /\ now <= d.at + MaxDelay
      /\ Prompt(server.pending, "server") /\ Prompt(client.pending, "client")
  BY Instants DEF WhoInv, OnTime
<1>4. ASSUME NEW d \in toClient, d.packet.type = "Welcome" PROVE FALSE
  <2>1. d.at <= server.last + Resending
    BY <1>4 DEF WhoInv, WelcomeInv
  <2> QED
    BY <1>1, <1>2, <1>3, <2>1
<1>5. ASSUME NEW item \in server.pending, item.retries < MaxRetries PROVE FALSE
  <2>1. /\ item.lastSent <= server.last + Lag(item.retries)
        /\ item.lastSent \in Nat /\ Lag(item.retries) \in Nat
        /\ Lag(item.retries) + ResendDelay <= Resending
    BY <1>5, Instants, Lags DEF WhoInv, WelcomeInv
  <2>2. now - item.lastSent <= ResendDelay
    BY <1>2, <1>3, <1>5, <2>1 DEF Prompt
  <2> QED
    BY <1>1, <1>2, <2>1, <2>2
<1>6. ASSUME NEW d \in toServer, d.packet.type = "Hello", Outdated(d.packet) PROVE FALSE
  <2>1. d.at <= server.last + Resending + MaxDelay + Resending
    BY <1>6 DEF WhoInv, HelloInv
  <2> QED
    BY <1>1, <1>2, <1>3, <2>1
<1>7. ASSUME NEW item \in client.pending, item.retries < MaxRetries, Outdated(item.packet)
      PROVE  FALSE
  <2>1. /\ item.lastSent <= server.last + Resending + MaxDelay + Lag(item.retries)
        /\ item.lastSent \in Nat /\ Lag(item.retries) \in Nat
        /\ Lag(item.retries) + ResendDelay <= Resending
    BY <1>7, Instants, Lags DEF WhoInv, HelloInv
  <2>2. now - item.lastSent <= ResendDelay
    BY <1>2, <1>3, <1>7, <2>1 DEF Prompt
  <2> QED
    BY <1>1, <1>2, <2>1, <2>2
<1> QED
  BY <1>4, <1>5, <1>6, <1>7

LEMMA ServerTickWho == ASSUME Patient, TypeInv, WhoInv, ServerTick PROVE WhoInv'
<1>1. /\ UNCHANGED <<now, client, toServer>> /\ "server" \notin ticked
      /\ ticked' = ticked \cup {"server"}
      /\ server' = IF server = Nothing \/ Pruned(server) THEN Nothing
                   ELSE [server EXCEPT !.next = IF Broadcasts THEN @ + 1 ELSE @,
                                       !.pending = Aged(@)]
      /\ toClient' = toClient
            \cup {Sent(p) : p \in IF Broadcasts THEN {ServerPacket(server, "Snapshot")} ELSE {}}
            \cup IF server = Nothing THEN {} ELSE Resends(server.pending)
  BY DEF ServerTick
<1>2. OnTime /\ now \in Nat /\ MaxDelay \in Nat /\ ResendDelay \in Nat \ {0}
  BY Instants, Lags DEF WhoInv
<1>3. ASSUME server # Nothing
      PROVE  /\ \A d \in Resends(server.pending) :
                   /\ d.at = now
                   /\ \E item \in server.pending :
                        /\ d.packet = item.packet /\ item.retries < MaxRetries
                        /\ now = item.lastSent + ResendDelay
             /\ \A new \in Aged(server.pending) : \E item \in server.pending :
                   /\ new.packet = item.packet
                   /\ \/ new.retries = item.retries /\ new.lastSent = item.lastSent
                      \/ /\ item.retries < MaxRetries /\ new.retries = item.retries + 1
                         /\ now = item.lastSent + ResendDelay /\ new.lastSent = now
             /\ \A new \in Aged(server.pending) :
                   /\ new.lastSent <= now
                   /\ new.retries < MaxRetries => now - new.lastSent <= ResendDelay - 1
  <2>1. server.pending \in SUBSET Items(ServerPackets)
    BY <1>3 DEF TypeInv, Connections, ConnectionsTo
  <2>2. Prompt(server.pending, "server")
    BY <1>2, <1>3 DEF OnTime
  <2> QED
    BY <1>1, <2>1, <2>2, Resent
<1>4. ASSUME server # Nothing, ~Pruned(server)
      PROVE  /\ server'.pending = Aged(server.pending) /\ server'.last = server.last
             /\ server'.welcomed = server.welcomed /\ server'.token = server.token
             /\ server'.playerId = server.playerId /\ server' # Nothing
  <2>1. server \in Connections
    BY <1>4 DEF TypeInv
  <2>2. server' = [server EXCEPT !.next = IF Broadcasts THEN @ + 1 ELSE @,
                                 !.pending = Aged(@)]
    BY <1>1, <1>4
  <2>3. TypeInv'
    BY ServerTickType
  <2>4. /\ server'.pending = Aged(server.pending) /\ server'.last = server.last
        /\ server'.welcomed = server.welcomed /\ server'.token = server.token
        /\ server'.playerId = server.playerId
    BY <2>1, <2>2 DEF Connections, ConnectionsTo
  <2>5. server' # Nothing
    <3>1. Aged(server.pending) \in SUBSET Items(ServerPackets)
      BY <2>1, PendingTypes DEF Connections, ConnectionsTo
    <3>2. Broadcasts => server.next + 1 \in 1..(MaxServerSeq + 1)
      BY <2>1, Numbers DEF Broadcasts, Connections, ConnectionsTo
    <3>3. server' \in ConnectionsTo(opened, issued, now, ServerPackets)
      BY <2>1, <2>2, <3>1, <3>2 DEF Connections, ConnectionsTo
    <3>4. opened \in Nat /\ issued \in Nat
      BY DEF TypeInv
    <3> QED
      BY <3>3, <3>4, ConnectionIsSomething DEF ServerPackets
  <2> QED
    BY <2>4, <2>5
<1>5. OnTime'
  <2>1. Untouched'
    <3> SUFFICES ASSUME client = ClientInit
                 PROVE  server' = Nothing /\ resume' = Nothing /\ toClient' = {}
      BY <1>1, <1>2 DEF OnTime, Untouched
    <3>1. server = Nothing /\ resume = Nothing /\ toClient = {}
      BY <1>2 DEF OnTime, Untouched
    <3> QED
      BY <1>1, <3>1 DEF ServerTick, Broadcasts, Remembered, Pruned
  <2>2. \A d \in toClient' : d \in toClient \/ d.at = now
    BY <1>1, <1>3 DEF Sent
  <2>3. (\A d \in toServer \cup toClient : d.at <= now /\ now <= d.at + MaxDelay)'
    BY <1>1, <1>2, <2>2 DEF OnTime
  <2>4. (server # Nothing => Prompt(server.pending, "server"))'
    BY <1>1, <1>3, <1>4 DEF Prompt
  <2>5. (Running => Prompt(client.pending, "client"))'
    BY <1>1, <1>2 DEF OnTime, Prompt, Running
  <2> QED
    BY <2>1, <2>3, <2>4, <2>5 DEF OnTime
<1>6. ASSUME Running PROVE WelcomeInv' /\ HelloInv' /\ IdentityAgreement'
  <2>1. WelcomeInv /\ HelloInv /\ IdentityAgreement
    BY <1>6 DEF WhoInv
  <2>2. \A d \in toClient' :
           \/ d \in toClient
           \/ d.packet.type = "Snapshot"
           \/ server # Nothing /\ d \in Resends(server.pending)
    BY <1>1 DEF Sent, ServerPacket
  <2>3. CASE server = Nothing
    <3>1. server' = Nothing /\ \A d \in toClient' : d.packet.type # "Welcome"
      BY <1>1, <2>1, <2>2, <2>3 DEF WelcomeInv, Names
    <3> QED
      BY <1>1, <2>1, <2>3, <3>1 DEF WelcomeInv, HelloInv, IdentityAgreement, Outdated
  <2>4. CASE server # Nothing /\ Pruned(server)
    <3>1. Silent(server)
      BY <2>4 DEF Pruned
    <3>2. /\ \A d \in toClient : d.packet.type # "Welcome"
          /\ \A item \in server.pending : ~(item.retries < MaxRetries)
          /\ \A d \in toServer : d.packet.type = "Hello" => ~Outdated(d.packet)
          /\ \A item \in client.pending :
                item.retries < MaxRetries => ~Outdated(item.packet)
      BY <1>6, <2>4, <3>1, PatienceCovers
    <3>3. server' = Nothing /\ \A d \in toClient' : d.packet.type # "Welcome"
      BY <1>1, <1>3, <2>2, <2>4, <3>2
    <3> QED
      BY <1>1, <2>1, <3>2, <3>3 DEF WelcomeInv, HelloInv, IdentityAgreement, Outdated
  <2>5. CASE server # Nothing /\ ~Pruned(server)
    <3>1. /\ server'.pending = Aged(server.pending) /\ server'.last = server.last
          /\ server'.welcomed = server.welcomed /\ server'.token = server.token
          /\ server'.playerId = server.playerId /\ server' # Nothing
      BY <1>4, <2>5
    <3>2. \A packet : Names(packet) => Names(packet)'
      BY <3>1 DEF Names
    <3>3. /\ server.last \in Nat
          /\ \A item \in server.pending :
                item.lastSent \in Nat /\ item.retries \in 0..MaxRetries
      BY <2>5, Instants
    <3>4. ASSUME NEW item \in server.pending, item.retries < MaxRetries,
                 now = item.lastSent + ResendDelay
          PROVE  /\ now <= server.last + Lag(item.retries + 1)
                 /\ now <= server.last + Resending
      <4>1. /\ item.lastSent <= server.last + Lag(item.retries)
            /\ Lag(item.retries) \in Nat /\ Lag(item.retries + 1) \in Nat
            /\ Lag(item.retries + 1) = Lag(item.retries) + ResendDelay
            /\ Lag(item.retries + 1) <= Resending
        BY <2>1, <2>5, <3>3, <3>4, Lags DEF WelcomeInv
      <4> QED
        BY <1>2, <3>3, <3>4, <4>1, Lags
    <3>5. ASSUME NEW new \in server'.pending
          PROVE  /\ new.packet.type = "Welcome" /\ Names(new.packet)'
                 /\ new.lastSent <= server'.last + Lag(new.retries)
      <4>1. PICK item \in server.pending :
               /\ new.packet = item.packet
               /\ \/ new.retries = item.retries /\ new.lastSent = item.lastSent
                  \/ /\ item.retries < MaxRetries /\ new.retries = item.retries + 1
                     /\ now = item.lastSent + ResendDelay /\ new.lastSent = now
        BY <1>3, <2>5, <3>1
      <4>2. /\ item.packet.type = "Welcome" /\ Names(item.packet)
            /\ item.lastSent <= server.last + Lag(item.retries)
        BY <2>1, <2>5 DEF WelcomeInv
      <4> QED
        BY <3>1, <3>2, <3>4, <4>1, <4>2
    <3>6. ASSUME NEW d \in toClient', d.packet.type = "Welcome"
          PROVE  Names(d.packet)' /\ d.at <= server'.last + Resending
      <4>1. CASE d \in toClient
        BY <2>1, <3>1, <3>2, <3>6, <4>1 DEF WelcomeInv
      <4>2. CASE d \in Resends(server.pending)
        <5>1. PICK item \in server.pending :
                 /\ d.packet = item.packet /\ item.retries < MaxRetries
                 /\ now = item.lastSent + ResendDelay
          BY <1>3, <2>5, <4>2
        <5>2. Names(item.packet) /\ d.at = now
          BY <1>3, <2>1, <2>5, <4>2 DEF WelcomeInv
        <5> QED
          BY <3>1, <3>2, <3>4, <5>1, <5>2
      <4> QED
        BY <2>2, <3>6, <4>1, <4>2
    <3>7. WelcomeInv'
      BY <3>5, <3>6 DEF WelcomeInv
    <3>8. HelloInv' /\ IdentityAgreement'
      BY <1>1, <2>1, <3>1 DEF HelloInv, IdentityAgreement, Outdated
    <3> QED
      BY <3>7, <3>8
  <2> QED
    BY <2>3, <2>4, <2>5
<1> QED
  BY <1>1, <1>5, <1>6 DEF WhoInv, Running

LEMMA AdvanceWho == ASSUME TypeInv, WhoInv, AdvanceClock PROVE WhoInv'
<1>1. /\ now' = now + 1 /\ ticked' = {} /\ Punctual
      /\ UNCHANGED <<client, server, resume>>
      /\ \A d \in toServer' : d \in toServer /\ now + 1 - d.at <= MaxDelay
      /\ \A d \in toClient' : d \in toClient /\ now + 1 - d.at <= MaxDelay
  BY DEF AdvanceClock, Young
<1>2. /\ now \in Nat /\ MaxDelay \in Nat /\ ResendDelay \in Nat \ {0}
      /\ \A d \in toServer \cup toClient : d.at \in Nat
      /\ \A item \in client.pending : item.lastSent \in Nat
      /\ server # Nothing => \A item \in server.pending : item.lastSent \in Nat
  BY Instants, Lags
<1>3. (\A d \in toServer \cup toClient : d.at <= now /\ now <= d.at + MaxDelay)'
  BY <1>1, <1>2 DEF WhoInv, OnTime
<1>4. ASSUME NEW pending, NEW end, Prompt(pending, end), end \in ticked,
             \A item \in pending : item.lastSent \in Nat
      PROVE  Prompt(pending, end)'
  BY <1>1, <1>2, <1>4 DEF Prompt
<1>5. server # Nothing => Prompt(server.pending, "server")'
  BY <1>1, <1>2, <1>4 DEF WhoInv, OnTime, Punctual
<1>6. Running => Prompt(client.pending, "client")'
  BY <1>1, <1>2, <1>4 DEF WhoInv, OnTime, Punctual, Running
<1>7. OnTime'
  <2>1. Untouched'
    <3>1. client = ClientInit => toServer' = {} /\ toClient' = {}
      BY <1>1 DEF WhoInv, OnTime, Untouched
    <3> QED
      BY <1>1, <3>1 DEF WhoInv, OnTime, Untouched
  <2> QED
    BY <1>1, <1>3, <1>5, <1>6, <2>1 DEF OnTime, Running
<1>8. ASSUME Running PROVE WelcomeInv' /\ HelloInv' /\ IdentityAgreement'
  BY <1>1, <1>8 DEF WhoInv, WelcomeInv, HelloInv, IdentityAgreement, Names, Outdated
<1> QED
  BY <1>1, <1>7, <1>8 DEF WhoInv, Running

LEMMA WhoInductive == ASSUME Patient PROVE Spec => []WhoInv
<1>1. Init => WhoInv
  BY DEF Init, ClientInit, WhoInv, OnTime, Untouched, Running
<1>2. TypeInv /\ WhoInv /\ [Next]_vars => WhoInv'
  <2> SUFFICES ASSUME TypeInv, WhoInv, [Next]_vars PROVE WhoInv'
    OBVIOUS
  <2>1. CASE UNCHANGED vars
    BY <2>1 DEF vars, WhoInv, OnTime, Untouched, Prompt, Running, WelcomeInv, HelloInv,
                Names, Outdated, IdentityAgreement
  <2> QED
    BY <2>1, ClientStartWho, ClientStopWho, ClientSubmitWho, ClientReceiveWho,
       ClientTickWho, ServerReceiveWho, ServerTickWho, AdvanceWho DEF Next
<1> QED
  BY <1>1, <1>2, TypeInductive, PTL DEF Spec

(* A server as patient as what the resends and the network can delay, both  *)
(* ways, and a client that believes it is connected mean the same player    *)
(* and the same session, whatever was lost, repeated or overtaken.          *)
THEOREM IdentitiesAgree == ASSUME Patient PROVE Spec => []IdentityAgreement
<1>1. WhoInv => IdentityAgreement
  BY DEF WhoInv, Running, IdentityAgreement
<1> QED
  BY <1>1, WhoInductive, PTL

-----------------------------------------------------------------------------
(* A connection that has a session has the newest, and what the server      *)
(* remembers while there is none is the newest too.                         *)
Welcomed(s) == s # Nothing /\ s.welcomed

Newest ==
    /\ Welcomed(server) => server.token = issued
    /\ resume # Nothing /\ ~Welcomed(server) => resume.token = issued

LEMMA FoundWelcomed ==
    ASSUME Newest
    PROVE  /\ Found.welcomed <=> Welcomed(server)
           /\ Found.welcomed => Found.token = issued
  BY DEF Found, Welcomed, NewConnection, Newest

(* Whatever is not a Hello leaves a connection the session it has.          *)
LEMMA NewestQuiet ==
    ASSUME TypeInv, Newest, NEW packet \in ClientPackets,
           ServerDiscard(packet) \/ ServerPlayerState(packet) \/ ServerPing(packet)
    PROVE  Newest'
<1>1. Heard(packet)
  BY HeardQuiet, HeardPing
<1>2. resume' = resume /\ issued' = issued
  BY DEF ServerDiscard, ServerPlayerState, ServerPing
<1>3. server'.welcomed = Noted(packet).welcomed /\ server'.token = Noted(packet).token
  <2> DEFINE n == Noted(packet)
  <2>1. n \in ConnectionsTo(opened + 1, issued, now, ServerPackets)
    BY NotedKeeps
  <2>2. \/ server' = n
        \/ server' = [n EXCEPT !.report = packet.report]
        \/ server' = [n EXCEPT !.next = @ + 1]
    BY DEF ServerDiscard, ServerPlayerState, ServerPing
  <2> HIDE DEF n
  <2>3. server'.welcomed = n.welcomed /\ server'.token = n.token
    BY <2>1, <2>2 DEF ConnectionsTo
  <2> QED
    BY <2>3 DEF n
<1>4. server'.welcomed = Found.welcomed /\ server'.token = Found.token
  BY <1>3, NotedKeeps
<1> QED
  BY <1>1, <1>2, <1>4, FoundWelcomed DEF Heard, Newest, Welcomed

LEMMA NewestGoodbye ==
    ASSUME TypeInv, Newest, NEW packet \in ClientPackets, ServerGoodbye(packet)
    PROVE  Newest'
<1> DEFINE n == Noted(packet)
           last == IF now > ServerPatience THEN now - ServerPatience - 1 ELSE 1
<1>1. /\ n.welcomed = Found.welcomed /\ n.token = Found.token
      /\ n \in ConnectionsTo(opened + 1, issued, now, ServerPackets)
  BY NotedKeeps
<1>2. server' = [n EXCEPT !.last = last] /\ resume' = resume /\ issued' = issued
  BY DEF ServerGoodbye
<1>3. last \in 1..now /\ opened + 1 \in Nat /\ issued \in Nat
  BY Numbers DEF TypeInv
<1> HIDE DEF n, last
<1>4. /\ server'.welcomed = n.welcomed /\ server'.token = n.token
      /\ server' \in ConnectionsTo(opened + 1, issued, now, ServerPackets)
  BY <1>1, <1>2, <1>3 DEF ConnectionsTo
<1>5. server' # Nothing
  BY <1>3, <1>4, ConnectionIsSomething DEF ServerPackets
<1> QED
  BY <1>1, <1>2, <1>4, <1>5, FoundWelcomed DEF Newest, Welcomed

(* A Hello gives a connection without a session the next one, or the one    *)
(* the server remembers, which is the newest.                               *)
LEMMA NewestHello ==
    ASSUME TypeInv, Newest, NEW packet \in ClientPackets, ServerHello(packet)
    PROVE  Newest'
<1> DEFINE n == Noted(packet)
           s == Identified(packet)
<1>1. /\ n.welcomed = Found.welcomed /\ n.token = Found.token
      /\ n \in ConnectionsTo(opened + 1, issued, now, ServerPackets)
  BY NotedKeeps
<1>2. /\ s \in ConnectionsTo(opened', issued', now, ServerPackets')
      /\ s.next <= MaxServerSeq
      /\ \E pending, welcomes : server' = [s EXCEPT !.next = @ + 1, !.pending = pending,
                                                    !.welcomes = welcomes]
      /\ issued' = IF ~n.welcomed /\ ~Resumable(packet.token) THEN issued + 1 ELSE issued
  BY IdentifiedType DEF ServerHello
<1>3. s.welcomed /\ s.token = issued'
  <2>1. \/ n.welcomed /\ s = n
        \/ /\ ~n.welcomed /\ Resumable(packet.token)
           /\ s = [n EXCEPT !.welcomed = TRUE, !.playerId = resume.playerId,
                   !.token = resume.token, !.report = resume.report,
                   !.connectionId = opened + 1]
        \/ /\ ~n.welcomed /\ ~Resumable(packet.token)
           /\ s = [n EXCEPT !.welcomed = TRUE, !.playerId = issued + 1,
                   !.token = issued + 1, !.connectionId = opened + 1]
    BY DEF Identified
  <2>2. Resumable(packet.token) /\ ~n.welcomed => resume.token = issued
    BY <1>1, FoundWelcomed DEF Resumable, Newest
  <2> HIDE DEF n, s
  <2> QED
    BY <1>1, <1>2, <2>1, <2>2, FoundWelcomed DEF ConnectionsTo
<1>4. server'.welcomed /\ server'.token = issued'
  <2> HIDE DEF n, s
  <2> QED
    BY <1>2, <1>3 DEF ConnectionsTo
<1>5. server' # Nothing
  BY HeardHello DEF Heard
<1> QED
  BY <1>4, <1>5 DEF Newest, Welcomed

(* prune remembers the session of the connection it drops.                  *)
LEMMA NewestTick == ASSUME TypeInv, Newest, ServerTick PROVE Newest'
<1>1. issued' = issued
  BY DEF ServerTick
<1>2. Remembered # Nothing /\ (Pruned(server) \/ ~Welcomed(server)) =>
          Remembered.token = issued
  BY DEF Remembered, Pruned, Welcomed, Newest
<1>3. CASE server = Nothing \/ Pruned(server)
  BY <1>1, <1>2, <1>3 DEF ServerTick, Newest, Welcomed, Pruned
<1>4. CASE server # Nothing /\ ~Pruned(server)
  <2>1. server' = [server EXCEPT !.next = IF Broadcasts THEN @ + 1 ELSE @,
                                 !.pending = Aged(@)]
    BY <1>4 DEF ServerTick
  <2>2. server \in Connections
    BY <1>4 DEF TypeInv
  <2>3. Broadcasts => server.next + 1 \in 1..(MaxServerSeq + 1)
    BY <2>2, Numbers DEF Broadcasts, Connections, ConnectionsTo
  <2>4. Aged(server.pending) \in SUBSET Items(ServerPackets)
    BY <2>2, PendingTypes DEF Connections, ConnectionsTo
  <2>5. /\ server' \in Connections
        /\ server'.welcomed = server.welcomed /\ server'.token = server.token
    BY <2>1, <2>2, <2>3, <2>4 DEF Connections, ConnectionsTo
  <2>6. server' # Nothing
    <3>1. opened \in Nat /\ issued \in Nat
      BY DEF TypeInv
    <3> QED
      BY <2>5, <3>1, ConnectionIsSomething DEF Connections, ServerPackets
  <2>7. Remembered = resume
    BY <1>4 DEF Remembered
  <2>8. resume' = Nothing \/ resume' = resume
    BY <2>7 DEF ServerTick
  <2> QED
    BY <1>1, <1>4, <2>5, <2>6, <2>8 DEF Newest, Welcomed
<1> QED
  BY <1>3, <1>4

LEMMA NewestInductive == Spec => []Newest
<1>1. Init => Newest
  BY DEF Init, Newest, Welcomed
<1>2. TypeInv /\ Newest /\ [Next]_vars => Newest'
  <2> SUFFICES ASSUME TypeInv, Newest, [Next]_vars PROVE Newest'
    OBVIOUS
  <2>1. CASE UNCHANGED <<server, resume, issued>>
    BY <2>1 DEF Newest, Welcomed
  <2>2. CASE \E d \in toServer : ServerReceive(d.packet)
    <3>1. PICK d \in toServer : ServerReceive(d.packet)
      BY <2>2
    <3>2. d.packet \in ClientPackets
      BY DEF TypeInv, Datagrams
    <3> QED
      BY <3>1, <3>2, NewestQuiet, NewestGoodbye, NewestHello DEF ServerReceive
  <2>3. CASE ServerTick
    BY <2>3, NewestTick
  <2> QED
    BY <2>1, <2>2, <2>3 DEF Next, vars, ClientStart, ClientStop, ClientSubmit, ClientReceive,
       ClientTick, AdvanceClock
<1> QED
  BY <1>1, <1>2, TypeInductive, PTL DEF Spec

(* Such a server gives a running client no second session while it          *)
(* remembers one that the client can name.                                  *)
THEOREM OneSession == ASSUME Patient PROVE Spec => OneSessionPerClient
<1> DEFINE One == issued' > issued /\ client.state # "Disconnected" =>
          \/ resume = Nothing
          \/ resume.expires < now
          \/ resume.token > client.token
<1>1. TypeInv /\ WhoInv /\ Newest /\ [Next]_vars => [One]_vars
  <2> SUFFICES ASSUME TypeInv, WhoInv, Newest, Next, issued' > issued, Running,
                      resume # Nothing, ~(resume.token > client.token)
               PROVE  resume.expires < now
    BY DEF Running
  <2>1. issued \in Nat /\ client.token \in 0..issued
    BY DEF TypeInv, Clients
  <2>2. PICK d \in toServer : ServerReceive(d.packet)
    <3>1. issued' # issued
      BY <2>1
    <3>2. \A d \in toClient : ~ClientReceive(d.packet)
      BY <3>1 DEF ClientReceive
    <3> QED
      BY <3>1, <3>2 DEF Next, ClientStart, ClientStop, ClientSubmit, ClientTick,
                        ServerTick, AdvanceClock
  <2>3. Heard(d.packet)
    BY <2>2, ReceiveHeard DEF WhoInv, HelloInv
  <2>4. d.packet.type = "Hello" /\ ~Found.welcomed /\ ~Resumable(d.packet.token)
    BY <2>3 DEF Heard
  <2>5. ~(server # Nothing /\ server.welcomed)
    BY <2>4 DEF Found
  <2>6. d.packet.token = client.token
    BY <2>4, <2>5 DEF WhoInv, HelloInv, Outdated
  <2>7. resume.token = issued /\ resume.token # 0
        /\ resume.expires \in Nat /\ now \in Nat
    BY <2>5, Instants DEF TypeInv, ResumeRecords, Newest, Welcomed
  <2>8. resume.token = client.token
    BY <2>1, <2>7
  <2> QED
    BY <2>4, <2>6, <2>7, <2>8 DEF Resumable
<1> QED
  BY <1>1, TypeInductive, WhoInductive, NewestInductive, PTL DEF Spec, OneSessionPerClient
=============================================================================
