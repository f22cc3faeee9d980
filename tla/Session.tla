------------------------------- MODULE Session -------------------------------
(***************************************************************************)
(* One NetworkClient and the server's entry for its endpoint, from the     *)
(* first Hello through timeouts on either side to resume and Goodbye, over *)
(* a network that loses, duplicates and reorders.  Server opens the sender *)
(* of a datagram to anything; here the sender is the client's own code,    *)
(* both ends keep their real ReceiveHistory and ReliabilityTracker, and    *)
(* what one end knows is compared with what the other knows.               *)
(*                                                                         *)
(* A datagram can arrive any number of times until MaxDelay after it was   *)
(* sent; then it is gone.  Each end resends its reliable packets itself.   *)
(* Each end's tick is split where the code polls its socket: the packets   *)
(* that wait (ClientReceive, ServerReceive), then the rest of the tick     *)
(* (ClientTick, ServerTick).  Time passes when both have ended a tick.     *)
(* MaxClientSeq and MaxServerSeq bound what an end sends, not how long it  *)
(* runs: past its bound a tick goes on without its Hello, Ping or Snapshot,*)
(* as if it had been lost, and only resends.                               *)
(*                                                                         *)
(* A connectionId is numbered by creation, as is a token; a session's      *)
(* player id is its token's number (ServerProofs: ids are as unique as     *)
(* tokens until 2^16 sessions).  The state a client reports is the number  *)
(* of the report.                                                          *)
(***************************************************************************)
EXTENDS ReceiveWindow

CONSTANTS
    ServerPatience, \* server: config_.clientTimeoutMs
    ClientPatience, \* client: the 10000 ms of reconnect_or_timeout
    ResumeGrace,    \* config_.resumeGraceMs
    HelloDelay,     \* the 500 ms between two Hellos
    HeartbeatDelay, \* the 2000 ms between two Pings
    ResendDelay,    \* resendDelayMs
    MaxRetries,     \* maxRetries
    MaxDelay,       \* how long the network can hold a datagram
    Nothing,        \* no entry in a map
    MaxClientSeq,   \* bound: packets the client sends
    MaxServerSeq,   \* bound: packets a server connection sends
    MaxTime         \* bound: the last instant

\* The clock counts from boot; the backdating of a Goodbye in its first ten
\* seconds is Server's matter, so the program starts after them.
Start == ServerPatience + 2

ASSUME SessionAssumption ==
    /\ {ServerPatience, ClientPatience, HelloDelay, HeartbeatDelay,
        ResendDelay, MaxTime} \subseteq Nat \ {0}
    /\ {ResumeGrace, MaxRetries, MaxDelay, MaxClientSeq, MaxServerSeq} \subseteq Nat
    /\ MaxTime >= Start

VARIABLES
    now,            \* the clock both processes read
    client,         \* the members of NetworkClient
    server,         \* connections_[endpoint], or Nothing
    resume,         \* resumes_[endpoint], or Nothing
    issued,         \* session tokens made so far
    opened,         \* connectionIds made so far
    toServer,       \* datagrams in flight
    toClient,
    ticked,         \* who has ended a tick at this instant
    handled,        \* ghost: the server's packets the client's switch has seen
    heard           \* ghost: the client's packets the server's switch has seen

vars == <<now, client, server, resume, issued, opened, toServer, toClient,
          ticked, handled, heard>>

\* A reliable packet as the tracker keeps it.
Item(packet) == [packet |-> packet, retries |-> 0, lastSent |-> now]

Unacknowledged(pending, packet) ==
    {item \in pending : ~Acks([ack |-> packet.ack, bits |-> packet.bits], item.packet.seq)}

DueBeyondRetries(item) ==                     \* mutant: <= for <
    item.retries <= MaxRetries /\ now - item.lastSent >= ResendDelay

\* Here the clock stands still inside a tick, so that lastSent <= now always
\* and the unsigned difference does not wrap; ReliableChannel has that case.
Due(item) == item.retries < MaxRetries /\ now - item.lastSent >= ResendDelay

Aged(pending) ==
    {IF Due(item) THEN [item EXCEPT !.retries = @ + 1, !.lastSent = now] ELSE item :
        item \in pending}

\* A datagram on the wire: the packet and the instant it was (re)sent.
Sent(packet) == [packet |-> packet, at |-> now]

Resends(pending) == {Sent(item.packet) : item \in {i \in pending : Due(i)}}

-----------------------------------------------------------------------------
ClientInit ==
    [state |-> "Disconnected", playerId |-> 0, token |-> 0,
     lastReceive |-> 0, lastHello |-> 0, lastHeartbeat |-> 0,
     next |-> 1, history |-> EmptyHistory, pending |-> {}, reports |-> 0,
     hellos |-> {}]

Init ==
    /\ now = Start
    /\ client = ClientInit
    /\ server = Nothing
    /\ resume = Nothing
    /\ issued = 0
    /\ opened = 0
    /\ toServer = {}
    /\ toClient = {}
    /\ ticked = {}
    /\ handled = {}
    /\ heard = {}

\* NetworkClient::send_message: the packet of this type the client sends next.
ClientPacket(type) ==
    [seq |-> client.next, ack |-> client.history.highest, bits |-> client.history.bits,
     type |-> type, token |-> client.token, playerId |-> client.playerId,
     report |-> client.reports]

ClientCanSend == client.next <= MaxClientSeq

\* start: the first Hello goes out before any update.
ClientStart ==
    /\ client = ClientInit
    /\ ClientCanSend
    /\ LET hello == ClientPacket("Hello") IN
          /\ toServer' = toServer \cup {Sent(hello)}
          /\ client' = [client EXCEPT !.state = "Handshaking", !.lastHello = now,
                                      !.next = @ + 1, !.pending = {Item(hello)},
                                      !.hellos = {hello.seq}]
    /\ UNCHANGED <<now, server, resume, issued, opened, toClient, ticked, handled, heard>>

\* stop: one Goodbye; the socket is closed, so that it is never resent.
ClientStop ==
    /\ client.state # "Disconnected"
    /\ ClientCanSend
    /\ toServer' = toServer \cup {Sent(ClientPacket("Goodbye"))}
    /\ client' = [client EXCEPT !.state = "Disconnected", !.next = @ + 1,
                                !.pending = @ \cup {Item(ClientPacket("Goodbye"))}]
    /\ UNCHANGED <<now, server, resume, issued, opened, toClient, ticked, handled, heard>>

\* submit_player_state, with a newer state at every call.
ClientSubmit ==
    /\ client.state = "Connected"
    /\ ClientCanSend
    /\ toServer' = toServer \cup
          {Sent([ClientPacket("PlayerState") EXCEPT !.report = client.reports + 1])}
    /\ client' = [client EXCEPT !.next = @ + 1, !.reports = @ + 1]
    /\ UNCHANGED <<now, server, resume, issued, opened, toClient, ticked, handled, heard>>

\* handle_packet of the client.  The header's connectionId is not looked at.
Received(packet) ==
    [client EXCEPT !.pending = Unacknowledged(@, packet),
                   !.history = Record(@, packet.seq)]

ClientReceive(packet) ==
    /\ client.state # "Disconnected"
    /\ IF ~Fresh(client.history, packet.seq)
       THEN client' = Received(packet) /\ UNCHANGED handled
       ELSE /\ client' =
                 IF packet.type = "Welcome"
                 THEN [Received(packet) EXCEPT !.lastReceive = now,
                                               !.playerId = packet.playerId,
                                               !.token = packet.token,
                                               !.state = "Connected"]
                 ELSE [Received(packet) EXCEPT !.lastReceive = now]
            /\ handled' = handled \cup {<<packet.connectionId, packet.seq>>}
    /\ UNCHANGED <<now, server, resume, issued, opened, toServer, toClient, ticked, heard>>

\* The rest of update: Hello or Ping when it is time, then the resends, then
\* reconnect_or_timeout.
SayHello == ClientCanSend /\ client.state = "Handshaking" /\ now - client.lastHello >= HelloDelay

SayPing ==
    /\ ClientCanSend
    /\ client.state = "Connected"
    /\ client.lastHeartbeat = 0 \/ now - client.lastHeartbeat >= HeartbeatDelay

TimedOut ==
    /\ client.state = "Connected"
    /\ client.lastReceive # 0
    /\ now - client.lastReceive > ClientPatience

ClientTick ==
    /\ client.state # "Disconnected"
    /\ "client" \notin ticked
    /\ ticked' = ticked \cup {"client"}
    /\ LET hello   == IF SayHello THEN {ClientPacket("Hello")} ELSE {}
           ping    == IF SayPing THEN {ClientPacket("Ping")} ELSE {}
           pending == client.pending \cup {Item(p) : p \in hello}
       IN  /\ toServer' = toServer \cup {Sent(p) : p \in hello \cup ping}
                                   \cup Resends(pending)
           /\ client' = [client EXCEPT
                 !.next          = IF SayHello \/ SayPing THEN @ + 1 ELSE @,
                 !.lastHello     = IF SayHello THEN now ELSE @,
                 !.lastHeartbeat = IF SayPing THEN now ELSE @,
                 !.pending       = Aged(pending),
                 !.hellos        = @ \cup {p.seq : p \in hello},
                 !.state         = IF TimedOut THEN "Handshaking" ELSE @,
                 !.playerId      = IF TimedOut THEN 0 ELSE @,
                 !.lastReceive   = IF TimedOut THEN now ELSE @]
    /\ UNCHANGED <<now, server, resume, issued, opened, toClient, handled, heard>>

-----------------------------------------------------------------------------
\* A Connection as the server keeps it; an endpoint without one has Nothing.
Connection ==
    [connectionId : Nat, welcomed : BOOLEAN, playerId : Nat, token : Nat,
     last : Nat, next : Nat, history : History,
     pending : SUBSET [packet : [connectionId : Nat, seq : Nat, ack : Nat,
                                 bits : SUBSET Offset,
                                 type : {"Welcome", "Pong", "Snapshot"},
                                 token : Nat, playerId : Nat],
                       retries : Nat, lastSent : Nat],
     report : Nat, welcomes : SUBSET Nat]

ASSUME NothingAssumption == Nothing \notin Connection

NewConnection ==
    [connectionId |-> opened + 1, welcomed |-> FALSE, playerId |-> 0, token |-> 0,
     last |-> now, next |-> 1, history |-> EmptyHistory, pending |-> {},
     report |-> 0, welcomes |-> {}]

\* Server::send_message from connection s.
ServerPacket(s, type) ==
    [connectionId |-> s.connectionId, seq |-> s.next, ack |-> s.history.highest,
     bits |-> s.history.bits, type |-> type, token |-> s.token, playerId |-> s.playerId]

\* find_connection, or create_connection when there is none.
Found == IF server = Nothing THEN NewConnection ELSE server

Opening == opened' = IF server = Nothing THEN opened + 1 ELSE opened

IsFresh(packet) == Fresh(Found.history, packet.seq)

\* The connection after its acknowledge() and accept().
Noted(packet) ==
    [Found EXCEPT !.pending = Unacknowledged(@, packet),
                  !.history = Record(@, packet.seq),
                  !.last = IF IsFresh(packet) THEN now ELSE @]

ServerDiscard(packet) ==
    /\ ~IsFresh(packet)
    /\ server' = Noted(packet)
    /\ UNCHANGED <<opened, issued, resume, toClient>>

\* handle_hello up to the Welcome: who this connection is.
ResumableStrict(token) ==                     \* mutant: > for >=
    /\ resume # Nothing
    /\ token # 0
    /\ resume.token = token
    /\ resume.expires > now

Resumable(token) ==
    /\ resume # Nothing
    /\ token # 0
    /\ resume.token = token
    /\ resume.expires >= now

IdentifiedAgain(packet) ==                    \* mutant: welcomed is not looked at
    IF Resumable(packet.token)
    THEN [Noted(packet) EXCEPT !.welcomed = TRUE, !.playerId = resume.playerId,
              !.token = resume.token, !.report = resume.report,
              !.connectionId = opened + 1]
    ELSE [Noted(packet) EXCEPT !.welcomed = TRUE, !.playerId = issued + 1,
              !.token = issued + 1, !.connectionId = opened + 1]

Identified(packet) ==
    IF Noted(packet).welcomed THEN Noted(packet)
    ELSE IF Resumable(packet.token)
         THEN [Noted(packet) EXCEPT !.welcomed = TRUE, !.playerId = resume.playerId,
                   !.token = resume.token, !.report = resume.report,
                   !.connectionId = opened + 1]
         ELSE [Noted(packet) EXCEPT !.welcomed = TRUE, !.playerId = issued + 1,
                   !.token = issued + 1, !.connectionId = opened + 1]

ServerHello(packet) ==
    /\ packet.type = "Hello" /\ IsFresh(packet)
    /\ Identified(packet).next <= MaxServerSeq
    /\ LET s == Identified(packet)
           welcome == ServerPacket(s, "Welcome")
           first == ~Noted(packet).welcomed
       IN  /\ server' = [s EXCEPT !.next = @ + 1, !.pending = @ \cup {Item(welcome)},
                                  !.welcomes = @ \cup {s.next}]
           /\ toClient' = toClient \cup {Sent(welcome)}
           /\ resume' = IF first /\ Resumable(packet.token) THEN Nothing ELSE resume
           /\ issued' = IF first /\ ~Resumable(packet.token) THEN issued + 1 ELSE issued
           /\ opened' = IF first THEN opened + 1 ELSE opened

\* A state can be refused for its numbers (not finite, beyond the movement
\* window): Server and Replication say when, here it may be any state.
ServerPlayerState(packet) ==
    /\ packet.type = "PlayerState" /\ IsFresh(packet)
    /\ Opening
    /\ \E accepted \in BOOLEAN :
          server' = IF /\ accepted
                       /\ Noted(packet).welcomed
                       /\ packet.playerId = Noted(packet).playerId
                    THEN [Noted(packet) EXCEPT !.report = packet.report]
                    ELSE Noted(packet)
    /\ UNCHANGED <<resume, issued, toClient>>

ServerPing(packet) ==
    /\ packet.type = "Ping" /\ IsFresh(packet)
    /\ Noted(packet).next <= MaxServerSeq
    /\ Opening
    /\ server' = [Noted(packet) EXCEPT !.next = @ + 1]
    /\ toClient' = toClient \cup {Sent(ServerPacket(Noted(packet), "Pong"))}
    /\ UNCHANGED <<resume, issued>>

ServerGoodbye(packet) ==
    /\ packet.type = "Goodbye" /\ IsFresh(packet)
    /\ Opening
    /\ server' = [Noted(packet) EXCEPT !.last =
                     IF now > ServerPatience THEN now - ServerPatience - 1 ELSE 1]
    /\ UNCHANGED <<resume, issued, toClient>>

ServerReceive(packet) ==
    /\ \/ ServerDiscard(packet)
       \/ ServerHello(packet)
       \/ ServerPlayerState(packet)
       \/ ServerPing(packet)
       \/ ServerGoodbye(packet)
    /\ heard' = IF IsFresh(packet) THEN heard \cup {packet.seq} ELSE heard
    /\ UNCHANGED <<now, client, toServer, ticked, handled>>

\* The rest of tick: a snapshot to a welcomed client, the resends, prune.
Silent(s) == s.last # 0 /\ now - s.last > ServerPatience

Pruned(s) == s # Nothing /\ Silent(s)

Remembered ==
    IF Pruned(server) /\ server.welcomed
    THEN [playerId |-> server.playerId, token |-> server.token,
          report |-> server.report, expires |-> now + ResumeGrace]
    ELSE resume

Broadcasts == server # Nothing /\ server.welcomed /\ server.next <= MaxServerSeq

ServerTick ==
    /\ "server" \notin ticked
    /\ ticked' = ticked \cup {"server"}
    /\ server' = IF server = Nothing \/ Pruned(server) THEN Nothing
                 ELSE [server EXCEPT !.next = IF Broadcasts THEN @ + 1 ELSE @,
                                     !.pending = Aged(@)]
    /\ toClient' = toClient
          \cup {Sent(p) : p \in IF Broadcasts THEN {ServerPacket(server, "Snapshot")} ELSE {}}
          \cup IF server = Nothing THEN {} ELSE Resends(server.pending)
    /\ resume' = IF Remembered # Nothing /\ Remembered.expires < now THEN Nothing
                 ELSE Remembered
    /\ UNCHANGED <<now, client, issued, opened, toServer, handled, heard>>

-----------------------------------------------------------------------------
Young(datagrams) == {d \in datagrams : now + 1 - d.at <= MaxDelay}

\* Ticks are 50 ms apart, an instant is longer: nobody misses one.
Punctual ==
    /\ client.state # "Disconnected" => "client" \in ticked
    /\ "server" \in ticked

AdvanceClock ==
    /\ now < MaxTime
    /\ Punctual
    /\ ticked' = {}
    /\ now' = now + 1
    /\ toServer' = Young(toServer)
    /\ toClient' = Young(toClient)
    /\ UNCHANGED <<client, server, resume, issued, opened, handled, heard>>

Next ==
    \/ ClientStart
    \/ ClientStop
    \/ ClientSubmit
    \/ \E d \in toClient : ClientReceive(d.packet)
    \/ ClientTick
    \/ \E d \in toServer : ServerReceive(d.packet)
    \/ ServerTick
    \/ AdvanceClock

Spec == Init /\ [][Next]_vars
=============================================================================
