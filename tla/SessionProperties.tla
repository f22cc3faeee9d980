------------------------- MODULE SessionProperties -------------------------
(* What a client and the server may expect of each other. *)
EXTENDS Session

TypeOK ==
    /\ now \in Start..MaxTime
    /\ client.state \in {"Disconnected", "Handshaking", "Connected"}
    /\ client.next \in 1..(MaxClientSeq + 1)
    /\ client.history \in History
    /\ client.token \in 0..issued
    /\ {item.retries : item \in client.pending} \subseteq 0..MaxRetries
    /\ server # Nothing =>
          /\ server.next \in 1..(MaxServerSeq + 1)
          /\ server.history \in History
          /\ server.token \in 0..issued
          /\ server.connectionId \in 1..opened
          /\ server.last \in 1..now
    /\ resume # Nothing => resume.token \in 1..issued

(* When the client believes it is connected and the server has welcomed its *)
(* endpoint, they mean the same player and the same session.                *)
IdentityAgreement ==
    client.state = "Connected" /\ server # Nothing /\ server.welcomed =>
        client.playerId = server.playerId /\ client.token = server.token

(* server.cpp:119-140: a running client is not given a second session while *)
(* the server remembers one the client can name, so no Hello, late, copied  *)
(* or resent, with an old token or none, costs it its player.  A client can *)
(* only not name a session newer than the one it was told of last: if every *)
(* Welcome of it was lost until it was forgotten, the next Hello opens      *)
(* another beside it.                                                       *)
OneSessionPerClient ==
    [][issued' > issued /\ client.state # "Disconnected" =>
          \/ resume = Nothing
          \/ resume.expires < now
          \/ resume.token > client.token]_vars

(* The client's reliable packets leave its tracker only when the server has *)
(* handled them, also when the server has forgotten the connection and      *)
(* opened another with an empty history: here, its Hellos.                  *)
HelloAckSound ==
    client.hellos \ {item.packet.seq : item \in client.pending} \subseteq heard

(* docs/networking.md:9,17: a Welcome is reliable: the server's tracker     *)
(* does not drop it while the client waits for it and has not handled it.   *)
WelcomeAckSound ==
    client.state = "Handshaking" /\ server # Nothing =>
        \A seq \in server.welcomes \ {item.packet.seq : item \in server.pending} :
            <<server.connectionId, seq>> \in handled

(* docs/networking.md:28: movement is unreliable because it is safe to      *)
(* replace by a newer update: the server's state of a session is never      *)
(* replaced by an older one.                                                *)
NewerState ==
    [][server # Nothing /\ server' # Nothing =>
          (server.token = server'.token => server'.report >= server.report)]_vars
=============================================================================
