----------------------------- MODULE Replication -----------------------------
(***************************************************************************)
(* What players see of each other: each client reports where its player    *)
(* is, the server validates the movement and tells every viewer, tick by   *)
(* tick, of the players within the interest radius, and the codec decides  *)
(* which of those snapshots a client can read.                             *)
(*                                                                         *)
(* Players are honest: a coordinate that changes by at most Speed from one *)
(* instant to the next, reported as it is.  A report may be lost, late or  *)
(* overtaken until it is MaxDelay old; accept() lets it through once.  A   *)
(* snapshot arrives at once or not at all: Interpolation has late ones,    *)
(* Session the handshake and the timeouts, which are over here.            *)
(*                                                                         *)
(* There is no clock but ages: of a report, and of the report behind what  *)
(* the server holds, which stays at MaxAge when it gets there.  A payload  *)
(* is its length in bytes, 0 for the empty vector an encoder returns.      *)
(* Bystanders are welcomed players who do not move; they make a crowd.     *)
(***************************************************************************)
EXTENDS Codec, FiniteSets

CONSTANTS
    Player,         \* welcomed players that move
    Bystander,      \* sequence: where the welcomed players are that do not
    Viewer,         \* the players whose screen is followed
    Place,          \* coordinates
    Speed,          \* how far a player gets in an instant
    Window,         \* maxAcceptedSpeedMps * 0.25 s
    Radius,         \* config_.interestRadius
    MaxDelay,       \* how long the network can hold a report
    MaxAge,         \* bound: the greatest age that is told apart
    Unseen          \* a player not in a snapshot

Origin == 0

ASSUME ReplicationAssumption ==
    /\ Place \subseteq Int /\ Origin \in Place
    /\ {Speed, Window, Radius, MaxDelay, MaxAge} \subseteq Nat
    /\ MaxDelay < MaxAge
    /\ IsFiniteSet(Player)
    /\ Bystander \in Seq(Place)
    /\ Viewer \subseteq Player

VARIABLES
    at,             \* where each player is
    reports,        \* PlayerStates in flight
    held,           \* connection.state, with the age of the report behind it
    initialized,    \* players with stateInitialized
    view            \* where each viewer's last readable snapshot has each player

vars == <<at, reports, held, initialized, view>>

Age == 0..MaxAge
Report == [player : Player, place : Place, age : Age]
Entry == [place : Place, age : Age]

ASSUME UnseenAssumption == Unseen \notin Place

Distance(p, q) == IF p >= q THEN p - q ELSE q - p

\* handle_hello: a new player is at (0,0,0) for the server.
SyntheticUnset ==                             \* mutant: the state is not filled in
    [place |-> Unseen, age |-> 0]

Synthetic == [place |-> Origin, age |-> 0]

Init ==
    /\ at \in [Player -> Place]
    /\ reports = {}
    /\ held = [p \in Player |-> Synthetic]
    /\ initialized = {}
    /\ view = [v \in Viewer |-> [p \in Player |-> Unseen]]

-----------------------------------------------------------------------------
\* ClientRuntime::update: the local player's state is sent.  Two reports of
\* one instant say the same; one that the network drops at once is no step.
SendReport(p) ==
    /\ reports' = reports \cup {[player |-> p, place |-> at[p], age |-> 0]}
    /\ UNCHANGED <<at, held, initialized, view>>

\* handle_player_state.
AcceptableNear(r) ==                          \* mutant: half the window
    \/ r.player \notin initialized
    \/ 2 * Distance(held[r.player].place, r.place) <= Window

Acceptable(r) ==
    \/ r.player \notin initialized
    \/ Distance(held[r.player].place, r.place) <= Window

Adopted(r) == [place |-> r.place, age |-> r.age]

ReceiveReport(r) ==
    /\ reports' = reports \ {r}
    /\ IF Acceptable(r)
       THEN /\ held' = [held EXCEPT ![r.player] = Adopted(r)]
            /\ initialized' = initialized \cup {r.player}
       ELSE UNCHANGED <<held, initialized>>
    /\ UNCHANGED <<at, view>>

-----------------------------------------------------------------------------
\* relevant: by what the server holds of both.
RelevantStrict(v, p) ==                       \* mutant: < for <=
    v = p \/ Distance(held[v].place, held[p].place) < Radius

Relevant(v, p) == v = p \/ Distance(held[v].place, held[p].place) <= Radius

Listed(v) ==
    Cardinality({p \in Player : Relevant(v, p)}) +
    Cardinality({b \in DOMAIN Bystander :
                    Distance(held[v].place, Bystander[b]) <= Radius})

\* encode_snapshot, send_message with encode_packet, decode_packet: which
\* snapshots of n players reach a client's callback.
Encoded(n) == IF n <= SnapshotLimit THEN SnapshotSize(n) ELSE 0

ReadableShort(n) ==                           \* mutant: < for <=
    /\ Encoded(n) # 0
    /\ Encoded(n) <= MessageLimit
    /\ DatagramSize(Encoded(n)) < DatagramLimit

Readable(n) ==
    /\ Encoded(n) # 0
    /\ Encoded(n) <= MessageLimit
    /\ DatagramSize(Encoded(n)) <= DatagramLimit

Snapshot(v) == [p \in Player |-> IF Relevant(v, p) THEN held[p].place ELSE Unseen]

\* broadcast_snapshots; only some of the snapshots arrive.
Broadcast(reached) ==
    /\ view' = [v \in Viewer |->
          IF v \in reached /\ Readable(Listed(v)) THEN Snapshot(v) ELSE view[v]]
    /\ UNCHANGED <<at, reports, held, initialized>>

-----------------------------------------------------------------------------
Older(age) == IF age < MaxAge THEN age + 1 ELSE age

\* An instant passes: players move, reports that are too old are lost.
AdvanceClock ==
    /\ at' \in [Player -> Place]
    /\ \A p \in Player : Distance(at[p], at'[p]) <= Speed
    /\ reports' = {[r EXCEPT !.age = Older(@)] : r \in {s \in reports : s.age < MaxDelay}}
    /\ held' = [p \in Player |-> [held[p] EXCEPT !.age = Older(@)]]
    /\ UNCHANGED <<initialized, view>>

Next ==
    \/ \E p \in Player : SendReport(p)
    \/ \E r \in reports : ReceiveReport(r)
    \/ \E reached \in SUBSET Viewer : Broadcast(reached)
    \/ AdvanceClock

\* Clients report and the server broadcasts on their timers, time passes, and
\* the network lets through infinitely many of what is sent for ever.
Fairness ==
    /\ WF_vars(AdvanceClock)
    /\ \A p \in Player :
          /\ WF_vars(SendReport(p))
          /\ SF_vars(\E r \in reports : r.player = p /\ ReceiveReport(r))
    /\ \A v \in Viewer :
          WF_vars(\E reached \in SUBSET Viewer : v \in reached /\ Broadcast(reached))

Spec == Init /\ [][Next]_vars /\ Fairness
=============================================================================
