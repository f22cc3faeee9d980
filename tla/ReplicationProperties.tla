----------------------- MODULE ReplicationProperties -----------------------
(* What honest players may expect of movement validation and of snapshots. *)
EXTENDS Replication, CodecProperties

TypeOK ==
    /\ at \in [Player -> Place]
    /\ reports \subseteq [player : Player, place : Place, age : 0..MaxDelay]
    /\ held \in [Player -> Entry]
    /\ initialized \subseteq Player
    /\ view \in [Viewer -> [Player -> Place \cup {Unseen}]]

\* A report as the fields of its message; the place stands for them.
Fields(r) == [i \in DOMAIN PlayerState |-> (r.place + i) % Base]

(* What one end writes the other reads as it was, for every message, with   *)
(* its texts and lists up to their limits; beyond them the encoder writes   *)
(* nothing, which no decoder reads.  Cut short or with a byte too many      *)
(* nothing is read, so that no decoder takes one message for another; and   *)
(* a datagram is read exactly up to kMaxDatagramSize (protocol.cpp:223).    *)
(* So is each report in flight.                                             *)
RoundTrip ==
    /\ FormatRoundTrip
    /\ \A r \in reports : Decode(PlayerState, Encode(PlayerState, Fields(r))) = Fields(r)

\* What the server holds of p was reported, and its age is not cut off.
Dated(p) == p \in initialized /\ held[p].age < MaxAge

Gap(m, n) == IF m >= n THEN m - n ELSE n - m

(* server.cpp:183: the window is a fixed quarter of a second of movement,   *)
(* whatever time has passed.  An honest player is refused only by a report  *)
(* further than that in time from the one the server holds; then, walking   *)
(* on, he is refused for ever.                                              *)
HonestAccepted ==
    \A r \in reports :
        /\ Dated(r.player)
        /\ Speed * Gap(held[r.player].age, r.age) <= Window
        => Acceptable(r)

\* How far from the truth the server can be about p.
Drift(p) == Speed * held[p].age

(* docs/networking.md:33: interest follows where players are, not only what *)
(* the server believes: who is near is listed and who is far is not, up to  *)
(* the way both can have gone since the reports it holds were made.         *)
InterestFollowsTruth ==
    \A v, p \in Player :
        v # p /\ Dated(v) /\ Dated(p) =>
            LET apart == Distance(at[v], at[p])
                slack == Drift(v) + Drift(p)
            IN  /\ apart + slack <= Radius => Relevant(v, p)
                /\ apart > Radius + slack => ~Relevant(v, p)

\* As many players as one datagram has room for: 38 bytes each, after a
\* header of 32 and a head of 6; 30 players in 1200.
Room == (DatagramLimit - 38) \div 38

Close(v, p) == Distance(at[v], at[p]) <= Radius

Crowd(v) ==
    Cardinality({p \in Player : Close(v, p)}) +
    Cardinality({b \in DOMAIN Bystander : Distance(at[v], Bystander[b]) <= Radius})

\* Nobody is further from what the server holds of him than it accepts.
WithinReach == \A p \in Player : p \in initialized /\ Distance(held[p].place, at[p]) <= Window

Accurate(v) ==
    \A p \in Player : view[v][p] = IF v = p \/ Close(v, p) THEN at[p] ELSE Unseen

(* When everybody has come to rest within reach of the server, each viewer  *)
(* with no more players in range than a datagram has room for (30 of them)  *)
(* ends up seeing exactly those in range, each where he is, whatever was    *)
(* lost, late or overtaken before.  In a larger crowd he sees no change.    *)
Converges ==
    <>[][UNCHANGED at]_vars /\ <>[]WithinReach =>
        \A v \in Viewer : <>[](Crowd(v) <= Room => Accurate(v))
=============================================================================
