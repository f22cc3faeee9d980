--------------------------- MODULE Interpolation ---------------------------
(***************************************************************************)
(* RemoteEntityInterpolator: a buffer of the last states of every remote   *)
(* player, fed with the server's snapshots in the order the network        *)
(* delivers them, and the state to render at a tick.                       *)
(*                                                                         *)
(* The server broadcasts a snapshot per tick; players come into and go out *)
(* of the viewer's range.  ReceiveHistory lets a late snapshot through     *)
(* once, so any snapshot broadcast so far may be pushed next.              *)
(*                                                                         *)
(* A position is one coordinate, a velocity a distance per tick; lerp is   *)
(* exact, as a fraction [num, den], where the code rounds to float.  yaw   *)
(* and velocity are interpolated as the position is.                       *)
(***************************************************************************)
EXTENDS Integers, Sequences

CONSTANTS
    Player,
    Place, Speed,           \* what a player may report: integers
    Delay,                  \* interpolationDelayTicks_ (2)
    MaxExtrapolation,       \* maxExtrapolationTicks_ (4)
    Capacity,               \* 12 samples are kept
    MaxTick                 \* bound: the last server tick

ASSUME InterpolationAssumption ==
    /\ Place \subseteq Int /\ Speed \subseteq Int
    /\ Delay \in Nat /\ MaxExtrapolation \in Nat /\ MaxTick \in Nat
    /\ Capacity \in Nat \ {0}

VARIABLES
    serverTick,     \* the server's serverTick_
    broadcast,      \* the snapshots broadcast so far
    buffers         \* buffers_

vars == <<serverTick, broadcast, buffers>>

State == [pos : Place, vel : Speed]
Sample == [tick : 1..MaxTick, state : State]
Snapshot == [serverTick : 1..MaxTick,
             players : UNION {[seen -> State] : seen \in SUBSET Player}]

Init ==
    /\ serverTick = 0
    /\ broadcast = {}
    /\ buffers = [p \in Player |-> <<>>]

Broadcast ==
    /\ serverTick < MaxTick
    /\ serverTick' = serverTick + 1
    /\ \E seen \in SUBSET Player : \E players \in [seen -> State] :
          broadcast' = broadcast \cup
              {[serverTick |-> serverTick + 1, players |-> players]}
    /\ UNCHANGED buffers

-----------------------------------------------------------------------------
\* push_snapshot: a sample that is not newer is skipped, the oldest go.
TrimmedLate(buffer) ==                        \* mutant: off by one
    IF Len(buffer) > Capacity + 1 THEN Tail(buffer) ELSE buffer

Trimmed(buffer) ==
    IF Len(buffer) > Capacity THEN Tail(buffer) ELSE buffer

PushedAnyway(p, snapshot) ==                  \* mutant: an old tick is not skipped
    IF p \notin DOMAIN snapshot.players THEN buffers[p]
    ELSE Trimmed(Append(buffers[p],
             [tick |-> snapshot.serverTick, state |-> snapshot.players[p]]))

Pushed(p, snapshot) ==
    IF \/ p \notin DOMAIN snapshot.players
       \/ buffers[p] # <<>> /\ snapshot.serverTick <= buffers[p][Len(buffers[p])].tick
    THEN buffers[p]
    ELSE Trimmed(Append(buffers[p],
             [tick |-> snapshot.serverTick, state |-> snapshot.players[p]]))

Push(snapshot) ==
    /\ buffers' = [p \in Player |-> Pushed(p, snapshot)]
    /\ UNCHANGED <<serverTick, broadcast>>

Next == Broadcast \/ \E snapshot \in broadcast : Push(snapshot)

Spec == Init /\ [][Next]_vars

-----------------------------------------------------------------------------
\* sample(playerId, renderTick) on a buffer that is not empty.
Target(renderTick) == IF renderTick > Delay THEN renderTick - Delay ELSE 0

Exactly(sample) == [num |-> sample.state.pos, den |-> 1, extrapolated |-> FALSE]

LerpBackwards(a, b, target) ==                \* mutant: a and b swapped
    [num |-> b.state.pos * (b.tick - a.tick)
                + (a.state.pos - b.state.pos) * (target - a.tick),
     den |-> b.tick - a.tick, extrapolated |-> FALSE]

Lerp(a, b, target) ==
    [num |-> a.state.pos * (b.tick - a.tick)
                + (b.state.pos - a.state.pos) * (target - a.tick),
     den |-> b.tick - a.tick, extrapolated |-> FALSE]

Extrapolate(latest, ahead) ==
    [num |-> latest.state.pos + latest.state.vel * ahead, den |-> 1,
     extrapolated |-> TRUE]

SpansHalfOpen(buffer, target) ==              \* mutant: < for the second <=
    {i \in 1..(Len(buffer) - 1) :
        buffer[i].tick <= target /\ target < buffer[i + 1].tick}

Spans(buffer, target) ==
    {i \in 1..(Len(buffer) - 1) :
        buffer[i].tick <= target /\ target <= buffer[i + 1].tick}

FarAheadLate(latest, target) ==               \* mutant: < for <=
    target - latest.tick > MaxExtrapolation + 1

FarAhead(latest, target) == target - latest.tick > MaxExtrapolation

Rendered(buffer, renderTick) ==
    LET target == Target(renderTick)
        spans  == Spans(buffer, target)
        latest == buffer[Len(buffer)]
    IN  IF Len(buffer) = 1 THEN Exactly(buffer[1])
        ELSE IF spans # {}
             THEN LET i == CHOOSE j \in spans : \A k \in spans : j <= k
                  IN  Lerp(buffer[i], buffer[i + 1], target)
        ELSE IF target > latest.tick /\ ~FarAhead(latest, target)
             THEN Extrapolate(latest, target - latest.tick)
        ELSE Exactly(buffer[1])
=============================================================================
