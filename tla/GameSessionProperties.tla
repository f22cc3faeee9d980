----------------------- MODULE GameSessionProperties -----------------------
(* What the client in the game process promises. *)
EXTENDS GameSession

TypeOK ==
    /\ registered \subseteq Native
    /\ faulting \subseteq Probes
    /\ {world, actor, supported, resolvable, stopRequested, bridge, ready} \subseteq BOOLEAN
    /\ worker \in {"Starting", "Running", "Ended"}
    /\ network \in {"None", "Disconnected", "Handshaking", "Connected"}
    /\ storage \in Storage \cup {NoStorage}
    /\ runtime \in [state : {"Booting", "WaitingForNativeInvoker", "Frontend",
                             "WaitingForLocalPlayer", "Active"},
                    worldLoaded : BOOLEAN, localPlayerReady : BOOLEAN]
    /\ sessionAge \in Never..SessionPeriod
    /\ sendAge \in Never..SendPeriod
    /\ clientTick \in 0..(TickMod - 1)

\* The worker's loop drives an initialized bridge.
Driven == worker = "Running" /\ ~stopRequested /\ network # "None" /\ bridge

Healthy ==
    /\ Driven
    /\ registered = Native
    /\ faulting = {}
    /\ world /\ actor

(* Once the game has its natives, a world and a local player for good, the  *)
(* session becomes Active and stays so, whatever failed before: scans that  *)
(* came too early, a half-filled table, faults, unloaded worlds.            *)
Recovers == <>[]Healthy => <>[](runtime.state = "Active")

(* When the world or the local player is gone for good, the session does    *)
(* not stay Active.                                                         *)
FollowsGame == <>[](Driven /\ ~(world /\ actor)) => <>[](runtime.state # "Active")

(* A session is declared Active only on what this very update read: the     *)
(* game's own table, not another place the scan found, holds all the        *)
(* natives that are probed, none of them faults, and there are a world and  *)
(* a local player.  The copy of the last state it starts from               *)
(* (frontier_session.cpp:41), the natives missing from a half-filled table  *)
(* that is trusted already, and a probe that fails beside others that       *)
(* answer do not make it so.                                                *)
ActiveIsTrue ==
    [][sessionAge # 0 /\ sessionAge' = 0 /\ runtime'.state = "Active" =>
          /\ supported /\ resolvable
          /\ storage = Registry
          /\ Probes \subseteq registered /\ faulting = {}
          /\ world /\ actor
          /\ runtime'.worldLoaded /\ runtime'.localPlayerReady]_vars

(* README.md:18:    while the client is connected and the local player can  *)
(* be read, its state is sent again and again, whatever the session state   *)
(* and the natives are.                                                     *)
Replicates ==
    <>[](Driven /\ network = "Connected" /\ actor)
        => []<><<clientTick' # clientTick>>_vars

(* CHANGELOG.md:4: candidate tables are validated against the sentinel.     *)
SentinelValidated == ready => "Sentinel" \in registered
=============================================================================
