---------------------------- MODULE GameSession ----------------------------
(***************************************************************************)
(* The client inside the game process: ClientRuntime, its RdrBridge, the   *)
(* bridge's NativeInvoker and the FrontierSession that says how far the    *)
(* game has come.                                                          *)
(*                                                                         *)
(* The game runs beside the client and is only observed.  It fills its     *)
(* table of natives one at a time, loads and unloads its world, creates    *)
(* and destroys the local player, and a native's handler may fault, which  *)
(* the client's structured exception handling turns into a failed call.    *)
(* The client scans .text once for the place where the game keeps that     *)
(* table, then polls the place.                                            *)
(*                                                                         *)
(* A worker thread initializes the runtime and calls update() every 10 ms. *)
(* The DLL also exports Initialize, Update and Shutdown; here an exported  *)
(* call runs between two calls of the worker, never inside one (nothing in *)
(* the code enforces that).  The network client is reduced to the state    *)
(* update() reads; Session models it.                                      *)
(*                                                                         *)
(* Times are ages: how long ago, counted no further than the period they   *)
(* are compared with, and Never for the code's 0.                          *)
(***************************************************************************)
EXTENDS Integers, Sequences

CONSTANTS
    Storage,        \* addresses the registration pattern can refer to
    Matches,        \* sequence: the storage each match in .text refers to
    Usable,         \* storages that are readable and inside the image
    Registry,       \* the storage the game really uses
    NoStorage,      \* nativeRegistrationStorage_ = 0
    OtherProbes,    \* the natives probed beside the two named below
    SessionPeriod,  \* 250 ms between two session updates
    SendPeriod,     \* 50 ms between two player states
    TickMod         \* 2^32 in the code: the modulus of clientTick_

ASSUME GameAssumption ==
    /\ Matches \in Seq(Storage)
    /\ Usable \subseteq Storage
    /\ NoStorage \notin Storage
    /\ {SessionPeriod, SendPeriod} \subseteq Nat \ {0}
    /\ TickMod \in Nat /\ TickMod > 1

Never == -1

Probes == {"GetGameState", "WorldLoaded"} \cup OtherProbes
Native == Probes \cup {"GetPosition", "Sentinel"}

VARIABLES
    registered,     \* game: natives in the table so far
    faulting,       \* game: probes whose handler faults at present
    world,          \* game: a world is loaded
    actor,          \* game: the pointers from local player to transform hold
    supported,      \* the executable's fingerprint is the known one
    resolvable,     \* the bridge's two patterns match and resolve
    worker,         \* the worker thread
    stopRequested,  \* stopRequested_
    network,        \* g_network: None, or its ConnectionState
    bridge,         \* gameBridge_.initialized_
    storage,        \* nativeRegistrationStorage_
    ready,          \* NativeInvoker::ready_
    runtime,        \* FrontierSession::runtime_
    sessionAge,     \* lastSessionUpdateMs_
    sendAge,        \* lastStateSendMs_
    clientTick      \* clientTick_

game == <<registered, faulting, world, actor>>
process == <<supported, resolvable>>
invoker == <<storage, ready>>
observed == <<storage, ready, runtime, sessionAge>>
sending == <<sendAge, clientTick>>
vars == <<game, process, worker, stopRequested, network, bridge, observed, sending>>

Booting == [state |-> "Booting", worldLoaded |-> FALSE, localPlayerReady |-> FALSE]

Init ==
    /\ registered = {} /\ faulting = {} /\ world = FALSE /\ actor = FALSE
    /\ supported \in BOOLEAN /\ resolvable \in BOOLEAN
    /\ worker = "Starting"
    /\ stopRequested = FALSE
    /\ network = "None"
    /\ bridge = FALSE
    /\ storage = NoStorage
    /\ ready = FALSE
    /\ runtime = Booting
    /\ sessionAge = Never
    /\ sendAge = Never
    /\ clientTick = 0

-----------------------------------------------------------------------------
\* The game.
GameSteps ==
    /\ \/ \E native \in Native \ registered :
             registered' = registered \cup {native} /\ UNCHANGED <<faulting, world, actor>>
       \/ \E native \in Probes :
             /\ faulting' = IF faulting = {} THEN {native} ELSE {}
             /\ UNCHANGED <<registered, world, actor>>
       \/ world' = ~world /\ UNCHANGED <<registered, faulting, actor>>
       \/ actor' = ~actor /\ UNCHANGED <<registered, faulting, world>>
    /\ UNCHANGED <<process, worker, stopRequested, network, bridge, observed, sending>>

\* NetworkClient::update and the server behind it.
NetworkSteps ==
    /\ \/ network = "Handshaking" /\ network' = "Connected"
       \/ network = "Connected" /\ network' = "Handshaking"
    /\ UNCHANGED <<game, process, worker, stopRequested, bridge, observed, sending>>

-----------------------------------------------------------------------------
\* NativeInvoker::initialize, first half: the first match whose storage is
\* readable and inside the image is taken, and kept for good.
FirstHit == IF Matches = <<>> THEN NoStorage ELSE Matches[1] \* mutant: unchecked

Selected ==
    {i \in DOMAIN Matches :
        /\ Matches[i] \in Usable
        /\ \A j \in 1..(i - 1) : Matches[j] \notin Usable}

FirstUsable ==
    IF Selected = {} THEN NoStorage ELSE Matches[CHOOSE i \in Selected : TRUE]

Resolved == IF storage # NoStorage THEN storage ELSE FirstUsable

\* read_table: a storage other than the game's holds no table that is valid.
ReadsTable(place) == place = Registry

\* find_handler_in_table: the game puts an entry in its table with its handler.
Handler(native) == native \in registered

\* Second half: two of the three lookups count.
KnownHandlers ==
    ReadsTable(Resolved) /\ \E native \in {"GetPosition", "GetGameState"} : Handler(native)

TryInvoker ==
    /\ storage' = Resolved
    /\ ready' = KnownHandlers

\* invoke_u32 finds the handler in the table and comes back from it.
Answers(native) == ReadsTable(storage) /\ Handler(native) /\ native \notin faulting

\* FrontierSession::update once the invoker is ready.
ProbedRegardless ==                           \* mutant: worldLoaded is not read
    LET loaded == Answers("WorldLoaded") /\ world
    IN  [state |-> IF \E native \in Probes : ~Answers(native)
                   THEN "WaitingForNativeInvoker"
                   ELSE IF actor THEN "Active" ELSE "WaitingForLocalPlayer",
         worldLoaded |-> loaded,
         localPlayerReady |-> actor]

ProbedStale ==                                \* mutant: a failed probe keeps its last answer
    LET loaded == IF Answers("WorldLoaded") THEN world ELSE runtime.worldLoaded
    IN  [state |-> IF ~Answers("GetGameState") THEN "WaitingForNativeInvoker"
                   ELSE IF ~loaded THEN "Frontend"
                   ELSE IF actor THEN "Active" ELSE "WaitingForLocalPlayer",
         worldLoaded |-> loaded,
         localPlayerReady |-> actor]

Probed ==
    LET loaded == Answers("WorldLoaded") /\ world
        all    == \A native \in Probes : Answers(native)
    IN  [state |-> IF ~all THEN "WaitingForNativeInvoker"
                   ELSE IF ~loaded THEN "Frontend"
                   ELSE IF actor THEN "Active" ELSE "WaitingForLocalPlayer",
         worldLoaded |-> loaded,
         localPlayerReady |-> IF all /\ loaded THEN actor ELSE runtime.localPlayerReady]

SessionUpdate ==
    IF ready
    THEN runtime' = Probed /\ UNCHANGED invoker
    ELSE runtime' = [runtime EXCEPT !.state = "WaitingForNativeInvoker"] /\ TryInvoker

-----------------------------------------------------------------------------
\* ClientRuntime::update.
DueOnce(age, period) == age = Never           \* mutant: the period is not read

Due(age, period) == age = Never \/ age >= period

NextTickWide == clientTick + 1                \* mutant: no 32-bit wrap

NextTick == (clientTick + 1) % TickMod

Submits == network = "Connected" /\ bridge /\ Due(sendAge, SendPeriod) /\ actor

Update ==
    /\ network # "None"
    /\ IF bridge /\ Due(sessionAge, SessionPeriod)
       THEN SessionUpdate /\ sessionAge' = 0
       ELSE UNCHANGED observed
    /\ IF Submits
       THEN clientTick' = NextTick /\ sendAge' = 0
       ELSE UNCHANGED sending
    /\ UNCHANGED <<game, process, worker, stopRequested, network, bridge>>

\* RdrBridge::initialize, on a build that is supported.
BridgeInitializes == supported /\ resolvable

\* ClientRuntime::initialize with a socket that opens or does not.
Initialize(opens) ==
    /\ supported
    /\ bridge' = BridgeInitializes
    /\ network' = IF opens THEN "Handshaking" ELSE "Disconnected"
    /\ UNCHANGED <<game, process, stopRequested, observed, sending>>

\* FrontierClientWorker: initialize, then run_loop until asked to stop.
WorkerStart ==
    /\ worker = "Starting"
    /\ \/ \E opens \in BOOLEAN :
             Initialize(opens) /\ worker' = IF opens THEN "Running" ELSE "Ended"
       \/ /\ ~supported
          /\ worker' = "Ended"
          /\ UNCHANGED <<game, process, stopRequested, network, bridge, observed, sending>>

WorkerUpdate == worker = "Running" /\ ~stopRequested /\ Update

WorkerEnd ==
    /\ worker = "Running" /\ stopRequested
    /\ worker' = "Ended"
    /\ UNCHANGED <<game, process, stopRequested, network, bridge, observed, sending>>

\* The exported functions.
HostInitialize == \E opens \in BOOLEAN : Initialize(opens) /\ UNCHANGED worker

HostUpdate == Update

HostShutdown ==
    /\ stopRequested' = TRUE
    /\ network' = "None"
    /\ clientTick' = 0 /\ sendAge' = Never
    /\ runtime' = Booting /\ sessionAge' = Never
    /\ UNCHANGED <<game, process, worker, bridge, invoker>>

Older(age, period) == IF age = Never \/ age >= period THEN age ELSE age + 1

AdvanceClock ==
    /\ sessionAge' = Older(sessionAge, SessionPeriod)
    /\ sendAge' = Older(sendAge, SendPeriod)
    /\ UNCHANGED <<game, process, worker, stopRequested, network, bridge, invoker,
                   runtime, clientTick>>

Next ==
    \/ GameSteps
    \/ NetworkSteps
    \/ WorkerStart
    \/ WorkerUpdate
    \/ WorkerEnd
    \/ HostInitialize
    \/ HostUpdate
    \/ HostShutdown
    \/ AdvanceClock

\* The worker's loop runs on and time passes; the game owes nothing.
Fairness ==
    /\ WF_vars(WorkerStart)
    /\ WF_vars(WorkerUpdate)
    /\ WF_vars(AdvanceClock)

Spec == Init /\ [][Next]_vars /\ Fairness
=============================================================================
