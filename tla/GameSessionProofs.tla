------------------------- MODULE GameSessionProofs -------------------------
(***************************************************************************)
(* Proofs about GameSession for every set of storages, every sequence of   *)
(* matches and all periods.                                                *)
(***************************************************************************)
EXTENDS GameSessionProperties, TLAPS

(* What ActiveIsTrue rests on over many calls: a table that is trusted is   *)
(* and stays the game's own, and a bridge that is initialized was so on an  *)
(* executable that is the known one.                                        *)
ReadySound == ready => storage = Registry

BridgeSound == bridge => supported /\ resolvable

IInv == TypeOK /\ ReadySound /\ BridgeSound

(* The scan of .text ends with a storage or with none.                      *)
LEMMA ResolvedType ==
    ASSUME storage \in Storage \cup {NoStorage}
    PROVE  Resolved \in Storage \cup {NoStorage}
<1>1. FirstUsable \in Storage \cup {NoStorage}
  <2>1. \A i \in Selected : Matches[i] \in Storage
    BY GameAssumption DEF Selected
  <2> QED BY <2>1 DEF FirstUsable
<1> QED BY <1>1 DEF Resolved

(* A step of the invoker leaves it with a storage or none, and ready only   *)
(* on the game's table.                                                     *)
LEMMA InvokerStep ==
    ASSUME IInv, TryInvoker
    PROVE  /\ storage' \in Storage \cup {NoStorage}
           /\ ready' \in BOOLEAN
           /\ ready' => storage' = Registry
<1>1. Resolved \in Storage \cup {NoStorage}
  BY ResolvedType DEF IInv, TypeOK
<1> QED BY <1>1 DEF TryInvoker, KnownHandlers, ReadsTable, Handler

LEMMA InitInv == Init => IInv
<1> SUFFICES ASSUME Init PROVE IInv
  OBVIOUS
<1>1. runtime \in [state : {"Booting", "WaitingForNativeInvoker", "Frontend",
                           "WaitingForLocalPlayer", "Active"},
                  worldLoaded : BOOLEAN, localPlayerReady : BOOLEAN]
  BY DEF Init, Booting
<1>2. {world, actor, supported, resolvable, stopRequested, bridge, ready} \subseteq BOOLEAN
  BY DEF Init
<1>3. /\ sessionAge \in Never..SessionPeriod
      /\ sendAge \in Never..SendPeriod
      /\ clientTick \in 0..(TickMod - 1)
  BY GameAssumption DEF Init, Never
<1>4. TypeOK
  BY <1>1, <1>2, <1>3 DEF Init, TypeOK
<1> QED BY <1>4 DEF Init, IInv, ReadySound, BridgeSound

(* Each kind of step keeps the invariant.                                   *)
LEMMA SessionUpdateInv ==
    ASSUME IInv, SessionUpdate
    PROVE  /\ storage' \in Storage \cup {NoStorage}
           /\ ready' \in BOOLEAN
           /\ runtime' \in [state : {"Booting", "WaitingForNativeInvoker", "Frontend",
                             "WaitingForLocalPlayer", "Active"},
                    worldLoaded : BOOLEAN, localPlayerReady : BOOLEAN]
           /\ ready' => storage' = Registry
<1>1. CASE ready
  <2>1. actor \in BOOLEAN /\ world \in BOOLEAN
    BY DEF IInv, TypeOK
  <2>2. (Answers("WorldLoaded") /\ world) \in BOOLEAN
    OBVIOUS
  <2>3. runtime' = Probed /\ UNCHANGED invoker
    BY <1>1 DEF SessionUpdate
  <2> QED BY <1>1, <2>1, <2>2, <2>3 DEF IInv, TypeOK, ReadySound, Probed, invoker
<1>2. CASE ~ready
  <2>1. TryInvoker
    BY <1>2 DEF SessionUpdate
  <2>2. runtime' = [runtime EXCEPT !.state = "WaitingForNativeInvoker"]
    BY <1>2 DEF SessionUpdate
  <2> QED BY <2>1, <2>2, InvokerStep DEF IInv, TypeOK
<1> QED BY <1>1, <1>2

LEMMA UpdateInv ==
    ASSUME IInv, Update
    PROVE  IInv'
<1> USE GameAssumption
<1>1. /\ storage' \in Storage \cup {NoStorage}
      /\ ready' \in BOOLEAN
      /\ runtime' \in [state : {"Booting", "WaitingForNativeInvoker", "Frontend",
                             "WaitingForLocalPlayer", "Active"},
                    worldLoaded : BOOLEAN, localPlayerReady : BOOLEAN]
      /\ sessionAge' \in Never..SessionPeriod
      /\ ready' => storage' = Registry
  <2>1. CASE bridge /\ Due(sessionAge, SessionPeriod)
    <3>1. SessionUpdate /\ sessionAge' = 0
      BY <2>1 DEF Update
    <3> QED BY <3>1, SessionUpdateInv DEF Never
  <2>2. CASE ~(bridge /\ Due(sessionAge, SessionPeriod))
    <3>1. UNCHANGED observed
      BY <2>2 DEF Update
    <3> QED BY <3>1 DEF observed, IInv, TypeOK, ReadySound, BridgeSound
  <2> QED BY <2>1, <2>2
<1>2. sendAge' \in Never..SendPeriod /\ clientTick' \in 0..(TickMod - 1)
  <2>1. CASE Submits
    BY <2>1 DEF Update, NextTick, Never, IInv, TypeOK
  <2>2. CASE ~Submits
    BY <2>2 DEF Update, sending, IInv, TypeOK
  <2> QED BY <2>1, <2>2
<1>3. UNCHANGED <<registered, faulting, world, actor, supported, resolvable,
                  worker, stopRequested, network, bridge>>
  BY DEF Update, game, process
<1> QED BY <1>1, <1>2, <1>3 DEF IInv, TypeOK, ReadySound, BridgeSound

LEMMA InitializeInv ==
    ASSUME IInv, NEW opens \in BOOLEAN, Initialize(opens),
           worker' \in {"Starting", "Running", "Ended"}
    PROVE  IInv'
BY DEF Initialize, BridgeInitializes, game, process, observed, sending, IInv, TypeOK,
       ReadySound, BridgeSound

LEMMA ClockInv ==
    ASSUME IInv, AdvanceClock
    PROVE  IInv'
<1>1. sessionAge' \in Never..SessionPeriod /\ sendAge' \in Never..SendPeriod
  BY GameAssumption DEF AdvanceClock, Older, Never, IInv, TypeOK
<1> QED BY <1>1 DEF AdvanceClock, game, process, invoker, IInv, TypeOK, ReadySound, BridgeSound

LEMMA NextInv == IInv /\ [Next]_vars => IInv'
<1> SUFFICES ASSUME IInv, [Next]_vars PROVE IInv'
  OBVIOUS
<1>1. CASE GameSteps
  <2>1. TypeOK'
    BY <1>1 DEF GameSteps, process, observed, sending, IInv, TypeOK
  <2>2. ReadySound' /\ BridgeSound'
    BY <1>1 DEF GameSteps, process, observed, IInv, ReadySound, BridgeSound
  <2> QED BY <2>1, <2>2 DEF IInv
<1>2. CASE NetworkSteps
  BY <1>2 DEF NetworkSteps, game, process, observed, sending, IInv, TypeOK, ReadySound, BridgeSound
<1>3. CASE WorkerStart
  <2>1. CASE \E opens \in BOOLEAN :
                Initialize(opens) /\ worker' = IF opens THEN "Running" ELSE "Ended"
    BY <2>1, InitializeInv
  <2>2. CASE /\ worker' = "Ended"
             /\ UNCHANGED <<game, process, stopRequested, network, bridge, observed, sending>>
    BY <2>2 DEF game, process, observed, sending, IInv, TypeOK, ReadySound, BridgeSound
  <2> QED BY <1>3, <2>1, <2>2 DEF WorkerStart
<1>4. CASE WorkerUpdate
  BY <1>4, UpdateInv DEF WorkerUpdate
<1>5. CASE WorkerEnd
  BY <1>5 DEF WorkerEnd, game, process, observed, sending, IInv, TypeOK, ReadySound, BridgeSound
<1>6. CASE HostInitialize
  <2>1. worker' \in {"Starting", "Running", "Ended"}
    BY <1>6 DEF HostInitialize, IInv, TypeOK
  <2> QED BY <1>6, <2>1, InitializeInv DEF HostInitialize
<1>7. CASE HostUpdate
  BY <1>7, UpdateInv DEF HostUpdate
<1>8. CASE HostShutdown
  BY <1>8, GameAssumption
     DEF HostShutdown, game, process, invoker, Booting, Never, IInv, TypeOK, ReadySound, BridgeSound
<1>9. CASE AdvanceClock
  BY <1>9, ClockInv
<1>10. CASE UNCHANGED vars
  BY <1>10 DEF vars, game, process, observed, sending, IInv, TypeOK, ReadySound, BridgeSound
<1> QED BY <1>1, <1>2, <1>3, <1>4, <1>5, <1>6, <1>7, <1>8, <1>9, <1>10 DEF Next

LEMMA Invariant == Spec => []IInv
BY InitInv, NextInv, PTL DEF Spec

(* The client's state in the game process has its types for every image     *)
(* (every list of matches) and all periods.                                 *)
THEOREM GameTypeCorrect == Spec => []TypeOK
<1>1. IInv => TypeOK
  BY DEF IInv
<1> QED BY <1>1, Invariant, PTL

(* Active is declared only on what the update read, of the game's own       *)
(* table, however its filling, the polling, faults, a world and a player    *)
(* that come and go and exported calls interleave.                          *)
THEOREM DeclaredActiveIsTrue == Spec => ActiveIsTrue
<1> DEFINE True ==
      sessionAge # 0 /\ sessionAge' = 0 /\ runtime'.state = "Active" =>
          /\ supported /\ resolvable
          /\ storage = Registry
          /\ Probes \subseteq registered /\ faulting = {}
          /\ world /\ actor
          /\ runtime'.worldLoaded /\ runtime'.localPlayerReady
<1>1. ASSUME IInv, Update PROVE True
  <2> SUFFICES ASSUME sessionAge # 0, sessionAge' = 0, runtime'.state = "Active" PROVE True
    OBVIOUS
  <2>1. bridge /\ SessionUpdate
    BY <1>1 DEF Update, observed
  <2>2. ready /\ runtime' = Probed
    <3>1. runtime \in [state : {"Booting", "WaitingForNativeInvoker", "Frontend",
                                "WaitingForLocalPlayer", "Active"},
                       worldLoaded : BOOLEAN, localPlayerReady : BOOLEAN]
      BY <1>1 DEF IInv, TypeOK
    <3>2. [runtime EXCEPT !.state = "WaitingForNativeInvoker"].state # "Active"
      BY <3>1
    <3> QED
      BY <2>1, <3>2 DEF SessionUpdate
  <2>3. /\ \A native \in Probes : Answers(native)
        /\ Answers("WorldLoaded") /\ world /\ actor
        /\ runtime'.worldLoaded /\ runtime'.localPlayerReady
    BY <2>2 DEF Probed
  <2>4. Probes \subseteq registered /\ faulting = {}
    BY <1>1, <2>3 DEF Answers, Handler, IInv, TypeOK
  <2>5. supported /\ resolvable /\ storage = Registry
    BY <1>1, <2>1, <2>2 DEF IInv, ReadySound, BridgeSound
  <2> QED
    BY <2>3, <2>4, <2>5
<1>2. IInv /\ [Next]_vars => [True]_vars
  <2> SUFFICES ASSUME IInv, Next PROVE True
    OBVIOUS
  <2>1. CASE Update
    BY <2>1, <1>1
  <2>2. CASE AdvanceClock
    <3>1. sessionAge' # 0 \/ sessionAge = 0
      BY <2>2, GameAssumption DEF AdvanceClock, Older, Never, IInv, TypeOK
    <3> QED
      BY <3>1
  <2>3. CASE HostShutdown
    BY <2>3 DEF HostShutdown, Never
  <2>4. CASE sessionAge' = sessionAge
    BY <2>4
  <2> QED
    BY <2>1, <2>2, <2>3, <2>4 DEF Next, GameSteps, NetworkSteps, WorkerStart, WorkerUpdate,
       WorkerEnd, HostInitialize, HostUpdate, Initialize, observed
<1> QED
  BY <1>2, Invariant, PTL DEF Spec, ActiveIsTrue
=============================================================================
