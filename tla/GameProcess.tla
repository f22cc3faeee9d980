----------------------------- MODULE GameProcess -----------------------------
(***************************************************************************)
(* The game process from its creation by the launcher to its end, with the *)
(* two threads that run FrontierClient's code in it: the worker DllMain    *)
(* creates, and a thread of the game (the host) that calls the exported    *)
(* functions whenever it likes.                                            *)
(*                                                                         *)
(* The two share g_network, a unique_ptr, without a lock.  A call is split *)
(* where it reads or writes that pointer, and at the end of each method of *)
(* the NetworkClient it points to: between the two the thread is inside    *)
(* the object, and the other may destroy it.  GameSession has the same     *)
(* calls in one step each and more of what they do.                        *)
(*                                                                         *)
(* Using a null pointer or an object that was destroyed is undefined: the  *)
(* process ends (GameExits), or the thread goes on as if nothing happened. *)
(***************************************************************************)
EXTENDS Launcher

CONSTANT MaxClients \* bound: NetworkClients ever made, the first by the worker

ASSUME ProcessAssumption == MaxClients \in Nat \ {0}

VARIABLES
    pc,             \* where each thread is
    inside,         \* the client whose method a thread is in, or 0
    network,        \* g_network: a client, or 0 for null
    clients,        \* the NetworkClients and what became of them
    stopRequested,  \* stopRequested_
    openedSince,    \* ghost: clients opened since the last call of Shutdown
    raced,          \* ghost: calls of the two threads have overlapped
    faulted         \* ghost: a thread has used a pointer it must not use

threads == <<pc, inside, network, clients, stopRequested, openedSince, raced, faulted>>
vars == <<launch, threads>>

Thread == {"worker", "host"}
Client == 1..MaxClients

Init ==
    /\ LaunchInit
    /\ pc = [worker |-> "Absent", host |-> "Idle"]
    /\ inside = [t \in Thread |-> 0]
    /\ network = 0
    /\ clients = [c \in Client |-> "Unborn"]
    /\ stopRequested = FALSE
    /\ openedSince = {}
    /\ raced = FALSE
    /\ faulted = FALSE

\* The client a call of Initialize makes: the worker calls it once.
Fresh(t) ==
    IF t = "worker" THEN {1}
    ELSE {c \in Client \ {1} : /\ clients[c] = "Unborn"
                              /\ \A d \in 2..(c - 1) : clients[d] # "Unborn"}

-----------------------------------------------------------------------------
\* Where a thread is not in a call of ClientRuntime.
Outside == {"Absent", "Sleeping", "Loop", "Ended", "Refused", "Idle"}

\* The calls that write g_network.
Changing == {"Inspect", "Replace", "Connect", "Connecting",
             "RequestStop", "Stop", "Stopping", "Reset"}

Overlaps(place) ==
    \E t, u \in Thread :
        t # u /\ place[t] \in Changing /\ place[u] \notin Outside

\* Where a call of thread t returns to.
CallerLoops(t) == "Loop"                      \* mutant: the host runs the loop too

Caller(t) == IF t = "worker" THEN "Loop" ELSE "Idle"

\* Thread t goes on at a label.
Goto(t, label) ==
    /\ pc' = [pc EXCEPT ![t] = label]
    /\ raced' = (raced \/ Overlaps(pc'))

Step(t, from, to) ==
    /\ Exists
    /\ pc[t] = from
    /\ Goto(t, to)

\* Thread t calls a method of *g_network at label from.
Enter(t, from, to) ==
    /\ Step(t, from, to)
    /\ inside' = [inside EXCEPT ![t] = network]
    /\ faulted' = (faulted \/ network = 0)
    /\ UNCHANGED <<launch, network, clients, stopRequested, openedSince>>

Destroyed(c) == c # 0 /\ clients[c] \in {"Destroyed", "Lost"}

\* The method ends: it has used the object's members all along.
Leave(t) ==
    /\ inside' = [inside EXCEPT ![t] = 0]
    /\ faulted' = (faulted \/ Destroyed(inside[t]))
    /\ UNCHANGED <<launch, stopRequested>>

\* What ~NetworkClient leaves: the socket closes, and a client that has not
\* said Goodbye is lost to the server.
Gone(c) == IF clients[c] = "Open" THEN "Lost" ELSE "Destroyed"

-----------------------------------------------------------------------------
\* FrontierClientWorker after its Sleep(1500); the game need not run yet.
WorkerWakes ==
    /\ Step("worker", "Sleeping", "Inspect")
    /\ UNCHANGED <<launch, inside, network, clients, stopRequested, openedSince, faulted>>

\* ClientRuntime::initialize: inspect_loaded_module and match.
Inspect(t) ==
    /\ IF Known(InspectLoaded(image))
       THEN Step(t, "Inspect", "Replace")
       ELSE Step(t, "Inspect", IF t = "worker" THEN "Refused" ELSE "Idle")
    /\ UNCHANGED <<launch, inside, network, clients, stopRequested, openedSince, faulted>>

\* g_network = make_unique: the new client is in, then the old one is deleted.
Replace(t) ==
    /\ Step(t, "Replace", "Connect")
    /\ \E c \in Fresh(t) :
          /\ network' = c
          /\ clients' = [d \in Client |->
                IF d = c THEN "Made" ELSE IF d = network THEN Gone(d) ELSE clients[d]]
    /\ UNCHANGED <<launch, inside, stopRequested, openedSince, faulted>>

Connect(t) == Enter(t, "Connect", "Connecting")

\* start: the socket opens and the client says Hello, or initialize fails.
Connecting(t) ==
    /\ \E opens \in BOOLEAN :
          /\ Step(t, "Connecting",
                  IF opens \/ t = "host" THEN Caller(t) ELSE "Ended")
          /\ clients' = [c \in Client |->
                IF c = inside[t] /\ opens /\ ~Destroyed(c) THEN "Open" ELSE clients[c]]
    /\ openedSince' = openedSince \cup
          {c \in Client : clients[c] # "Open" /\ clients'[c] = "Open"}
    /\ Leave(t)
    /\ UNCHANGED network

-----------------------------------------------------------------------------
\* run_loop: stopRequested_ is read before each update.
LoopsOn == Step("worker", "Loop", "Check")    \* mutant: the flag is not read

LoopOrEnd == Step("worker", "Loop", IF stopRequested THEN "Ended" ELSE "Check")

WorkerLoop ==
    /\ LoopOrEnd
    /\ UNCHANGED <<launch, inside, network, clients, stopRequested, openedSince, faulted>>

\* ClientRuntime::update: if (g_network) ...
CheckNever(t) ==                              \* mutant: the pointer is not tested
    /\ Step(t, "Check", "Update")
    /\ UNCHANGED <<launch, inside, network, clients, stopRequested, openedSince, faulted>>

Check(t) ==
    /\ Step(t, "Check", IF network = 0 THEN Caller(t) ELSE "Update")
    /\ UNCHANGED <<launch, inside, network, clients, stopRequested, openedSince, faulted>>

\* ... g_network->update, ...
Update(t) == Enter(t, "Update", "Updating")

Updating(t) ==
    /\ Step(t, "Updating", "State")
    /\ Leave(t)
    /\ UNCHANGED <<network, clients, openedSince>>

\* ... g_network->state(), and when it is time ...
ReadState(t) ==
    /\ Step(t, "State", Caller(t)) \/ Step(t, "State", "Submit")
    /\ faulted' = (faulted \/ network = 0)
    /\ UNCHANGED <<launch, inside, network, clients, stopRequested, openedSince>>

\* ... g_network->submit_player_state.
Submit(t) == Enter(t, "Submit", "Submitting")

Submitting(t) ==
    /\ Step(t, "Submitting", Caller(t))
    /\ Leave(t)
    /\ UNCHANGED <<network, clients, openedSince>>

-----------------------------------------------------------------------------
\* ClientRuntime::shutdown, called by the host.
RequestStop ==
    /\ Step("host", "RequestStop", "Stop")
    /\ stopRequested' = TRUE
    /\ openedSince' = {}
    /\ UNCHANGED <<launch, inside, network, clients, faulted>>

\* if (g_network) g_network->stop();
SkipStop ==                                   \* mutant: reset() alone
    /\ Step("host", "Stop", "Reset")
    /\ UNCHANGED <<launch, inside, network, clients, stopRequested, openedSince, faulted>>

Stop ==
    /\ Step("host", "Stop", IF network = 0 THEN "Reset" ELSE "Stopping")
    /\ inside' = [inside EXCEPT !["host"] = network]
    /\ UNCHANGED <<launch, network, clients, stopRequested, openedSince, faulted>>

\* stop says Goodbye when the client is open.
Stopping ==
    /\ Step("host", "Stopping", "Reset")
    /\ clients' = [c \in Client |->
          IF c = inside["host"] /\ clients[c] = "Open" THEN "Stopped" ELSE clients[c]]
    /\ Leave("host")
    /\ UNCHANGED <<network, openedSince>>

\* g_network.reset(), and the runtime's other members.
Reset ==
    /\ Step("host", "Reset", "Idle")
    /\ network' = 0
    /\ clients' = [d \in Client |-> IF d = network THEN Gone(d) ELSE clients[d]]
    /\ UNCHANGED <<launch, inside, stopRequested, openedSince, faulted>>

\* The game calls FrontierClient_Initialize, _Update or _Shutdown.
HostCalls ==
    /\ process = "Running"
    /\ attached
    /\ \/ Fresh("host") # {} /\ Step("host", "Idle", "Inspect")
       \/ Step("host", "Idle", "Check")
       \/ Step("host", "Idle", "RequestStop")
    /\ UNCHANGED <<launch, inside, network, clients, stopRequested, openedSince, faulted>>

ThreadStep(t) ==
    \/ Inspect(t)
    \/ Replace(t)
    \/ Connect(t)
    \/ Connecting(t)
    \/ Check(t)
    \/ Update(t)
    \/ Updating(t)
    \/ ReadState(t)
    \/ Submit(t)
    \/ Submitting(t)

WorkerStep == WorkerWakes \/ WorkerLoop \/ ThreadStep("worker")

HostStep == HostCalls \/ RequestStop \/ Stop \/ Stopping \/ Reset \/ ThreadStep("host")

-----------------------------------------------------------------------------
\* DllMain creates the worker, or fails to and says nothing.
Attach ==
    /\ AttachClient
    /\ \E created \in BOOLEAN :
          pc' = [pc EXCEPT !["worker"] = IF created THEN "Sleeping" ELSE @]
    /\ UNCHANGED <<inside, network, clients, stopRequested, openedSince, raced, faulted>>

\* A process that ends takes its sockets along, without a Goodbye: DllMain
\* does nothing on detach, and ~NetworkClient says none either.
ClientsEnd ==
    /\ clients' = [c \in Client |->
          IF process' = "Exited" /\ clients[c] = "Open" THEN "Lost" ELSE clients[c]]
    /\ UNCHANGED <<pc, inside, network, stopRequested, openedSince, raced, faulted>>

Next ==
    \/ LauncherStep /\ ClientsEnd
    \/ ReadPath /\ ClientsEnd
    \/ LoaderKilled /\ ClientsEnd
    \/ Attach
    \/ GameExits /\ ClientsEnd
    \/ WorkerStep
    \/ HostStep

\* The launcher, once it has its arguments, and the worker are threads that
\* run on; who types the arguments, the loader, the game and its calls owe
\* nothing.
Fairness ==
    /\ WF_vars(step # "Arguments" /\ LauncherStep /\ ClientsEnd)
    /\ WF_vars(WorkerStep)

Spec == Init /\ [][Next]_vars /\ Fairness
=============================================================================
