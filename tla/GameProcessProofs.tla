-------------------------- MODULE GameProcessProofs --------------------------
(***************************************************************************)
(* Proofs about GameProcess for every set of executables, every known      *)
(* build and any number of clients.                                        *)
(*                                                                         *)
(* The first part is about the launcher alone: which handles it holds and  *)
(* what has become of the process at each of its calls (Ledger), and what  *)
(* it knows by then of the loader and the executable (Learnt).  The second *)
(* is about the two threads and g_network, the third about the two gates,  *)
(* the last about what keeps the launcher and the worker from going round. *)
(***************************************************************************)
EXTENDS GameProcessProperties, TLAPS

Early == {"Arguments", "Paths", "Verify"}

\* What the launcher holds at each call.
Ledger ==
    /\ step \in Early \cup {"Create"} =>
          process = "None" /\ handles = {} /\ remotePath = "None" /\ loader = "None"
    /\ step \in {"Allocate", "Write", "Inject", "Terminate5", "Resume", "Terminate6"} =>
          handles = {"process", "mainThread"}
    /\ step \in {"Allocate", "Write", "Inject"} => loader = "None"
    /\ step = "Await" => handles = {"process", "mainThread", "loader"}
    /\ step = "Wait" => handles = {"process"}
    /\ step = "Returned" => handles = {} /\ ~Exists
    /\ remotePath = "Held" => Exists /\ step \in {"Write", "Inject", "Await"}

\* What it has learnt of the loader and the executable.
Learnt ==
    /\ step \in {"Resume", "Wait"} => loader \in {"NonZero", "Killed"}
    /\ process = "Running" => step = "Wait"
    /\ loader = "NonZero" => attached
    /\ LoaderRuns => ~attached
    /\ step \notin Early \cup {"Returned"} \/ loader # "None" =>
          Known(InspectFile(image))
    /\ attached => loader # "None"

LaunchInv == Ledger /\ Learnt

LaunchType ==
    /\ step \in Steps
    /\ result \in {NoResult, OfGame} \cup 0..6
    /\ image \in Image
    /\ process \in {"None", "Suspended", "Running", "Exited"}
    /\ handles \subseteq {"process", "mainThread", "loader"}
    /\ remotePath \in {"None", "Held", "Freed"}
    /\ loader \in {"None", "Reading", "Attaching", "Zero", "NonZero", "Killed"}
    /\ attached \in BOOLEAN

\* A step of anybody, as the launcher's variables see it.
LaunchNext ==
    \/ LauncherStep
    \/ ReadPath
    \/ AttachClient
    \/ LoaderKilled
    \/ GameExits
    \/ UNCHANGED launch

LEMMA LaunchInitial == LaunchInit => LaunchType /\ LaunchInv
  BY DEF LaunchInit, LaunchType, LaunchInv, Ledger, Learnt, Steps, Early, Exists, LoaderRuns

(* Each call keeps the types of the launcher's variables.                   *)
LEMMA LaunchTypeStep == LaunchType /\ LaunchNext => LaunchType'
<1> SUFFICES ASSUME LaunchType, LaunchNext PROVE LaunchType'
  OBVIOUS
<1> USE DEF LaunchType, Steps, Advance, Return, NoGame
<1>1. CASE Arguments
  BY <1>1 DEF Arguments
<1>2. CASE CheckPaths
  BY <1>2 DEF CheckPaths
<1>3. CASE VerifyGame
  BY <1>3 DEF VerifyGame
<1>4. CASE CreateGame
  <2>1. handles' \subseteq {"process", "mainThread", "loader"}
    BY <1>4 DEF CreateGame
  <2> QED
    BY <1>4, <2>1 DEF CreateGame
<1>5. CASE Allocate
  BY <1>5 DEF Allocate
<1>6. CASE WritePath
  BY <1>6 DEF WritePath, Freed
<1>7. CASE StartLoader
  BY <1>7 DEF StartLoader, Freed
<1>8. CASE AwaitLoader
  BY <1>8 DEF AwaitLoader, Freed
<1>9. CASE Abandon
  BY <1>9 DEF Abandon, Ends
<1>10. CASE ResumeGame
  BY <1>10 DEF ResumeGame
<1>11. CASE WaitGame
  BY <1>11 DEF WaitGame
<1>12. CASE ReadPath
  BY <1>12 DEF ReadPath, Ends
<1>13. CASE AttachClient
  BY <1>13 DEF AttachClient
<1>14. CASE GameExits
  BY <1>14 DEF GameExits, Ends
<1>15. CASE LoaderKilled
  BY <1>15 DEF LoaderKilled
<1>16. CASE UNCHANGED launch
  BY <1>16 DEF launch
<1> QED
  BY <1>1, <1>2, <1>3, <1>4, <1>5, <1>6, <1>7, <1>8, <1>9, <1>10, <1>11, <1>12,
     <1>13, <1>14, <1>15, <1>16 DEF LaunchNext, LauncherStep

(* Each call, the loader and the end of the game keep the ledger.           *)
LEMMA LaunchStep == LaunchType /\ LaunchInv /\ LaunchNext => LaunchInv'
<1> SUFFICES ASSUME LaunchType, LaunchInv, LaunchNext PROVE LaunchInv'
  OBVIOUS
<1> USE DEF LaunchType, LaunchInv, Ledger, Learnt, Early, Steps, Exists, LoaderRuns,
            Advance, Return, NoGame
<1>1. CASE Arguments
  BY <1>1 DEF Arguments
<1>2. CASE CheckPaths
  BY <1>2 DEF CheckPaths
<1>3. CASE VerifyGame
  BY <1>3 DEF VerifyGame
<1>4. CASE CreateGame
  BY <1>4 DEF CreateGame
<1>5. CASE Allocate
  BY <1>5 DEF Allocate
<1>6. CASE WritePath
  <2>1. CASE Advance("Write", "Terminate5") /\ remotePath' = Freed
    <3>1. /\ step = "Write" /\ step' = "Terminate5" /\ image' = image
          /\ UNCHANGED <<process, handles, loader, attached>>
      BY <1>6, <2>1 DEF WritePath
    <3>2. remotePath' # "Held"
      BY <2>1 DEF Freed
    <3>3. Ledger'
      BY <3>1, <3>2
    <3>4. Learnt'
      BY <3>1
    <3> QED
      BY <3>3, <3>4
  <2>2. CASE Exists /\ Advance("Write", "Inject") /\ UNCHANGED remotePath
    BY <1>6, <2>2 DEF WritePath
  <2> QED
    BY <1>6, <2>1, <2>2 DEF WritePath
<1>7. CASE StartLoader
  BY <1>7 DEF StartLoader, Freed
<1>8. CASE AwaitLoader
  BY <1>8 DEF AwaitLoader, Freed, LoaderSucceeded
<1>9. CASE Abandon
  BY <1>9 DEF Abandon, Ends
<1>10. CASE ResumeGame
  BY <1>10 DEF ResumeGame
<1>11. CASE WaitGame
  BY <1>11 DEF WaitGame
<1>12. CASE ReadPath
  BY <1>12 DEF ReadPath, Ends
<1>13. CASE AttachClient
  BY <1>13 DEF AttachClient
<1>14. CASE GameExits
  BY <1>14 DEF GameExits, Ends
<1>15. CASE LoaderKilled
  BY <1>15 DEF LoaderKilled
<1>16. CASE UNCHANGED launch
  BY <1>16 DEF launch
<1> QED
  BY <1>1, <1>2, <1>3, <1>4, <1>5, <1>6, <1>7, <1>8, <1>9, <1>10, <1>11, <1>12,
     <1>13, <1>14, <1>15, <1>16 DEF LaunchNext, LauncherStep

-----------------------------------------------------------------------------
\* The variables of the two threads.
Labels(t) == IF t = "worker" THEN WorkerLabels ELSE HostLabels

ThreadType ==
    /\ pc \in [Thread -> WorkerLabels \cup HostLabels]
    /\ \A t \in Thread : pc[t] \in Labels(t)
    /\ inside \in [Thread -> 0..MaxClients]
    /\ network \in 0..MaxClients
    /\ clients \in [Client -> {"Unborn", "Made", "Open", "Stopped", "Destroyed", "Lost"}]
    /\ openedSince \subseteq Client
    /\ stopRequested \in BOOLEAN /\ raced \in BOOLEAN /\ faulted \in BOOLEAN

LEMMA TypeSplit == TypeOK <=> LaunchType /\ ThreadType
  BY DEF TypeOK, LaunchType, ThreadType, Labels, Thread

(* What a step of a thread does to pc and raced.                            *)
LEMMA StepTaken ==
    ASSUME ThreadType, NEW t \in Thread, NEW from, NEW to, Step(t, from, to)
    PROVE  /\ process # "Exited"
           /\ pc[t] = from /\ pc'[t] = to
           /\ pc' = [pc EXCEPT ![t] = to]
           /\ \A u \in Thread \ {t} : pc'[u] = pc[u]
           /\ raced' \in BOOLEAN
           /\ raced \/ Overlaps(pc') <=> raced'
  BY DEF Step, Goto, ThreadType, Exists

LEMMA LabelsKept ==
    ASSUME ThreadType, NEW t \in Thread, NEW from, NEW to \in Labels(t), Step(t, from, to)
    PROVE  /\ pc' \in [Thread -> WorkerLabels \cup HostLabels]
           /\ \A u \in Thread : pc'[u] \in Labels(u)
           /\ raced' \in BOOLEAN
<1>1. to \in WorkerLabels \cup HostLabels
  BY DEF Labels
<1> QED
  BY <1>1, StepTaken DEF ThreadType

LEMMA InitializeLabels ==
    ASSUME NEW t \in Thread
    PROVE  /\ InInitializeOrUpdate \subseteq Labels(t)
           /\ Caller(t) \in Labels(t)
           /\ t = "worker" => {"Ended", "Refused", "Loop", "Sleeping"} \subseteq Labels(t)
           /\ t # "worker" => t = "host" /\ {"Idle", "RequestStop", "Stop", "Stopping", "Reset"} \subseteq Labels(t)
  BY DEF Thread, Labels, InInitializeOrUpdate, Caller, WorkerLabels, HostLabels

LEMMA LeaveType ==
    ASSUME ThreadType, NEW t \in Thread, Leave(t)
    PROVE  /\ inside' \in [Thread -> 0..MaxClients]
           /\ stopRequested' \in BOOLEAN
           /\ faulted' \in BOOLEAN
<1>1. inside' \in [Thread -> 0..MaxClients]
  BY ProcessAssumption DEF Leave, ThreadType
<1>2. stopRequested' \in BOOLEAN
  BY DEF Leave, launch, ThreadType
<1>3. (faulted \/ Destroyed(inside[t])) \in BOOLEAN
  OBVIOUS
<1> QED
  BY <1>1, <1>2, <1>3 DEF Leave

(* The steps a thread takes inside Initialize and Update.                   *)
LEMMA ThreadStepType ==
    ASSUME ThreadType, NEW t \in Thread, ThreadStep(t)
    PROVE  ThreadType'
<1> USE DEF ThreadType
<1> DEFINE Places == /\ pc' \in [Thread -> WorkerLabels \cup HostLabels]
                     /\ \A u \in Thread : pc'[u] \in Labels(u)
                     /\ raced' \in BOOLEAN
<1>0. /\ {"Inspect", "Replace", "Connect", "Connecting", "Check", "Update", "Updating",
           "State", "Submit", "Submitting", Caller(t)} \subseteq Labels(t)
      /\ t = "worker" => {"Ended", "Refused"} \subseteq Labels(t)
      /\ t # "worker" => t = "host" /\ "Idle" \in Labels(t)
  BY InitializeLabels DEF InInitializeOrUpdate
<1>1. CASE Inspect(t)
  <2>1. Places
    BY <1>0, <1>1, LabelsKept DEF Inspect
  <2> QED BY <1>1, <2>1 DEF Inspect
<1>2. CASE Replace(t)
  <2>1. Places
    BY <1>0, <1>2, LabelsKept DEF Replace
  <2>2. PICK c \in Fresh(t) :
          /\ network' = c
          /\ clients' = [d \in Client |->
                IF d = c THEN "Made" ELSE IF d = network THEN Gone(d) ELSE clients[d]]
    BY <1>2 DEF Replace
  <2>3. c \in 0..MaxClients
    BY <2>2, ProcessAssumption DEF Fresh, Client
  <2> QED BY <1>2, <2>1, <2>2, <2>3 DEF Replace, Gone, Client
<1>3. CASE Connect(t)
  <2>1. Places
    BY <1>0, <1>3, LabelsKept DEF Connect, Enter
  <2> QED BY <1>3, <2>1 DEF Connect, Enter
<1>4. CASE Connecting(t)
  <2>1. Places
    BY <1>0, <1>4, LabelsKept DEF Connecting
  <2> QED BY <1>4, <2>1, LeaveType DEF Connecting
<1>5. CASE Check(t)
  <2>1. Places
    BY <1>0, <1>5, LabelsKept DEF Check
  <2> QED BY <1>5, <2>1 DEF Check
<1>6. CASE Update(t)
  <2>1. Places
    BY <1>0, <1>6, LabelsKept DEF Update, Enter
  <2> QED BY <1>6, <2>1 DEF Update, Enter
<1>7. CASE Updating(t)
  <2>1. Places
    BY <1>0, <1>7, LabelsKept DEF Updating
  <2> QED BY <1>7, <2>1, LeaveType DEF Updating
<1>8. CASE ReadState(t)
  <2>1. Places
    BY <1>0, <1>8, LabelsKept DEF ReadState
  <2> QED BY <1>8, <2>1 DEF ReadState
<1>9. CASE Submit(t)
  <2>1. Places
    BY <1>0, <1>9, LabelsKept DEF Submit, Enter
  <2> QED BY <1>9, <2>1 DEF Submit, Enter
<1>10. CASE Submitting(t)
  <2>1. Places
    BY <1>0, <1>10, LabelsKept DEF Submitting
  <2> QED BY <1>10, <2>1, LeaveType DEF Submitting
<1> QED
  BY <1>1, <1>2, <1>3, <1>4, <1>5, <1>6, <1>7, <1>8, <1>9, <1>10 DEF ThreadStep

(* The other steps, of the worker, of the host and of everybody else.       *)
LEMMA ThreadTypeNext == ThreadType /\ [Next]_vars => ThreadType'
<1> SUFFICES ASSUME ThreadType, [Next]_vars PROVE ThreadType'
  OBVIOUS
<1> USE DEF ThreadType
<1> DEFINE Places == /\ pc' \in [Thread -> WorkerLabels \cup HostLabels]
                     /\ \A u \in Thread : pc'[u] \in Labels(u)
                     /\ raced' \in BOOLEAN
<1>0. /\ "worker" \in Thread /\ "host" \in Thread
      /\ {"Inspect", "Check", "Ended", "Sleeping"} \subseteq Labels("worker")
      /\ {"Idle", "Inspect", "Check", "RequestStop", "Stop", "Stopping", "Reset"}
            \subseteq Labels("host")
  BY DEF Thread, Labels, WorkerLabels, HostLabels, InInitializeOrUpdate
<1>1. ASSUME NEW t \in Thread, ThreadStep(t) PROVE ThreadType'
  BY <1>1, ThreadStepType
<1>2. CASE WorkerWakes
  <2>1. Places
    BY <1>0, <1>2, LabelsKept DEF WorkerWakes
  <2> QED BY <1>2, <2>1 DEF WorkerWakes
<1>3. CASE WorkerLoop
  <2>1. Places
    BY <1>0, <1>3, LabelsKept DEF WorkerLoop, LoopOrEnd
  <2> QED BY <1>3, <2>1 DEF WorkerLoop
<1>4. CASE HostCalls
  <2>1. Places
    BY <1>0, <1>4, LabelsKept DEF HostCalls
  <2> QED BY <1>4, <2>1 DEF HostCalls
<1>5. CASE RequestStop
  <2>1. Places
    BY <1>0, <1>5, LabelsKept DEF RequestStop
  <2> QED BY <1>5, <2>1 DEF RequestStop
<1>6. CASE Stop
  <2>1. Places
    BY <1>0, <1>6, LabelsKept DEF Stop
  <2> QED BY <1>6, <2>1 DEF Stop
<1>7. CASE Stopping
  <2>1. Places
    BY <1>0, <1>7, LabelsKept DEF Stopping
  <2>2. clients' \in [Client -> {"Unborn", "Made", "Open", "Stopped", "Destroyed", "Lost"}]
    BY <1>7 DEF Stopping
  <2>3. /\ inside' \in [Thread -> 0..MaxClients]
        /\ stopRequested' \in BOOLEAN /\ faulted' \in BOOLEAN
    BY <1>0, <1>7, LeaveType DEF Stopping
  <2> QED BY <1>7, <2>1, <2>2, <2>3 DEF Stopping
<1>8. CASE Reset
  <2>1. Places
    BY <1>0, <1>8, LabelsKept DEF Reset
  <2>2. clients' \in [Client -> {"Unborn", "Made", "Open", "Stopped", "Destroyed", "Lost"}]
    BY <1>8 DEF Reset, Gone
  <2>3. network' \in 0..MaxClients
    BY <1>8, ProcessAssumption DEF Reset
  <2> QED BY <1>8, <2>1, <2>2, <2>3 DEF Reset
<1>9. CASE Attach
  <2>1. Places
    BY <1>0, <1>9 DEF Attach, Labels
  <2> QED BY <1>9, <2>1 DEF Attach
<1>10. CASE ClientsEnd
  BY <1>10 DEF ClientsEnd
<1>11. CASE UNCHANGED vars
  BY <1>11 DEF vars, threads
<1> QED
  BY <1>0, <1>1, <1>2, <1>3, <1>4, <1>5, <1>6, <1>7, <1>8, <1>9, <1>10, <1>11
  DEF Next, WorkerStep, HostStep

(* Everybody's step is one of the launcher's variables' steps.              *)
LEMMA NextLaunches == [Next]_vars => LaunchNext
  BY DEF Next, vars, LaunchNext, Attach, WorkerStep, HostStep, WorkerWakes, WorkerLoop,
         HostCalls, RequestStop, Stop, Stopping, Reset, Enter, Leave, ThreadStep, Inspect,
         Replace, Connect, Connecting, Check, Update, Updating, ReadState, Submit,
         Submitting

LEMMA ProcessInitial == Init => LaunchType /\ ThreadType
<1> SUFFICES ASSUME Init PROVE LaunchType /\ ThreadType
  OBVIOUS
<1>1. pc = [t \in Thread |-> IF t = "worker" THEN "Absent" ELSE "Idle"]
  BY DEF Init, Thread
<1>2. /\ pc \in [Thread -> WorkerLabels \cup HostLabels]
      /\ \A t \in Thread : pc[t] \in Labels(t)
  BY <1>1 DEF Labels, WorkerLabels, HostLabels
<1>3. LaunchType
  BY LaunchInitial DEF Init
<1>4. /\ network \in 0..MaxClients
      /\ inside \in [Thread -> 0..MaxClients]
  BY ProcessAssumption DEF Init
<1>5. clients \in [Client -> {"Unborn", "Made", "Open", "Stopped", "Destroyed", "Lost"}]
  BY DEF Init
<1>6. /\ openedSince \subseteq Client
      /\ stopRequested \in BOOLEAN /\ raced \in BOOLEAN /\ faulted \in BOOLEAN
  BY DEF Init
<1> QED
  BY <1>2, <1>3, <1>4, <1>5, <1>6 DEF ThreadType

(* The program keeps its types: every return leads to a label of the thread *)
(* that called, every pointer is null or a client.                          *)
THEOREM ProcessTypeCorrect == Spec => []TypeOK
<1>1. (LaunchType /\ ThreadType) /\ [Next]_vars => (LaunchType /\ ThreadType)'
  BY NextLaunches, LaunchTypeStep, ThreadTypeNext
<1>2. LaunchType /\ ThreadType => TypeOK
  BY TypeSplit
<1> QED
  BY ProcessInitial, <1>1, <1>2, PTL DEF Spec

(* Whatever fails, whoever ends the game: no handle and no game is left.    *)
THEOREM LauncherReturnsClean == Spec => []CleanReturn
<1>1. Init => LaunchType /\ LaunchInv
  BY LaunchInitial DEF Init
<1>2. (LaunchType /\ LaunchInv) /\ [Next]_vars => (LaunchType /\ LaunchInv)'
  BY NextLaunches, LaunchStep, LaunchTypeStep
<1>3. LaunchType /\ LaunchInv => CleanReturn
  BY DEF LaunchInv, Ledger, CleanReturn
<1> QED
  BY <1>1, <1>2, <1>3, PTL DEF Spec

(* The game's own code runs only with the loader over and the client        *)
(* attached, or after somebody else ended the loader with an exit code that *)
(* passes for a module.                                                     *)
THEOREM GameRunsWithClient == Spec => []RunsWithClient
<1>1. Init => LaunchType /\ LaunchInv
  BY LaunchInitial DEF Init
<1>2. (LaunchType /\ LaunchInv) /\ [Next]_vars => (LaunchType /\ LaunchInv)'
  BY NextLaunches, LaunchStep, LaunchTypeStep
<1>3. LaunchType /\ LaunchInv => RunsWithClient
  BY DEF LaunchType, LaunchInv, Learnt, RunsWithClient, LoaderRuns, Exists
<1> QED
  BY <1>1, <1>2, <1>3, PTL DEF Spec

-----------------------------------------------------------------------------
(***************************************************************************)
(* The two threads.  As long as no call that writes g_network overlapped   *)
(* another, a thread between its test of the pointer and its use of it     *)
(* finds what it tested (Sound), since whoever could change it is outside. *)
(***************************************************************************)
Using == {"Connect", "Update", "State", "Submit"}
Within == {"Connecting", "Updating", "Submitting", "Stopping"}
NotYet == {"Absent", "Sleeping", "Inspect", "Replace"}

Sound(t) ==
    /\ pc[t] \in Using \cup Within => network # 0
    /\ pc[t] \in Within => inside[t] = network

\* Whatever has overlapped.
Always ==
    /\ network # 0 /\ process # "Exited" => clients[network] \notin {"Unborn", "Destroyed", "Lost"}
    /\ \A t \in Thread : inside[t] # 0 => clients[inside[t]] # "Unborn"
    /\ pc["worker"] \in NotYet => clients[1] = "Unborn"
    /\ attached \/ pc["worker"] = "Absent"
    /\ process = "Exited" => \A c \in Client : clients[c] # "Open"

\* An open client is the one in g_network, and was opened after the last
\* Shutdown or is still before that Shutdown's Goodbye.
Accounted ==
    \A c \in Client : clients[c] = "Open" =>
        c = network /\ (c \in openedSince \/ pc["host"] \in {"Stop", "Stopping"})

\* As long as nothing has overlapped.
Alone ==
    /\ ~faulted
    /\ ~Overlaps(pc)
    /\ \A t \in Thread : Sound(t)
    /\ Accounted
    /\ pc["host"] = "Reset" => network = 0 \/ clients[network] # "Open"

SafeInv == Always /\ (raced \/ Alone)

(* A step that leaves g_network and the clients as they are.                *)
LEMMA QuietStep ==
    ASSUME ThreadType, SafeInv, NEW t \in Thread, NEW from, NEW to, Step(t, from, to),
           UNCHANGED <<network, clients, process, attached>>,
           openedSince' = openedSince \/ (t = "host" /\ to = "Stop"),
           t = "host" /\ from \in {"Stop", "Stopping"} => to \in {"Reset", "Stopping"},
           \A u \in Thread : inside'[u] \in {inside[u], network, 0},
           \A u \in Thread \ {t} : inside'[u] = inside[u],
           t = "worker" => from # "Absent" /\ (to \in NotYet => from \in NotYet),
           ~raced /\ ~Overlaps(pc') =>
               /\ faulted' = faulted
               /\ to \in Using \cup Within => network # 0
               /\ to \in Within => inside'[t] = network
               /\ to # "Reset" \/ network = 0
    PROVE  SafeInv'
<1> USE DEF SafeInv
<1>1. /\ pc[t] = from /\ pc'[t] = to
      /\ \A u \in Thread \ {t} : pc'[u] = pc[u]
      /\ raced \/ Overlaps(pc') <=> raced'
      /\ process # "Exited"
  BY StepTaken
<1>2. Always'
  BY <1>1 DEF Always, Thread
<1>3. ASSUME ~raced' PROVE Alone'
  <2>1. ~raced /\ ~Overlaps(pc') /\ Alone
    BY <1>1, <1>3
  <2>2. ~faulted'
    BY <2>1 DEF Alone
  <2>3. ~Overlaps(pc)'
    BY <2>1 DEF Overlaps
  <2>4. ASSUME NEW u \in Thread PROVE Sound(u)'
    <3>1. CASE u = t
      BY <1>1, <2>1, <3>1 DEF Sound
    <3>2. CASE u # t
      BY <1>1, <2>1, <3>2 DEF Sound, Alone
    <3> QED BY <3>1, <3>2
  <2>5. pc'["host"] = "Reset" => network = 0 \/ clients[network] # "Open"
    BY <1>1, <2>1 DEF Alone, Thread
  <2>6. Accounted'
    <3> SUFFICES ASSUME NEW c \in Client, clients[c] = "Open"
                 PROVE  c = network /\ (c \in openedSince' \/ pc'["host"] \in {"Stop", "Stopping"})
      BY DEF Accounted
    <3>1. /\ c = network /\ network # 0
          /\ c \in openedSince \/ pc["host"] \in {"Stop", "Stopping"}
      BY <2>1 DEF Alone, Accounted, Client
    <3>2. CASE t = "host"
      BY <1>1, <2>1, <3>1, <3>2
    <3>3. CASE t # "host"
      BY <1>1, <3>1, <3>3 DEF Thread
    <3> QED BY <3>2, <3>3
  <2> QED
    BY <2>2, <2>3, <2>4, <2>5, <2>6 DEF Alone
<1> QED
  BY <1>2, <1>3

(* The steps inside Initialize and Update.                                  *)
LEMMA ThreadStepSafe ==
    ASSUME ThreadType, SafeInv, NEW t \in Thread, ThreadStep(t)
    PROVE  SafeInv'
<1>a. attached' = attached /\ process' = process
  BY DEF ThreadStep, Inspect, Replace, Connect, Connecting, Check, Update, Updating,
         ReadState, Submit, Submitting, Enter, Leave, launch
<1>b. \A u \in Thread : inside[u] \in 0..MaxClients
  BY DEF ThreadType
<1>c. Caller(t) \in {"Loop", "Idle"}
  BY DEF Caller
<1>1. CASE Inspect(t)
  <2>1. PICK to \in {"Replace", "Refused", "Idle"} : Step(t, "Inspect", to)
    BY <1>1 DEF Inspect
  <2> QED
    BY <1>a, <1>1, <2>1, QuietStep DEF Inspect, NotYet, Using, Within
<1>2. CASE Replace(t)
  <2>1. PICK c \in Fresh(t) :
          /\ network' = c
          /\ clients' = [d \in Client |->
                IF d = c THEN "Made" ELSE IF d = network THEN Gone(d) ELSE clients[d]]
    BY <1>2 DEF Replace
  <2>2. /\ pc[t] = "Replace" /\ pc'[t] = "Connect"
        /\ \A u \in Thread \ {t} : pc'[u] = pc[u]
        /\ raced \/ Overlaps(pc') <=> raced'
        /\ faulted' = faulted /\ inside' = inside /\ openedSince' = openedSince
        /\ process # "Exited"
    BY <1>2, StepTaken DEF Replace
  <2>3. c \in Client /\ clients[c] = "Unborn" /\ 1 \in Client
    BY <2>1, <2>2, ProcessAssumption DEF Fresh, Client, SafeInv, Always, NotYet, Thread
  <2>4. t # "worker" => c # 1
    BY <2>1 DEF Fresh
  <2>5. Always'
    <3>1. network' # 0 /\ clients'[network'] \notin {"Unborn", "Destroyed", "Lost"}
      BY <2>1, <2>3 DEF Client
    <3>2. \A d \in Client : clients'[d] = "Unborn" => clients[d] = "Unborn"
      BY <2>1, <2>3 DEF Gone
    <3>3. \A u \in Thread : inside[u] # 0 => clients'[inside[u]] # "Unborn"
      BY <1>b, <3>2 DEF SafeInv, Always, Client
    <3>4. t # "worker" /\ clients[1] = "Unborn" => clients'[1] = "Unborn"
      BY <2>1, <2>2, <2>3, <2>4 DEF SafeInv, Always
    <3>5. pc'["worker"] \in NotYet => t # "worker" /\ pc["worker"] \in NotYet
      BY <2>2 DEF NotYet, Thread
    <3>6. attached' \/ pc'["worker"] = "Absent"
      BY <1>a, <2>2 DEF SafeInv, Always, Thread
    <3> QED
      BY <1>a, <2>2, <3>1, <3>3, <3>4, <3>5, <3>6 DEF SafeInv, Always
  <2>6. ASSUME ~raced' PROVE Alone'
    <3>1. ~raced /\ Alone /\ ~Overlaps(pc')
      BY <2>2, <2>6 DEF SafeInv
    <3>2. \A u \in Thread \ {t} : pc[u] \in Outside
      BY <2>2, <3>1 DEF Alone, Overlaps, Changing
    <3>3. ASSUME NEW u \in Thread PROVE Sound(u)'
      <4>1. CASE u = t
        BY <2>1, <2>2, <2>3, <4>1 DEF Sound, Within, Client
      <4>2. CASE u # t
        BY <2>2, <3>2, <4>2 DEF Sound, Outside, Using, Within
      <4> QED BY <4>1, <4>2
    <3>4. pc'["host"] # "Reset"
      BY <2>2, <3>2 DEF Outside, Thread
    <3>5. Accounted'
      BY <2>1, <3>1 DEF Alone, Accounted, Gone
    <3> QED
      BY <2>2, <3>1, <3>3, <3>4, <3>5 DEF Alone, Overlaps
  <2> QED
    BY <2>5, <2>6 DEF SafeInv
<1>3. CASE Connect(t)
  <2>1. ~raced => network # 0
    BY <1>3, StepTaken DEF Connect, Enter, SafeInv, Alone, Sound, Using
  <2> QED
    BY <1>a, <1>3, <2>1, QuietStep DEF Connect, Enter, NotYet, Using, Within, ThreadType
<1>4. CASE Connecting(t)
  <2>1. PICK opens \in BOOLEAN :
          /\ Step(t, "Connecting",
                  IF opens \/ t = "host" THEN Caller(t) ELSE "Ended")
          /\ clients' = [c \in Client |->
                IF c = inside[t] /\ opens /\ ~Destroyed(c) THEN "Open" ELSE clients[c]]
    BY <1>4 DEF Connecting
  <2>2. PICK to \in {"Loop", "Idle", "Ended"} : Step(t, "Connecting", to)
    BY <1>c, <2>1
  <2>3. /\ pc[t] = "Connecting" /\ pc'[t] = to
        /\ \A u \in Thread \ {t} : pc'[u] = pc[u]
        /\ raced \/ Overlaps(pc') <=> raced'
        /\ process # "Exited"
    BY <2>2, StepTaken
  <2>4. /\ network' = network
        /\ inside' = [inside EXCEPT ![t] = 0]
        /\ faulted' = (faulted \/ Destroyed(inside[t]))
    BY <1>4 DEF Connecting, Leave
  <2>5. Always'
    <3>1. \A c \in Client : clients'[c] \in {"Open", clients[c]}
      BY <2>1
    <3>2. 0 \notin Client /\ 1 \in Client /\ Client = 1..MaxClients
      BY ProcessAssumption DEF Client
    <3>3. network # 0 => clients'[network] \notin {"Unborn", "Destroyed", "Lost"}
      BY <2>3, <3>1, <3>2 DEF SafeInv, Always, ThreadType
    <3>4. \A u \in Thread : inside'[u] # 0 => clients'[inside'[u]] # "Unborn"
      BY <1>b, <2>4, <3>1, <3>2 DEF SafeInv, Always, ThreadType
    <3>5. clients[1] = "Unborn" => clients'[1] = "Unborn"
      BY <1>b, <2>1, <3>2 DEF SafeInv, Always
    <3>6. pc'["worker"] \in NotYet => pc["worker"] \in NotYet
      BY <2>2, <2>3 DEF NotYet, Thread
    <3>7. attached' \/ pc'["worker"] = "Absent"
      BY <1>a, <2>3 DEF SafeInv, Always, Thread
    <3> QED
      BY <1>a, <2>3, <2>4, <3>3, <3>4, <3>5, <3>6, <3>7 DEF SafeInv, Always
  <2>6. ASSUME ~raced' PROVE Alone'
    <3>1. ~raced /\ Alone /\ ~Overlaps(pc')
      BY <2>3, <2>6 DEF SafeInv
    <3>2. inside[t] = network /\ network # 0
      BY <2>3, <3>1 DEF Alone, Sound, Within
    <3>3. ~faulted'
      BY <2>3, <2>4, <3>1, <3>2 DEF Alone, SafeInv, Always, Destroyed
    <3>4. ASSUME NEW u \in Thread PROVE Sound(u)'
      BY <2>2, <2>3, <2>4, <3>1 DEF Alone, Sound, Using, Within, ThreadType
    <3>5. pc'["host"] # "Reset"
      <4>1. pc["host"] # "Reset"
        BY <2>3, <3>1 DEF Alone, Overlaps, Changing, Outside, Thread
      <4> QED BY <2>2, <2>3, <4>1 DEF Thread
    <3>6. Accounted'
      <4> SUFFICES ASSUME NEW c \in Client, clients'[c] = "Open"
                   PROVE  /\ c = network'
                          /\ c \in openedSince' \/ pc'["host"] \in {"Stop", "Stopping"}
        BY DEF Accounted
      <4>1. openedSince' = openedSince \cup
                {d \in Client : clients[d] # "Open" /\ clients'[d] = "Open"}
        BY <1>4 DEF Connecting
      <4>2. c = network
        BY <2>1, <3>1, <3>2 DEF Alone, Accounted
      <4>3. pc["host"] \notin {"Stop", "Stopping"}
        BY <2>3, <3>1 DEF Alone, Overlaps, Changing, Outside, Thread
      <4>4. c \in openedSince'
        BY <3>1, <4>1, <4>3 DEF Alone, Accounted
      <4> QED BY <2>4, <4>2, <4>4
    <3> QED
      BY <3>1, <3>3, <3>4, <3>5, <3>6 DEF Alone, Overlaps
  <2> QED
    BY <2>5, <2>6 DEF SafeInv
<1>5. CASE Check(t)
  <2>1. PICK to \in {"Loop", "Idle", "Update"} :
          Step(t, "Check", to) /\ (to = "Update" => network # 0)
    BY <1>c, <1>5 DEF Check
  <2> QED
    BY <1>a, <1>5, <2>1, QuietStep DEF Check, NotYet, Using, Within
<1>6. CASE Update(t)
  <2>1. ~raced => network # 0
    BY <1>6, StepTaken DEF Update, Enter, SafeInv, Alone, Sound, Using
  <2> QED
    BY <1>a, <1>6, <2>1, QuietStep DEF Update, Enter, NotYet, Using, Within, ThreadType
<1>7. CASE Updating(t)
  <2>1. ~raced => network # 0 /\ ~Destroyed(inside[t])
    BY <1>7, StepTaken
    DEF Updating, SafeInv, Always, Alone, Sound, Within, Destroyed
  <2> QED
    BY <1>a, <1>7, <2>1, QuietStep DEF Updating, Leave, NotYet, Using, Within, ThreadType
<1>8. CASE ReadState(t)
  <2>1. PICK to \in {"Loop", "Idle", "Submit"} : Step(t, "State", to)
    BY <1>c, <1>8 DEF ReadState
  <2>2. ~raced => network # 0
    BY <2>1, StepTaken DEF SafeInv, Alone, Sound, Using
  <2> QED
    BY <1>a, <1>8, <2>1, <2>2, QuietStep DEF ReadState, NotYet, Using, Within, ThreadType
<1>9. CASE Submit(t)
  <2>1. ~raced => network # 0
    BY <1>9, StepTaken DEF Submit, Enter, SafeInv, Alone, Sound, Using
  <2> QED
    BY <1>a, <1>9, <2>1, QuietStep DEF Submit, Enter, NotYet, Using, Within, ThreadType
<1>10. CASE Submitting(t)
  <2>1. ~raced => ~Destroyed(inside[t])
    BY <1>10, StepTaken
    DEF Submitting, SafeInv, Always, Alone, Sound, Within, Destroyed
  <2>2. PICK to \in {"Loop", "Idle"} : Step(t, "Submitting", to)
    BY <1>c, <1>10 DEF Submitting
  <2> QED
    BY <1>a, <1>10, <2>1, <2>2, QuietStep
    DEF Submitting, Leave, NotYet, Using, Within, ThreadType
<1> QED
  BY <1>1, <1>2, <1>3, <1>4, <1>5, <1>6, <1>7, <1>8, <1>9, <1>10 DEF ThreadStep

(* The steps of the host in Shutdown, of the loader and of everybody else.  *)
LEMMA SafeNext ==
    LaunchType /\ LaunchInv /\ ThreadType /\ SafeInv /\ [Next]_vars => SafeInv'
<1> SUFFICES ASSUME LaunchType, LaunchInv, ThreadType, SafeInv, [Next]_vars
             PROVE  SafeInv'
  OBVIOUS
<1>a. "worker" \in Thread /\ "host" \in Thread /\ 0 \notin Client
  BY DEF Thread, Client
<1>1. ASSUME NEW t \in Thread, ThreadStep(t) PROVE SafeInv'
  BY <1>1, ThreadStepSafe
<1>2. CASE WorkerWakes
  <2>1. attached' = attached /\ process' = process
    BY <1>2 DEF WorkerWakes, launch
  <2> QED
    BY <1>a, <1>2, <2>1, QuietStep DEF WorkerWakes, NotYet, Using, Within
<1>3. CASE WorkerLoop
  <2>1. attached' = attached /\ process' = process
    BY <1>3 DEF WorkerLoop, launch
  <2>2. PICK to \in {"Ended", "Check"} : Step("worker", "Loop", to)
    BY <1>3 DEF WorkerLoop, LoopOrEnd
  <2> QED
    BY <1>a, <1>3, <2>1, <2>2, QuietStep DEF WorkerLoop, NotYet, Using, Within
<1>4. CASE HostCalls
  <2>1. attached' = attached /\ process' = process
    BY <1>4 DEF HostCalls, launch
  <2>2. PICK to \in {"Inspect", "Check", "RequestStop"} : Step("host", "Idle", to)
    BY <1>4 DEF HostCalls
  <2> QED
    BY <1>a, <1>4, <2>1, <2>2, QuietStep DEF HostCalls, NotYet, Using, Within
<1>5. CASE RequestStop
  <2>1. attached' = attached /\ process' = process
    BY <1>5 DEF RequestStop, launch
  <2> QED
    BY <1>a, <1>5, <2>1, QuietStep DEF RequestStop, NotYet, Using, Within
<1>6. CASE Stop
  <2>1. attached' = attached /\ process' = process
    BY <1>6 DEF Stop, launch
  <2>2. PICK to \in {"Reset", "Stopping"} :
          Step("host", "Stop", to) /\ (to = "Reset" <=> network = 0)
    BY <1>6 DEF Stop
  <2> QED
    BY <1>a, <1>6, <2>1, <2>2, QuietStep DEF Stop, NotYet, Using, Within, ThreadType
<1>7. CASE Stopping
  <2>1. /\ pc["host"] = "Stopping" /\ pc'["host"] = "Reset"
        /\ \A u \in Thread \ {"host"} : pc'[u] = pc[u]
        /\ raced \/ Overlaps(pc') <=> raced'
        /\ process # "Exited"
    BY <1>a, <1>7, StepTaken DEF Stopping
  <2>2. /\ network' = network /\ attached' = attached /\ process' = process
        /\ inside' = [inside EXCEPT !["host"] = 0]
        /\ faulted' = (faulted \/ Destroyed(inside["host"]))
        /\ clients' = [c \in Client |->
             IF c = inside["host"] /\ clients[c] = "Open" THEN "Stopped" ELSE clients[c]]
    BY <1>7 DEF Stopping, Leave, launch
  <2>3. Client = 1..MaxClients /\ 1 \in Client
    BY ProcessAssumption DEF Client
  <2>4. Always'
    <3>1. \A c \in Client : clients'[c] \in {"Stopped", clients[c]}
      BY <2>2
    <3>2. network # 0 => clients'[network] \notin {"Unborn", "Destroyed", "Lost"}
      BY <2>1, <2>3, <3>1 DEF SafeInv, Always, ThreadType
    <3>3. \A u \in Thread : inside'[u] # 0 => clients'[inside'[u]] # "Unborn"
      BY <2>2, <2>3, <3>1 DEF SafeInv, Always, ThreadType
    <3>4. clients[1] = "Unborn" => clients'[1] = "Unborn"
      BY <2>2, <2>3
    <3> QED
      BY <2>1, <2>2, <3>2, <3>3, <3>4 DEF SafeInv, Always, Thread
  <2>5. ASSUME ~raced' PROVE Alone'
    <3>1. ~raced /\ Alone /\ ~Overlaps(pc')
      BY <2>1, <2>5 DEF SafeInv
    <3>2. inside["host"] = network /\ network # 0
      BY <1>a, <2>1, <3>1 DEF Alone, Sound, Within
    <3>3. ~faulted'
      BY <2>1, <2>2, <3>1, <3>2 DEF Alone, SafeInv, Always, Destroyed
    <3>4. ASSUME NEW u \in Thread PROVE Sound(u)'
      BY <2>1, <2>2, <3>1 DEF Alone, Sound, Using, Within, ThreadType
    <3>5. clients'[network] # "Open"
      BY <2>2, <2>3, <3>2 DEF ThreadType
    <3>6. Accounted'
      <4>1. \A c \in Client : clients'[c] = "Open" => clients[c] = "Open" /\ c # network
        BY <2>2, <3>2
      <4>2. \A c \in Client : clients'[c] # "Open"
        BY <3>1, <4>1 DEF Alone, Accounted
      <4> QED BY <4>2 DEF Accounted
    <3> QED
      BY <2>2, <3>1, <3>3, <3>4, <3>5, <3>6 DEF Alone, Overlaps
  <2> QED
    BY <2>4, <2>5 DEF SafeInv
<1>8. CASE Reset
  <2>1. /\ pc["host"] = "Reset" /\ pc'["host"] = "Idle"
        /\ \A u \in Thread \ {"host"} : pc'[u] = pc[u]
        /\ raced \/ Overlaps(pc') <=> raced'
        /\ process # "Exited"
    BY <1>a, <1>8, StepTaken DEF Reset
  <2>2. /\ network' = 0 /\ attached' = attached /\ process' = process
        /\ inside' = inside /\ faulted' = faulted
        /\ openedSince' = openedSince
        /\ clients' = [d \in Client |-> IF d = network THEN Gone(d) ELSE clients[d]]
    BY <1>8 DEF Reset, launch
  <2>3. Client = 1..MaxClients /\ 1 \in Client
    BY ProcessAssumption DEF Client
  <2>4. Always'
    <3>1. \A u \in Thread : inside[u] # 0 => clients'[inside[u]] # "Unborn"
      BY <2>2, <2>3 DEF SafeInv, Always, ThreadType, Gone
    <3>2. clients[1] = "Unborn" => clients'[1] = "Unborn"
      BY <2>1, <2>2, <2>3 DEF SafeInv, Always
    <3> QED
      BY <2>1, <2>2, <3>1, <3>2 DEF SafeInv, Always, Thread
  <2>5. ASSUME ~raced' PROVE Alone'
    <3>1. ~raced /\ Alone /\ ~Overlaps(pc')
      BY <2>1, <2>5 DEF SafeInv
    <3>2. pc["worker"] \in Outside
      BY <1>a, <2>1, <3>1 DEF Alone, Overlaps, Changing
    <3>3. \A u \in Thread : pc'[u] \notin Using \cup Within
      BY <2>1, <3>2 DEF Outside, Using, Within, Thread
    <3>4. \A u \in Thread : Sound(u)'
      BY <3>3 DEF Sound
    <3>5. \A c \in Client : clients'[c] # "Open"
      BY <2>2, <3>1 DEF Alone, Accounted, Gone
    <3> QED
      BY <2>1, <2>2, <3>1, <3>4, <3>5 DEF Alone, Accounted, Overlaps
  <2> QED
    BY <2>4, <2>5 DEF SafeInv
<1>9. CASE Attach
  <2>1. /\ ~attached /\ attached'
    BY <1>9 DEF Attach, AttachClient, LaunchInv, Learnt, LoaderRuns
  <2>2. pc["worker"] = "Absent"
    BY <2>1 DEF SafeInv, Always
  <2>3. /\ pc'["worker"] \in {"Absent", "Sleeping"} /\ pc'["host"] = pc["host"]
        /\ UNCHANGED <<process, inside, network, clients, openedSince, raced, faulted>>
    BY <1>9, <2>2 DEF Attach, AttachClient, ThreadType, Thread
  <2>4. Always'
    BY <2>1, <2>2, <2>3 DEF SafeInv, Always, NotYet
  <2>5. ASSUME Alone PROVE Alone'
    <3>1. \A u \in Thread : pc'[u] = pc[u] \/ pc'[u] = "Sleeping"
      BY <2>2, <2>3 DEF Thread
    <3>2. ~Overlaps(pc')
      BY <2>5, <3>1 DEF Alone, Overlaps, Outside, Changing
    <3>3. \A u \in Thread : Sound(u)'
      BY <2>3, <2>5, <3>1 DEF Alone, Sound, Using, Within
    <3> QED
      BY <2>3, <2>5, <3>2, <3>3 DEF Alone, Accounted, Overlaps
  <2> QED
    BY <2>3, <2>4, <2>5 DEF SafeInv
<1>10. CASE UNCHANGED vars
  BY <1>10 DEF vars, launch, threads, SafeInv, Always, Alone, Accounted, Sound, Overlaps
<1>11. CASE (LauncherStep \/ ReadPath \/ LoaderKilled \/ GameExits) /\ ClientsEnd
  <2>1. attached' = attached
    BY <1>11 DEF LauncherStep, ReadPath, LoaderKilled, GameExits, Ends, Arguments,
       CheckPaths, VerifyGame, CreateGame, Allocate, WritePath, StartLoader, AwaitLoader,
       Abandon, ResumeGame, WaitGame, NoGame
  <2>2. process' # "Exited" => process # "Exited"
    BY <1>11 DEF LauncherStep, ReadPath, LoaderKilled, GameExits, Ends, Arguments,
       CheckPaths, VerifyGame, CreateGame, Allocate, WritePath, StartLoader, AwaitLoader,
       Abandon, ResumeGame, WaitGame, NoGame, LaunchInv, Ledger, Early, Exists
  <2>3. /\ UNCHANGED <<pc, inside, network, openedSince, raced, faulted>>
        /\ \A c \in Client :
              clients'[c] = IF process' = "Exited" /\ clients[c] = "Open" THEN "Lost"
                            ELSE clients[c]
    BY <1>11 DEF ClientsEnd
  <2>4. Always'
    <3>1. network # 0 /\ process' # "Exited" => clients'[network] = clients[network]
      BY <1>a, <2>3 DEF ThreadType, Client
    <3>2. \A t \in Thread : inside[t] # 0 => clients'[inside[t]] # "Unborn"
      BY <2>3 DEF SafeInv, Always, ThreadType, Client
    <3>3. clients[1] = "Unborn" => clients'[1] = "Unborn"
      BY <2>3, ProcessAssumption DEF Client
    <3> QED
      BY <2>1, <2>2, <2>3, <3>1, <3>2, <3>3 DEF SafeInv, Always
  <2>5. ASSUME ~raced PROVE Alone'
    <3>1. \A c \in Client : clients'[c] = "Open" => clients[c] = "Open"
      BY <2>3
    <3>2. Accounted'
      BY <2>3, <2>5, <3>1 DEF SafeInv, Alone, Accounted
    <3>3. pc["host"] = "Reset" => network = 0 \/ clients'[network] # "Open"
      BY <2>3, <2>5, <3>1 DEF SafeInv, Alone, ThreadType, Client
    <3> QED
      BY <2>3, <2>5, <3>2, <3>3 DEF SafeInv, Alone, Sound, Overlaps
  <2> QED
    BY <2>3, <2>4, <2>5 DEF SafeInv
<1> QED
  BY <1>a, <1>1, <1>2, <1>3, <1>4, <1>5, <1>6, <1>7, <1>8, <1>9, <1>10, <1>11
  DEF Next, WorkerStep, HostStep

LEMMA SafeInitial == Init => SafeInv
<1> SUFFICES ASSUME Init PROVE SafeInv
  OBVIOUS
<1>1. /\ pc["worker"] = "Absent" /\ pc["host"] = "Idle"
      /\ network = 0 /\ ~faulted /\ ~attached
      /\ \A t \in Thread : inside[t] = 0
      /\ \A c \in Client : clients[c] = "Unborn"
      /\ 1 \in Client
  BY ProcessAssumption DEF Init, LaunchInit, Client
<1>2. Always
  BY <1>1 DEF Always
<1>3. Alone
  BY <1>1 DEF Alone, Accounted, Overlaps, Changing, Sound, Using, Within, Thread
<1> QED
  BY <1>2, <1>3 DEF SafeInv

ProcessInv == LaunchType /\ LaunchInv /\ ThreadType /\ SafeInv

LEMMA ProcessInvariant == Spec => []ProcessInv
<1>1. Init => ProcessInv
  BY ProcessInitial, LaunchInitial, SafeInitial DEF ProcessInv, Init
<1>2. ProcessInv /\ [Next]_vars => ProcessInv'
  BY NextLaunches, LaunchTypeStep, LaunchStep, ThreadTypeNext, SafeNext DEF ProcessInv
<1> QED
  BY <1>1, <1>2, PTL DEF Spec

(* A pointer is used wrongly only after a call that writes g_network has    *)
(* overlapped another call.                                                 *)
THEOREM UnorderedCallsOnly == Spec => []SafeWhenAlone
<1>1. ProcessInv => SafeWhenAlone
  BY DEF ProcessInv, SafeInv, Alone, SafeWhenAlone
<1> QED
  BY <1>1, ProcessInvariant, PTL

(* Before the reset of a Shutdown there is a Goodbye: an open client is     *)
(* lost only to a second Initialize, or to the end of a game in which       *)
(* nobody called Shutdown since it was opened, or whose Shutdown had not    *)
(* yet come so far.                                                         *)
THEOREM ShutdownSaysGoodbye == Spec => GoodbyeBeforeReset
<1>1. ASSUME ProcessInv, [Next]_vars, NEW c \in Client,
             clients[c] = "Open", clients'[c] = "Lost", ~raced'
      PROVE  Replaced(c) \/ EndsWithGame(c)
  <2> USE <1>1 DEF ProcessInv
  <2>1. \/ \E t \in Thread : Replace(t) \/ Connecting(t)
        \/ Stopping
        \/ Reset
        \/ ClientsEnd
    BY DEF Next, vars, threads, WorkerStep, HostStep, ThreadStep, WorkerWakes, WorkerLoop,
       HostCalls, RequestStop, Stop, Attach, Inspect, Connect, Enter, Check, Update,
       Updating, ReadState, Submit, Submitting, Thread
  <2>2. ASSUME NEW t \in Thread, Replace(t)
        PROVE  Replaced(c)
    <3>1. pc[t] = "Replace"
      BY <2>2 DEF Replace, Step
    <3>2. network = c
      BY <2>2 DEF Replace
    <3> QED BY <3>1, <3>2 DEF Replaced
  <2>3. ASSUME NEW t \in Thread, Connecting(t) PROVE FALSE
    BY <2>3 DEF Connecting
  <2>4. CASE Stopping
    BY <2>4 DEF Stopping
  <2>5. CASE Reset
    <3>1. pc["host"] = "Reset" /\ ~raced
      BY <2>5, StepTaken DEF Reset, Thread
    <3>2. c = network
      BY <2>5 DEF Reset
    <3> QED
      BY <3>1, <3>2 DEF SafeInv, Alone, Client
  <2>6. CASE ClientsEnd
    <3>1. process' = "Exited" /\ ~raced
      BY <2>6 DEF ClientsEnd
    <3>2. c = network /\ (c \in openedSince \/ pc["host"] \in {"Stop", "Stopping"})
      BY <3>1 DEF SafeInv, Alone, Accounted
    <3>3. process # "Exited"
      BY DEF SafeInv, Always
    <3> QED
      BY <3>1, <3>2, <3>3 DEF EndsWithGame
  <2> QED
    BY <2>1, <2>2, <2>3, <2>4, <2>5, <2>6
<1>2. ProcessInv /\ [Next]_vars =>
        [\A c \in Client :
            clients[c] = "Open" /\ clients'[c] = "Lost" /\ ~raced' =>
                Replaced(c) \/ EndsWithGame(c)]_vars
  BY <1>1
<1> QED
  BY <1>2, ProcessInvariant, PTL DEF Spec, GoodbyeBeforeReset

-----------------------------------------------------------------------------
(***************************************************************************)
(* The two gates: what inspect_file accepts inspect_loaded_module accepts  *)
(* too, if the bytes of .text are the same.                                *)
(***************************************************************************)
LEMMA SameTextSameGate ==
    ASSUME NEW i, Known(InspectFile(i)), i.fileText = i.memoryText
    PROVE  Known(InspectLoaded(i))
<1>1. InspectFile(i) = Fingerprint(i, i.fileText, Hashed(Text(i)))
  BY DEF Known, InspectFile, NoFingerprint
<1>2. i.dos /\ i.ntAt > 0 /\ i.amd64 /\ TextSections(i) # {}
  BY DEF Known, InspectFile, NoFingerprint
<1>3. InspectLoaded(i) = Fingerprint(i, i.memoryText, Hashed(Text(i)))
  BY <1>2 DEF InspectLoaded
<1> QED
  BY <1>1, <1>3

Refusal == pc["worker"] = "Refused" => ~Known(InspectLoaded(image))

(* The image never changes, so the worker's one look at it decides.         *)
LEMMA RefusalStep == ProcessInv /\ Refusal /\ [Next]_vars => Refusal'
<1> SUFFICES ASSUME ProcessInv, Refusal, [Next]_vars, pc'["worker"] = "Refused"
             PROVE  ~Known(InspectLoaded(image))'
  BY DEF Refusal
<1>1. image' = image
  BY NextLaunches DEF LaunchNext, LauncherStep, Arguments, CheckPaths, VerifyGame,
     CreateGame, Allocate, WritePath, StartLoader, AwaitLoader, Abandon, ResumeGame,
     WaitGame, ReadPath, AttachClient, LoaderKilled, GameExits, Advance, Return, launch
<1>2. "worker" \in Thread /\ "host" \in Thread
  BY DEF Thread
<1>3. pc["worker"] = "Refused" => ~Known(InspectLoaded(image))'
  BY <1>1 DEF Refusal
<1>4. ASSUME Inspect("worker") PROVE ~Known(InspectLoaded(image))'
  <2>1. Known(InspectLoaded(image)) => pc'["worker"] = "Replace"
    BY <1>2, <1>4, StepTaken DEF Inspect, ProcessInv
  <2> QED BY <1>1, <2>1
<1>5. ASSUME NEW t \in Thread, NEW from, NEW to, Step(t, from, to),
             t # "worker" \/ to # "Refused"
      PROVE  pc["worker"] = "Refused"
  BY <1>2, <1>5, StepTaken DEF ProcessInv
<1>6. ASSUME Attach PROVE pc["worker"] = "Refused"
  <2>1. pc'["worker"] \in {"Sleeping", pc["worker"]}
    BY <1>2, <1>6 DEF Attach, ProcessInv, ThreadType
  <2> QED BY <2>1
<1>7. ASSUME ClientsEnd \/ UNCHANGED threads PROVE pc["worker"] = "Refused"
  BY <1>7 DEF ClientsEnd, threads
<1>8. ASSUME NEW t \in Thread, ThreadStep(t), ~Inspect("worker")
      PROVE  pc["worker"] = "Refused"
  <2>1. Caller(t) # "Refused"
    BY DEF Caller
  <2> QED
    BY <1>5, <1>8, <2>1 DEF ThreadStep, Inspect, Replace, Connect, Connecting, Check,
       Update, Updating, ReadState, Submit, Submitting, Enter
<1>9. ASSUME WorkerWakes \/ WorkerLoop PROVE pc["worker"] = "Refused"
  <2>1. \E from, to : Step("worker", from, to) /\ to # "Refused"
    BY <1>9 DEF WorkerWakes, WorkerLoop, LoopOrEnd
  <2> QED BY <1>2, <1>5, <2>1
<1>10. ASSUME HostCalls \/ RequestStop \/ Stop \/ Stopping \/ Reset
       PROVE  pc["worker"] = "Refused"
  <2>1. \E from, to : Step("host", from, to)
    BY <1>10 DEF HostCalls, RequestStop, Stop, Stopping, Reset
  <2>2. "host" # "worker"
    OBVIOUS
  <2> QED BY <1>2, <1>5, <2>1, <2>2
<1> QED
  BY <1>2, <1>3, <1>4, <1>6, <1>7, <1>8, <1>9, <1>10
  DEF Next, vars, WorkerStep, HostStep

(* The client refuses a game that passed the launcher's gate only when the  *)
(* bytes of .text in memory are not the file's.                             *)
THEOREM GatesDifferByText == Spec => []GatesAgree
<1>1. Init => Refusal
  BY DEF Init, Refusal
<1>2. ProcessInv /\ Refusal /\ [Next]_vars => Refusal'
  BY RefusalStep
<1>3. ProcessInv /\ Refusal => GatesAgree
  <2> SUFFICES ASSUME ProcessInv, Refusal, pc["worker"] = "Refused"
               PROVE  image.fileText # image.memoryText
    BY DEF GatesAgree
  <2>1. attached
    BY DEF ProcessInv, SafeInv, Always
  <2>2. Known(InspectFile(image))
    BY <2>1 DEF ProcessInv, LaunchInv, Learnt
  <2> QED
    BY <2>2, SameTextSameGate DEF Refusal
<1> QED
  BY <1>1, <1>2, <1>3, ProcessInvariant, PTL DEF Spec

-----------------------------------------------------------------------------
(***************************************************************************)
(* The parts of Returns and WorkerEnds that are not about time: neither    *)
(* the launcher nor a worker that was told to stop can go round for ever.  *)
(* That each of their steps can be taken, and is, is left to TLC.          *)
(***************************************************************************)
CallsLeft ==
    [Arguments |-> 9, Paths |-> 8, Verify |-> 7, Create |-> 6, Allocate |-> 5,
     Write |-> 4, Inject |-> 3, Await |-> 2, Resume |-> 1,
     Terminate5 |-> 0, Terminate6 |-> 0, Wait |-> 0, Returned |-> -1]

LEMMA CallsStep ==
    LaunchType /\ LaunchNext =>
        /\ LauncherStep => CallsLeft[step'] < CallsLeft[step]
        /\ ~LauncherStep => step' = step
<1> SUFFICES ASSUME LaunchType, LaunchNext
             PROVE  /\ LauncherStep => CallsLeft[step'] < CallsLeft[step]
                    /\ ~LauncherStep => step' = step
  OBVIOUS
<1> USE DEF CallsLeft, Advance, Return
<1>1. CASE Arguments
  BY <1>1 DEF Arguments, LauncherStep
<1>2. CASE CheckPaths
  BY <1>2 DEF CheckPaths, LauncherStep
<1>3. CASE VerifyGame
  BY <1>3 DEF VerifyGame, LauncherStep
<1>4. CASE CreateGame
  BY <1>4 DEF CreateGame, LauncherStep
<1>5. CASE Allocate
  BY <1>5 DEF Allocate, LauncherStep
<1>6. CASE WritePath
  BY <1>6 DEF WritePath, LauncherStep
<1>7. CASE StartLoader
  BY <1>7 DEF StartLoader, LauncherStep
<1>8. CASE AwaitLoader
  BY <1>8 DEF AwaitLoader, LauncherStep
<1>9. CASE Abandon
  BY <1>9 DEF Abandon, LauncherStep
<1>10. CASE ResumeGame
  BY <1>10 DEF ResumeGame, LauncherStep
<1>11. CASE WaitGame
  BY <1>11 DEF WaitGame, LauncherStep
<1>12. CASE ~LauncherStep
  BY <1>12 DEF LaunchNext, ReadPath, AttachClient, LoaderKilled, GameExits, launch
<1> QED
  BY <1>1, <1>2, <1>3, <1>4, <1>5, <1>6, <1>7, <1>8, <1>9, <1>10, <1>11, <1>12
  DEF LauncherStep

(* run() has no way back: whoever steps, the launcher stays at its call or  *)
(* has fewer calls left, whatever failed and however the game has ended.    *)
THEOREM LauncherNeverGoesBack ==
    Spec => [][step' # step => CallsLeft[step'] < CallsLeft[step]]_vars
<1>1. LaunchType /\ [Next]_vars =>
          [step' # step => CallsLeft[step'] < CallsLeft[step]]_vars
  BY NextLaunches, CallsStep DEF CallsLeft
<1>2. (LaunchType /\ ThreadType) /\ [Next]_vars => (LaunchType /\ ThreadType)'
  BY NextLaunches, LaunchTypeStep, ThreadTypeNext
<1> QED
  BY ProcessInitial, <1>1, <1>2, PTL DEF Spec

\* What a worker that has been told to stop has still before it.
LabelsLeft ==
    [Absent |-> 13, Sleeping |-> 12, Inspect |-> 11, Replace |-> 10, Connect |-> 9,
     Connecting |-> 8, Check |-> 7, Update |-> 6, Updating |-> 5, State |-> 4,
     Submit |-> 3, Submitting |-> 2, Loop |-> 1, Ended |-> 0, Refused |-> 0]

Descends == stopRequested' /\ LabelsLeft[pc'["worker"]] < LabelsLeft[pc["worker"]]

LEMMA DescendingStep ==
    ASSUME ThreadType, stopRequested, WorkerStep
    PROVE  Descends
<1>1. "worker" \in Thread
  BY DEF Thread
<1>2. ASSUME NEW from, NEW to, Step("worker", from, to),
             LabelsLeft[to] < LabelsLeft[from], UNCHANGED stopRequested
      PROVE  Descends
  BY <1>1, <1>2, StepTaken DEF Descends
<1> USE DEF LabelsLeft, Caller
<1>3. CASE WorkerWakes
  BY <1>2, <1>3 DEF WorkerWakes
<1>4. CASE WorkerLoop
  BY <1>2, <1>4 DEF WorkerLoop, LoopOrEnd
<1>5. CASE Inspect("worker")
  BY <1>2, <1>5 DEF Inspect
<1>6. CASE Replace("worker")
  BY <1>2, <1>6 DEF Replace
<1>7. CASE Connect("worker")
  BY <1>2, <1>7 DEF Connect, Enter
<1>8. CASE Connecting("worker")
  BY <1>2, <1>8 DEF Connecting, Leave
<1>9. CASE Check("worker")
  BY <1>2, <1>9 DEF Check
<1>10. CASE Update("worker")
  BY <1>2, <1>10 DEF Update, Enter
<1>11. CASE Updating("worker")
  BY <1>2, <1>11 DEF Updating, Leave
<1>12. CASE ReadState("worker")
  BY <1>2, <1>12 DEF ReadState
<1>13. CASE Submit("worker")
  BY <1>2, <1>13 DEF Submit, Enter
<1>14. CASE Submitting("worker")
  BY <1>2, <1>14 DEF Submitting, Leave
<1> QED
  BY <1>3, <1>4, <1>5, <1>6, <1>7, <1>8, <1>9, <1>10, <1>11, <1>12, <1>13, <1>14
  DEF WorkerStep, ThreadStep

(* The host's calls, the launcher and the game leave the worker where it is *)
(* and never take a request to stop back.                                   *)
LEMMA WorkerLeftAlone ==
    ASSUME ProcessInv, stopRequested, [Next]_vars, ~WorkerStep
    PROVE  /\ stopRequested'
           /\ \/ pc'["worker"] = pc["worker"]
              \/ pc["worker"] = "Absent" /\ pc'["worker"] = "Sleeping"
<1>1. "worker" \in Thread /\ "host" \in Thread /\ "host" # "worker"
  BY DEF Thread
<1>2. ASSUME NEW from, NEW to, Step("host", from, to) PROVE pc'["worker"] = pc["worker"]
  BY <1>1, <1>2, StepTaken DEF ProcessInv
<1>3. CASE HostStep
  <2>1. stopRequested'
    BY <1>3 DEF HostStep, HostCalls, RequestStop, Stop, Stopping, Reset, Enter, Leave,
       ThreadStep, Inspect, Replace, Connect, Connecting, Check, Update, Updating,
       ReadState, Submit, Submitting
  <2>2. \E from, to : Step("host", from, to)
    BY <1>3 DEF HostStep, HostCalls, RequestStop, Stop, Stopping, Reset, Enter,
       ThreadStep, Inspect, Replace, Connect, Connecting, Check, Update, Updating,
       ReadState, Submit, Submitting
  <2> QED
    BY <1>2, <2>1, <2>2
<1>4. CASE Attach
  <2>1. pc'["worker"] \in {"Sleeping", pc["worker"]}
    BY <1>1, <1>4 DEF Attach, ProcessInv, ThreadType
  <2>2. pc["worker"] = "Absent"
    BY <1>4 DEF Attach, AttachClient, LoaderRuns, ProcessInv, LaunchInv, Learnt, SafeInv, Always
  <2> QED
    BY <1>4, <2>1, <2>2 DEF Attach
<1>5. CASE ClientsEnd \/ UNCHANGED threads
  BY <1>5 DEF ClientsEnd, threads
<1> QED
  BY <1>3, <1>4, <1>5 DEF Next, vars

(* Once Shutdown has been called, whichever client the worker is in and     *)
(* whatever the host calls meanwhile, the worker never starts another       *)
(* round: every step it takes brings it nearer to its end, and no           *)
(* Initialize takes the request back.                                       *)
THEOREM StoppedWorkerNeverGoesBack ==
    Spec => [][stopRequested =>
                   /\ stopRequested'
                   /\ \/ pc'["worker"] = pc["worker"]
                      \/ LabelsLeft[pc'["worker"]] < LabelsLeft[pc["worker"]]]_vars
<1>1. ProcessInv /\ [Next]_vars =>
          [stopRequested =>
               /\ stopRequested'
               /\ \/ pc'["worker"] = pc["worker"]
                  \/ LabelsLeft[pc'["worker"]] < LabelsLeft[pc["worker"]]]_vars
  <2>1. CASE ProcessInv /\ stopRequested /\ WorkerStep
    BY <2>1, DescendingStep DEF ProcessInv, Descends
  <2>2. CASE ProcessInv /\ stopRequested /\ [Next]_vars /\ ~WorkerStep
    BY <2>2, WorkerLeftAlone DEF LabelsLeft
  <2> QED
    BY <2>1, <2>2
<1> QED
  BY <1>1, ProcessInvariant, PTL DEF Spec
=============================================================================
