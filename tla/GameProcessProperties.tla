----------------------- MODULE GameProcessProperties -----------------------
(* What the launcher and the client's threads promise about the game. *)
EXTENDS GameProcess

Steps == {"Arguments", "Paths", "Verify", "Create", "Allocate", "Write", "Inject",
          "Await", "Terminate5", "Resume", "Terminate6", "Wait", "Returned"}

InInitializeOrUpdate ==
    {"Inspect", "Replace", "Connect", "Connecting",
     "Check", "Update", "Updating", "State", "Submit", "Submitting"}

WorkerLabels ==
    InInitializeOrUpdate \cup {"Absent", "Sleeping", "Loop", "Ended", "Refused"}

HostLabels ==
    InInitializeOrUpdate \cup {"Idle", "RequestStop", "Stop", "Stopping", "Reset"}

TypeOK ==
    /\ step \in Steps
    /\ result \in {NoResult, OfGame} \cup 0..6
    /\ image \in Image
    /\ process \in {"None", "Suspended", "Running", "Exited"}
    /\ handles \subseteq {"process", "mainThread", "loader"}
    /\ remotePath \in {"None", "Held", "Freed"}
    /\ loader \in {"None", "Reading", "Attaching", "Zero", "NonZero", "Killed"}
    /\ attached \in BOOLEAN
    /\ pc \in [Thread -> WorkerLabels \cup HostLabels]
    /\ pc["worker"] \in WorkerLabels
    /\ pc["host"] \in HostLabels
    /\ inside \in [Thread -> 0..MaxClients]
    /\ network \in 0..MaxClients
    /\ clients \in [Client -> {"Unborn", "Made", "Open", "Stopped", "Destroyed", "Lost"}]
    /\ openedSince \subseteq Client
    /\ stopRequested \in BOOLEAN /\ raced \in BOOLEAN /\ faulted \in BOOLEAN

(* Whichever call fails, and whoever ends the game meanwhile, the launcher  *)
(* returns without a handle, and leaves no game process behind: none it     *)
(* suspended, none whose path it still holds.                               *)
CleanReturn ==
    step = "Returned" =>
        /\ handles = {}
        /\ ~Exists
        /\ remotePath # "Held"

(* README.md:12-14, docs/launcher.md:5: the game's own code never runs      *)
(* beside a loader that was given up after 15 s and whose path was freed,   *)
(* and never without the client in it, with one exception: launcher.cpp:114 *)
(* takes any exit code but 0 for a module, also that of a loader which      *)
(* somebody else has ended before the client was in.                        *)
RunsWithClient ==
    process = "Running" => ~LoaderRuns /\ (attached \/ loader = "Killed")

(* The launcher's gate on the file and the client's gate on the loaded      *)
(* module are two programs; a game that passed the first fails the second,  *)
(* and plays without multiplayer, only when its .text is not the file's.    *)
GatesAgree == pc["worker"] = "Refused" => image.fileText # image.memoryText

(* Nothing orders the worker and an exported call on g_network; as long as  *)
(* none of their calls that change it overlaps another call, in whatever    *)
(* order they come, no thread uses a null pointer or a destroyed client.    *)
SafeWhenAlone == faulted => raced

(* Without such an overlap, the server loses an open client without a       *)
(* Goodbye in two cases only: a second Initialize replaces it, or the       *)
(* process ends with it, and then no Shutdown was called since it was       *)
(* opened, or the last one was still before the end of its stop().  A       *)
(* client the worker opens after the Shutdown is of the second kind.        *)
Replaced(c) == network = c /\ \E t \in Thread : pc[t] = "Replace"

EndsWithGame(c) ==
    /\ process # "Exited" /\ process' = "Exited"
    /\ c \in openedSince \/ pc["host"] \in {"Stop", "Stopping"}

GoodbyeBeforeReset ==
    [][\A c \in Client :
          clients[c] = "Open" /\ clients'[c] = "Lost" /\ ~raced' =>
              Replaced(c) \/ EndsWithGame(c)]_vars

(* Once it has its arguments (main.cpp:73-80 waits at the console for what  *)
(* is missing) the launcher returns unless the game runs for ever: neither  *)
(* a DLL that hangs in DllMain nor a game that dies early keeps it.         *)
Returns ==
    \/ [](step = "Arguments")
    \/ <>[](process = "Running")
    \/ <>(step = "Returned")

(* A Shutdown ends the worker, also one that comes while it still sleeps or *)
(* is initializing, and whatever Initialize calls follow.                   *)
WorkerEnds ==
    stopRequested ~> pc["worker"] \in {"Absent", "Ended", "Refused"} \/ ~Exists
=============================================================================
