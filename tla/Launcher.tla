------------------------------ MODULE Launcher ------------------------------
(***************************************************************************)
(* The launcher: from the command line through the suspended game process, *)
(* the thread that loads FrontierClient.dll into it and ResumeThread to    *)
(* the exit code it returns.                                               *)
(*                                                                         *)
(* Launcher::run calls Windows one call after the other; any call may      *)
(* fail, and what was acquired before must be given back on each path.     *)
(* Beside it the loading thread runs in the game process: it reads the     *)
(* path the launcher wrote there, then runs the DLL's DllMain.  The        *)
(* launcher waits 15 s for it, which it may outlast, and reads the outcome *)
(* from the thread's exit code, the low half of a 64-bit module handle.    *)
(* Somebody else may end the game process, or the loader alone, at any     *)
(* time, with any exit code.                                               *)
(*                                                                         *)
(* A call that is only a lookup and whose failure has the same effect as   *)
(* its neighbour's is merged with it.  TerminateProcess succeeds on the    *)
(* handle CreateProcessW returned.  What the environment block and the     *)
(* command line say is left out.                                           *)
(***************************************************************************)
EXTENDS Fingerprint

CONSTANTS
    Image,          \* executables a user can name
    NoResult,       \* the launcher has not returned
    OfGame          \* stands for the game's own exit code

VARIABLES
    step,           \* the next call of wmain, run or inject_client
    result,         \* the launcher's exit code
    image,          \* options.gameExe
    process,        \* the game process
    handles,        \* handles the launcher holds
    remotePath,     \* remoteString in the game's memory
    loader,         \* the thread that runs LoadLibraryW, or its exit code:
                    \* 0, not 0, or not 0 from whoever ended it
    attached        \* FrontierClient.dll is in the game process

launch == <<step, result, image, process, handles, remotePath, loader, attached>>

LaunchInit ==
    /\ step = "Arguments"
    /\ result = NoResult
    /\ image \in Image
    /\ process = "None"
    /\ handles = {}
    /\ remotePath = "None"
    /\ loader = "None"
    /\ attached = FALSE

Exists == process \in {"Suspended", "Running"}

LoaderRuns == loader \in {"Reading", "Attaching"}

\* From one call to the next.
Advance(from, to) ==
    /\ step = from
    /\ step' = to
    /\ UNCHANGED <<result, image>>

Return(code) ==
    /\ step' = "Returned"
    /\ result' = code
    /\ UNCHANGED image

NoGame == UNCHANGED <<process, handles, remotePath, loader, attached>>

-----------------------------------------------------------------------------
\* wmain: help, no path to itself, no path to the game, or run().
Arguments ==
    /\ step = "Arguments"
    /\ \/ \E code \in {0, 1, 2} : Return(code)
       \/ Advance("Arguments", "Paths")
    /\ NoGame

\* run: gamePath and dllPath exist or not.
CheckPaths ==
    /\ step = "Paths"
    /\ \/ Return(2)
       \/ Advance("Paths", "Verify")
    /\ NoGame

\* verify_game: the file can be read, and is the known build.
VerifyGame ==
    /\ step = "Verify"
    /\ \/ Return(3)
       \/ Known(InspectFile(image)) /\ Advance("Verify", "Create")
    /\ NoGame

\* CreateProcessW with CREATE_SUSPENDED.
CreateGame ==
    /\ step = "Create"
    /\ \/ Return(4) /\ UNCHANGED <<process, handles>>
       \/ /\ Advance("Create", "Allocate")
          /\ process' = "Suspended"
          /\ handles' = {"process", "mainThread"}
    /\ UNCHANGED <<remotePath, loader, attached>>

-----------------------------------------------------------------------------
\* inject_client: VirtualAllocEx.
Allocate ==
    /\ \/ Advance("Allocate", "Terminate5") /\ UNCHANGED remotePath
       \/ Exists /\ Advance("Allocate", "Write") /\ remotePath' = "Held"
    /\ UNCHANGED <<process, handles, loader, attached>>

\* VirtualFreeEx; memory of a process that is gone needs none.
Freed == IF Exists THEN "Freed" ELSE remotePath

\* WriteProcessMemory, GetModuleHandleW and GetProcAddress.
WritePath ==
    /\ \/ Advance("Write", "Terminate5") /\ remotePath' = Freed
       \/ Exists /\ Advance("Write", "Inject") /\ UNCHANGED remotePath
    /\ UNCHANGED <<process, handles, loader, attached>>

\* CreateRemoteThread.
StartLoader ==
    /\ \/ /\ Advance("Inject", "Terminate5")
          /\ remotePath' = Freed
          /\ UNCHANGED <<loader, handles>>
       \/ /\ Exists
          /\ Advance("Inject", "Await")
          /\ loader' = "Reading"
          /\ handles' = handles \cup {"loader"}
          /\ UNCHANGED remotePath
    /\ UNCHANGED <<process, attached>>

\* WaitForSingleObject(thread, 15000), the exit code, the two releases; the
\* wait may fail or time out while the thread still runs.
LoaderEnded == ~LoaderRuns                    \* mutant: any exit code will do

LoaderSucceeded == loader \in {"NonZero", "Killed"}

AwaitForever ==                               \* mutant: INFINITE for 15000
    /\ ~LoaderRuns
    /\ Advance("Await", IF LoaderSucceeded THEN "Resume" ELSE "Terminate5")
    /\ handles' = handles \ {"loader"}
    /\ remotePath' = Freed
    /\ UNCHANGED <<process, loader, attached>>

AwaitLoader ==
    /\ \/ Advance("Await", "Terminate5")
       \/ LoaderSucceeded /\ Advance("Await", "Resume")
    /\ handles' = handles \ {"loader"}
    /\ remotePath' = Freed
    /\ UNCHANGED <<process, loader, attached>>

-----------------------------------------------------------------------------
\* The process and all its threads end; an exit code may be 0 or not.
Ends ==
    /\ process' = "Exited"
    /\ remotePath' = "None"
    /\ IF LoaderRuns THEN loader' \in {"Zero", "Killed"} ELSE UNCHANGED loader
    /\ UNCHANGED attached

\* run, inject_client failed: TerminateProcess, CloseHandle twice.
AbandonRunning ==                             \* mutant: no TerminateProcess
    /\ \/ step = "Terminate5" /\ Return(5)
       \/ step = "Terminate6" /\ Return(6)
    /\ handles' = handles \ {"process", "mainThread"}
    /\ UNCHANGED <<process, remotePath, loader, attached>>

Abandon ==
    /\ \/ step = "Terminate5" /\ Return(5)
       \/ step = "Terminate6" /\ Return(6)
    /\ IF Exists THEN Ends ELSE UNCHANGED <<process, remotePath, loader, attached>>
    /\ handles' = handles \ {"process", "mainThread"}

\* ResumeThread and CloseHandle; resuming a thread that has ended may or may
\* not report an error.
ResumeGame ==
    /\ \/ Advance("Resume", "Terminate6") /\ UNCHANGED <<process, handles>>
       \/ /\ Advance("Resume", "Wait")
          /\ process' = IF Exists THEN "Running" ELSE process
          /\ handles' = handles \ {"mainThread"}
    /\ UNCHANGED <<remotePath, loader, attached>>

\* WaitForSingleObject(process, INFINITE), GetExitCodeProcess, CloseHandle.
WaitGame ==
    /\ step = "Wait"
    /\ ~Exists
    /\ Return(OfGame)
    /\ handles' = handles \ {"process"}
    /\ UNCHANGED <<process, remotePath, loader, attached>>

LauncherStep ==
    \/ Arguments
    \/ CheckPaths
    \/ VerifyGame
    \/ CreateGame
    \/ Allocate
    \/ WritePath
    \/ StartLoader
    \/ AwaitLoader
    \/ Abandon
    \/ ResumeGame
    \/ WaitGame

-----------------------------------------------------------------------------
\* LoadLibraryW reads the path and finds the DLL or not.  A path that has been
\* freed under it can also end the process.
ReadPath ==
    /\ Exists /\ loader = "Reading"
    /\ \/ loader' \in {"Attaching", "Zero"} /\ UNCHANGED <<process, remotePath, attached>>
       \/ remotePath # "Held" /\ Ends
    /\ UNCHANGED <<step, result, image, handles>>

\* DllMain, then the end of the thread: its exit code is the low half of the
\* module handle, which is 0 for a module at a multiple of 4 GiB.
AttachClient ==
    /\ Exists /\ loader = "Attaching"
    /\ attached' = TRUE
    /\ loader' \in {"Zero", "NonZero"}
    /\ UNCHANGED <<step, result, image, process, handles, remotePath>>

\* TerminateThread from outside, the process stays.  A DllMain that it cuts
\* short counts as not attached.
LoaderKilled ==
    /\ Exists /\ LoaderRuns
    /\ loader' \in {"Zero", "Killed"}
    /\ UNCHANGED <<step, result, image, process, handles, remotePath, attached>>

\* The game quits, crashes or is ended from outside.
GameExits ==
    /\ Exists
    /\ Ends
    /\ UNCHANGED <<step, result, image, handles>>
=============================================================================
