----------------------------- MODULE AutorunMonitor -----------------------------
(***************************************************************************)
(* The COM server that suppresses AutoPlay for virtual drives              *)
(* (VirtualAutorunDisabler) and the clients that start it before they      *)
(* mount an image (StartAutorunDisablingMonitor, VirtualCDClient.cpp).     *)
(*                                                                         *)
(* A server is a process with one monitor object, served by one thread,    *)
(* and a watchdog thread that calls the object through COM once in a       *)
(* polling period.  COM itself is external: it starts a process when none  *)
(* has the class registered, and ATL ends a process that nobody refers to. *)
(*                                                                         *)
(* Time is counted in polling periods; what takes milliseconds (a client's *)
(* loop apart) happens within one.                                         *)
(***************************************************************************)
EXTENDS Naturals, FiniteSets

CONSTANTS
    Server,     \* processes that may run the server, one at a time or two
    Client,     \* threads that call StartAutorunDisablingMonitor
    Timeout,    \* kTimeoutInSeconds, in polling periods
    NoServer

ASSUME MonitorAssumption ==
    /\ Timeout \in Nat \ {0}
    /\ NoServer \notin Server

VARIABLES
    proc,       \* a process: its message loop runs, is to end, or has ended
    state,      \* m_CurrentState
    idle,       \* time since ResetTimeout()
    registered, \* m_ROTRegisterResult is a success
    watchdog,   \* where the watchdog thread is
    watched,    \* its pMonitor
    client,     \* where a client is
    held,       \* its pMonitor
    unused      \* history: time since a client or AutoPlay was served,
                \* counted up to two timeouts

servers == <<proc, state, idle, registered, unused>>
dogs    == <<watchdog, watched>>
clients == <<client, held>>
vars    == <<servers, dogs, clients>>

\* Types, and the ranges of the clocks: the watchdog notices each timeout in the
\* period in which it expires.
TypeOK ==
    /\ proc \in [Server -> {"none", "running", "quitting", "closing"}]
    /\ state \in [Server -> {"Init", "Running", "SoftTermination", "HardTermination"}]
    /\ idle \in [Server -> 0 .. Timeout]
    /\ unused \in [Server -> 0 .. 2 * Timeout]
    /\ registered \in [Server -> BOOLEAN]
    /\ watchdog \in [Server -> {"wait", "create", "check"}]
    /\ watched \in [Server -> Server \cup {NoServer}]
    /\ client \in [Client -> {"away", "loop", "initialize", "verify", "terminate"}]
    /\ held \in [Client -> Server \cup {NoServer}]

Init ==
    /\ proc = [s \in Server |-> "none"]
    /\ state = [s \in Server |-> "Init"]
    /\ idle = [s \in Server |-> 0]
    /\ unused = [s \in Server |-> 0]
    /\ registered = [s \in Server |-> FALSE]
    /\ watchdog = [s \in Server |-> "wait"]
    /\ watched = [s \in Server |-> NoServer]
    /\ client = [c \in Client |-> "away"]
    /\ held = [c \in Client |-> NoServer]

--------------------------------------------------------------------------------
(* COM *)

\* A process answers calls until its message loop ends: a posted quit message
\* comes after the calls that were posted before it.
Answers(s) == s # NoServer /\ proc[s] \in {"running", "quitting"}
Available  == {s \in Server : Answers(s)}

Referred(s) == \/ \E t \in Server : watched[t] = s
               \/ \E c \in Client : held[c] = s

\* CoCreateInstance: the object of the process that has the class registered, or
\* of a new process, whose FinalConstruct starts the watchdog and registers the
\* object in the running object table; nothing when none can be started.
CoCreateInstance(s) ==
    \/ s \in Available /\ UNCHANGED servers
    \/ s = NoServer /\ Available = {} /\ UNCHANGED servers
    \/ /\ s \in Server /\ Available = {}
       /\ proc[s] = "none" /\ ~Referred(s)
       /\ proc' = [proc EXCEPT ![s] = "running"]
       /\ state' = [state EXCEPT ![s] = "Init"]
       /\ idle' = [idle EXCEPT ![s] = 0]
       /\ unused' = [unused EXCEPT ![s] = 0]
       /\ \E success \in BOOLEAN : registered' = [registered EXCEPT ![s] = success]

Launched(s) == proc[s] = "none" /\ proc'[s] = "running"

--------------------------------------------------------------------------------
(* The monitor *)

ResetTimeout(s) == idle' = [idle EXCEPT ![s] = 0]

\* Variant: the timeout is not restarted.
UseUnreset(s) ==
    /\ state' = [state EXCEPT ![s] = "Running"]
    /\ unused' = [unused EXCEPT ![s] = 0]
    /\ UNCHANGED idle

Use(s) ==
    /\ state' = [state EXCEPT ![s] = "Running"]
    /\ unused' = [unused EXCEPT ![s] = 0]
    /\ ResetTimeout(s)

TerminateServer(s) ==
    /\ state' = [state EXCEPT ![s] = "HardTermination"]
    /\ proc' = [proc EXCEPT ![s] = "quitting"]

\* The shell asks about a drive whose autorun is suppressed.
AllowAutoPlay(s) ==
    /\ Answers(s) /\ registered[s]
    /\ Use(s)
    /\ UNCHANGED <<proc, registered, dogs, clients>>

\* Variant: every look restarts the timeout.
CheckForTimeoutRestarting(s, keep) ==
    /\ keep
    /\ state' = [state EXCEPT ![s] = "Running"]
    /\ ResetTimeout(s)
    /\ UNCHANGED <<proc, registered, unused>>

\* Variant: the soft termination does not restart the timeout.
CheckForTimeoutOnce(s, keep) ==
    LET now == IF state[s] = "Init" THEN "Running" ELSE state[s] IN
    /\ keep = (idle[s] < Timeout /\ now = "Running")
    /\ state' = [state EXCEPT ![s] = IF idle[s] < Timeout THEN now ELSE "SoftTermination"]
    /\ UNCHANGED <<proc, idle, registered, unused>>

\* The watchdog's call: without "keep" it answers S_FALSE, and the watchdog is to
\* drop its reference.
CheckForTimeout(s, keep) ==
    LET now == IF state[s] = "Init" THEN "Running" ELSE state[s] IN
    /\ \/ /\ idle[s] < Timeout
          /\ keep = (now = "Running")
          /\ state' = [state EXCEPT ![s] = now]
          /\ UNCHANGED <<proc, idle>>
       \/ /\ idle[s] >= Timeout /\ now = "Running" /\ ~keep
          /\ state' = [state EXCEPT ![s] = "SoftTermination"]
          /\ ResetTimeout(s)
          /\ UNCHANGED proc
       \/ /\ idle[s] >= Timeout /\ now # "Running" /\ ~keep
          /\ TerminateServer(s)
          /\ UNCHANGED idle
    /\ UNCHANGED <<registered, unused>>

--------------------------------------------------------------------------------
(* The watchdog thread, which runs until FinalRelease joins it *)

WatchdogCreate(s) ==
    /\ watchdog[s] = "create"
    /\ \E t \in Server \cup {NoServer} :
          /\ IF watched[s] # NoServer
             THEN t = watched[s] /\ UNCHANGED servers
             ELSE CoCreateInstance(t)
          /\ watched' = [watched EXCEPT ![s] = t]
          /\ watchdog' = [u \in Server |-> IF u = s THEN IF t = NoServer THEN "wait" ELSE "check"
                                          ELSE IF Launched(u) THEN "create"
                                          ELSE watchdog[u]]
    /\ UNCHANGED clients

WatchdogCheck(s) ==
    /\ watchdog[s] = "check"
    /\ \E keep \in BOOLEAN :
          /\ IF watched[s] = s /\ Answers(s)
             THEN CheckForTimeout(s, keep)
             ELSE ~keep /\ UNCHANGED servers
          /\ watched' = IF keep THEN watched ELSE [watched EXCEPT ![s] = NoServer]
    /\ watchdog' = [watchdog EXCEPT ![s] = "wait"]
    /\ UNCHANGED clients

\* The quit message is reached, or ATL ends a process that had no references for
\* some seconds, far longer than a look of the watchdog.
MessageLoopEnds(s) ==
    /\ \/ proc[s] = "quitting"
       \/ proc[s] = "running" /\ ~Referred(s) /\ watchdog[s] = "wait"
    /\ proc' = [proc EXCEPT ![s] = "closing"]
    /\ UNCHANGED <<state, idle, registered, unused, dogs, clients>>

\* The registration is revoked and the watchdog joined or terminated.
FinalRelease(s) ==
    /\ proc[s] = "closing"
    /\ proc' = [proc EXCEPT ![s] = "none"]
    /\ registered' = [registered EXCEPT ![s] = FALSE]
    /\ watchdog' = [watchdog EXCEPT ![s] = "wait"]
    /\ watched' = [watched EXCEPT ![s] = NoServer]
    /\ UNCHANGED <<state, idle, unused, clients>>

--------------------------------------------------------------------------------
(* StartAutorunDisablingMonitor *)

Begin(c) ==
    /\ client[c] = "away"
    /\ client' = [client EXCEPT ![c] = "loop"]
    /\ UNCHANGED <<servers, dogs, held>>

Return(c) ==
    /\ client' = [client EXCEPT ![c] = "away"]
    /\ held' = [held EXCEPT ![c] = NoServer]

\* The loop ends, with success, after 300 milliseconds; it ends at once when the
\* class is not registered, and goes on when the object cannot be created.
Loop(c) ==
    /\ client[c] = "loop"
    /\ \/ Return(c) /\ UNCHANGED <<servers, dogs>>
       \/ \E s \in Server :
             /\ IF held[c] # NoServer
                THEN s = held[c] /\ UNCHANGED servers
                ELSE CoCreateInstance(s)
             /\ held' = [held EXCEPT ![c] = s]
             /\ client' = [client EXCEPT ![c] = "initialize"]
             /\ watchdog' = [t \in Server |-> IF Launched(t) THEN "create" ELSE watchdog[t]]
             /\ UNCHANGED watched

InitializeMonitorAndResetWatchdog(c) ==
    LET s == held[c] IN
    /\ client[c] = "initialize"
    /\ UNCHANGED dogs
    /\ \/ /\ ~Answers(s)
          /\ Return(c) /\ UNCHANGED servers
       \/ /\ Answers(s) /\ state[s] = "Init"
          /\ client' = [client EXCEPT ![c] = "loop"]
          /\ UNCHANGED <<servers, held>>
       \/ /\ Answers(s) /\ state[s] = "HardTermination"
          /\ client' = [client EXCEPT ![c] = "loop"]
          /\ held' = [held EXCEPT ![c] = NoServer]
          /\ UNCHANGED servers
       \/ /\ Answers(s) /\ state[s] \in {"Running", "SoftTermination"} /\ ~registered[s]
          /\ Return(c) /\ UNCHANGED servers
       \/ /\ Answers(s) /\ state[s] \in {"Running", "SoftTermination"} /\ registered[s]
          /\ Use(s)
          /\ client' = [client EXCEPT ![c] = "verify"]
          /\ UNCHANGED <<proc, registered, held>>

\* The object in the running object table may be one this client cannot have: it
\* belongs to a process with other rights, or is gone.
IsObjectRestartingRequired(c) ==
    /\ client[c] = "verify"
    /\ \/ Return(c)
       \/ client' = [client EXCEPT ![c] = "terminate"] /\ UNCHANGED held
    /\ UNCHANGED <<servers, dogs>>

Restart(c) ==
    /\ client[c] = "terminate"
    /\ IF Answers(held[c]) THEN TerminateServer(held[c]) ELSE UNCHANGED <<proc, state>>
    /\ held' = [held EXCEPT ![c] = NoServer]
    /\ client' = [client EXCEPT ![c] = "loop"]
    /\ UNCHANGED <<idle, registered, unused, dogs>>

--------------------------------------------------------------------------------

\* A polling period passes: the watchdogs wake up.  Ending a process and a look
\* of the watchdog take far less than one.
Tick ==
    /\ \A s \in Server : proc[s] \in {"none", "running"} /\ watchdog[s] = "wait"
    /\ idle' = [s \in Server |-> IF proc[s] = "none" THEN idle[s] ELSE idle[s] + 1]
    /\ unused' = [s \in Server |-> IF proc[s] = "none" THEN unused[s] 
                                     ELSE IF unused[s] < 2 * Timeout THEN unused[s] + 1 ELSE unused[s]]
    /\ watchdog' = [s \in Server |-> IF proc[s] = "none" THEN "wait" ELSE "create"]
    /\ UNCHANGED <<proc, state, registered, watched, clients>>

Next ==
    \/ Tick
    \/ \E s \in Server : \/ AllowAutoPlay(s) \/ WatchdogCreate(s) \/ WatchdogCheck(s)
                         \/ MessageLoopEnds(s) \/ FinalRelease(s)
    \/ \E c \in Client : \/ Begin(c) \/ Loop(c) \/ InitializeMonitorAndResetWatchdog(c)
                         \/ IsObjectRestartingRequired(c) \/ Restart(c)

\* Time passes, the watchdog threads run, and a process that was told to quit
\* does; nothing is assumed of clients, of the shell or of ATL.
Fairness ==
    /\ WF_vars(Tick)
    /\ \A s \in Server : /\ WF_vars(WatchdogCreate(s)) /\ WF_vars(WatchdogCheck(s))
                         /\ WF_vars(proc[s] = "quitting" /\ MessageLoopEnds(s))
                         /\ WF_vars(FinalRelease(s))

Spec == Init /\ [][Next]_vars /\ Fairness

--------------------------------------------------------------------------------

\* The watchdog ends a server by force (CheckForTimeout, the branch after the soft
\* termination) only when neither a client nor AutoPlay used it for two timeouts,
\* whatever calls were served between its looks.
WatchdogIsPatient ==
    [][\A s \in Server : state[s] = "SoftTermination" /\ state'[s] = "HardTermination"
                         /\ watchdog[s] = "check" /\ watchdog'[s] = "wait"
                            => unused[s] >= 2 * Timeout]_vars

\* Once clients and AutoPlay leave the servers alone, the last process ends: no
\* watchdog keeps its own server alive, or goes on starting new ones.
Quiet == <>[](\A c \in Client : client[c] = "away")
         /\ <>[][\A s \in Server : ~AllowAutoPlay(s)]_vars
UnusedServersEnd == Quiet => <>[](\A s \in Server : proc[s] = "none")
================================================================================
