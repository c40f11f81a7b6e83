------------------------- MODULE AutorunMonitor_proofs -------------------------
(* Proofs about AutorunMonitor, for any processes, clients and timeout. *)
EXTENDS AutorunMonitor, TLAPS

(* COM has one process at a time that answers calls. *)
OneAnswers == \A s, t \in Server : Answers(s) /\ Answers(t) => s = t

(* The watchdog of a process that answers looks at that process. *)
OwnWatchdog ==
    \A s \in Server :
        /\ proc[s] = "none" => watchdog[s] = "wait" /\ watched[s] = NoServer
        /\ Answers(s) => watched[s] \in {s, NoServer}
        /\ Answers(s) /\ watchdog[s] = "check" => watched[s] = s

(* It notices a timeout before the next period begins. *)
NoticedInTime ==
    \A s \in Server : proc[s] = "running" /\ watchdog[s] = "wait" => idle[s] < Timeout

(* The clock that the server looks at runs behind the time it was not used,  *)
(* by a whole timeout once it is to end softly.                              *)
ClocksAgree ==
    \A s \in Server :
        /\ unused[s] >= idle[s]
        /\ state[s] = "SoftTermination" => unused[s] >= Timeout + idle[s]

IInv == TypeOK /\ OneAnswers /\ OwnWatchdog /\ NoticedInTime /\ ClocksAgree

--------------------------------------------------------------------------------

(* No process runs at first. *)
LEMMA InitIInv == Init => IInv
<1> SUFFICES ASSUME Init PROVE IInv
  OBVIOUS
<1> USE MonitorAssumption DEF MonitorAssumption
<1>1. TypeOK
  BY DEF Init, TypeOK
<1>2. OneAnswers /\ OwnWatchdog /\ NoticedInTime /\ ClocksAgree
  BY DEF Init, OneAnswers, OwnWatchdog, NoticedInTime, ClocksAgree, Answers
<1>3. QED
  BY <1>1, <1>2 DEF IInv

(* Where CoCreateInstance(s) can lead: to the process that answers, to       *)
(* nothing, or to a new process, when none answers.                          *)
LEMMA Created ==
    ASSUME IInv, NEW s \in Server \cup {NoServer}, CoCreateInstance(s)
    PROVE  \/ s \in Server /\ Answers(s) /\ UNCHANGED servers
           \/ s = NoServer /\ (\A t \in Server : ~Answers(t)) /\ UNCHANGED servers
           \/ /\ s \in Server /\ (\A t \in Server : ~Answers(t)) /\ proc[s] = "none"
              /\ proc' = [proc EXCEPT ![s] = "running"]
              /\ state' = [state EXCEPT ![s] = "Init"]
              /\ idle' = [idle EXCEPT ![s] = 0]
              /\ unused' = [unused EXCEPT ![s] = 0]
              /\ registered' \in [Server -> BOOLEAN]
BY DEF CoCreateInstance, Available, IInv, TypeOK

--------------------------------------------------------------------------------
(* One lemma for each action. *)

LEMMA StepCreate ==
    ASSUME IInv, NEW s \in Server, WatchdogCreate(s)
    PROVE  IInv'
<1> USE MonitorAssumption DEF MonitorAssumption, IInv, TypeOK
<1>1. PICK t \in Server \cup {NoServer} :
        /\ IF watched[s] # NoServer THEN t = watched[s] /\ UNCHANGED servers
           ELSE CoCreateInstance(t)
        /\ watched' = [watched EXCEPT ![s] = t]
        /\ watchdog' = [u \in Server |->
                          IF u = s THEN IF t = NoServer THEN "wait" ELSE "check"
                          ELSE IF Launched(u) THEN "create" ELSE watchdog[u]]
        /\ watchdog[s] = "create" /\ UNCHANGED clients
  BY DEF WatchdogCreate
<1>2. proc[s] # "none"
  BY <1>1 DEF OwnWatchdog
<1>3. CASE UNCHANGED servers /\ (t \in Server => t = watched[s] \/ Answers(t))
           /\ (t = NoServer => ~Answers(s))
  <2>1. \A u \in Server : ~Launched(u)
    BY <1>3 DEF servers, Launched
  <2>2. TypeOK' /\ OneAnswers' /\ ClocksAgree'
    BY <1>1, <1>3, <2>1 DEF servers, clients, OneAnswers, Answers, ClocksAgree
  <2>3. Answers(s) => t = s
    BY <1>3 DEF OneAnswers, OwnWatchdog, Answers
  <2>4. OwnWatchdog' /\ NoticedInTime'
    BY <1>1, <1>2, <1>3, <2>1, <2>3 DEF servers, OwnWatchdog, NoticedInTime, Answers
  <2>5. QED
    BY <2>2, <2>4
<1>4. CASE /\ t \in Server /\ (\A u \in Server : ~Answers(u)) /\ proc[t] = "none"
           /\ proc' = [proc EXCEPT ![t] = "running"]
           /\ state' = [state EXCEPT ![t] = "Init"]
           /\ idle' = [idle EXCEPT ![t] = 0]
           /\ unused' = [unused EXCEPT ![t] = 0]
           /\ registered' \in [Server -> BOOLEAN]
  <2>1. t # s
    BY <1>2, <1>4
  <2>2. \A u \in Server : Launched(u) <=> u = t
    BY <1>4 DEF Launched
  <2>3. TypeOK' /\ OneAnswers' /\ ClocksAgree'
    BY <1>1, <1>4, <2>2 DEF clients, OneAnswers, Answers, ClocksAgree
  <2>4. OwnWatchdog' /\ NoticedInTime'
    BY <1>1, <1>2, <1>4, <2>1, <2>2 DEF OwnWatchdog, NoticedInTime, Answers
  <2>5. QED
    BY <2>3, <2>4
<1>5. QED
  BY <1>1, <1>3, <1>4, Created DEF Answers

LEMMA StepCheck ==
    ASSUME IInv, NEW s \in Server, WatchdogCheck(s)
    PROVE  IInv'
<1> USE MonitorAssumption DEF MonitorAssumption, IInv, TypeOK
<1>1. PICK keep \in BOOLEAN :
        /\ IF watched[s] = s /\ Answers(s) THEN CheckForTimeout(s, keep)
           ELSE ~keep /\ UNCHANGED servers
        /\ watched' = IF keep THEN watched ELSE [watched EXCEPT ![s] = NoServer]
        /\ watchdog' = [watchdog EXCEPT ![s] = "wait"]
        /\ watchdog[s] = "check" /\ UNCHANGED clients
  BY DEF WatchdogCheck
<1>2. CASE ~Answers(s)
  <2>1. UNCHANGED servers
    BY <1>1, <1>2
  <2>2. QED
    BY <1>1, <1>2, <2>1 DEF servers, clients, OneAnswers, OwnWatchdog, NoticedInTime,
       ClocksAgree, Answers
<1>3. CASE Answers(s)
  <2>1. watched[s] = s /\ CheckForTimeout(s, keep)
    BY <1>1, <1>3 DEF OwnWatchdog
  <2>2. /\ UNCHANGED <<registered, unused>>
        /\ \/ idle[s] < Timeout /\ UNCHANGED <<proc, idle>>
              /\ (state' = state \/ state' = [state EXCEPT ![s] = "Running"])
           \/ /\ idle[s] >= Timeout /\ UNCHANGED proc
              /\ state' = [state EXCEPT ![s] = "SoftTermination"]
              /\ idle' = [idle EXCEPT ![s] = 0]
           \/ /\ idle[s] >= Timeout /\ UNCHANGED idle
              /\ state' = [state EXCEPT ![s] = "HardTermination"]
              /\ proc' = [proc EXCEPT ![s] = "quitting"]
    BY <2>1 DEF CheckForTimeout, TerminateServer, ResetTimeout
  <2>3. TypeOK' /\ ClocksAgree'
    BY <1>1, <2>2 DEF clients, ClocksAgree
  <2>4. OneAnswers' /\ OwnWatchdog' /\ NoticedInTime'
    BY <1>1, <1>3, <2>1, <2>2 DEF OneAnswers, OwnWatchdog, NoticedInTime, Answers
  <2>5. QED
    BY <2>3, <2>4
<1>4. QED
  BY <1>2, <1>3

LEMMA StepEnd ==
    ASSUME IInv, NEW s \in Server, MessageLoopEnds(s) \/ FinalRelease(s)
    PROVE  IInv'
<1> USE MonitorAssumption DEF MonitorAssumption, IInv, TypeOK
<1>1. CASE MessageLoopEnds(s)
  BY <1>1 DEF MessageLoopEnds, dogs, clients, OneAnswers, OwnWatchdog, NoticedInTime,
     ClocksAgree, Answers
<1>2. CASE FinalRelease(s)
  BY <1>2 DEF FinalRelease, clients, OneAnswers, OwnWatchdog, NoticedInTime,
     ClocksAgree, Answers
<1>3. QED
  BY <1>1, <1>2

(* A use restarts both clocks. *)
LEMMA StepUse ==
    ASSUME IInv, NEW s \in Server, Use(s), UNCHANGED <<proc, dogs>>,
           registered' = registered, client' \in [Client -> {"away", "loop", "initialize", "verify", "terminate"}],
           held' = held
    PROVE  IInv'
BY MonitorAssumption DEF MonitorAssumption, IInv, TypeOK, Use, ResetTimeout, dogs,
   OneAnswers, OwnWatchdog, NoticedInTime, ClocksAgree, Answers

(* Steps of a client that change no server. *)
LEMMA StepClient ==
    ASSUME IInv, UNCHANGED <<servers, dogs>>,
           client' \in [Client -> {"away", "loop", "initialize", "verify", "terminate"}],
           held' \in [Client -> Server \cup {NoServer}]
    PROVE  IInv'
BY DEF IInv, TypeOK, servers, dogs, OneAnswers, OwnWatchdog, NoticedInTime,
   ClocksAgree, Answers

LEMMA StepLoop ==
    ASSUME IInv, NEW c \in Client, Loop(c)
    PROVE  IInv'
<1> USE MonitorAssumption DEF MonitorAssumption, IInv, TypeOK
<1>1. CASE Return(c) /\ UNCHANGED <<servers, dogs>>
  BY <1>1, StepClient DEF Return
<1>2. ASSUME NEW s \in Server,
             IF held[c] # NoServer THEN s = held[c] /\ UNCHANGED servers
             ELSE CoCreateInstance(s),
             held' = [held EXCEPT ![c] = s],
             client' = [client EXCEPT ![c] = "initialize"],
             watchdog' = [t \in Server |-> IF Launched(t) THEN "create" ELSE watchdog[t]],
             UNCHANGED watched
      PROVE  IInv'
  <2>1. CASE UNCHANGED servers
    <3>1. \A t \in Server : ~Launched(t)
      BY <2>1 DEF servers, Launched
    <3>2. UNCHANGED dogs
      BY <1>2, <3>1 DEF dogs
    <3>3. QED
      BY <1>2, <2>1, <3>2, StepClient
  <2>2. CASE /\ (\A u \in Server : ~Answers(u)) /\ proc[s] = "none"
             /\ proc' = [proc EXCEPT ![s] = "running"]
             /\ state' = [state EXCEPT ![s] = "Init"]
             /\ idle' = [idle EXCEPT ![s] = 0]
             /\ unused' = [unused EXCEPT ![s] = 0]
             /\ registered' \in [Server -> BOOLEAN]
    <3>1. \A u \in Server : Launched(u) <=> u = s
      BY <2>2 DEF Launched
    <3>2. TypeOK' /\ OneAnswers' /\ ClocksAgree'
      BY <1>2, <2>2, <3>1 DEF OneAnswers, Answers, ClocksAgree
    <3>3. OwnWatchdog' /\ NoticedInTime'
      BY <1>2, <2>2, <3>1 DEF OwnWatchdog, NoticedInTime, Answers
    <3>4. QED
      BY <3>2, <3>3
  <2>3. QED
    BY <1>2, <2>1, <2>2, Created
<1>3. QED
  BY <1>1, <1>2 DEF Loop

LEMMA StepRestart ==
    ASSUME IInv, NEW c \in Client, Restart(c)
    PROVE  IInv'
<1> USE MonitorAssumption DEF MonitorAssumption, IInv, TypeOK
<1>1. CASE Answers(held[c])
  <2>1. held[c] \in Server
    BY <1>1 DEF Answers
  <2>2. QED
    BY <1>1, <2>1 DEF Restart, TerminateServer, dogs, OneAnswers, OwnWatchdog,
       NoticedInTime, ClocksAgree, Answers
<1>2. CASE ~Answers(held[c])
  BY <1>2, StepClient DEF Restart, servers
<1>3. QED
  BY <1>1, <1>2

LEMMA StepInitialize ==
    ASSUME IInv, NEW c \in Client, InitializeMonitorAndResetWatchdog(c)
    PROVE  IInv'
<1> USE DEF IInv, TypeOK
<1>1. CASE UNCHANGED servers
  BY <1>1, StepClient, MonitorAssumption
     DEF MonitorAssumption, InitializeMonitorAndResetWatchdog, Return
<1>2. CASE /\ Answers(held[c]) /\ Use(held[c])
           /\ client' = [client EXCEPT ![c] = "verify"]
           /\ UNCHANGED <<proc, registered, held, dogs>>
  <2>1. held[c] \in Server
    BY <1>2 DEF Answers
  <2>2. QED
    BY <1>2, <2>1, StepUse
<1>3. QED
  BY <1>1, <1>2 DEF InitializeMonitorAndResetWatchdog

(* A period passes only when every watchdog has looked. *)
LEMMA StepTick ==
    ASSUME IInv, Tick
    PROVE  IInv'
<1> USE MonitorAssumption DEF MonitorAssumption, IInv, TypeOK
<1>1. \A s \in Server : proc[s] # "none" => idle[s] < Timeout /\ idle'[s] = idle[s] + 1
  BY DEF Tick, NoticedInTime
<1>2. TypeOK'
  BY <1>1 DEF Tick, clients
<1>3. ClocksAgree'
  BY <1>1 DEF Tick, ClocksAgree
<1>4. OneAnswers' /\ OwnWatchdog' /\ NoticedInTime'
  BY DEF Tick, OneAnswers, OwnWatchdog, NoticedInTime, Answers
<1>5. QED
  BY <1>2, <1>3, <1>4

LEMMA StepIInv == IInv /\ [Next]_vars => IInv'
<1> SUFFICES ASSUME IInv, [Next]_vars PROVE IInv'
  OBVIOUS
<1>1. CASE Tick
  BY <1>1, StepTick
<1>2. ASSUME NEW s \in Server, AllowAutoPlay(s) PROVE IInv'
  BY <1>2, StepUse DEF AllowAutoPlay, clients, IInv, TypeOK
<1>3. ASSUME NEW s \in Server,
             WatchdogCreate(s) \/ WatchdogCheck(s) \/ MessageLoopEnds(s) \/ FinalRelease(s)
      PROVE  IInv'
  BY <1>3, StepCreate, StepCheck, StepEnd
<1>4. ASSUME NEW c \in Client, Begin(c) \/ IsObjectRestartingRequired(c) PROVE IInv'
  <2>1. UNCHANGED <<servers, dogs>>
    BY <1>4 DEF Begin, IsObjectRestartingRequired
  <2>2. /\ client' \in [Client -> {"away", "loop", "initialize", "verify", "terminate"}]
        /\ held' \in [Client -> Server \cup {NoServer}]
    BY <1>4 DEF Begin, IsObjectRestartingRequired, Return, IInv, TypeOK
  <2>3. QED
    BY <2>1, <2>2, StepClient
<1>5. ASSUME NEW c \in Client,
             Loop(c) \/ InitializeMonitorAndResetWatchdog(c) \/ Restart(c)
      PROVE  IInv'
  BY <1>5, StepLoop, StepInitialize, StepRestart
<1>6. CASE UNCHANGED vars
  BY <1>6, StepClient DEF vars, clients, IInv, TypeOK
<1>7. QED
  BY <1>1, <1>2, <1>3, <1>4, <1>5, <1>6 DEF Next

LEMMA Invariance == Spec => []IInv
<1>1. QED
  BY InitIInv, StepIInv, PTL DEF Spec

--------------------------------------------------------------------------------

(* The states, references and clocks keep their ranges: in particular, the    *)
(* watchdog looks at each server in the period in which its timeout expires.  *)
THEOREM MonitorTypeCorrect == Spec => []TypeOK
<1>1. IInv => TypeOK
  BY DEF IInv
<1>2. QED
  BY <1>1, Invariance, PTL

(* The watchdog ends by force only a server that nobody used for two whole   *)
(* timeouts, whatever was called between its looks.                          *)
THEOREM PatienceHolds == Spec => WatchdogIsPatient
<1> DEFINE Patient ==
      \A s \in Server : state[s] = "SoftTermination" /\ state'[s] = "HardTermination"
                        /\ watchdog[s] = "check" /\ watchdog'[s] = "wait"
                           => unused[s] >= 2 * Timeout
<1>1. IInv /\ [Next]_vars => [Patient]_vars
  <2> SUFFICES ASSUME IInv, Next, NEW s \in Server, state[s] = "SoftTermination",
                      state'[s] = "HardTermination",
                      watchdog[s] = "check", watchdog'[s] = "wait"
               PROVE  unused[s] >= 2 * Timeout
    BY DEF vars, servers, dogs
  <2> USE MonitorAssumption DEF MonitorAssumption, IInv, TypeOK
  <2>1. PICK u \in Server : WatchdogCheck(u)
    <3>1. ~Tick
      BY DEF Tick
    <3>2. \A u \in Server : ~AllowAutoPlay(u) /\ ~MessageLoopEnds(u)
      BY DEF AllowAutoPlay, MessageLoopEnds, dogs
    <3>3. \A u \in Server : ~FinalRelease(u)
      BY DEF FinalRelease
    <3>4. ASSUME NEW u \in Server, WatchdogCreate(u) PROVE FALSE
      <4>1. PICK t \in Server \cup {NoServer} :
              IF watched[u] # NoServer THEN t = watched[u] /\ UNCHANGED servers
              ELSE CoCreateInstance(t)
        BY <3>4 DEF WatchdogCreate
      <4>2. state'[s] \in {state[s], "Init"}
        BY <4>1, Created DEF servers
      <4>3. QED
        BY <4>2
    <3>5. ASSUME NEW c \in Client, Begin(c) \/ InitializeMonitorAndResetWatchdog(c)
                                   \/ IsObjectRestartingRequired(c) \/ Restart(c)
          PROVE  FALSE
      BY <3>5 DEF Begin, InitializeMonitorAndResetWatchdog, IsObjectRestartingRequired,
         Restart, dogs
    <3>6. ASSUME NEW c \in Client, Loop(c) PROVE FALSE
      BY <3>6 DEF Loop, dogs
    <3>7. QED
      BY <3>1, <3>2, <3>3, <3>4, <3>5, <3>6 DEF Next
  <2>2. u = s
    BY <2>1 DEF WatchdogCheck
  <2>3. PICK keep \in BOOLEAN :
          IF watched[s] = s /\ Answers(s) THEN CheckForTimeout(s, keep)
          ELSE ~keep /\ UNCHANGED servers
    BY <2>1, <2>2 DEF WatchdogCheck
  <2>4. CheckForTimeout(s, keep)
    BY <2>3 DEF servers
  <2>5. idle[s] >= Timeout
    BY <2>4 DEF CheckForTimeout
  <2>6. QED
    BY <2>5 DEF ClocksAgree
<1>2. QED
  BY <1>1, Invariance, PTL DEF Spec, WatchdogIsPatient
================================================================================
