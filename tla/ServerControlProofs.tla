-------------------------- MODULE ServerControlProofs --------------------------
(***************************************************************************)
(* Proofs about ProcessManager, for any number of processes, callers and   *)
(* pollers, and about ServerControl: there are never two servers at once,  *)
(* the mark "stopping" is always somebody's to take back, of either game,  *)
(* and the stop of Conan ends the server it met.                           *)
(***************************************************************************)
EXTENDS ServerControl, TLAPS

-----------------------------------------------------------------------------
(* Palworld servers: ProcessManager                                         *)

CallerRecord == [pc: {"idle", "start", "countdown", "rest", "quit", "stop", "kill", "reap"},
                 again: BOOLEAN, pid: Pids \cup {None}]

PollRecord == [pc: {"look", "scan", "pop", "judge"},
               state: {"none", "stopping", "online", "offline"}]

\* What the callers put into their record keeps its form.
LEMMA CallerRecords ==
  /\ Idle \in CallerRecord
  /\ [Idle EXCEPT !.pc = "start"] \in CallerRecord
  /\ [Idle EXCEPT !.pc = "stop"] \in CallerRecord
  /\ [Idle EXCEPT !.pc = "countdown"] \in CallerRecord
  /\ \A again \in BOOLEAN :
       [Idle EXCEPT !.pc = "rest", !.again = again] \in CallerRecord
  /\ \A r \in CallerRecord :
       /\ [r EXCEPT !.pc = "quit"] \in CallerRecord
       /\ [r EXCEPT !.pc = "stop"] \in CallerRecord
       /\ [r EXCEPT !.pc = "reap"] \in CallerRecord
       /\ \A p \in Pids : [r EXCEPT !.pc = "kill", !.pid = p] \in CallerRecord
BY DEF CallerRecord, Idle

\* What a poll leaves behind keeps its form.
LEMMA PollRecords ==
  /\ Look \in PollRecord
  /\ [pc |-> "scan", state |-> "none"] \in PollRecord
  /\ [pc |-> "pop", state |-> "none"] \in PollRecord
  /\ \A r : \A state \in {"stopping", "online", "offline"} : Polled(r, state) \in PollRecord
BY DEF PollRecord, Look, Polled

\* The caller that moves is the only one whose record changes.
LEMMA CallerUpdated ==
  ASSUME TypeOK, NEW c \in Callers, NEW r \in CallerRecord,
         caller' = [caller EXCEPT ![c] = r]
  PROVE  caller' \in [Callers -> CallerRecord]
BY DEF TypeOK, CallerRecord

LEMMA TypeInitially == Init => TypeOK
<1> SUFFICES ASSUME Init PROVE TypeOK
  OBVIOUS
<1>1. caller \in [Callers -> CallerRecord] /\ poll \in [Pollers -> PollRecord]
  BY CallerRecords, PollRecords DEF Init
<1>2. requests \in 0..MaxRequests /\ restarts \in 0..MaxRestarts
  BY ProcessManagerAssumption DEF Init
<1> QED BY <1>1, <1>2 DEF Init, TypeOK, CallerRecord, PollRecord

\* Every step of the program keeps the types.
LEMMA TypeStep == TypeOK /\ [Next]_vars => TypeOK'
<1> SUFFICES ASSUME TypeOK, [Next]_vars PROVE TypeOK'
  OBVIOUS
<1> USE ProcessManagerAssumption
<1>1. ASSUME NEW c \in Callers, StartRequest(c) PROVE TypeOK'
  <2>1. caller' \in [Callers -> CallerRecord]
    BY <1>1, CallerRecords, CallerUpdated DEF StartRequest, Requested
  <2> QED BY <1>1, <2>1 DEF StartRequest, Requested, TypeOK, CallerRecord, control, history
<1>2. ASSUME NEW c \in Callers, StopRequest(c) PROVE TypeOK'
  <2>1. caller' \in [Callers -> CallerRecord]
    BY <1>2, CallerRecords, CallerUpdated DEF StopRequest, Requested
  <2>2. requests' \in 0..MaxRequests
    BY <1>2 DEF StopRequest, Requested, TypeOK
  <2>3. asked' \subseteq Pids
    BY <1>2 DEF StopRequest, TypeOK, Alive
  <2> QED BY <1>2, <2>1, <2>2, <2>3 DEF StopRequest, TypeOK, CallerRecord
<1>3. ASSUME NEW c \in Callers, BareStopRequest(c) PROVE TypeOK'
  <2>1. caller' \in [Callers -> CallerRecord]
    BY <1>3, CallerRecords, CallerUpdated DEF BareStopRequest, Requested
  <2> QED BY <1>3, <2>1 DEF BareStopRequest, Requested, TypeOK, CallerRecord, control, history
<1>11. ASSUME NEW c \in Callers, CountdownRequest(c) PROVE TypeOK'
  <2>1. caller' \in [Callers -> CallerRecord]
    BY <1>11, CallerRecords, CallerUpdated DEF CountdownRequest, Requested
  <2> QED BY <1>11, <2>1 DEF CountdownRequest, Requested, TypeOK, CallerRecord, control, history
<1>12. ASSUME NEW c \in Callers, CountdownCancelled(c) PROVE TypeOK'
  <2>1. caller' \in [Callers -> CallerRecord]
    BY <1>12, CallerRecords, CallerUpdated DEF CountdownCancelled
  <2> QED BY <1>12, <2>1 DEF CountdownCancelled, TypeOK, CallerRecord, control
<1>15. ASSUME NEW c \in Callers, RestRaises(c) \/ StopRaises(c) PROVE TypeOK'
  <2>1. caller' \in [Callers -> CallerRecord]
    BY <1>15, CallerRecords, CallerUpdated DEF RestRaises, StopRaises
  <2> QED BY <1>15, <2>1 DEF RestRaises, StopRaises, TypeOK, CallerRecord, control
<1>13. ASSUME NEW c \in Callers, ServerObeys(c) PROVE TypeOK'
  BY <1>13 DEF ServerObeys, TypeOK, control, Alive
<1>4. ASSUME NEW c \in Callers, CallerStep(c) PROVE TypeOK'
  <2>0. caller[c] \in CallerRecord
    BY DEF TypeOK, CallerRecord
  <2>1. CASE RestEnds(c)
    <3>1. caller' \in [Callers -> CallerRecord]
      BY <2>0, <2>1, CallerRecords, CallerUpdated DEF RestEnds, Goes
    <3> QED BY <2>1, <3>1 DEF RestEnds, TypeOK, CallerRecord, control, history
  <2>9. CASE CountdownEnds(c)
    <3>1. caller' \in [Callers -> CallerRecord]
      BY <2>0, <2>9, CallerRecords, CallerUpdated DEF CountdownEnds, Goes
    <3> QED BY <2>9, <3>1 DEF CountdownEnds, TypeOK, CallerRecord, Alive
  <2>2. CASE Launches(c)
    <3>1. caller' \in [Callers -> CallerRecord]
      BY <2>2, CallerRecords, CallerUpdated DEF Launches
    <3> QED BY <2>2, <3>1 DEF Launches, TypeOK, CallerRecord, Unused
  <2>3. CASE StartFails(c)
    <3>1. caller' \in [Callers -> CallerRecord]
      BY <2>3, CallerRecords, CallerUpdated DEF StartFails
    <3> QED BY <2>3, <3>1 DEF StartFails, TypeOK, CallerRecord, control, history
  <2>4. AfterStop(c) \in CallerRecord
    BY CallerRecords DEF AfterStop
  <2>5. CASE StopFindsNothing(c)
    <3>1. caller' \in [Callers -> CallerRecord]
      BY <2>4, <2>5, CallerUpdated DEF StopFindsNothing
    <3> QED BY <2>5, <3>1 DEF StopFindsNothing, TypeOK, CallerRecord, history
  <2>6. CASE StopBegins(c)
    <3>1. caller' \in [Callers -> CallerRecord]
      <4>1. tracked \in Pids
        BY <2>6 DEF StopBegins, Alive
      <4>2. caller' = [caller EXCEPT ![c] = [caller[c] EXCEPT !.pc = "kill", !.pid = tracked]]
        BY <2>6, <2>0 DEF StopBegins, TypeOK
      <4>3. PICK p \in Pids : p = tracked
        BY <4>1
      <4> QED BY <2>0, <4>2, <4>3, CallerRecords, CallerUpdated
    <3> QED BY <2>6, <3>1 DEF StopBegins, TypeOK, CallerRecord, Alive
  <2>7. CASE StopKills(c)
    <3>1. caller' \in [Callers -> CallerRecord]
      BY <2>0, <2>7, CallerRecords, CallerUpdated DEF StopKills, Goes
    <3> QED BY <2>7, <3>1 DEF StopKills, TypeOK, CallerRecord, control, history
  <2>8. CASE StopEnds(c)
    <3>1. caller' \in [Callers -> CallerRecord]
      BY <2>4, <2>8, CallerUpdated DEF StopEnds
    <3> QED BY <2>8, <3>1 DEF StopEnds, TypeOK, CallerRecord, history
  <2> QED BY <1>4, <2>1, <2>2, <2>3, <2>5, <2>6, <2>7, <2>8, <2>9 DEF CallerStep
<1>5. ASSUME NEW r \in Pollers, PollStep(r) PROVE TypeOK'
  <2>1. poll' \in [Pollers -> PollRecord]
    BY <1>5, PollRecords DEF PollStep, PollLooks, PollScans, PollPops, TypeOK, PollRecord
  <2> QED BY <1>5, <2>1 DEF PollStep, PollLooks, PollScans, PollPops, TypeOK, PollRecord,
            control, history
<1>6. CASE MonitorJudges
  BY <1>6, PollRecords DEF MonitorJudges, TypeOK, PollRecord, control, Alarm
<1>7. ASSUME NEW p \in Pids, ServerDies(p) PROVE TypeOK'
  BY <1>7 DEF ServerDies, TypeOK, control
<1>14. CASE LauncherExits
  BY <1>14 DEF LauncherExits, TypeOK, history
<1>8. CASE IntentExpires
  BY <1>8 DEF IntentExpires, TypeOK, history
<1>9. CASE EgmRestarts
  <2>1. caller' \in [Callers -> CallerRecord] /\ poll' \in [Pollers -> PollRecord]
    BY <1>9, CallerRecords, PollRecords DEF EgmRestarts
  <2>2. restarts' \in 0..MaxRestarts
    BY <1>9 DEF EgmRestarts, TypeOK
  <2> QED BY <1>9, <2>1, <2>2 DEF EgmRestarts, TypeOK, CallerRecord, PollRecord
<1>10. CASE UNCHANGED vars
  BY <1>10 DEF vars, control, history, TypeOK
<1> QED BY <1>1, <1>2, <1>3, <1>4, <1>5, <1>6, <1>7, <1>8, <1>9, <1>10, <1>11,
       <1>12, <1>13, <1>14, <1>15 DEF Next

\* Type correctness: in particular what is tracked was launched by this
\* process, whatever requests, polls and restarts come in between.
THEOREM ControlTypeCorrect == Spec => []TypeOK
BY TypeInitially, TypeStep, PTL DEF Spec

-----------------------------------------------------------------------------

\* Only a launch brings a process to life, and it needs that none is alive.
LEMMA OneServerStep == TypeOK /\ OneServer /\ [Next]_vars => OneServer'
<1> SUFFICES ASSUME TypeOK, OneServer, [Next]_vars PROVE OneServer'
  OBVIOUS
<1>1. ASSUME NEW c \in Callers, Launches(c) PROVE OneServer'
  BY <1>1 DEF Launches, OneServer, Alive, Unused, TypeOK
<1>2. ASSUME Alive' \subseteq Alive PROVE OneServer'
  BY <1>2 DEF OneServer
<1>3. ASSUME NEW c \in Callers, CallerStep(c) PROVE OneServer'
  <2>2. CASE StopKills(c)
    BY <2>2, <1>2 DEF StopKills, Alive, TypeOK
  <2>3. CASE \/ CountdownEnds(c) \/ RestEnds(c) \/ StartFails(c)
              \/ StopFindsNothing(c) \/ StopBegins(c) \/ StopEnds(c)
    BY <2>3, <1>2 DEF CountdownEnds, RestEnds, StartFails, StopFindsNothing, StopBegins,
         StopEnds, Alive
  <2> QED BY <1>1, <1>3, <2>2, <2>3 DEF CallerStep
<1>4. ASSUME NEW p \in Pids, ServerDies(p) PROVE OneServer'
  BY <1>4, <1>2 DEF ServerDies, Alive, TypeOK
<1>5. ASSUME UNCHANGED proc PROVE OneServer'
  BY <1>5, <1>2 DEF Alive
<1>6. ASSUME NEW c \in Callers,
             \/ StartRequest(c) \/ StopRequest(c) \/ BareStopRequest(c)
             \/ CountdownRequest(c) \/ CountdownCancelled(c) \/ RestRaises(c) \/ StopRaises(c)
      PROVE UNCHANGED proc
  BY <1>6 DEF StartRequest, StopRequest, BareStopRequest, CountdownRequest, CountdownCancelled,
       RestRaises, StopRaises
<1>9. ASSUME NEW c \in Callers, ServerObeys(c) PROVE OneServer'
  BY <1>9, <1>2 DEF ServerObeys, Alive, TypeOK
<1>7. ASSUME NEW r \in Pollers, PollStep(r) PROVE UNCHANGED proc
  BY <1>7 DEF PollStep, PollLooks, PollScans, PollPops
<1>8. MonitorJudges \/ LauncherExits \/ IntentExpires \/ EgmRestarts \/ UNCHANGED vars
        => UNCHANGED proc
  BY DEF MonitorJudges, LauncherExits, IntentExpires, EgmRestarts, vars
<1> QED BY <1>3, <1>4, <1>5, <1>6, <1>7, <1>8, <1>9 DEF Next

\* Two servers never run on one world, for any number of concurrent starts,
\* stops, polls and restarts of this process: start() looks at the processes
\* of the machine, and not at its own bookkeeping, under the lock.
THEOREM NeverTwoServers == Spec => []OneServer
<1>1. Init => OneServer
  BY DEF Init, OneServer, Alive
<1> QED BY <1>1, OneServerStep, ControlTypeCorrect, PTL DEF Spec

-----------------------------------------------------------------------------

\* Whoever leaves the part of the code that a mark belongs to takes it back.
LEMMA StoppingStep == TypeOK /\ StoppingPasses /\ [Next]_vars => StoppingPasses'
<1> SUFFICES ASSUME TypeOK, StoppingPasses, [Next]_vars, stopping', ~given_up'
             PROVE  \E c \in Callers : caller'[c].pc \in {"rest", "quit", "stop", "kill", "reap"}
  BY DEF StoppingPasses, Stoppers
<1> DEFINE InStop == {"rest", "quit", "stop", "kill", "reap"}
           Goal == \E c \in Callers : caller'[c].pc \in InStop
<1>1. ASSUME stopping, ~given_up PROVE \E c \in Callers : caller[c].pc \in InStop
  BY <1>1 DEF StoppingPasses, Stoppers
<1>2. ASSUME UNCHANGED <<stopping, given_up, caller>> PROVE Goal
  BY <1>1, <1>2
<1>3. ASSUME NEW c \in Callers, UNCHANGED <<stopping, given_up>>, NEW r,
             caller' = [caller EXCEPT ![c] = r],
             caller[c].pc \in InStop => r.pc \in InStop
      PROVE Goal
  <2>1. PICK d \in Callers : caller[d].pc \in InStop
    BY <1>1, <1>3
  <2>2. caller'[d].pc \in InStop
    BY <1>3, <2>1 DEF TypeOK
  <2> QED BY <2>2
<1>4. ASSUME NEW c \in Callers,
             StartRequest(c) \/ BareStopRequest(c) \/ CountdownRequest(c) \/ StartFails(c)
      PROVE Goal
  BY <1>3, <1>4 DEF StartRequest, BareStopRequest, CountdownRequest, StartFails, Requested,
       control, history
<1>5. ASSUME NEW c \in Callers, CountdownCancelled(c) PROVE Goal
  <2>1. caller[c].pc \notin InStop
    BY <1>5 DEF CountdownCancelled
  <2>2. UNCHANGED <<stopping, given_up>>
    BY <1>5, <2>1 DEF CountdownCancelled, control, TypeOK
  <2> QED BY <1>3, <1>5, <2>1, <2>2 DEF CountdownCancelled
<1>6. ASSUME NEW c \in Callers, NEW r, caller' = [caller EXCEPT ![c] = r], r.pc \in InStop
      PROVE Goal
  BY <1>6 DEF TypeOK
<1>7. ASSUME NEW c \in Callers, StopRequest(c) PROVE Goal
  BY <1>6, <1>7 DEF StopRequest, Requested, Idle
<1>8. ASSUME NEW c \in Callers, CountdownEnds(c) \/ RestEnds(c) \/ StopKills(c) PROVE Goal
  BY <1>8 DEF CountdownEnds, RestEnds, StopKills, Goes, TypeOK
<1>9. ASSUME NEW c \in Callers, StopBegins(c) PROVE Goal
  BY <1>9 DEF StopBegins, TypeOK
<1>10. ASSUME NEW c \in Callers PROVE ~(Launches(c) \/ StopFindsNothing(c) \/ StopEnds(c))
  BY DEF Launches, StopFindsNothing, StopEnds
<1>11. ASSUME NEW c \in Callers, CallerStep(c) PROVE Goal
  BY <1>4, <1>8, <1>9, <1>10, <1>11 DEF CallerStep
<1>12. ASSUME NEW c \in Callers, ServerObeys(c) PROVE UNCHANGED <<stopping, given_up, caller>>
  BY <1>12 DEF ServerObeys, control
<1>13. ASSUME NEW r \in Pollers, PollStep(r) PROVE UNCHANGED <<stopping, given_up, caller>>
  BY <1>13 DEF PollStep, PollLooks, PollScans, PollPops, control, history
<1>14. ASSUME NEW p \in Pids, ServerDies(p) PROVE UNCHANGED <<stopping, given_up, caller>>
  BY <1>14 DEF ServerDies, control
<1>15. MonitorJudges \/ LauncherExits \/ IntentExpires \/ UNCHANGED vars
         => UNCHANGED <<stopping, given_up, caller>>
  BY DEF MonitorJudges, LauncherExits, IntentExpires, vars, control, history
<1>16. ~EgmRestarts
  BY DEF EgmRestarts
<1>17. ASSUME NEW c \in Callers PROVE ~(RestRaises(c) \/ StopRaises(c))
  BY DEF RestRaises, StopRaises
<1> QED BY <1>2, <1>4, <1>5, <1>7, <1>11, <1>12, <1>13, <1>14, <1>15, <1>16, <1>17 DEF Next

\* The status is never "stopping" with nobody left to end it, however many
\* stops, starts and restarts overlap, until one of them is cancelled or fails
\* between its mark and its stop; the next stop or start makes up for it.
THEOREM StoppingIsOwned == Spec => []StoppingPasses
<1>1. Init => StoppingPasses
  BY DEF Init, StoppingPasses
<1> QED BY <1>1, StoppingStep, ControlTypeCorrect, PTL DEF Spec

-----------------------------------------------------------------------------
(* Servers of either game                                                   *)

ConanCaller == [pc: {"idle", "start", "mark", "read", "scan", "kill", "end"},
                again: BOOLEAN, has: Pids \cup {None},
                found: SUBSET Pids, met: SUBSET Pids, spared: SUBSET Pids]

ConanStopping == {"read", "scan", "kill", "end"}

\* What a request knows of the server it met when it was marked: while it is alive
\* it is among those that are going to be killed, and in the end it is dead or was
\* spared.
Meets(r) ==
  /\ \A p \in r.met : proc[p] # "none"
  /\ r.pc = "kill" => r.met \cap Alive \subseteq r.found
  /\ r.pc = "end" => r.met \cap Alive \subseteq r.spared

ConanInv ==
  /\ proc \in [Pids -> {"none", "alive", "dead"}]
  /\ caller \in [Callers -> ConanCaller]
  /\ tracked \in Pids \cup {None}
  /\ \A c \in Callers : Meets(caller[c])
  /\ stopping => \E c \in Callers : caller[c].pc \in ConanStopping
  /\ OneServer

\* The event loop and the threads of restores are the callers.
LEMMA ConanCallers == Conan!Threads = Callers
BY ServerControlAssumption DEF Conan!Threads

LEMMA IdleMeets ==
  /\ Conan!Idle \in ConanCaller
  /\ Conan!Idle.pc = "idle" /\ Conan!Idle.met = {}
BY DEF Conan!Idle, ConanCaller

\* Processes that end, or stay as they are, are no harm to anybody's knowledge.
LEMMA MeetsStays ==
  ASSUME NEW r \in ConanCaller, Meets(r),
         \A p \in Pids : proc[p] # "none" => proc'[p] # "none",
         Alive' \subseteq Alive
  PROVE  Meets(r)'
BY DEF Meets, ConanCaller

\* A step of one request, under which no process begins.
LEMMA CallerMoves ==
  ASSUME ConanInv, NEW c \in Callers, NEW r \in ConanCaller,
         caller' = [caller EXCEPT ![c] = r],
         proc' \in [Pids -> {"none", "alive", "dead"}],
         \A p \in Pids : proc[p] # "none" => proc'[p] # "none",
         Alive' \subseteq Alive,
         tracked' \in Pids \cup {None},
         Meets(r)',
         stopping' => \/ r.pc \in ConanStopping
                      \/ stopping /\ caller[c].pc \notin ConanStopping
  PROVE  ConanInv'
<1>1. caller' \in [Callers -> ConanCaller]
  BY DEF ConanInv
<1>2. \A d \in Callers : caller'[d] = IF d = c THEN r ELSE caller[d]
  BY DEF ConanInv
<1>3. \A d \in Callers : (Meets(caller[d]))' 
  <2> SUFFICES ASSUME NEW d \in Callers PROVE Meets(caller[d])'
    OBVIOUS
  <2>1. CASE d = c
    BY <1>2, <2>1 DEF Meets
  <2>2. CASE d # c
    <3>1. caller'[d] = caller[d] /\ caller[d] \in ConanCaller /\ Meets(caller[d])
      BY <1>2, <2>2 DEF ConanInv
    <3>2. PICK s \in ConanCaller : s = caller[d]
      BY <3>1
    <3>3. Meets(s)'
      BY <3>1, <3>2, MeetsStays DEF Meets
    <3> QED BY <3>1, <3>2, <3>3 DEF Meets
  <2> QED BY <2>1, <2>2
<1>4. stopping' => \E d \in Callers : caller'[d].pc \in ConanStopping
  BY <1>2 DEF ConanInv
<1>5. OneServer'
  BY DEF ConanInv, OneServer
<1> QED BY <1>1, <1>3, <1>4, <1>5 DEF ConanInv

\* A step under which no process begins and no request moves.
LEMMA CallersStay ==
  ASSUME ConanInv, UNCHANGED <<caller, stopping>>,
         proc' \in [Pids -> {"none", "alive", "dead"}],
         \A p \in Pids : proc[p] # "none" => proc'[p] # "none",
         Alive' \subseteq Alive,
         tracked' \in Pids \cup {None}
  PROVE  ConanInv'
<1>1. \A d \in Callers : (Meets(caller[d]))'
  <2> SUFFICES ASSUME NEW d \in Callers PROVE Meets(caller[d])'
    OBVIOUS
  <2>1. caller'[d] = caller[d] /\ caller[d] \in ConanCaller /\ Meets(caller[d])
    BY DEF ConanInv
  <2>2. PICK s \in ConanCaller : s = caller[d]
    BY <2>1
  <2>3. Meets(s)'
    BY <2>1, <2>2, MeetsStays DEF Meets
  <2> QED BY <2>1, <2>2, <2>3 DEF Meets
<1>2. OneServer'
  BY DEF ConanInv, OneServer
<1> QED BY <1>1, <1>2 DEF ConanInv

-----------------------------------------------------------------------------
\* A request begins: it has met nothing yet.
LEMMA ConanRequests ==
  ASSUME ConanInv,
         \/ Conan!StartRequest \/ Conan!StopRequest
         \/ \E c \in Callers \ {Loop} : Conan!RestoreRequest(c)
  PROVE  ConanInv'
<1> DEFINE Fresh == {r \in ConanCaller : r.met = {} /\ r.pc \in {"idle", "start", "mark"}}
<1>1. PICK c \in Callers, r \in Fresh :
        /\ caller[c].pc = "idle" /\ caller' = [caller EXCEPT ![c] = r]
        /\ UNCHANGED <<proc, stopping>> /\ tracked' \in {tracked, None}
  <2>1. CASE Conan!StartRequest
    <3>1. [Conan!Idle EXCEPT !.pc = "start"] \in Fresh
      BY DEF Conan!Idle, ConanCaller
    <3> QED BY <2>1, <3>1, ServerControlAssumption
            DEF Conan!StartRequest, Conan!Requested, Conan!control
  <2>2. CASE Conan!StopRequest
    <3>1. \A again \in BOOLEAN : [Conan!Idle EXCEPT !.pc = "mark", !.again = again] \in Fresh
      BY DEF Conan!Idle, ConanCaller
    <3> QED BY <2>2, <3>1, ServerControlAssumption
            DEF Conan!StopRequest, Conan!Requested, Conan!control
  <2>3. CASE \E c \in Callers \ {Loop} : Conan!RestoreRequest(c)
    <3>1. [Conan!Idle EXCEPT !.pc = "mark"] \in Fresh /\ Conan!Idle \in Fresh
      BY DEF Conan!Idle, ConanCaller
    <3> QED BY <2>3, <3>1 DEF Conan!RestoreRequest, Conan!Requested
  <2> QED BY <2>1, <2>2, <2>3
<1>2. Meets(r)' /\ r \in ConanCaller
  BY DEF Meets
<1>3. caller[c].pc \notin ConanStopping
  BY <1>1 DEF ConanStopping
<1>4. Alive' = Alive
  BY <1>1 DEF Alive
<1> HIDE DEF Fresh
<1> QED BY <1>1, <1>2, <1>3, <1>4, CallerMoves DEF ConanInv

\* start, which launches only where no server lives.
LEMMA ConanStarts ==
  ASSUME ConanInv, NEW c \in Callers, Conan!Launches(c) \/ Conan!StartFails(c)
  PROVE  ConanInv'
<1>1. CASE Conan!StartFails(c)
  <2>1. /\ caller' = [caller EXCEPT ![c] = Conan!Idle] /\ caller[c].pc = "start"
        /\ UNCHANGED <<proc, stopping, tracked>>
    BY <1>1 DEF Conan!StartFails, Conan!control
  <2>2. Meets(Conan!Idle)' /\ Alive' = Alive
    BY <2>1, IdleMeets DEF Meets, Alive
  <2>3. caller[c].pc \notin ConanStopping
    BY <2>1 DEF ConanStopping
  <2> QED BY <2>1, <2>2, <2>3, IdleMeets, CallerMoves DEF ConanInv
<1>2. CASE Conan!Launches(c)
  <2>1. PICK p \in Pids :
          /\ proc[p] = "none" /\ proc' = [proc EXCEPT ![p] = "alive"] /\ tracked' = p
          /\ Alive = {} /\ ~stopping' /\ caller' = [caller EXCEPT ![c] = Conan!Idle]
    BY <1>2 DEF Conan!Launches, Conan!Unused, Conan!Alive, Alive
  <2>2. Alive' = {p} /\ proc' \in [Pids -> {"none", "alive", "dead"}]
    BY <2>1 DEF ConanInv, Alive
  <2>3. caller' \in [Callers -> ConanCaller]
        /\ \A d \in Callers : caller'[d] = IF d = c THEN Conan!Idle ELSE caller[d]
    BY <2>1, IdleMeets DEF ConanInv
  <2>4. ASSUME NEW d \in Callers PROVE Meets(caller[d])'
    <3>1. CASE d = c
      BY <2>3, <3>1, IdleMeets DEF Meets
    <3>2. CASE d # c
      <4>1. caller'[d] = caller[d] /\ caller[d].met \subseteq Pids
        BY <2>3, <3>2 DEF ConanInv, ConanCaller
      <4>2. \A q \in caller[d].met : q # p /\ proc'[q] # "none"
        BY <2>1, <4>1 DEF ConanInv, Meets
      <4> QED BY <2>2, <4>1, <4>2 DEF Meets
    <3> QED BY <3>1, <3>2
  <2>5. OneServer'
    BY <2>2 DEF OneServer
  <2> QED BY <2>1, <2>2, <2>3, <2>4, <2>5 DEF ConanInv
<1> QED BY <1>1, <1>2

\* The way of a stop: marked, looked for, killed, over.
LEMMA ConanStops ==
  ASSUME ConanInv, NEW c \in Callers,
         \/ Conan!StopMarks(c) \/ Conan!StopReads(c) \/ Conan!StopScans(c)
         \/ Conan!StopKills(c) \/ Conan!KillIsRefused(c) \/ Conan!LauncherExitsFirst(c)
         \/ Conan!StopEnds(c)
  PROVE  ConanInv'
<1>0. Conan!Alive = Alive /\ Alive \subseteq Pids
  BY DEF Conan!Alive, Alive
<1>00. caller[c] \in ConanCaller /\ Meets(caller[c])
  BY DEF ConanInv
<1> DEFINE old == caller[c]
<1>1. CASE Conan!StopMarks(c)
  <2> DEFINE new == [old EXCEPT !.pc = "read", !.met = Alive]
  <2>1. caller' = [caller EXCEPT ![c] = new] /\ UNCHANGED <<proc, tracked>>
    BY <1>1, <1>0, <1>00 DEF Conan!StopMarks, ConanInv
  <2>2. new \in ConanCaller /\ new.pc = "read" /\ new.met = Alive
    BY <1>0, <1>00 DEF ConanCaller
  <2> HIDE DEF new
  <2>8. PICK r \in ConanCaller : r = new
    BY <2>2
  <2>3. Meets(r)' /\ Alive' = Alive
    BY <2>1, <2>2, <2>8 DEF Meets, Alive
  <2> QED BY <2>1, <2>2, <2>3, <2>8, CallerMoves DEF ConanInv, ConanStopping
<1>2. CASE Conan!StopReads(c)
  <2> DEFINE new == [old EXCEPT !.pc = "scan", !.has = tracked]
  <2>1. caller' = [caller EXCEPT ![c] = new] /\ UNCHANGED <<proc, tracked>>
    BY <1>2, <1>00 DEF Conan!StopReads, Conan!control, ConanInv
  <2>2. new \in ConanCaller /\ new.pc = "scan" /\ new.met = old.met
    BY <1>00 DEF ConanCaller, ConanInv
  <2> HIDE DEF new
  <2>8. PICK r \in ConanCaller : r = new
    BY <2>2
  <2>3. Meets(r)' /\ Alive' = Alive
    BY <2>1, <2>2, <2>8, <1>00 DEF Meets, Alive
  <2> QED BY <2>1, <2>2, <2>3, <2>8, CallerMoves DEF ConanInv, ConanStopping
<1>3. CASE Conan!StopScans(c)
  <2> DEFINE new == [old EXCEPT !.found = Alive, !.pc = IF Alive = {} THEN "end" ELSE "kill"]
  <2>1. caller' = [caller EXCEPT ![c] = new] /\ UNCHANGED <<proc, tracked>>
    BY <1>3, <1>0, <1>00 DEF Conan!StopScans, Conan!control, ConanInv
  <2>2. /\ new \in ConanCaller /\ new.met = old.met /\ new.found = Alive
        /\ new.pc = IF Alive = {} THEN "end" ELSE "kill"
    BY <1>0, <1>00 DEF ConanCaller
  <2> HIDE DEF new
  <2>8. PICK r \in ConanCaller : r = new
    BY <2>2
  <2>3. Meets(r)' /\ Alive' = Alive
    BY <2>1, <2>2, <2>8, <1>00 DEF Meets, Alive
  <2> QED BY <2>1, <2>2, <2>3, <2>8, CallerMoves DEF ConanInv, ConanStopping
<1>4. CASE Conan!StopKills(c)
  <2> DEFINE new == [old EXCEPT !.pc = "end"]
             gone == IF old.has \in Alive THEN {old.has} ELSE old.found
  <2>1. /\ caller' = [caller EXCEPT ![c] = new] /\ UNCHANGED tracked
        /\ proc' = [p \in Pids |-> IF p \in gone THEN "dead" ELSE proc[p]]
        /\ old.pc = "kill"
    BY <1>4, <1>0, <1>00 DEF Conan!StopKills, Conan!Victims, Conan!control, ConanInv
  <2>2. new \in ConanCaller /\ new.pc = "end" /\ new.met = old.met
    BY <1>00 DEF ConanCaller
  <2>3. Alive' = Alive \ gone
    BY <2>1 DEF Alive
  <2>4. /\ proc' \in [Pids -> {"none", "alive", "dead"}]
        /\ \A p \in Pids : proc[p] # "none" => proc'[p] # "none"
    BY <2>1 DEF ConanInv
  <2>5. old.met \cap (Alive \ gone) = {}
    BY <2>1, <1>00 DEF Meets, ConanInv, OneServer
  <2>6. old.met \subseteq Pids
    BY <1>00 DEF ConanCaller
  <2> HIDE DEF new, gone
  <2>8. PICK r \in ConanCaller : r = new
    BY <2>2
  <2>7. Meets(r)'
    BY <2>2, <2>8, <2>3, <2>4, <2>5, <2>6, <1>00 DEF Meets
  <2> QED BY <2>1, <2>2, <2>3, <2>4, <2>7, <2>8, CallerMoves DEF ConanInv, ConanStopping
<1>5. CASE Conan!StopEnds(c)
  <2> DEFINE new == Conan!AfterStop(c)
  <2>1. caller' = [caller EXCEPT ![c] = new] /\ UNCHANGED proc /\ tracked' = None /\ ~stopping'
    BY <1>5 DEF Conan!StopEnds
  <2>2. new \in ConanCaller /\ new.pc \in {"idle", "start"} /\ new.met = {}
    BY DEF Conan!AfterStop, Conan!Idle, ConanCaller
  <2> HIDE DEF new
  <2>8. PICK r \in ConanCaller : r = new
    BY <2>2
  <2>3. Meets(r)' /\ Alive' = Alive
    BY <2>1, <2>2, <2>8 DEF Meets, Alive
  <2> QED BY <2>1, <2>2, <2>3, <2>8, CallerMoves DEF ConanInv
<1>6. CASE Conan!KillIsRefused(c) \/ Conan!LauncherExitsFirst(c)
  <2>0. old.pc = "kill" /\ old.met \cap Alive \subseteq old.found
    BY <1>6, <1>00 DEF Conan!KillIsRefused, Conan!LauncherExitsFirst, Meets
  <2>1. PICK left \in SUBSET Pids :
          /\ caller' = [caller EXCEPT ![c] = [old EXCEPT !.pc = "end", !.spared = left]]
          /\ old.met \cap Alive \subseteq left
          /\ UNCHANGED proc /\ tracked' \in {tracked, None}
    <3>1. CASE Conan!KillIsRefused(c)
      <4>1. Conan!Victims(c) \in SUBSET Pids /\ old.met \cap Alive \subseteq Conan!Victims(c)
        BY <1>0, <1>00, <2>0 DEF Conan!Victims, ConanCaller, ConanInv, OneServer
      <4> QED BY <3>1, <4>1, <1>00 DEF Conan!KillIsRefused, Conan!control, ConanInv
    <3>2. CASE Conan!LauncherExitsFirst(c)
      <4>1. {tracked} \in SUBSET Pids /\ old.met \cap Alive \subseteq {tracked}
        BY <3>2, <1>0, <1>00 DEF Conan!LauncherExitsFirst, ConanCaller, ConanInv, OneServer
      <4> QED BY <3>2, <4>1, <1>00 DEF Conan!LauncherExitsFirst, ConanInv
    <3> QED BY <1>6, <3>1, <3>2
  <2> DEFINE new == [old EXCEPT !.pc = "end", !.spared = left]
  <2>2. new \in ConanCaller /\ new.pc = "end" /\ new.met = old.met /\ new.spared = left
    BY <1>00 DEF ConanCaller
  <2>3. caller' = [caller EXCEPT ![c] = new]
    BY <2>1
  <2> HIDE DEF new
  <2>8. PICK r \in ConanCaller : r = new
    BY <2>2
  <2>4. Meets(r)' /\ Alive' = Alive
    BY <2>1, <2>2, <2>8, <1>00 DEF Meets, Alive
  <2> QED BY <2>1, <2>2, <2>3, <2>4, <2>8, CallerMoves DEF ConanInv, ConanStopping
<1> QED BY <1>1, <1>2, <1>3, <1>4, <1>5, <1>6

\* Everything but the requests: polls, the monitor, ends of processes.  A restart
\* of EGM forgets all requests and marks.
LEMMA ConanOthers ==
  ASSUME ConanInv,
         \/ \E r \in Pollers : Conan!PollStep(r)
         \/ Conan!MonitorJudges
         \/ \E p \in Pids : Conan!ServerDies(p)
         \/ Conan!LauncherExits \/ Conan!IntentExpires \/ Conan!EgmRestarts
  PROVE  ConanInv'
<1>1. ASSUME UNCHANGED <<proc, caller, stopping>>, tracked' \in {tracked, None} PROVE ConanInv'
  <2>1. Alive' = Alive
    BY <1>1 DEF Alive
  <2> QED BY <1>1, <2>1, CallersStay DEF ConanInv
<1>2. CASE \E r \in Pollers : Conan!PollStep(r)
  BY <1>1, <1>2 DEF Conan!PollStep, Conan!PollLooks, Conan!PollScans, Conan!PollPops, Conan!control
<1>3. CASE Conan!MonitorJudges \/ Conan!LauncherExits \/ Conan!IntentExpires
  BY <1>1, <1>3 DEF Conan!MonitorJudges, Conan!LauncherExits, Conan!IntentExpires, Conan!control
<1>4. CASE \E p \in Pids : Conan!ServerDies(p)
  <2>1. PICK p \in Pids : proc' = [proc EXCEPT ![p] = "dead"]
    BY <1>4 DEF Conan!ServerDies
  <2>2. UNCHANGED <<caller, stopping, tracked>>
    BY <1>4 DEF Conan!ServerDies, Conan!control
  <2>3. /\ proc' \in [Pids -> {"none", "alive", "dead"}]
        /\ \A q \in Pids : proc[q] # "none" => proc'[q] # "none"
        /\ Alive' \subseteq Alive
    BY <2>1 DEF ConanInv, Alive
  <2> QED BY <2>2, <2>3, CallersStay DEF ConanInv
<1>5. CASE Conan!EgmRestarts
  <2>1. /\ UNCHANGED proc /\ tracked' = None /\ ~stopping'
        /\ caller' = [c \in Callers |-> Conan!Idle]
    BY <1>5, ConanCallers DEF Conan!EgmRestarts
  <2>2. \A c \in Callers : Meets(caller[c])'
    BY <2>1, IdleMeets DEF Meets
  <2>3. OneServer'
    BY <2>1 DEF ConanInv, OneServer, Alive
  <2> QED BY <2>1, <2>2, <2>3, IdleMeets DEF ConanInv
<1> QED BY <1>2, <1>3, <1>4, <1>5

LEMMA ConanStep == ASSUME ConanInv, Conan!Next PROVE ConanInv'
<1>1. CASE \/ Conan!StartRequest \/ Conan!StopRequest
           \/ \E c \in Callers \ {Loop} : Conan!RestoreRequest(c)
  BY <1>1, ConanRequests
<1>2. CASE \E c \in Callers : Conan!CallerStep(c)
  BY <1>2, ConanStarts, ConanStops DEF Conan!CallerStep
<1>3. CASE \/ \E r \in Pollers : Conan!PollStep(r)
           \/ Conan!MonitorJudges
           \/ \E p \in Pids : Conan!ServerDies(p)
           \/ Conan!LauncherExits \/ Conan!IntentExpires \/ Conan!EgmRestarts
  BY <1>3, ConanOthers
<1> QED BY <1>1, <1>2, <1>3, ConanCallers DEF Conan!Next

-----------------------------------------------------------------------------
GamesInv ==
  /\ game \in {"palworld", "conan_exiles"}
  /\ game = "palworld" => TypeOK /\ OneServer /\ StoppingPasses
  /\ game = "conan_exiles" => ConanInv

LEMMA GamesInitially == GamesInit => GamesInv
<1> SUFFICES ASSUME GamesInit PROVE GamesInv
  OBVIOUS
<1>1. game \in {"palworld", "conan_exiles"}
  BY DEF GamesInit
<1>2. CASE game = "palworld"
  <2>1. Init
    BY <1>2 DEF GamesInit
  <2>2. OneServer /\ StoppingPasses
    BY <2>1 DEF Init, OneServer, Alive, StoppingPasses
  <2> QED BY <1>2, <2>1, <2>2, TypeInitially DEF GamesInv
<1>3. CASE game = "conan_exiles"
  <2>1. /\ proc = [p \in Pids |-> "none"] /\ tracked = None /\ ~stopping
        /\ caller = [c \in Callers |-> Conan!Idle]
    BY <1>3, ConanCallers DEF GamesInit, Conan!Init
  <2>2. \A c \in Callers : Meets(caller[c])
    BY <2>1, IdleMeets DEF Meets
  <2>3. OneServer
    BY <2>1 DEF OneServer, Alive
  <2>4. ConanInv
    BY <2>1, <2>2, <2>3, IdleMeets DEF ConanInv
  <2> QED BY <1>3, <2>4 DEF GamesInv
<1> QED BY <1>1, <1>2, <1>3

LEMMA GamesStep == GamesInv /\ [GamesNext]_gamesVars => GamesInv'
<1> SUFFICES ASSUME GamesInv, [GamesNext]_gamesVars PROVE GamesInv'
  OBVIOUS
<1>1. CASE PalworldDoes(Next)
  BY <1>1, TypeStep, OneServerStep, StoppingStep DEF PalworldDoes, GamesInv
<1>2. CASE ConanDoes(Conan!Next)
  BY <1>2, ConanStep DEF ConanDoes, GamesInv
<1>3. CASE UNCHANGED gamesVars
  <2>1. UNCHANGED game /\ UNCHANGED vars
    BY <1>3 DEF gamesVars
  <2>2. CASE game = "palworld"
    BY <2>1, <2>2, TypeStep, OneServerStep, StoppingStep DEF GamesInv
  <2>3. CASE game = "conan_exiles"
    <3>1. UNCHANGED <<proc, caller, stopping, tracked>> /\ Alive' = Alive
      BY <2>1 DEF vars, control, Alive
    <3> QED BY <2>1, <2>3, <3>1, CallersStay DEF GamesInv, ConanInv
  <2> QED BY <2>2, <2>3 DEF GamesInv
<1> QED BY <1>1, <1>2, <1>3 DEF GamesNext

LEMMA GamesAlways == GamesSpec => []GamesInv
BY GamesInitially, GamesStep, PTL DEF GamesSpec

\* Two servers never run on one world, of either game: both managers look at the
\* processes of the machine under their lock before they launch one.
THEOREM NeverTwoServersOfAGame == GamesSpec => []OneServer
<1>1. GamesInv => OneServer
  BY DEF GamesInv, ConanInv
<1> QED BY <1>1, GamesAlways, PTL

\* The status "stopping" has somebody on the way to take it back, of either game
\* (stop and get_status of both managers); with Palworld until somebody on that way
\* is cancelled or fails.
THEOREM StoppingPassesInGames == GamesSpec => []StatusPasses
<1>1. GamesInv => StatusPasses
  BY ConanCallers DEF GamesInv, ConanInv, StatusPasses, Conan!StoppingPasses, ConanStopping
<1> QED BY <1>1, GamesAlways, PTL

\* A stop of Conan that returns has ended the server that it met, unless the system
\* has refused to or its launcher has exited just before its tree was read, for any
\* number of restores that stop it at the same time (conan_process_manager.py: stop).
THEOREM StopOfConanStops == GamesSpec => []StopStops
<1>1. GamesInv => StopStops
  BY ConanCallers DEF GamesInv, ConanInv, StopStops, Conan!StopStops, Meets, Conan!Alive, Alive
<1> QED BY <1>1, GamesAlways, PTL
=============================================================================
