----------------------- MODULE ScanOrchestratorProofs -----------------------
(***************************************************************************)
(* Proofs, for any number of agents, schedules, jobs, requests and faults, *)
(* of the safety properties of ScanOrchestrator.                           *)
(***************************************************************************)
EXTENDS ScanOrchestrator, TLAPS

\* The records the actions build have the types the variables require.
LEMMA NewCallType ==
  ASSUME NEW pc \in CallPC, NEW a \in Agents \cup {None},
         NEW s \in Schedules \cup {None}, NEW scope \in SUBSET Nets
  PROVE  NewCall(pc, a, s, scope) \in Call
BY DEF NewCall, Call

LEMMA BlankTypes ==
  /\ \A r \in RowState : NoAgent(r) \in AgentRow /\ NoSchedule(r) \in ScheduleRow /\ NoJob(r) \in JobRow
  /\ NoRun \in Goroutine
  /\ NoCall \in Call
<1>1. NoCall \in Call
  BY NewCallType DEF NoCall, CallPC
<1>2. NoRun \in Goroutine
  BY DEF NoRun, Goroutine, RunPC, Terminal
<1> QED BY <1>1, <1>2 DEF NoAgent, NoSchedule, NoJob, AgentRow, ScheduleRow, JobRow, LastRun, JobStatus

LEMMA ScheduleRowTypes ==
  ASSUME NEW r \in ScheduleRow
  PROVE  /\ \A due \in BOOLEAN : [r EXCEPT !.due = due] \in ScheduleRow
         /\ \A a \in Agents, scope \in SUBSET Nets, enabled \in BOOLEAN :
              [r EXCEPT !.agent = a, !.scope = scope, !.enabled = enabled] \in ScheduleRow
         /\ \A status \in LastRun, j \in Jobs \cup {None} :
              [r EXCEPT !.lastStatus = status, !.lastJob = j] \in ScheduleRow
BY DEF ScheduleRow

LEMMA CallTypes ==
  ASSUME NEW r \in Call
  PROVE  /\ \A pc \in CallPC : [r EXCEPT !.pc = pc] \in Call
         /\ \A active \in BOOLEAN, allowed \in SUBSET Nets :
              [r EXCEPT !.pc = "insert", !.active = active, !.allowed = allowed] \in Call
BY DEF Call, CallPC

LEMMA GoroutineTypes ==
  ASSUME NEW r \in Goroutine
  PROVE  /\ \A pc \in RunPC : [r EXCEPT !.pc = pc] \in Goroutine
         /\ \A outcome \in Terminal : [r EXCEPT !.pc = "record", !.outcome = outcome] \in Goroutine
         /\ [r EXCEPT !.pc = "schedResult", !.unsaved = TRUE] \in Goroutine
BY DEF Goroutine, RunPC, Working

\* Whatever a call of enqueue returns, its caller is left with a typed record.
LEMMA ReturnType ==
  ASSUME call \in [Callers -> Call], NEW c \in Callers, NEW pc \in CallPC, Return(c, pc)
  PROVE  call' \in [Callers -> Call]
<1>1. [call[c] EXCEPT !.pc = pc] \in Call
  BY CallTypes
<1> QED BY <1>1, BlankTypes DEF Return

\* The initial rows, goroutines and calls are typed.
LEMMA InitType == Init => TypeOK
<1> SUFFICES ASSUME Init PROVE TypeOK
  OBVIOUS
<1>1. "unused" \in RowState
  BY DEF RowState
<1>2. /\ agent \in [Agents -> AgentRow]
      /\ sched \in [Schedules -> ScheduleRow]
      /\ job \in [Jobs -> JobRow]
      /\ run \in [Jobs -> Goroutine]
      /\ call \in [Callers -> Call]
  BY <1>1, BlankTypes DEF Init
<1> QED BY <1>2, ConstantsAssumption DEF Init, TypeOK

LEMMA AdministrationType == TypeOK /\ Administration => TypeOK'
<1> SUFFICES ASSUME TypeOK, Administration PROVE TypeOK'
  OBVIOUS
<1>1. ASSUME NEW a \in Agents, NEW active \in BOOLEAN, NEW allowed \in SUBSET Nets,
             WriteAgent(a, active, allowed)
      PROVE  TypeOK'
  <2>1. agent' \in [Agents -> AgentRow]
    BY <1>1 DEF TypeOK, WriteAgent, AgentRow, RowState
  <2>2. granted' \in [Agents -> SUBSET Nets]
    BY <1>1 DEF TypeOK, WriteAgent
  <2> QED BY <1>1, <2>1, <2>2 DEF TypeOK, WriteAgent
<1>2. ASSUME NEW a \in Agents, DeleteScanAgent(a) PROVE TypeOK'
  <2>1. agent' \in [Agents -> AgentRow]
    BY <1>2 DEF TypeOK, DeleteScanAgent, AgentRow, RowState, NoAgent
  <2>2. sched' \in [Schedules -> ScheduleRow]
    BY <1>2 DEF TypeOK, DeleteScanAgent, CascadeSchedules, ScheduleRow, RowState, NoSchedule, LastRun
  <2>3. job' \in [Jobs -> JobRow]
    BY <1>2 DEF TypeOK, DeleteScanAgent, CascadeJobs, JobRow, RowState, NoJob, JobStatus
  <2> QED BY <1>2, <2>1, <2>2, <2>3 DEF TypeOK, DeleteScanAgent, history
<1>3. ASSUME NEW s \in Schedules, NEW a \in Agents, NEW scope \in Scopes, NEW enabled \in BOOLEAN,
             CreateScanSchedule(s, a, scope, enabled) \/ UpdateScanSchedule(s, a, scope, enabled)
      PROVE  TypeOK'
  <2>a. scope \in SUBSET Nets
    BY ConstantsAssumption
  <2>b. \A r \in ScheduleRow :
          [r EXCEPT !.agent = a, !.scope = scope, !.enabled = enabled] \in ScheduleRow
    BY <2>a, ScheduleRowTypes
  <2>c. NoSchedule("live") \in ScheduleRow
    BY BlankTypes DEF RowState
  <2>1. sched' \in [Schedules -> ScheduleRow]
    <3>1. CASE CreateScanSchedule(s, a, scope, enabled)
      BY <2>b, <2>c, <3>1 DEF TypeOK, CreateScanSchedule
    <3>2. CASE UpdateScanSchedule(s, a, scope, enabled)
      BY <2>b, <3>2 DEF TypeOK, UpdateScanSchedule
    <3> QED BY <1>3, <3>1, <3>2
  <2> QED BY <1>3, <2>1 DEF TypeOK, CreateScanSchedule, UpdateScanSchedule, history
<1>4. ASSUME NEW s \in Schedules, DeleteScanSchedule(s) PROVE TypeOK'
  <2>1. sched' \in [Schedules -> ScheduleRow]
    BY <1>4 DEF TypeOK, DeleteScanSchedule, ScheduleRow, RowState, NoSchedule, LastRun
  <2>2. job' \in [Jobs -> JobRow]
    BY <1>4 DEF TypeOK, DeleteScanSchedule, DetachJobs, JobRow
  <2> QED BY <1>4, <2>1, <2>2 DEF TypeOK, DeleteScanSchedule, history
<1>5. ASSUME NEW a \in Agents, ApproveAgent(a) PROVE TypeOK'
  <2>1. agent[a].allowed \in SUBSET Nets
    BY DEF TypeOK, AgentRow
  <2> QED BY <1>1, <1>5, <2>1 DEF ApproveAgent
<1>6. ASSUME NEW a \in Agents, NEW active \in BOOLEAN, NEW allowed \in Scopes,
             CreateScanAgent(a, active, allowed) \/ UpdateScanAgent(a, active, allowed)
      PROVE  TypeOK'
  <2>1. allowed \in SUBSET Nets
    BY ConstantsAssumption
  <2> QED BY <1>1, <1>6, <2>1 DEF CreateScanAgent, UpdateScanAgent
<1> QED BY <1>2, <1>3, <1>4, <1>5, <1>6 DEF Administration

\* A new request, and the window and timer of a schedule.
LEMMA TriggerType == TypeOK /\ (Trigger \/ Clock) => TypeOK'
<1> SUFFICES ASSUME TypeOK, Trigger \/ Clock PROVE TypeOK'
  OBVIOUS
<1>1. ASSUME NEW r \in Requests, NEW a \in Agents, NEW scope \in Scopes, ScanCreate(r, a, scope)
      PROVE  TypeOK'
  <2>1. scope \in SUBSET Nets
    BY ConstantsAssumption
  <2>2. NewCall("load", a, None, scope) \in Call
    BY <2>1, NewCallType DEF CallPC
  <2> QED BY <1>1, <2>2 DEF TypeOK, ScanCreate, rows, history
<1>2. ASSUME NEW r \in Requests, NEW s \in Schedules, ScheduleRunNow(r, s) PROVE TypeOK'
  <2>1. sched[s].agent \in Agents \cup {None} /\ sched[s].scope \in SUBSET Nets
    BY DEF TypeOK, ScheduleRow
  <2>2. NewCall("load", sched[s].agent, s, sched[s].scope) \in Call
    BY <2>1, NewCallType DEF CallPC
  <2> QED BY <1>2, <2>2 DEF TypeOK, ScheduleRunNow, rows, history
<1>3. ASSUME NEW s \in Schedules, Elapse(s) PROVE TypeOK'
  <2>a. [sched[s] EXCEPT !.due = TRUE] \in ScheduleRow
    BY ScheduleRowTypes DEF TypeOK
  <2>1. sched' \in [Schedules -> ScheduleRow]
    BY <1>3, <2>a DEF TypeOK, Elapse
  <2>2. periods' \in [Schedules -> 0 .. MaxPeriods]
    BY <1>3, ConstantsAssumption DEF TypeOK, Elapse
  <2> QED BY <1>3, <2>1, <2>2 DEF TypeOK, Elapse
<1>4. ASSUME NEW s \in Schedules, CrossWindow(s) PROVE TypeOK'
  BY <1>4 DEF TypeOK, CrossWindow, rows, history
<1> QED BY <1>1, <1>2, <1>3, <1>4 DEF Trigger, Clock

\* The number of faults stays in its range, whether a statement fails or not.
LEMMA FaultType ==
  ASSUME faults \in 0 .. MaxFaults, Fault \/ NoFault
  PROVE  faults' \in 0 .. MaxFaults
BY ConstantsAssumption DEF Fault, NoFault

\* The statements TriggerManual and runSchedule share.
LEMMA EnqueueType == ASSUME NEW c \in Callers, TypeOK, Enqueue(c) PROVE TypeOK'
<1> USE DEF rows, history
<1>1. CASE GetScanAgent(c)
  <2>1. call' \in [Callers -> Call]
    <3> DEFINE loaded == [call[c] EXCEPT !.pc = "insert", !.active = agent[call[c].agent].active,
                                         !.allowed = agent[call[c].agent].allowed]
    <3>1. CASE LiveAgent(call[c].agent) /\ call' = [call EXCEPT ![c] = loaded]
      <4>1. agent[call[c].agent].active \in BOOLEAN /\ agent[call[c].agent].allowed \in SUBSET Nets
        BY <3>1 DEF TypeOK, LiveAgent, AgentRow
      <4>2. loaded \in Call
        BY <4>1, CallTypes DEF TypeOK
      <4> QED BY <3>1, <4>2 DEF TypeOK
    <3>2. CASE Return(c, "mark")
      BY <3>2, ReturnType DEF TypeOK, CallPC
    <3> QED BY <1>1, <3>1, <3>2 DEF GetScanAgent
  <2>2. faults' \in 0 .. MaxFaults
    BY <1>1, FaultType DEF TypeOK, GetScanAgent
  <2> QED BY <1>1, <2>1, <2>2 DEF TypeOK, GetScanAgent
<1>2. ASSUME NEW j \in Jobs, InsertJob(c, j) PROVE TypeOK'
  <2>1. call[c] \in Call
    BY DEF TypeOK
  <2>2. job' \in [Jobs -> JobRow]
    BY <1>2, <2>1 DEF TypeOK, InsertJob, Call, JobRow, RowState, JobStatus
  <2>3. [NewCall("read", call[c].agent, call[c].schedule, call[c].scope) EXCEPT !.job = j] \in Call
    BY <2>1 DEF Call, NewCall, CallPC
  <2>4. call' \in [Callers -> Call]
    BY <1>2, <2>3 DEF TypeOK, InsertJob
  <2> QED BY <1>2, <2>2, <2>4 DEF TypeOK, InsertJob
<1>3. CASE EnqueueFails(c)
  <2>1. call' \in [Callers -> Call]
    BY <1>3, ReturnType DEF TypeOK, EnqueueFails, CallPC
  <2>2. faults' \in 0 .. MaxFaults
    BY <1>3, FaultType DEF TypeOK, EnqueueFails
  <2> QED BY <1>3, <2>1, <2>2 DEF TypeOK, EnqueueFails
<1>4. CASE SpawnRun(c)
  <2> DEFINE j == call[c].job
  <2>1. call' \in [Callers -> Call]
    BY <1>4, ReturnType DEF TypeOK, SpawnRun, CallPC
  <2>2. faults' \in 0 .. MaxFaults
    BY <1>4, FaultType DEF TypeOK, SpawnRun
  <2>3. run' \in [Jobs -> Goroutine] /\ audit' \in [Jobs -> SUBSET {"created", "completed", "failed"}]
    <3>1. CASE LiveJob(j) /\ run' = [run EXCEPT ![j] = [NoRun EXCEPT !.pc = "start",
                     !.agent = job[j].agent, !.schedule = job[j].schedule, !.scope = job[j].scope]]
                 /\ audit' = [audit EXCEPT ![j] = @ \cup {"created"}]
      <4>1. j \in Jobs /\ job[j] \in JobRow
        BY <3>1 DEF LiveJob, TypeOK
      <4>2. [NoRun EXCEPT !.pc = "start", !.agent = job[j].agent,
                 !.schedule = job[j].schedule, !.scope = job[j].scope] \in Goroutine
        BY <4>1 DEF NoRun, JobRow, Goroutine, RunPC, Working, Terminal
      <4> QED BY <3>1, <4>1, <4>2 DEF TypeOK
    <3>2. CASE UNCHANGED <<run, audit>>
      BY <3>2 DEF TypeOK
    <3> QED BY <1>4, <3>1, <3>2 DEF SpawnRun
  <2> QED BY <1>4, <2>1, <2>2, <2>3 DEF TypeOK, SpawnRun
<1> QED BY <1>1, <1>2, <1>3, <1>4 DEF Enqueue

\* Last-run columns hold a status of LastRun and a job id.
LEMMA LastRunType ==
  ASSUME sched \in [Schedules -> ScheduleRow], NEW s \in Schedules \cup {None},
         NEW status \in LastRun, NEW j \in Jobs \cup {None}, SetScanScheduleLastRun(s, status, j)
  PROVE  sched' \in [Schedules -> ScheduleRow]
<1>1. CASE LiveSchedule(s)
  <2>1. s \in Schedules
    BY <1>1 DEF LiveSchedule
  <2>2. [sched[s] EXCEPT !.lastStatus = status, !.lastJob = j] \in ScheduleRow
    BY <2>1, ScheduleRowTypes
  <2> QED BY <1>1, <2>2 DEF SetScanScheduleLastRun
<1>2. CASE ~LiveSchedule(s)
  BY <1>2 DEF SetScanScheduleLastRun
<1> QED BY <1>1, <1>2

\* The loop of RunDueSchedules.
LEMMA SchedulerType == TypeOK /\ SchedulerStep => TypeOK'
<1> USE DEF rows, history
<1> SUFFICES ASSUME TypeOK, SchedulerStep PROVE TypeOK'
  OBVIOUS
<1>0. Scheduler \in Callers /\ call[Scheduler] \in Call
  BY DEF Callers, TypeOK
<1>1. CASE ListDue
  <2>1. \A s \in Schedules : [id |-> s, agent |-> sched[s].agent, scope |-> sched[s].scope] \in Due
    BY DEF TypeOK, ScheduleRow, Due
  <2>2. todo' \in SUBSET Due
    <3>1. todo' = {[id |-> s, agent |-> sched[s].agent, scope |-> sched[s].scope] : s \in DueNow}
      BY <1>1 DEF ListDue
    <3>2. DueNow \subseteq Schedules
      BY DEF DueNow
    <3> QED BY <2>1, <3>1, <3>2
  <2> QED BY <1>1, <2>2 DEF TypeOK, ListDue
<1>2. ASSUME NEW d \in todo, RunSchedule(d) PROVE TypeOK'
  <2>1. d.id \in Schedules /\ d.agent \in Agents \cup {None} /\ d.scope \in SUBSET Nets
    BY DEF TypeOK, Due
  <2>2. NewCall("load", d.agent, d.id, d.scope) \in Call
    BY <2>1, NewCallType DEF CallPC
  <2>3. call' \in [Callers -> Call]
    BY <1>2, <2>2 DEF TypeOK, RunSchedule
  <2>4. attempts' \in [Schedules -> Nat]
    BY <1>2, <2>1 DEF TypeOK, RunSchedule
  <2> QED BY <1>2, <2>3, <2>4 DEF TypeOK, RunSchedule
<1>3. CASE Enqueue(Scheduler)
  BY <1>0, <1>3, EnqueueType
<1>4. CASE RecordRejection
  <2>1. [call[Scheduler] EXCEPT !.pc = "mark"] \in Call
    BY <1>0, CallTypes DEF CallPC
  <2>2. call' \in [Callers -> Call]
    BY <1>4, <2>1 DEF RecordRejection, TypeOK
  <2>3. faults' \in 0 .. MaxFaults
    BY <1>4, FaultType DEF TypeOK, RecordRejection
  <2>4. call[Scheduler].schedule \in Schedules \cup {None} /\ "rejected" \in LastRun
    BY <1>0 DEF Call, LastRun, Terminal
  <2>5. sched' \in [Schedules -> ScheduleRow]
    BY <1>4, <2>4, LastRunType DEF TypeOK, RecordRejection
  <2> QED BY <1>4, <2>2, <2>3, <2>5 DEF TypeOK, RecordRejection
<1>5. CASE MarkScanScheduleRan
  <2> DEFINE s == call[Scheduler].schedule
  <2>1. call' \in [Callers -> Call]
    BY <1>5, BlankTypes DEF TypeOK, MarkScanScheduleRan
  <2>2. faults' \in 0 .. MaxFaults
    BY <1>5, FaultType DEF TypeOK, MarkScanScheduleRan
  <2>3. s \in Schedules => [sched[s] EXCEPT !.due = FALSE] \in ScheduleRow
    BY ScheduleRowTypes DEF TypeOK
  <2>4. sched' \in [Schedules -> ScheduleRow]
    BY <1>5, <2>3 DEF TypeOK, MarkScanScheduleRan, LiveSchedule
  <2> QED BY <1>5, <2>1, <2>2, <2>4 DEF TypeOK, MarkScanScheduleRan
<1> QED BY <1>1, <1>2, <1>3, <1>4, <1>5 DEF SchedulerStep

\* A job row, its goroutine and its schedule keep their types whatever status
\* is written.
LEMMA UpdateJobType ==
  ASSUME job \in [Jobs -> JobRow], NEW j \in Jobs, NEW status \in JobStatus,
         UpdateScanJobResult(j, status)
  PROVE  job' \in [Jobs -> JobRow]
<1>1. [job[j] EXCEPT !.status = status] \in JobRow
  BY DEF JobRow
<1> QED BY <1>1 DEF UpdateScanJobResult

LEMMA RecordScheduleType ==
  ASSUME TypeOK, NEW j \in Jobs, NEW status \in LastRun, RecordScheduleRun(j, status)
  PROVE  sched' \in [Schedules -> ScheduleRow] /\ faults' \in 0 .. MaxFaults
<1>1. run[j].schedule \in Schedules \cup {None}
  BY DEF TypeOK, Goroutine
<1>2. sched' \in [Schedules -> ScheduleRow]
  BY <1>1, LastRunType DEF TypeOK, RecordScheduleRun
<1>3. faults' \in 0 .. MaxFaults
  BY FaultType DEF TypeOK, RecordScheduleRun, NoFault
<1> QED BY <1>2, <1>3

\* The goroutine of a job, and the agent that works on it.
LEMMA RunType == ASSUME NEW j \in Jobs, TypeOK, RunStep(j) \/ ProcessJob(j) PROVE TypeOK'
<1> USE DEF rows, history
<1>0. run[j] \in Goroutine /\ run[j].outcome \in Terminal
  BY DEF TypeOK, Goroutine
<1>a. \A pc \in RunPC : [run[j] EXCEPT !.pc = pc] \in Goroutine
  BY <1>0, GoroutineTypes
<1>b. "schedRunning" \in RunPC /\ "dispatch" \in RunPC /\ "inflight" \in RunPC
      /\ "schedResult" \in RunPC /\ "finish" \in RunPC /\ "done" \in RunPC
  BY DEF RunPC, Working
<1>c. "running" \in JobStatus /\ "running" \in LastRun /\ "failed" \in Terminal
      /\ Terminal \subseteq JobStatus /\ Terminal \subseteq LastRun
  BY DEF JobStatus, LastRun, Terminal
<1>1. CASE MarkRunning(j)
  <2>1. job' \in [Jobs -> JobRow]
    BY <1>1, <1>c, UpdateJobType DEF TypeOK, MarkRunning
  <2>2. faults' \in 0 .. MaxFaults
    BY <1>1, FaultType DEF TypeOK, MarkRunning
  <2>3. run' \in [Jobs -> Goroutine]
    BY <1>1, <1>a, <1>b DEF TypeOK, MarkRunning
  <2> QED BY <1>1, <2>1, <2>2, <2>3 DEF TypeOK, MarkRunning
<1>2. CASE RecordRunning(j)
  <2>1. sched' \in [Schedules -> ScheduleRow] /\ faults' \in 0 .. MaxFaults
    BY <1>2, <1>c, RecordScheduleType DEF RecordRunning
  <2>2. run' \in [Jobs -> Goroutine]
    BY <1>2, <1>a, <1>b DEF TypeOK, RecordRunning
  <2> QED BY <1>2, <2>1, <2>2 DEF TypeOK, RecordRunning
<1>3. CASE SendJob(j)
  <2>1. run' \in [Jobs -> Goroutine]
    BY <1>3, <1>a, <1>b DEF TypeOK, SendJob
  <2> QED BY <1>3, <2>1 DEF TypeOK, SendJob
<1>4. CASE DispatchFails(j)
  <2>1. run' \in [Jobs -> Goroutine]
    BY <1>4, <1>0, <1>c, GoroutineTypes DEF TypeOK, DispatchFails
  <2> QED BY <1>4, <2>1 DEF TypeOK, DispatchFails
<1>5. CASE ReceiveResult(j)
  <2>1. run' \in [Jobs -> Goroutine]
    BY <1>5, <1>0, GoroutineTypes DEF TypeOK, ReceiveResult
  <2> QED BY <1>5, <2>1 DEF TypeOK, ReceiveResult
<1>6. CASE RecordResult(j)
  <2>1. job' \in [Jobs -> JobRow]
    BY <1>6, <1>0, <1>c, UpdateJobType DEF TypeOK, RecordResult
  <2>2. faults' \in 0 .. MaxFaults
    BY <1>6, FaultType DEF TypeOK, RecordResult
  <2>3. run' \in [Jobs -> Goroutine]
    BY <1>6, <1>0, <1>a, <1>b, GoroutineTypes DEF TypeOK, RecordResult
  <2> QED BY <1>6, <2>1, <2>2, <2>3 DEF TypeOK, RecordResult
<1>7. CASE RecordScheduleResult(j)
  <2>1. sched' \in [Schedules -> ScheduleRow] /\ faults' \in 0 .. MaxFaults
    BY <1>7, <1>0, <1>c, RecordScheduleType DEF RecordScheduleResult
  <2>2. run' \in [Jobs -> Goroutine]
    BY <1>7, <1>a, <1>b DEF TypeOK, RecordScheduleResult
  <2> QED BY <1>7, <2>1, <2>2 DEF TypeOK, RecordScheduleResult
<1>8. CASE FinishRun(j)
  <2>1. audit' \in [Jobs -> SUBSET {"created", "completed", "failed"}]
    BY <1>8 DEF TypeOK, FinishRun
  <2>2. faults' \in 0 .. MaxFaults
    BY <1>8, FaultType DEF TypeOK, FinishRun
  <2>3. run' \in [Jobs -> Goroutine]
    BY <1>8, <1>a, <1>b DEF TypeOK, FinishRun
  <2> QED BY <1>8, <2>1, <2>2, <2>3 DEF TypeOK, FinishRun
<1>9. CASE ProcessJob(j)
  <2>1. inbox' \in [Jobs -> {"none", "sent"} \cup Terminal]
    BY <1>9 DEF TypeOK, ProcessJob, Reply, Terminal
  <2>2. probed' \in [Agents -> SUBSET Nets]
    BY <1>9, <1>0 DEF TypeOK, ProcessJob, Goroutine
  <2> QED BY <1>9, <2>1, <2>2 DEF TypeOK, ProcessJob
<1> QED BY <1>1, <1>2, <1>3, <1>4, <1>5, <1>6, <1>7, <1>8, <1>9 DEF RunStep

\* A crash leaves every goroutine in a typed state.
LEMMA CrashType == TypeOK /\ Crash => TypeOK'
<1> SUFFICES ASSUME TypeOK, Crash PROVE TypeOK'
  OBVIOUS
<1>1. \A j \in Jobs : [run[j] EXCEPT !.pc = "lost"] \in Goroutine
  BY GoroutineTypes DEF TypeOK, RunPC
<1>2. run' \in [Jobs -> Goroutine]
  BY <1>1 DEF TypeOK, Crash
<1>3. call' \in [Callers -> Call]
  BY BlankTypes DEF Crash
<1>4. faults' \in 0 .. MaxFaults
  BY FaultType DEF TypeOK, Crash
<1> QED BY <1>2, <1>3, <1>4 DEF TypeOK, Crash, rows, history

LEMMA NextType == TypeOK /\ [Next]_vars => TypeOK'
<1> SUFFICES ASSUME TypeOK, [Next]_vars PROVE TypeOK'
  OBVIOUS
<1>1. CASE UNCHANGED vars
  BY <1>1 DEF TypeOK, vars, rows, history
<1>2. \A r \in Requests : r \in Callers
  BY DEF Callers
<1> QED BY <1>1, <1>2, AdministrationType, TriggerType, EnqueueType, SchedulerType, RunType, CrashType
        DEF Next

\* Every row, goroutine and history variable of the orchestrator keeps the shape
\* of its Go type, through every interleaving, failed statement and crash.
THEOREM TypeCorrect == Spec => []TypeOK
BY InitType, NextType, PTL DEF Spec

-----------------------------------------------------------------------------
(* Referential integrity                                                   *)

\* A step that touches none of the key columns preserves the foreign keys.
LEMMA IntegrityFrame ==
  ASSUME ReferentialIntegrity,
         \A a \in Agents : agent'[a].row = agent[a].row,
         \A s \in Schedules : sched'[s].row = sched[s].row /\ sched'[s].agent = sched[s].agent,
         \A j \in Jobs : /\ job'[j].row = job[j].row
                         /\ job'[j].agent = job[j].agent
                         /\ job'[j].schedule = job[j].schedule
  PROVE  ReferentialIntegrity'
BY DEF ReferentialIntegrity, LiveAgent, LiveSchedule, LiveJob

LEMMA AdministrationIntegrity ==
  TypeOK /\ ReferentialIntegrity /\ Administration => ReferentialIntegrity'
<1> SUFFICES ASSUME TypeOK, ReferentialIntegrity, Administration PROVE ReferentialIntegrity'
  OBVIOUS
<1> USE DEF LiveAgent, LiveSchedule, LiveJob
<1>1. ASSUME NEW a \in Agents, NEW active, NEW allowed, WriteAgent(a, active, allowed)
      PROVE  ReferentialIntegrity'
  BY <1>1 DEF TypeOK, ReferentialIntegrity, WriteAgent
<1>2. ASSUME NEW a \in Agents, DeleteScanAgent(a) PROVE ReferentialIntegrity'
  <2>1. \A s \in Schedules : sched'[s].row = "live" =>
          sched'[s] = sched[s] /\ sched[s].agent # a
    BY <1>2 DEF DeleteScanAgent, CascadeSchedules, NoSchedule
  <2>2. \A s \in Schedules : sched[s].agent # a => sched'[s] = sched[s]
    BY <1>2 DEF DeleteScanAgent, CascadeSchedules
  <2>3. \A b \in Agents : b # a => agent'[b] = agent[b]
    BY <1>2 DEF DeleteScanAgent, TypeOK
  <2>4. ASSUME NEW j \in Jobs, job'[j].row = "live"
        PROVE  /\ job[j].row = "live" /\ job[j].agent # a /\ job'[j].agent = job[j].agent
               /\ job'[j].schedule # None =>
                    job'[j].schedule = job[j].schedule /\ sched[job[j].schedule].agent # a
    <3>1. job'[j] = IF job[j].agent = a THEN NoJob("deleted")
                    ELSE IF job[j].schedule # None /\ sched[job[j].schedule].agent = a
                    THEN [job[j] EXCEPT !.schedule = None]
                    ELSE job[j]
      BY <1>2 DEF DeleteScanAgent, CascadeJobs
    <3>2. job[j].agent # a
      BY <2>4, <3>1 DEF NoJob
    <3> QED BY <2>4, <3>1, <3>2 DEF TypeOK, JobRow
  <2> QED BY <2>1, <2>2, <2>3, <2>4 DEF ReferentialIntegrity
<1>3. ASSUME NEW s \in Schedules, NEW a \in Agents, NEW scope, NEW enabled,
             CreateScanSchedule(s, a, scope, enabled) \/ UpdateScanSchedule(s, a, scope, enabled)
      PROVE  ReferentialIntegrity'
  <2>1. agent[a].row = "live" /\ agent' = agent /\ job' = job
    BY <1>3 DEF CreateScanSchedule, UpdateScanSchedule
  <2>2. sched'[s].row = "live" /\ sched'[s].agent = a
    <3>1. CASE CreateScanSchedule(s, a, scope, enabled)
      BY <3>1 DEF CreateScanSchedule, TypeOK, NoSchedule
    <3>2. CASE UpdateScanSchedule(s, a, scope, enabled)
      <4>1. sched[s] \in ScheduleRow /\ sched[s].row = "live"
        BY <3>2 DEF UpdateScanSchedule, TypeOK
      <4>2. sched'[s] = [sched[s] EXCEPT !.agent = a, !.scope = scope, !.enabled = enabled]
        BY <3>2 DEF UpdateScanSchedule, TypeOK
      <4> QED BY <4>1, <4>2 DEF ScheduleRow
    <3> QED BY <1>3, <3>1, <3>2
  <2>3. \A q \in Schedules : q # s => sched'[q] = sched[q]
    BY <1>3 DEF CreateScanSchedule, UpdateScanSchedule, TypeOK
  <2> QED BY <2>1, <2>2, <2>3 DEF ReferentialIntegrity
<1>4. ASSUME NEW s \in Schedules, DeleteScanSchedule(s) PROVE ReferentialIntegrity'
  <2>1. agent' = agent /\ \A q \in Schedules : q # s => sched'[q] = sched[q]
    BY <1>4 DEF DeleteScanSchedule, TypeOK
  <2>2. sched'[s].row = "deleted"
    BY <1>4 DEF DeleteScanSchedule, TypeOK, NoSchedule
  <2>3. \A j \in Jobs : /\ job'[j].row = job[j].row /\ job'[j].agent = job[j].agent
                        /\ job'[j].schedule # None =>
                             job'[j].schedule = job[j].schedule /\ job[j].schedule # s
    BY <1>4 DEF DeleteScanSchedule, DetachJobs, TypeOK, JobRow
  <2> QED BY <2>1, <2>2, <2>3 DEF ReferentialIntegrity
<1> QED BY <1>1, <1>2, <1>3, <1>4
        DEF Administration, CreateScanAgent, UpdateScanAgent, ApproveAgent

\* Outside administration, only InsertJob touches a key column.
LEMMA LastRunKeys ==
  ASSUME TypeOK, NEW s, NEW status, NEW j, SetScanScheduleLastRun(s, status, j)
  PROVE  \A q \in Schedules : sched'[q].row = sched[q].row /\ sched'[q].agent = sched[q].agent
BY DEF TypeOK, ScheduleRow, SetScanScheduleLastRun, LiveSchedule

LEMMA UpdateJobKeys ==
  ASSUME TypeOK, NEW j \in Jobs, NEW status, UpdateScanJobResult(j, status)
  PROVE  \A k \in Jobs : /\ job'[k].row = job[k].row
                         /\ job'[k].agent = job[k].agent
                         /\ job'[k].schedule = job[k].schedule
BY DEF TypeOK, JobRow, UpdateScanJobResult

LEMMA EnqueueIntegrity ==
  ASSUME TypeOK, ReferentialIntegrity, NEW c \in Callers, Enqueue(c)
  PROVE  ReferentialIntegrity'
<1>1. ASSUME NEW j \in Jobs, InsertJob(c, j) PROVE ReferentialIntegrity'
  <2>1. agent' = agent /\ sched' = sched /\ \A k \in Jobs : k # j => job'[k] = job[k]
    BY <1>1 DEF InsertJob, TypeOK
  <2>2. ForeignKeysHold(job'[j])
    BY <1>1 DEF InsertJob, ForeignKeysHold, TypeOK, LiveAgent, LiveSchedule
  <2> QED BY <2>1, <2>2 DEF ReferentialIntegrity, ForeignKeysHold, LiveAgent, LiveSchedule, LiveJob
<1>2. CASE GetScanAgent(c) \/ EnqueueFails(c) \/ SpawnRun(c)
  BY <1>2, IntegrityFrame DEF GetScanAgent, EnqueueFails, SpawnRun, rows
<1> QED BY <1>1, <1>2 DEF Enqueue

LEMMA SchedulerIntegrity ==
  TypeOK /\ ReferentialIntegrity /\ SchedulerStep => ReferentialIntegrity'
<1> SUFFICES ASSUME TypeOK, ReferentialIntegrity, SchedulerStep PROVE ReferentialIntegrity'
  OBVIOUS
<1>1. CASE ListDue \/ \E d \in todo : RunSchedule(d)
  BY <1>1, IntegrityFrame DEF ListDue, RunSchedule, rows
<1>2. CASE Enqueue(Scheduler)
  BY <1>2, EnqueueIntegrity DEF Callers
<1>3. CASE RecordRejection
  <2>1. agent' = agent /\ job' = job
    BY <1>3 DEF RecordRejection
  <2>2. \A q \in Schedules : sched'[q].row = sched[q].row /\ sched'[q].agent = sched[q].agent
    BY <1>3, LastRunKeys DEF RecordRejection
  <2> QED BY <2>1, <2>2, IntegrityFrame
<1>4. CASE MarkScanScheduleRan
  <2>1. agent' = agent /\ job' = job
    BY <1>4 DEF MarkScanScheduleRan
  <2>2. \A q \in Schedules : sched'[q].row = sched[q].row /\ sched'[q].agent = sched[q].agent
    BY <1>4 DEF MarkScanScheduleRan, TypeOK, ScheduleRow, LiveSchedule
  <2> QED BY <2>1, <2>2, IntegrityFrame
<1> QED BY <1>1, <1>2, <1>3, <1>4 DEF SchedulerStep

LEMMA RunIntegrity ==
  ASSUME TypeOK, ReferentialIntegrity, NEW j \in Jobs, RunStep(j) \/ ProcessJob(j)
  PROVE  ReferentialIntegrity'
<1>1. agent' = agent
  BY DEF RunStep, MarkRunning, RecordRunning, SendJob, ReceiveResult, DispatchFails, RecordResult,
         RecordScheduleResult, FinishRun, ProcessJob, rows
<1>2. \A q \in Schedules : sched'[q].row = sched[q].row /\ sched'[q].agent = sched[q].agent
  <2>1. CASE RecordRunning(j) \/ RecordScheduleResult(j)
    BY <2>1, LastRunKeys DEF RecordRunning, RecordScheduleResult, RecordScheduleRun
  <2> QED BY <2>1 DEF RunStep, MarkRunning, SendJob, ReceiveResult, DispatchFails, RecordResult,
                      FinishRun, ProcessJob, rows
<1>3. \A k \in Jobs : /\ job'[k].row = job[k].row
                      /\ job'[k].agent = job[k].agent
                      /\ job'[k].schedule = job[k].schedule
  <2>1. CASE MarkRunning(j) \/ RecordResult(j)
    BY <2>1, UpdateJobKeys DEF MarkRunning, RecordResult
  <2> QED BY <2>1 DEF RunStep, RecordRunning, SendJob, ReceiveResult, DispatchFails,
                      RecordScheduleResult, FinishRun, ProcessJob, rows
<1> QED BY <1>1, <1>2, <1>3, IntegrityFrame

\* No interleaving of deletions with requests, ticks and jobs leaves a schedule
\* without its agent or a job without its agent or schedule.
THEOREM Integrity == Spec => []ReferentialIntegrity
<1>1. Init => ReferentialIntegrity
  <2> SUFFICES ASSUME Init PROVE ReferentialIntegrity
    OBVIOUS
  <2>1. \A s \in Schedules : sched[s].row = "unused"
    BY DEF Init, NoSchedule
  <2>2. \A j \in Jobs : job[j].row = "unused"
    BY DEF Init, NoJob
  <2> QED BY <2>1, <2>2 DEF ReferentialIntegrity, LiveSchedule, LiveJob
<1>2. TypeOK /\ ReferentialIntegrity /\ [Next]_vars => ReferentialIntegrity'
  <2> SUFFICES ASSUME TypeOK, ReferentialIntegrity, [Next]_vars PROVE ReferentialIntegrity'
    OBVIOUS
  <2>1. CASE Trigger \/ Crash \/ UNCHANGED vars
    BY <2>1, IntegrityFrame DEF Trigger, ScanCreate, ScheduleRunNow, Crash, vars, rows
  <2>2. CASE Clock
    <3>1. agent' = agent /\ job' = job
      BY <2>2 DEF Clock, Elapse, CrossWindow, rows
    <3>2. \A q \in Schedules : sched'[q].row = sched[q].row /\ sched'[q].agent = sched[q].agent
      BY <2>2 DEF Clock, Elapse, CrossWindow, rows, TypeOK, ScheduleRow
    <3> QED BY <3>1, <3>2, IntegrityFrame
  <2>3. \A r \in Requests : r \in Callers
    BY DEF Callers
  <2> QED BY <2>1, <2>2, <2>3, AdministrationIntegrity, EnqueueIntegrity, SchedulerIntegrity, RunIntegrity
          DEF Next
<1> QED BY <1>1, <1>2, TypeCorrect, PTL DEF Spec

-----------------------------------------------------------------------------
(* One attempt per period                                                  *)

Listed(s)  == \E d \in todo : d.id = s
Serving(s) == call[Scheduler].pc # "idle" /\ call[Scheduler].schedule = s
Pending(s) == Listed(s) \/ (sched[s].due /\ ~Serving(s))

\* The bound is not inductive by itself: a schedule whose attempt is still to
\* come (it is listed, or due and not being served) owes one attempt, and while
\* it is listed or served it is still due, so that it is not counted twice.
AttemptsInv ==
  /\ \A d, e \in todo : d.id = e.id => d = e
  /\ \A s \in Schedules :
       /\ Listed(s) => ~Serving(s)
       /\ Listed(s) \/ Serving(s) => sched[s].row # "unused"
       /\ (Listed(s) \/ Serving(s)) /\ sched[s].row = "live" => sched[s].due
       /\ sched[s].row # "live" => ~sched[s].due
       /\ Pending(s) => attempts[s] + 1 <= periods[s] + faults
       /\ attempts[s] <= periods[s] + faults

\* A step that leaves the tick, the due flags and the counters alone.
LEMMA AttemptsFrame ==
  ASSUME TypeOK, TypeOK', AttemptsInv, todo' = todo,
         \A s \in Schedules : Serving(s)' <=> Serving(s),
         \A s \in Schedules : sched'[s].row = sched[s].row /\ sched'[s].due = sched[s].due,
         UNCHANGED <<periods, attempts>>, faults' >= faults
  PROVE  AttemptsInv'
<1>1. faults \in Nat /\ faults' \in Nat /\ \A s \in Schedules : periods[s] \in Nat /\ attempts[s] \in Nat
  BY ConstantsAssumption DEF TypeOK
<1>2. \A s \in Schedules : (Listed(s)' <=> Listed(s)) /\ (Pending(s)' <=> Pending(s))
  BY DEF Listed, Pending
<1> QED BY <1>1, <1>2 DEF AttemptsInv

LEMMA FaultsGrow == ASSUME TypeOK, Fault \/ NoFault PROVE faults' >= faults
BY ConstantsAssumption DEF TypeOK, Fault, NoFault

LEMMA AdministrationAttempts ==
  TypeOK /\ TypeOK' /\ AttemptsInv /\ Administration => AttemptsInv'
<1> SUFFICES ASSUME TypeOK, TypeOK', AttemptsInv, Administration PROVE AttemptsInv'
  OBVIOUS
<1>1. todo' = todo /\ call' = call /\ faults' = faults /\ periods' = periods /\ attempts' = attempts
  BY DEF Administration, CreateScanAgent, UpdateScanAgent, ApproveAgent, WriteAgent, DeleteScanAgent,
         CreateScanSchedule, UpdateScanSchedule, DeleteScanSchedule, history
<1> DEFINE Changed(s) == \/ sched'[s].row = sched[s].row /\ sched'[s].due = sched[s].due
                         \/ sched'[s].row = "deleted" /\ ~sched'[s].due
                         \/ sched[s].row = "unused" /\ sched'[s].row = "live" /\ ~sched'[s].due
<1>2. \A s \in Schedules : Changed(s)
  <2>1. ASSUME NEW a \in Agents, NEW active, NEW allowed, WriteAgent(a, active, allowed)
        PROVE  \A s \in Schedules : Changed(s)
    BY <2>1 DEF WriteAgent
  <2>2. ASSUME NEW a \in Agents, DeleteScanAgent(a)
        PROVE  \A s \in Schedules : Changed(s)
    BY <2>2 DEF DeleteScanAgent, CascadeSchedules, NoSchedule
  <2>3. ASSUME NEW s \in Schedules, DeleteScanSchedule(s)
        PROVE  \A q \in Schedules : Changed(q)
    BY <2>3 DEF DeleteScanSchedule, NoSchedule, TypeOK
  <2>4. ASSUME NEW s \in Schedules, NEW a, NEW scope, NEW enabled, CreateScanSchedule(s, a, scope, enabled)
        PROVE  \A q \in Schedules : Changed(q)
    BY <2>4 DEF CreateScanSchedule, TypeOK, NoSchedule
  <2>5. ASSUME NEW s \in Schedules, NEW a, NEW scope, NEW enabled, UpdateScanSchedule(s, a, scope, enabled)
        PROVE  \A q \in Schedules : Changed(q)
    <3>1. sched[s] \in ScheduleRow
      BY DEF TypeOK
    <3>2. sched' = [sched EXCEPT ![s] = [sched[s] EXCEPT !.agent = a, !.scope = scope, !.enabled = enabled]]
      BY <2>5 DEF UpdateScanSchedule
    <3>3. sched'[s].row = sched[s].row /\ sched'[s].due = sched[s].due
      BY <3>1, <3>2 DEF TypeOK, ScheduleRow
    <3>4. \A q \in Schedules : q # s => sched'[q] = sched[q]
      BY <3>2 DEF TypeOK
    <3> QED BY <3>3, <3>4
  <2> HIDE DEF Changed
  <2> QED BY <2>1, <2>2, <2>3, <2>4, <2>5
          DEF Administration, CreateScanAgent, UpdateScanAgent, ApproveAgent
<1>3. \A s \in Schedules : (Listed(s)' <=> Listed(s)) /\ (Serving(s)' <=> Serving(s))
  BY <1>1 DEF Listed, Serving
<1>4. \A s \in Schedules : Pending(s)' => Pending(s)
  BY <1>2, <1>3 DEF Pending
<1> QED BY <1>1, <1>2, <1>3, <1>4 DEF AttemptsInv

\* A caller's way through enqueue never changes the schedule being served.
LEMMA EnqueueServing ==
  ASSUME TypeOK, NEW c \in Callers, Enqueue(c)
  PROVE  \A s \in Schedules : Serving(s)' <=> Serving(s)
<1>0. Scheduler \in Callers /\ call \in [Callers -> Call] /\ call[c] \in Call
  BY DEF Callers, TypeOK
<1>1. CASE c # Scheduler
  <2>1. call'[Scheduler] = call[Scheduler]
    BY <1>0, <1>1 DEF Enqueue, GetScanAgent, InsertJob, EnqueueFails, SpawnRun, Return
  <2> QED BY <2>1 DEF Serving
<1>2. CASE c = Scheduler
  <2>1. call[Scheduler].pc # "idle"
    BY <1>2 DEF Enqueue, GetScanAgent, InsertJob, EnqueueFails, SpawnRun
  <2>2. ASSUME NEW pc \in CallPC, Return(c, pc)
        PROVE  call'[c].pc = pc /\ call'[c].schedule = call[c].schedule
    BY <1>0, <1>2, <2>2 DEF Return, Call
  <2>3. CASE GetScanAgent(c)
    <3> DEFINE loaded == [call[c] EXCEPT !.pc = "insert", !.active = agent[call[c].agent].active,
                                         !.allowed = agent[call[c].agent].allowed]
    <3>1. CASE call' = [call EXCEPT ![c] = loaded]
      <4>1. loaded.pc = "insert" /\ loaded.schedule = call[c].schedule
        BY <1>0 DEF Call
      <4> HIDE DEF loaded
      <4> QED BY <1>0, <1>2, <2>1, <3>1, <4>1 DEF Serving
    <3>2. CASE Return(c, "mark")
      BY <1>2, <2>1, <2>2, <3>2 DEF Serving, CallPC
    <3> QED BY <2>3, <3>1, <3>2 DEF GetScanAgent
  <2>4. ASSUME NEW j \in Jobs, InsertJob(c, j)
        PROVE  \A s \in Schedules : Serving(s)' <=> Serving(s)
    <3>1. call' = [call EXCEPT ![c] =
                     [NewCall("read", call[c].agent, call[c].schedule, call[c].scope) EXCEPT !.job = j]]
      BY <2>4 DEF InsertJob
    <3> QED BY <1>0, <1>2, <2>1, <3>1 DEF Serving, NewCall
  <2>5. CASE EnqueueFails(c) \/ SpawnRun(c)
    BY <1>2, <2>1, <2>2, <2>5 DEF EnqueueFails, SpawnRun, Serving, CallPC
  <2> QED BY <2>3, <2>4, <2>5 DEF Enqueue
<1> QED BY <1>1, <1>2

LEMMA EnqueueAttempts ==
  ASSUME TypeOK, TypeOK', AttemptsInv, NEW c \in Callers, Enqueue(c)
  PROVE  AttemptsInv'
<1>1. todo' = todo /\ sched' = sched /\ UNCHANGED <<periods, attempts>>
  BY DEF Enqueue, GetScanAgent, InsertJob, EnqueueFails, SpawnRun, rows, history
<1>2. faults' >= faults
  BY FaultsGrow DEF Enqueue, GetScanAgent, InsertJob, EnqueueFails, SpawnRun, NoFault
<1> QED BY <1>1, <1>2, EnqueueServing, AttemptsFrame

LEMMA LastRunDue ==
  ASSUME TypeOK, NEW s, NEW status, NEW j, SetScanScheduleLastRun(s, status, j)
  PROVE  \A q \in Schedules : sched'[q].row = sched[q].row /\ sched'[q].due = sched[q].due
BY DEF TypeOK, ScheduleRow, SetScanScheduleLastRun, LiveSchedule

LEMMA SchedulerAttempts ==
  TypeOK /\ TypeOK' /\ AttemptsInv /\ SchedulerStep => AttemptsInv'
<1> SUFFICES ASSUME TypeOK, TypeOK', AttemptsInv, SchedulerStep PROVE AttemptsInv'
  OBVIOUS
<1>0. /\ Scheduler \in Callers /\ call \in [Callers -> Call] /\ call[Scheduler] \in Call
      /\ faults \in Nat /\ faults' \in Nat
      /\ \A s \in Schedules : periods[s] \in Nat /\ attempts[s] \in Nat
  BY ConstantsAssumption DEF Callers, TypeOK
<1>1. CASE ListDue
  <2>0. \A s \in Schedules : ~Serving(s) /\ ~Serving(s)'
    BY <1>1 DEF ListDue, Serving
  <2>1. /\ todo = {} /\ DueNow \subseteq Schedules
        /\ todo' = {[id |-> s, agent |-> sched[s].agent, scope |-> sched[s].scope] : s \in DueNow}
        /\ UNCHANGED <<sched, periods, attempts, faults>>
    BY <1>1 DEF ListDue, DueNow, rows, history
  <2>2. \A s \in Schedules : Listed(s)' <=> s \in DueNow
    <3>1. ASSUME NEW s \in DueNow PROVE \E d \in todo' : d.id = s
      <4>1. [id |-> s, agent |-> sched[s].agent, scope |-> sched[s].scope] \in todo'
        BY <2>1
      <4> QED BY <4>1
    <3>2. ASSUME NEW d \in todo' PROVE d.id \in DueNow
      BY <2>1
    <3> QED BY <3>1, <3>2 DEF Listed
  <2>3. \A s \in DueNow : sched[s].row = "live" /\ sched[s].due
    BY DEF DueNow, LiveSchedule
  <2>4. \A s \in Schedules : Pending(s)' => Pending(s)
    BY <2>0, <2>1, <2>2, <2>3 DEF Pending
  <2>5. \A d, e \in todo' : d.id = e.id => d = e
    BY <2>1
  <2> QED BY <2>0, <2>1, <2>2, <2>3, <2>4, <2>5 DEF AttemptsInv
<1>2. ASSUME NEW d \in todo, RunSchedule(d) PROVE AttemptsInv'
  <2>0. d.id \in Schedules
    BY DEF TypeOK, Due
  <2>1. /\ \A s \in Schedules : ~Serving(s) /\ (Serving(s)' <=> s = d.id)
        /\ UNCHANGED <<sched, periods, faults>>
    BY <1>0, <1>2 DEF RunSchedule, Serving, NewCall, rows
  <2>2. \A s \in Schedules : Listed(s)' <=> Listed(s) /\ s # d.id
    BY <1>2 DEF RunSchedule, Listed, AttemptsInv
  <2>3. /\ attempts'[d.id] = attempts[d.id] + 1
        /\ \A s \in Schedules : s # d.id => attempts'[s] = attempts[s]
    BY <1>2, <2>0 DEF RunSchedule, TypeOK
  <2>4. Pending(d.id) /\ ~Pending(d.id)' /\ \A s \in Schedules : s # d.id => (Pending(s)' <=> Pending(s))
    BY <2>0, <2>1, <2>2 DEF Pending, Listed
  <2>5. \A s \in Schedules : /\ Pending(s)' => attempts'[s] + 1 <= periods'[s] + faults'
                             /\ attempts'[s] <= periods'[s] + faults'
    BY <1>0, <2>0, <2>1, <2>3, <2>4 DEF AttemptsInv
  <2>6. \A x, e \in todo' : x.id = e.id => x = e
    BY <1>2 DEF RunSchedule, AttemptsInv
  <2>7. \A s \in Schedules : (Listed(s) \/ Serving(s))' => Listed(s)
    BY <2>1, <2>2 DEF Listed
  <2> QED BY <2>1, <2>2, <2>5, <2>6, <2>7 DEF AttemptsInv
<1>3. CASE Enqueue(Scheduler)
  BY <1>0, <1>3, EnqueueAttempts
<1>4. CASE RecordRejection
  <2>1. todo' = todo /\ UNCHANGED <<periods, attempts>> /\ faults' >= faults
    BY <1>4, FaultsGrow DEF RecordRejection, history
  <2>2. \A s \in Schedules : Serving(s)' <=> Serving(s)
    BY <1>0, <1>4 DEF RecordRejection, Serving, Call
  <2>3. \A s \in Schedules : sched'[s].row = sched[s].row /\ sched'[s].due = sched[s].due
    BY <1>4, LastRunDue DEF RecordRejection
  <2> QED BY <2>1, <2>2, <2>3, AttemptsFrame
<1>5. CASE MarkScanScheduleRan
  <2> DEFINE s == call[Scheduler].schedule
  <2>1. todo' = todo /\ UNCHANGED <<periods, attempts>> /\ faults' >= faults
    BY <1>5, FaultsGrow DEF MarkScanScheduleRan, history
  <2>2. \A q \in Schedules : ~Serving(q)' /\ (Serving(q) <=> q = s) /\ (Listed(q)' <=> Listed(q))
    BY <1>0, <1>5, <2>1 DEF MarkScanScheduleRan, Serving, Listed, NoCall, NewCall
  <2>3. \A q \in Schedules : sched'[q].row = sched[q].row /\ (q # s => sched'[q].due = sched[q].due)
    BY <1>5 DEF MarkScanScheduleRan, TypeOK, ScheduleRow
  <2>4. s \in Schedules => ~sched'[s].due \/ faults' = faults + 1
    <3>1. CASE s \in Schedules /\ sched[s].row = "live" /\ sched' = [sched EXCEPT ![s].due = FALSE]
      BY <3>1 DEF TypeOK, ScheduleRow
    <3>2. CASE s \in Schedules /\ sched[s].row # "live" /\ sched' = sched
      BY <3>2 DEF AttemptsInv
    <3>3. CASE UNCHANGED sched /\ Fault
      BY <3>3 DEF Fault
    <3> QED BY <1>5, <3>1, <3>2, <3>3 DEF MarkScanScheduleRan, LiveSchedule
  <2>5. ASSUME NEW q \in Schedules
        PROVE  /\ Pending(q)' => attempts'[q] + 1 <= periods'[q] + faults'
               /\ attempts'[q] <= periods'[q] + faults'
    <3>1. CASE q # s
      BY <1>0, <2>1, <2>2, <2>3, <3>1 DEF AttemptsInv, Pending
    <3>2. CASE q = s
      <4>1. ~Listed(q)'
        BY <2>2, <3>2 DEF AttemptsInv
      <4> QED BY <1>0, <2>1, <2>4, <3>2, <4>1 DEF AttemptsInv, Pending
    <3> QED BY <3>1, <3>2
  <2>6. ASSUME NEW q \in Schedules
        PROVE  /\ Listed(q)' => sched'[q].row # "unused" /\ (sched'[q].row = "live" => sched'[q].due)
               /\ sched'[q].row # "live" => ~sched'[q].due
    <3>1. CASE q # s
      BY <2>2, <2>3, <3>1 DEF AttemptsInv
    <3>2. CASE q = s
      <4>1. ~Listed(q)'
        BY <2>2, <3>2 DEF AttemptsInv
      <4>2. sched'[q].row # "live" => ~sched'[q].due
        BY <1>5, <2>3, <3>2 DEF AttemptsInv, MarkScanScheduleRan, LiveSchedule
      <4> QED BY <4>1, <4>2
    <3> QED BY <3>1, <3>2
  <2> QED BY <2>1, <2>2, <2>5, <2>6 DEF AttemptsInv
<1> QED BY <1>1, <1>2, <1>3, <1>4, <1>5 DEF SchedulerStep

LEMMA RunAttempts ==
  ASSUME TypeOK, TypeOK', AttemptsInv, NEW j \in Jobs, RunStep(j) \/ ProcessJob(j)
  PROVE  AttemptsInv'
<1> USE DEF rows, history
<1>1. todo' = todo /\ call' = call /\ UNCHANGED <<periods, attempts>>
  BY DEF RunStep, MarkRunning, RecordRunning, SendJob, ReceiveResult, DispatchFails, RecordResult,
         RecordScheduleResult, FinishRun, ProcessJob
<1>2. faults' >= faults
  BY FaultsGrow DEF RunStep, MarkRunning, RecordRunning, SendJob, ReceiveResult, DispatchFails, RecordResult,
         RecordScheduleResult, RecordScheduleRun, FinishRun, ProcessJob, NoFault
<1>3. \A s \in Schedules : sched'[s].row = sched[s].row /\ sched'[s].due = sched[s].due
  <2>1. CASE RecordRunning(j) \/ RecordScheduleResult(j)
    BY <2>1, LastRunDue DEF RecordRunning, RecordScheduleResult, RecordScheduleRun
  <2> QED BY <2>1 DEF RunStep, MarkRunning, SendJob, ReceiveResult, DispatchFails, RecordResult,
                      FinishRun, ProcessJob
<1> QED BY <1>1, <1>2, <1>3, AttemptsFrame DEF Serving

LEMMA ClockAttempts == TypeOK /\ TypeOK' /\ AttemptsInv /\ Clock => AttemptsInv'
<1> SUFFICES ASSUME TypeOK, TypeOK', AttemptsInv, Clock PROVE AttemptsInv'
  OBVIOUS
<1>0. faults \in Nat /\ \A s \in Schedules : periods[s] \in Nat /\ attempts[s] \in Nat
  BY ConstantsAssumption DEF TypeOK
<1>1. ASSUME NEW s \in Schedules, Elapse(s) PROVE AttemptsInv'
  <2>1. /\ todo' = todo /\ call' = call /\ faults' = faults /\ attempts' = attempts
        /\ sched[s].row = "live" /\ ~sched[s].due
    BY <1>1 DEF Elapse, LiveSchedule
  <2>2. sched'[s].row = sched[s].row /\ sched'[s].due /\ periods'[s] = periods[s] + 1
    BY <1>1 DEF Elapse, TypeOK, ScheduleRow
  <2>3. \A q \in Schedules : q # s => sched'[q] = sched[q] /\ periods'[q] = periods[q]
    BY <1>1 DEF Elapse, TypeOK
  <2>4. \A q \in Schedules : (Listed(q)' <=> Listed(q)) /\ (Serving(q)' <=> Serving(q))
    BY <2>1 DEF Listed, Serving
  <2>5. \A q \in Schedules : /\ Pending(q)' => attempts'[q] + 1 <= periods'[q] + faults'
                             /\ attempts'[q] <= periods'[q] + faults'
    BY <1>0, <2>1, <2>2, <2>3, <2>4 DEF AttemptsInv, Pending
  <2> QED BY <2>1, <2>2, <2>3, <2>4, <2>5 DEF AttemptsInv
<1>2. ASSUME NEW s \in Schedules, CrossWindow(s) PROVE AttemptsInv'
  BY <1>0, <1>2, AttemptsFrame DEF CrossWindow, Serving, rows, history
<1> QED BY <1>1, <1>2 DEF Clock

\* A crash forgets the list and the schedule being served; the attempt it
\* cut short may be made again, which the fault pays for.
LEMMA CrashAttempts == TypeOK /\ TypeOK' /\ AttemptsInv /\ Crash => AttemptsInv'
<1> SUFFICES ASSUME TypeOK, TypeOK', AttemptsInv, Crash PROVE AttemptsInv'
  OBVIOUS
<1>0. faults \in Nat /\ \A s \in Schedules : periods[s] \in Nat /\ attempts[s] \in Nat
  BY ConstantsAssumption DEF TypeOK
<1>1. todo' = {} /\ faults' = faults + 1 /\ UNCHANGED <<sched, periods, attempts>>
  BY DEF Crash, Fault, rows, history
<1>2. \A s \in Schedules : ~Listed(s)' /\ ~Serving(s)'
  BY <1>1 DEF Crash, Listed, Serving, Callers, NoCall, NewCall
<1> QED BY <1>0, <1>1, <1>2 DEF AttemptsInv

LEMMA NextAttempts == TypeOK /\ TypeOK' /\ AttemptsInv /\ [Next]_vars => AttemptsInv'
<1> SUFFICES ASSUME TypeOK, TypeOK', AttemptsInv, [Next]_vars PROVE AttemptsInv'
  OBVIOUS
<1>1. CASE Trigger
  <2>1. call'[Scheduler] = call[Scheduler]
    BY <1>1, ConstantsAssumption DEF Trigger, ScanCreate, ScheduleRunNow, Callers, TypeOK
  <2>2. UNCHANGED <<todo, sched, periods, attempts, faults>>
    BY <1>1 DEF Trigger, ScanCreate, ScheduleRunNow, rows, history
  <2>3. faults' >= faults
    BY <2>2, ConstantsAssumption DEF TypeOK
  <2> QED BY <2>1, <2>2, <2>3, AttemptsFrame DEF Serving
<1>2. CASE UNCHANGED vars
  <2>1. faults' >= faults
    BY <1>2, ConstantsAssumption DEF TypeOK, vars
  <2> QED BY <1>2, <2>1, AttemptsFrame DEF vars, rows, history, Serving
<1>3. \A r \in Requests : r \in Callers
  BY DEF Callers
<1> QED BY <1>1, <1>2, <1>3, AdministrationAttempts, EnqueueAttempts, SchedulerAttempts, RunAttempts,
           ClockAttempts, CrashAttempts DEF Next

\* The scheduler attempts a schedule at most once each time it falls due, plus
\* once for each crash or failed statement: no edit, deletion, "run now" or job
\* that outlasts the interval makes a tick fire it twice.
THEOREM AttemptsBounded == Spec => []OneAttemptPerPeriod
<1>1. Init => AttemptsInv
  <2> SUFFICES ASSUME Init PROVE AttemptsInv
    OBVIOUS
  <2>1. todo = {} /\ call[Scheduler].pc = "idle" /\ faults = 0
    BY DEF Init, Callers, NoCall, NewCall
  <2>2. \A s \in Schedules : ~sched[s].due /\ periods[s] = 0 /\ attempts[s] = 0
    BY DEF Init, NoSchedule
  <2> QED BY <2>1, <2>2 DEF AttemptsInv, Listed, Serving, Pending
<1>2. AttemptsInv => OneAttemptPerPeriod
  BY DEF AttemptsInv, OneAttemptPerPeriod
<1> QED BY <1>1, <1>2, TypeCorrect, NextAttempts, PTL DEF Spec

-----------------------------------------------------------------------------
(* Authorised probes                                                       *)

\* What a caller, a job row or a goroutine holds was granted to its agent while
\* the agent was active, even if it has been taken back since.
ProbesInv ==
  /\ ProbesAuthorised
  /\ \A a \in Agents : agent[a].active => agent[a].allowed \subseteq granted[a]
  /\ \A c \in Callers : call[c].active /\ call[c].agent \in Agents =>
       call[c].allowed \subseteq granted[call[c].agent]
  /\ \A j \in Jobs : job[j].agent \in Agents => job[j].scope \subseteq granted[job[j].agent]
  /\ \A j \in Jobs : run[j].agent \in Agents => run[j].scope \subseteq granted[run[j].agent]

\* Grants are never forgotten, so whoever keeps what it holds stays authorised.
LEMMA ProbesFrame ==
  ASSUME TypeOK, ProbesInv, UNCHANGED <<agent, granted, probed>>,
         \A c \in Callers : call'[c].active =>
           call[c].active /\ call'[c].agent = call[c].agent /\ call'[c].allowed = call[c].allowed,
         \A j \in Jobs : job'[j].agent = None \/ (job'[j].agent = job[j].agent /\ job'[j].scope = job[j].scope),
         \A j \in Jobs : run'[j].agent = run[j].agent /\ run'[j].scope = run[j].scope
  PROVE  ProbesInv'
BY ConstantsAssumption DEF ProbesInv, ProbesAuthorised

LEMMA AdministrationProbes ==
  TypeOK /\ ProbesInv /\ Administration => ProbesInv'
<1> SUFFICES ASSUME TypeOK, ProbesInv, Administration PROVE ProbesInv'
  OBVIOUS
<1>1. ASSUME NEW a \in Agents, NEW active, NEW allowed, WriteAgent(a, active, allowed)
      PROVE  ProbesInv'
  <2>1. \A b \in Agents : granted[b] \subseteq granted'[b]
    BY <1>1 DEF WriteAgent, TypeOK
  <2>2. \A b \in Agents : agent'[b].active => agent'[b].allowed \subseteq granted'[b]
    BY <1>1, <2>1 DEF WriteAgent, TypeOK, ProbesInv
  <2>3. UNCHANGED <<job, run, call, probed>>
    BY <1>1 DEF WriteAgent
  <2> QED BY <2>1, <2>2, <2>3 DEF ProbesInv, ProbesAuthorised
<1>2. ASSUME NEW a \in Agents, DeleteScanAgent(a) PROVE ProbesInv'
  <2>1. \A b \in Agents : agent'[b].active => agent'[b] = agent[b]
    BY <1>2 DEF DeleteScanAgent, TypeOK, NoAgent
  <2>2. \A j \in Jobs : job'[j].agent = None \/ (job'[j].agent = job[j].agent /\ job'[j].scope = job[j].scope)
    BY <1>2 DEF DeleteScanAgent, CascadeJobs, NoJob, TypeOK, JobRow
  <2>3. UNCHANGED <<run, call, probed, granted>>
    BY <1>2 DEF DeleteScanAgent, history
  <2> QED BY <2>1, <2>2, <2>3, ConstantsAssumption DEF ProbesInv, ProbesAuthorised
<1>3. ASSUME NEW s \in Schedules, NEW a \in Agents, NEW scope, NEW enabled,
             CreateScanSchedule(s, a, scope, enabled) \/ UpdateScanSchedule(s, a, scope, enabled)
      PROVE  ProbesInv'
  BY <1>3, ProbesFrame DEF CreateScanSchedule, UpdateScanSchedule, history
<1>4. ASSUME NEW s \in Schedules, DeleteScanSchedule(s) PROVE ProbesInv'
  <2>1. \A j \in Jobs : job'[j].agent = job[j].agent /\ job'[j].scope = job[j].scope
    BY <1>4 DEF DeleteScanSchedule, DetachJobs, TypeOK, JobRow
  <2> QED BY <1>4, <2>1, ProbesFrame DEF DeleteScanSchedule, history
<1> QED BY <1>1, <1>2, <1>3, <1>4
        DEF Administration, CreateScanAgent, UpdateScanAgent, ApproveAgent

LEMMA EnqueueProbes ==
  ASSUME TypeOK, ProbesInv, NEW c \in Callers, Enqueue(c)
  PROVE  ProbesInv'
<1>0. call \in [Callers -> Call] /\ call[c] \in Call
  BY DEF TypeOK
<1>r. ASSUME NEW pc, Return(c, pc)
      PROVE  \A d \in Callers : call'[d].active =>
               call[d].active /\ call'[d].agent = call[d].agent /\ call'[d].allowed = call[d].allowed
  BY <1>0, <1>r DEF Return, NoCall, NewCall, Call
<1>1. CASE GetScanAgent(c)
  <2>1. UNCHANGED <<agent, granted, probed, job, run>>
    BY <1>1 DEF GetScanAgent, rows, history
  <2>2. CASE \E pc : Return(c, pc)
    BY <2>1, <2>2, <1>r, ProbesFrame
  <2>3. CASE LiveAgent(call[c].agent) /\ call' = [call EXCEPT ![c] = [@ EXCEPT !.pc = "insert",
               !.active = agent[call[c].agent].active, !.allowed = agent[call[c].agent].allowed]]
    <3>1. call'[c].active = agent[call[c].agent].active /\ call'[c].allowed = agent[call[c].agent].allowed
          /\ call'[c].agent = call[c].agent
      BY <1>0, <2>3 DEF Call
    <3>2. \A d \in Callers : d # c => call'[d] = call[d]
      BY <1>0, <2>3
    <3> QED BY <2>1, <2>3, <3>1, <3>2 DEF ProbesInv, ProbesAuthorised, LiveAgent
  <2> QED BY <1>1, <2>2, <2>3 DEF GetScanAgent
<1>2. ASSUME NEW j \in Jobs, InsertJob(c, j) PROVE ProbesInv'
  <2>1. UNCHANGED <<agent, granted, probed, run>> /\ \A k \in Jobs : k # j => job'[k] = job[k]
    BY <1>2 DEF InsertJob, history, TypeOK
  <2>2. job'[j].agent = call[c].agent /\ job'[j].scope = call[c].scope
    BY <1>2 DEF InsertJob, TypeOK
  <2>3. call[c].agent \in Agents /\ call[c].scope \subseteq granted[call[c].agent]
    BY <1>2 DEF InsertJob, ValidateJobForAgent, ValidateAgentScope, ForeignKeysHold, LiveAgent, ProbesInv
  <2>4. \A d \in Callers : call'[d].active => call'[d] = call[d]
    BY <1>0, <1>2 DEF InsertJob, NewCall
  <2> QED BY <2>1, <2>2, <2>3, <2>4 DEF ProbesInv, ProbesAuthorised
<1>3. CASE EnqueueFails(c)
  BY <1>3, <1>r, ProbesFrame DEF EnqueueFails, rows, history
<1>4. CASE SpawnRun(c)
  <2> DEFINE j == call[c].job
  <2>1. UNCHANGED <<agent, granted, probed, job>> /\ \E pc : Return(c, pc)
    BY <1>4 DEF SpawnRun, rows, history
  <2>2. \A d \in Callers : call'[d].active =>
           call[d].active /\ call'[d].agent = call[d].agent /\ call'[d].allowed = call[d].allowed
    BY <2>1, <1>r
  <2>3. CASE run' = run
    BY <2>1, <2>2, <2>3, ProbesFrame
  <2>4. CASE LiveJob(j) /\ run' = [run EXCEPT ![j] = [NoRun EXCEPT !.pc = "start", !.agent = job[j].agent,
                     !.schedule = job[j].schedule, !.scope = job[j].scope]]
    <3>1. j \in Jobs /\ run'[j].agent = job[j].agent /\ run'[j].scope = job[j].scope
      BY <2>4 DEF LiveJob, NoRun, TypeOK
    <3>2. \A k \in Jobs : k # j => run'[k] = run[k]
      BY <2>4 DEF TypeOK
    <3> HIDE DEF j
    <3>3. \A d \in Callers : call'[d].active /\ call'[d].agent \in Agents =>
            call'[d].allowed \subseteq granted[call'[d].agent]
      BY <2>2 DEF ProbesInv
    <3> QED BY <2>1, <3>1, <3>2, <3>3 DEF ProbesInv, ProbesAuthorised
  <2> QED BY <1>4, <2>3, <2>4 DEF SpawnRun
<1> QED BY <1>1, <1>2, <1>3, <1>4 DEF Enqueue

LEMMA RunProbes ==
  ASSUME TypeOK, ProbesInv, NEW j \in Jobs, RunStep(j) \/ ProcessJob(j)
  PROVE  ProbesInv'
<1>1. UNCHANGED <<agent, granted, call>>
  BY DEF RunStep, MarkRunning, RecordRunning, SendJob, ReceiveResult, DispatchFails, RecordResult,
         RecordScheduleResult, FinishRun, ProcessJob, rows, history
<1>2. \A k \in Jobs : job'[k].agent = job[k].agent /\ job'[k].scope = job[k].scope
  <2>1. CASE \E status : UpdateScanJobResult(j, status)
    BY <2>1 DEF UpdateScanJobResult, TypeOK, JobRow
  <2> QED BY <2>1 DEF RunStep, MarkRunning, RecordRunning, SendJob, ReceiveResult, DispatchFails, RecordResult,
         RecordScheduleResult, FinishRun, ProcessJob, rows
<1>3. \A k \in Jobs : run'[k].agent = run[k].agent /\ run'[k].scope = run[k].scope
  <2>0. run \in [Jobs -> Goroutine] /\ run[j] \in Goroutine
    BY DEF TypeOK
  <2>1. CASE \E pc : run' = [run EXCEPT ![j].pc = pc]
    BY <2>0, <2>1 DEF Goroutine
  <2>2. CASE \E pc, outcome : run' = [run EXCEPT ![j] = [@ EXCEPT !.pc = pc, !.outcome = outcome]]
    BY <2>0, <2>2 DEF Goroutine
  <2>3. CASE \E pc : run' = [run EXCEPT ![j] = [@ EXCEPT !.pc = pc, !.unsaved = TRUE]]
    BY <2>0, <2>3 DEF Goroutine
  <2> QED BY <2>1, <2>2, <2>3 DEF RunStep, MarkRunning, RecordRunning, SendJob, ReceiveResult, DispatchFails,
         RecordResult, RecordScheduleResult, FinishRun, ProcessJob
<1>4. CASE RunStep(j)
  <2>1. probed' = probed
    BY <1>4 DEF RunStep, MarkRunning, RecordRunning, SendJob, ReceiveResult, DispatchFails, RecordResult,
         RecordScheduleResult, FinishRun
  <2> QED BY <1>1, <1>2, <1>3, <2>1, ProbesFrame
<1>5. CASE ProcessJob(j)
  <2>1. \A a \in Agents : \/ probed'[a] = probed[a]
                          \/ /\ a = run[j].agent /\ probed'[a] = probed[a] \cup run[j].scope
                             /\ run[j].scope \subseteq Own[a]
    BY <1>5 DEF ProcessJob, ValidateAgentScope, TypeOK
  <2>2. \A a \in Agents : probed'[a] \subseteq Own[a] \cap granted[a]
    BY <2>1 DEF ProbesInv, ProbesAuthorised
  <2> QED BY <1>1, <1>2, <1>3, <2>2 DEF ProbesInv, ProbesAuthorised
<1> QED BY <1>4, <1>5

LEMMA NextProbes == TypeOK /\ ProbesInv /\ [Next]_vars => ProbesInv'
<1> SUFFICES ASSUME TypeOK, ProbesInv, [Next]_vars PROVE ProbesInv'
  OBVIOUS
<1>0. call \in [Callers -> Call] /\ Scheduler \in Callers /\ \A r \in Requests : r \in Callers
  BY DEF TypeOK, Callers
<1> DEFINE Quiet == UNCHANGED <<agent, granted, probed, job, run>>
<1>1. CASE Quiet /\ \E c \in Callers : \E s, a, scope : call' = [call EXCEPT ![c] = NewCall("load", a, s, scope)]
  BY <1>0, <1>1, ProbesFrame DEF NewCall
<1>2. CASE Quiet /\ UNCHANGED call
  BY <1>2, ProbesFrame
<1>3. CASE Quiet /\ call' = [call EXCEPT ![Scheduler].pc = "mark"]
  <2>1. \A c \in Callers : call'[c].active = call[c].active /\ call'[c].agent = call[c].agent
                           /\ call'[c].allowed = call[c].allowed
    BY <1>0, <1>3 DEF Call
  <2> QED BY <1>3, <2>1, ProbesFrame
<1>4. CASE Quiet /\ call' = [call EXCEPT ![Scheduler] = NoCall]
  BY <1>0, <1>4, ProbesFrame DEF NoCall, NewCall
<1>5. CASE Crash
  <2>1. \A j \in Jobs : run'[j].agent = run[j].agent /\ run'[j].scope = run[j].scope
    BY <1>5 DEF Crash, TypeOK, Goroutine
  <2> QED BY <1>5, <2>1, ProbesFrame DEF Crash, rows, history, NoCall, NewCall
<1>6. CASE Trigger
  <2>1. Quiet
    BY <1>6 DEF Trigger, ScanCreate, ScheduleRunNow, rows, history
  <2> HIDE DEF Quiet
  <2> QED BY <1>0, <1>1, <1>6, <2>1 DEF Trigger, ScanCreate, ScheduleRunNow
<1>7. CASE Clock \/ UNCHANGED vars
  BY <1>2, <1>7 DEF Clock, Elapse, CrossWindow, vars, rows, history
<1>8. CASE SchedulerStep
  <2>1. CASE ListDue
    BY <1>2, <2>1 DEF ListDue, rows, history
  <2>2. CASE \E d \in todo : RunSchedule(d)
    <3>1. Quiet
      BY <2>2 DEF RunSchedule, rows
    <3> HIDE DEF Quiet
    <3>2. PICK d \in todo : call' = [call EXCEPT ![Scheduler] = NewCall("load", d.agent, d.id, d.scope)]
      BY <2>2 DEF RunSchedule
    <3>3. \E s, a, scope : call' = [call EXCEPT ![Scheduler] = NewCall("load", a, s, scope)]
      BY <3>2, Zenon
    <3> QED BY <1>0, <1>1, <3>1, <3>3, Zenon
  <2>3. CASE RecordRejection
    BY <1>3, <2>3 DEF RecordRejection, history
  <2>4. CASE MarkScanScheduleRan
    BY <1>4, <2>4 DEF MarkScanScheduleRan, history
  <2> QED BY <1>0, <1>8, <2>1, <2>2, <2>3, <2>4, EnqueueProbes DEF SchedulerStep
<1> QED BY <1>0, <1>5, <1>6, <1>7, <1>8, AdministrationProbes, EnqueueProbes, RunProbes DEF Next

\* No race between editing an agent and sending it a job makes it probe a net that
\* its own allowlist lacks or that it was never granted while it was active.
THEOREM ProbesStayAuthorised == Spec => []ProbesAuthorised
<1>1. Init => ProbesInv
  <2> SUFFICES ASSUME Init PROVE ProbesInv
    OBVIOUS
  <2>1. /\ \A a \in Agents : ~agent[a].active /\ probed[a] = {}
        /\ \A c \in Callers : ~call[c].active
        /\ \A j \in Jobs : job[j].agent = None /\ run[j].agent = None
    BY DEF Init, NoAgent, NoCall, NewCall, NoJob, NoRun
  <2> QED BY <2>1, ConstantsAssumption DEF ProbesInv, ProbesAuthorised
<1>2. ProbesInv => ProbesAuthorised
  BY DEF ProbesInv
<1> QED BY <1>1, <1>2, TypeCorrect, NextProbes, PTL DEF Spec

-----------------------------------------------------------------------------
(* The life of a job and the records of its outcome                        *)

\* What is known of a job row from where its goroutine is.  Only a row whose
\* result was written carries the outcome the goroutine goes on to report.
JobInv(j) ==
  /\ job[j].row # "live" => job[j].agent = None
  /\ job[j].row = "unused" => run[j].pc = "none"
  /\ job[j].row = "live" =>
       /\ run[j].pc \in {"none", "start"} => job[j].status = "queued"
       /\ run[j].pc \in {"schedRunning", "dispatch", "inflight", "record"} =>
            job[j].status \in {"queued", "running"}
       /\ run[j].pc \in {"schedResult", "finish", "done"} /\ ~run[j].unsaved =>
            job[j].status = run[j].outcome
  /\ "completed" \in audit[j] => run[j].pc = "done" /\ run[j].outcome = "succeeded"
  /\ "failed" \in audit[j] => run[j].pc = "done" /\ run[j].outcome # "succeeded"
  /\ faults = 0 => run[j].pc # "lost" /\ ~run[j].unsaved

\* A final status on a schedule was put there by a goroutine past its result.
LastRunInv(s, j) ==
  sched[s].lastJob = j /\ sched[s].lastStatus \in Terminal =>
    /\ run[j].pc \in {"finish", "done", "lost"}
    /\ sched[s].lastStatus = run[j].outcome
    /\ job[j].row = "live" /\ ~run[j].unsaved => job[j].status = run[j].outcome

\* A caller that reads its row back is the only one that will start the job.
ReadInv(c) ==
  call[c].pc = "read" =>
    /\ call[c].job \in Jobs
    /\ job[call[c].job].row # "unused"
    /\ run[call[c].job].pc = "none"
    /\ \A d \in Callers : call[d].pc = "read" /\ call[d].job = call[c].job => d = c

\* Without faults a live row whose goroutine has not started has its reader.
StarterInv(j) ==
  faults = 0 /\ job[j].row = "live" /\ run[j].pc = "none" =>
    \E c \in Callers : call[c].pc = "read" /\ call[c].job = j

LifeInv ==
  /\ \A j \in Jobs : JobInv(j) /\ StarterInv(j)
  /\ \A s \in Schedules, j \in Jobs : LastRunInv(s, j)
  /\ \A c \in Callers : ReadInv(c)

\* What a row, a last-run column and a reader may become in a step that starts,
\* advances and ends no goroutine.
RowKept(j) ==
  \/ job'[j].row = job[j].row /\ job'[j].agent = job[j].agent /\ job'[j].status = job[j].status
  \/ job[j].row # "unused" /\ job'[j].row = "deleted" /\ job'[j].agent = None
LastRunKept(s) ==
  \/ sched'[s].lastJob = sched[s].lastJob /\ sched'[s].lastStatus = sched[s].lastStatus
  \/ sched'[s].lastJob = None
ReaderKept(c) ==
  /\ call'[c].pc = "read" <=> call[c].pc = "read"
  /\ call[c].pc = "read" => call'[c].job = call[c].job

LEMMA LifeFrame ==
  ASSUME LifeInv, UNCHANGED <<run, audit>>, faults' = 0 => faults = 0,
         \A j \in Jobs : RowKept(j),
         \A s \in Schedules : LastRunKept(s),
         \A c \in Callers : ReaderKept(c)
  PROVE  LifeInv'
<1>1. ASSUME NEW j \in Jobs PROVE JobInv(j)' /\ StarterInv(j)'
  BY DEF LifeInv, JobInv, StarterInv, RowKept, ReaderKept
<1>2. ASSUME NEW s \in Schedules, NEW j \in Jobs PROVE LastRunInv(s, j)'
  BY ConstantsAssumption DEF LifeInv, LastRunInv, RowKept, LastRunKept
<1>3. ASSUME NEW c \in Callers PROVE ReadInv(c)'
  BY DEF LifeInv, ReadInv, RowKept, ReaderKept
<1> QED BY <1>1, <1>2, <1>3 DEF LifeInv

\* Counting a fault, or not, never takes the count back to zero.
LEMMA FaultCount ==
  ASSUME TypeOK, Fault \/ NoFault PROVE (faults' = 0 => faults = 0) /\ (Fault => faults' # 0)
BY ConstantsAssumption DEF TypeOK, Fault, NoFault

\* A caller that returns from a step other than the read, or begins one, leaves
\* the readers alone.
LEMMA ReadersKept ==
  ASSUME TypeOK, NEW c \in Callers, call[c].pc # "read",
         \/ \E pc : pc # "read" /\ Return(c, pc)
         \/ \E r : r.pc # "read" /\ call' = [call EXCEPT ![c] = r]
  PROVE  \A d \in Callers : ReaderKept(d)
<1>0. call \in [Callers -> Call] /\ call[c] \in Call
  BY DEF TypeOK
<1>1. \A d \in Callers : d # c => call'[d] = call[d]
  BY <1>0 DEF Return
<1>2. call'[c].pc # "read"
  BY <1>0 DEF Return, Call, NoCall, NewCall
<1> QED BY <1>1, <1>2 DEF ReaderKept

LEMMA AdministrationLife ==
  ASSUME TypeOK, LifeInv, Administration \/ Clock
  PROVE  /\ UNCHANGED <<run, audit, faults, call>>
         /\ \A j \in Jobs : RowKept(j)
         /\ \A s \in Schedules : LastRunKept(s)
<1> USE DEF rows, history
<1>0. /\ job \in [Jobs -> JobRow] /\ sched \in [Schedules -> ScheduleRow]
      /\ \A s \in Schedules : sched[s] \in ScheduleRow
      /\ \A j \in Jobs : job[j] \in JobRow
  BY DEF TypeOK
<1>1. ASSUME NEW a \in Agents, NEW active, NEW allowed, WriteAgent(a, active, allowed)
      PROVE  UNCHANGED <<run, audit, faults, call, job, sched>>
  BY <1>1 DEF WriteAgent
<1>2. CASE UNCHANGED <<run, audit, faults, call, job, sched>>
  BY <1>2 DEF RowKept, LastRunKept
<1>3. ASSUME NEW a \in Agents, DeleteScanAgent(a)
      PROVE  /\ UNCHANGED <<run, audit, faults, call>>
             /\ \A j \in Jobs : RowKept(j)
             /\ \A s \in Schedules : LastRunKept(s)
  <2>1. \A j \in Jobs : RowKept(j)
    BY <1>0, <1>3, ConstantsAssumption
       DEF DeleteScanAgent, CascadeJobs, NoJob, RowKept, JobRow, LifeInv, JobInv
  <2>2. \A s \in Schedules : LastRunKept(s)
    BY <1>0, <1>3 DEF DeleteScanAgent, CascadeSchedules, NoSchedule, LastRunKept
  <2> QED BY <1>3, <2>1, <2>2 DEF DeleteScanAgent
<1>4. ASSUME NEW s \in Schedules, NEW a \in Agents, NEW scope, NEW enabled,
             CreateScanSchedule(s, a, scope, enabled) \/ UpdateScanSchedule(s, a, scope, enabled)
      PROVE  /\ UNCHANGED <<run, audit, faults, call, job>>
             /\ \A t \in Schedules : LastRunKept(t)
  <2>1. CASE CreateScanSchedule(s, a, scope, enabled)
    BY <1>0, <2>1 DEF CreateScanSchedule, NoSchedule, LastRunKept
  <2>2. CASE UpdateScanSchedule(s, a, scope, enabled)
    <3>1. sched'[s].lastJob = sched[s].lastJob /\ sched'[s].lastStatus = sched[s].lastStatus
      BY <1>0, <2>2 DEF UpdateScanSchedule, ScheduleRow
    <3> QED BY <1>0, <2>2, <3>1 DEF UpdateScanSchedule, LastRunKept
  <2> QED BY <1>4, <2>1, <2>2
<1>5. ASSUME NEW s \in Schedules, DeleteScanSchedule(s)
      PROVE  /\ UNCHANGED <<run, audit, faults, call>>
             /\ \A j \in Jobs : RowKept(j)
             /\ \A t \in Schedules : LastRunKept(t)
  BY <1>0, <1>5 DEF DeleteScanSchedule, DetachJobs, NoSchedule, RowKept, LastRunKept, JobRow
<1>6. ASSUME NEW s \in Schedules, Elapse(s) \/ CrossWindow(s)
      PROVE  /\ UNCHANGED <<run, audit, faults, call, job>>
             /\ \A t \in Schedules : LastRunKept(t)
  BY <1>0, <1>6 DEF Elapse, CrossWindow, LastRunKept, ScheduleRow
<1>7. UNCHANGED job => \A j \in Jobs : RowKept(j)
  BY DEF RowKept
<1> QED BY <1>1, <1>2, <1>3, <1>4, <1>5, <1>6, <1>7
        DEF Administration, Clock, CreateScanAgent, UpdateScanAgent, ApproveAgent

\* The steps of callers that insert no row and start no goroutine.
LEMMA CallerLife ==
  ASSUME TypeOK, LifeInv,
         \/ Trigger \/ ListDue \/ \E d \in todo : RunSchedule(d)
         \/ RecordRejection \/ MarkScanScheduleRan
         \/ \E c \in Callers : GetScanAgent(c) \/ EnqueueFails(c)
  PROVE  LifeInv' /\ UNCHANGED job
<1> USE DEF rows, history
<1>0. /\ call \in [Callers -> Call] /\ Scheduler \in Callers /\ \A r \in Requests : r \in Callers
      /\ sched \in [Schedules -> ScheduleRow]
      /\ \A c \in Callers : call[c] \in Call
  BY DEF TypeOK, Callers
<1>1. UNCHANGED <<run, audit, job>>
  BY DEF Trigger, ScanCreate, ScheduleRunNow, ListDue, RunSchedule, RecordRejection,
         MarkScanScheduleRan, GetScanAgent, EnqueueFails
<1>2. \A j \in Jobs : RowKept(j)
  BY <1>1 DEF RowKept
<1>3. faults' = 0 => faults = 0
  <2>1. Fault \/ NoFault
    BY DEF Trigger, ScanCreate, ScheduleRunNow, ListDue, RunSchedule, RecordRejection,
           MarkScanScheduleRan, GetScanAgent, EnqueueFails, NoFault
  <2> QED BY <2>1, FaultCount
<1>4. \A s \in Schedules : LastRunKept(s)
  <2>1. CASE UNCHANGED sched
    BY <2>1 DEF LastRunKept
  <2>2. CASE RecordRejection
    <3>1. CASE SetScanScheduleLastRun(call[Scheduler].schedule, "rejected", None)
      BY <1>0, <2>1, <3>1 DEF SetScanScheduleLastRun, LastRunKept, LiveSchedule, ScheduleRow
    <3> QED BY <2>1, <2>2, <3>1 DEF RecordRejection
  <2>3. CASE MarkScanScheduleRan
    BY <1>0, <2>1, <2>3 DEF MarkScanScheduleRan, LastRunKept, LiveSchedule, ScheduleRow
  <2> QED BY <2>1, <2>2, <2>3 DEF Trigger, ScanCreate, ScheduleRunNow, ListDue, RunSchedule,
         GetScanAgent, EnqueueFails
<1>5. \A c \in Callers : ReaderKept(c)
  <2> DEFINE Blank(c) == \E pc, a, s, scope : pc # "read" /\ call' = [call EXCEPT ![c] = NewCall(pc, a, s, scope)]
  <2>a. ASSUME NEW c \in Callers, call[c].pc # "read", Blank(c) PROVE \A d \in Callers : ReaderKept(d)
    <3>1. PICK pc, a, s, scope : pc # "read" /\ call' = [call EXCEPT ![c] = NewCall(pc, a, s, scope)]
      BY <2>a
    <3>2. NewCall(pc, a, s, scope).pc # "read"
      BY <3>1 DEF NewCall
    <3> QED BY <2>a, <3>1, <3>2, ReadersKept, Zenon
  <2> HIDE DEF Blank
  <2>1. CASE UNCHANGED call
    BY <2>1 DEF ReaderKept
  <2>2. CASE Trigger
    <3>1. PICK r \in Requests : call[r].pc = "idle" /\ \E a, s, scope : call' = [call EXCEPT ![r] = NewCall("load", a, s, scope)]
      BY <2>2 DEF Trigger, ScanCreate, ScheduleRunNow
    <3>2. Blank(r)
      BY <3>1 DEF Blank
    <3> QED BY <1>0, <2>a, <3>1, <3>2
  <2>3. ASSUME NEW d \in todo, RunSchedule(d) PROVE \A c \in Callers : ReaderKept(c)
    <3>1. Blank(Scheduler)
      BY <2>3 DEF Blank, RunSchedule
    <3> QED BY <1>0, <2>a, <2>3, <3>1 DEF RunSchedule
  <2>4. CASE RecordRejection
    <3>1. call'[Scheduler].pc = "mark" /\ \A c \in Callers : c # Scheduler => call'[c] = call[c]
      BY <1>0, <2>4 DEF RecordRejection, Call
    <3> QED BY <2>4, <3>1 DEF RecordRejection, ReaderKept
  <2>5. CASE MarkScanScheduleRan
    <3>1. Blank(Scheduler)
      BY <2>5 DEF Blank, MarkScanScheduleRan, NoCall
    <3> QED BY <1>0, <2>a, <2>5, <3>1 DEF MarkScanScheduleRan
  <2>6. ASSUME NEW c \in Callers, GetScanAgent(c) PROVE \A d \in Callers : ReaderKept(d)
    <3>1. CASE Return(c, "mark")
      BY <2>6, <3>1, ReadersKept DEF GetScanAgent
    <3>2. CASE call' = [call EXCEPT ![c] = [@ EXCEPT !.pc = "insert",
                                          !.active = agent[call[c].agent].active,
                                          !.allowed = agent[call[c].agent].allowed]]
      <4>1. call'[c].pc = "insert" /\ \A d \in Callers : d # c => call'[d] = call[d]
        BY <1>0, <3>2 DEF Call
      <4> QED BY <2>6, <4>1 DEF GetScanAgent, ReaderKept
    <3> QED BY <2>6, <3>1, <3>2 DEF GetScanAgent
  <2>7. ASSUME NEW c \in Callers, EnqueueFails(c) PROVE \A d \in Callers : ReaderKept(d)
    BY <2>7, ReadersKept DEF EnqueueFails
  <2> QED BY <2>1, <2>2, <2>3, <2>4, <2>5, <2>6, <2>7 DEF ListDue
<1> QED BY <1>1, <1>2, <1>3, <1>4, <1>5, LifeFrame

\* A new row is queued, has no goroutine and one reader.
LEMMA InsertLife ==
  ASSUME TypeOK, LifeInv, NEW c \in Callers, NEW j \in Jobs, InsertJob(c, j)
  PROVE  LifeInv'
<1>0. call \in [Callers -> Call] /\ job \in [Jobs -> JobRow]
  BY DEF TypeOK
<1>1. /\ job'[j].row = "live" /\ job'[j].status = "queued"
      /\ \A k \in Jobs : k # j => job'[k] = job[k]
      /\ job[j].row = "unused" /\ UNCHANGED <<run, audit, faults, sched>>
  BY <1>0 DEF InsertJob
<1>2. /\ call'[c].pc = "read" /\ call'[c].job = j /\ call[c].pc = "insert"
      /\ \A d \in Callers : d # c => call'[d] = call[d]
  BY <1>0 DEF InsertJob, NewCall
<1>3. run[j].pc = "none"
  BY <1>1 DEF LifeInv, JobInv
<1>4. ASSUME NEW k \in Jobs PROVE JobInv(k)' /\ StarterInv(k)'
  <2>1. CASE k = j
    BY <1>1, <1>2, <1>3, <2>1 DEF LifeInv, JobInv, StarterInv
  <2>2. CASE k # j
    BY <1>1, <1>2, <2>2 DEF LifeInv, JobInv, StarterInv
  <2> QED BY <2>1, <2>2
<1>5. ASSUME NEW s \in Schedules, NEW k \in Jobs PROVE LastRunInv(s, k)'
  BY <1>1, <1>3 DEF LifeInv, LastRunInv
<1>6. ASSUME NEW d \in Callers PROVE ReadInv(d)'
  BY <1>1, <1>2, <1>3 DEF LifeInv, ReadInv
<1> QED BY <1>4, <1>5, <1>6 DEF LifeInv

\* The reader starts the goroutine it alone may start, or leaves the row behind:
\* then the row is gone or a fault is counted.
LEMMA SpawnLife ==
  ASSUME TypeOK, LifeInv, NEW c \in Callers, SpawnRun(c)
  PROVE  LifeInv' /\ UNCHANGED job
<1> DEFINE j == call[c].job
<1>0. call \in [Callers -> Call] /\ call[c] \in Call /\ run \in [Jobs -> Goroutine]
  BY DEF TypeOK
<1>1. /\ UNCHANGED <<job, sched>> /\ call[c].pc = "read"
      /\ j \in Jobs /\ job[j].row # "unused" /\ run[j].pc = "none"
  BY DEF SpawnRun, rows, LifeInv, ReadInv
<1>2. faults' = 0 => faults = 0 /\ ~Fault
  BY FaultCount DEF SpawnRun
<1>3. call'[c].pc # "read" /\ \A d \in Callers : d # c => call'[d] = call[d]
  BY <1>0 DEF SpawnRun, Return, NoCall, NewCall, Call
<1>4. \/ /\ job[j].row = "live" /\ run'[j].pc = "start" /\ ~run'[j].unsaved
         /\ \A k \in Jobs : k # j => run'[k] = run[k]
         /\ \A k \in Jobs : "completed" \in audit'[k] => "completed" \in audit[k]
         /\ \A k \in Jobs : "failed" \in audit'[k] => "failed" \in audit[k]
      \/ UNCHANGED <<run, audit>> /\ (Fault \/ job[j].row # "live")
  <2>1. CASE UNCHANGED <<run, audit>> /\ (Fault \/ ~LiveJob(j))
    BY <1>1, <2>1 DEF LiveJob
  <2>2. CASE LiveJob(j) /\ run' = [run EXCEPT ![j] = [NoRun EXCEPT !.pc = "start", !.agent = job[j].agent,
                     !.schedule = job[j].schedule, !.scope = job[j].scope]]
             /\ audit' = [audit EXCEPT ![j] = @ \cup {"created"}]
    <3>1. run'[j].pc = "start" /\ ~run'[j].unsaved
      BY <1>0, <1>1, <2>2 DEF NoRun
    <3>2. \A k \in Jobs : audit'[k] \subseteq audit[k] \cup {"created"}
      BY <2>2 DEF TypeOK
    <3>3. \A k \in Jobs : k # j => run'[k] = run[k]
      BY <1>0, <2>2
    <3> QED BY <2>2, <3>1, <3>2, <3>3 DEF LiveJob
  <2> QED BY <2>1, <2>2 DEF SpawnRun
<1> HIDE DEF j
<1>5. ASSUME NEW k \in Jobs PROVE JobInv(k)' /\ StarterInv(k)'
  <2>1. JobInv(k) /\ StarterInv(k)
    BY DEF LifeInv
  <2>2. CASE k = j
    BY <1>1, <1>2, <1>3, <1>4, <2>1, <2>2 DEF JobInv, StarterInv
  <2>3. CASE k # j
    <3>1. run'[k] = run[k]
      BY <1>4, <2>3
    <3>2. JobInv(k)'
      BY <1>1, <1>2, <1>4, <2>1, <3>1 DEF JobInv
    <3>3. StarterInv(k)'
      BY <1>1, <1>2, <1>3, <2>1, <2>3, <3>1 DEF StarterInv, j
    <3> QED BY <3>2, <3>3
  <2> QED BY <2>2, <2>3
<1>6. ASSUME NEW s \in Schedules, NEW k \in Jobs PROVE LastRunInv(s, k)'
  <2>1. LastRunInv(s, k)
    BY DEF LifeInv
  <2> QED BY <1>1, <1>4, <2>1 DEF LastRunInv
<1>7. ASSUME NEW d \in Callers PROVE ReadInv(d)'
  <2>1. ReadInv(d) /\ ReadInv(c)
    BY DEF LifeInv
  <2> QED BY <1>1, <1>3, <1>4, <2>1 DEF ReadInv, j
<1> QED BY <1>1, <1>5, <1>6, <1>7 DEF LifeInv

\* A goroutine only touches its own row, audit entries and last-run columns.
LEMMA GoroutineFrame ==
  ASSUME LifeInv, NEW j \in Jobs, UNCHANGED call, faults' = 0 => faults = 0,
         \A k \in Jobs : k # j => run'[k] = run[k] /\ job'[k] = job[k] /\ audit'[k] = audit[k],
         job'[j].row = job[j].row, run[j].pc # "none", run'[j].pc # "none",
         \A s \in Schedules : LastRunKept(s) \/ sched'[s].lastJob = j,
         JobInv(j)', \A s \in Schedules : LastRunInv(s, j)'
  PROVE  LifeInv'
<1>1. ASSUME NEW k \in Jobs PROVE JobInv(k)'
  BY DEF LifeInv, JobInv
<1>2. ASSUME NEW k \in Jobs PROVE StarterInv(k)'
  BY DEF LifeInv, StarterInv
<1>3. ASSUME NEW s \in Schedules, NEW k \in Jobs PROVE LastRunInv(s, k)'
  BY ConstantsAssumption DEF LifeInv, LastRunInv, LastRunKept
<1>4. ASSUME NEW c \in Callers PROVE ReadInv(c)'
  BY DEF LifeInv, ReadInv
<1> QED BY <1>1, <1>2, <1>3, <1>4 DEF LifeInv

\* What the statements of a goroutine do to the rows, fields by fields.
LEMMA JobWritten ==
  ASSUME TypeOK, NEW j \in Jobs, NEW status, UpdateScanJobResult(j, status)
  PROVE  /\ job'[j].row = job[j].row /\ job'[j].agent = job[j].agent
         /\ job[j].row = "live" => job'[j].status = status
         /\ \A k \in Jobs : k # j => job'[k] = job[k]
<1>1. job \in [Jobs -> JobRow] /\ job[j] \in JobRow
  BY DEF TypeOK
<1> QED BY <1>1 DEF UpdateScanJobResult, LiveJob, JobRow

LEMMA LastRunWritten ==
  ASSUME TypeOK, NEW j \in Jobs, NEW status, RecordScheduleRun(j, status)
  PROVE  /\ \A s \in Schedules : \/ LastRunKept(s) /\ sched'[s].lastJob = sched[s].lastJob
                                 \/ sched'[s].lastJob = j /\ sched'[s].lastStatus = status
         /\ faults' = 0 => faults = 0
<1>1. sched \in [Schedules -> ScheduleRow]
  BY DEF TypeOK
<1>2. CASE UNCHANGED sched
  BY <1>2, FaultCount DEF RecordScheduleRun, LastRunKept, NoFault
<1>3. CASE LiveSchedule(run[j].schedule) /\ NoFault /\ sched' = [sched EXCEPT ![run[j].schedule] =
               [@ EXCEPT !.lastStatus = status, !.lastJob = j]]
  BY <1>1, <1>3 DEF LiveSchedule, LastRunKept, ScheduleRow, NoFault
<1> QED BY <1>2, <1>3 DEF RecordScheduleRun, SetScanScheduleLastRun

LEMMA RunLife ==
  ASSUME TypeOK, LifeInv, NEW j \in Jobs, RunStep(j) \/ ProcessJob(j)
  PROVE  LifeInv'
<1> USE DEF rows
<1>0. run \in [Jobs -> Goroutine] /\ run[j] \in Goroutine /\ run[j].outcome \in Terminal
  BY DEF TypeOK, Goroutine
<1>i. JobInv(j) /\ \A s \in Schedules : LastRunInv(s, j)
  BY DEF LifeInv
<1>k. UNCHANGED sched => \A s \in Schedules : LastRunKept(s)
  BY DEF LastRunKept
<1>u. ASSUME NEW pc, run' = [run EXCEPT ![j].pc = pc]
      PROVE  /\ run'[j].pc = pc /\ run'[j].outcome = run[j].outcome /\ run'[j].unsaved = run[j].unsaved
             /\ \A k \in Jobs : k # j => run'[k] = run[k]
  BY <1>0, <1>u DEF Goroutine
<1>1. CASE MarkRunning(j)
  <2>1. /\ run'[j].pc = "schedRunning" /\ run'[j].outcome = run[j].outcome /\ run'[j].unsaved = run[j].unsaved
        /\ \A k \in Jobs : k # j => run'[k] = run[k]
    BY <1>1, <1>u DEF MarkRunning
  <2>2. /\ job'[j].row = job[j].row /\ job'[j].agent = job[j].agent
        /\ job[j].row = "live" => job'[j].status \in {job[j].status, "running"}
        /\ \A k \in Jobs : k # j => job'[k] = job[k]
    BY <1>1, JobWritten DEF MarkRunning
  <2>3. UNCHANGED <<call, sched, audit>> /\ run[j].pc = "start" /\ (faults' = 0 => faults = 0)
    BY <1>1, FaultCount DEF MarkRunning
  <2>4. JobInv(j)' /\ \A s \in Schedules : LastRunInv(s, j)'
    BY <1>i, <2>1, <2>2, <2>3 DEF JobInv, LastRunInv
  <2> QED BY <1>k, <2>1, <2>2, <2>3, <2>4, GoroutineFrame
<1>2. CASE RecordRunning(j)
  <2>1. /\ run'[j].pc = "dispatch" /\ run'[j].outcome = run[j].outcome /\ run'[j].unsaved = run[j].unsaved
        /\ \A k \in Jobs : k # j => run'[k] = run[k]
    BY <1>2, <1>u DEF RecordRunning
  <2>2. UNCHANGED <<call, job, audit>> /\ run[j].pc = "schedRunning"
    BY <1>2 DEF RecordRunning
  <2>3. /\ \A s \in Schedules : \/ LastRunKept(s) /\ sched'[s].lastJob = sched[s].lastJob
                                \/ sched'[s].lastJob = j /\ sched'[s].lastStatus = "running"
        /\ faults' = 0 => faults = 0
    BY <1>2, LastRunWritten DEF RecordRunning
  <2>4. JobInv(j)'
    BY <1>i, <2>1, <2>2, <2>3 DEF JobInv
  <2>5. \A s \in Schedules : LastRunInv(s, j)'
    BY <1>i, <2>2, <2>3, ConstantsAssumption DEF LastRunInv, LastRunKept, Terminal
  <2> QED BY <2>1, <2>2, <2>3, <2>4, <2>5, GoroutineFrame
<1>3. CASE SendJob(j)
  <2>1. /\ run'[j].pc = "inflight" /\ run'[j].outcome = run[j].outcome /\ run'[j].unsaved = run[j].unsaved
        /\ \A k \in Jobs : k # j => run'[k] = run[k]
    BY <1>3, <1>u DEF SendJob
  <2>2. UNCHANGED <<call, job, sched, audit, faults>> /\ run[j].pc = "dispatch"
    BY <1>3 DEF SendJob
  <2>3. JobInv(j)' /\ \A s \in Schedules : LastRunInv(s, j)'
    BY <1>i, <2>1, <2>2 DEF JobInv, LastRunInv
  <2> QED BY <1>k, <2>1, <2>2, <2>3, GoroutineFrame
<1>4. CASE DispatchFails(j) \/ ReceiveResult(j)
  <2>1. /\ run'[j].pc = "record" /\ run'[j].unsaved = run[j].unsaved
        /\ \A k \in Jobs : k # j => run'[k] = run[k]
    <3>1. PICK outcome : run' = [run EXCEPT ![j] = [@ EXCEPT !.pc = "record", !.outcome = outcome]]
      BY <1>4 DEF DispatchFails, ReceiveResult
    <3> QED BY <1>0, <3>1 DEF Goroutine
  <2>2. UNCHANGED <<call, job, sched, audit, faults>> /\ run[j].pc \in {"dispatch", "inflight"}
    BY <1>4 DEF DispatchFails, ReceiveResult
  <2>3. JobInv(j)' /\ \A s \in Schedules : LastRunInv(s, j)'
    BY <1>i, <2>1, <2>2 DEF JobInv, LastRunInv
  <2> QED BY <1>k, <2>1, <2>2, <2>3, GoroutineFrame
<1>5. CASE RecordResult(j)
  <2>1. UNCHANGED <<call, sched, audit>> /\ run[j].pc = "record"
    BY <1>5 DEF RecordResult
  <2>2. CASE UpdateScanJobResult(j, run[j].outcome) /\ run' = [run EXCEPT ![j].pc = "schedResult"] /\ NoFault
    <3>1. /\ run'[j].pc = "schedResult" /\ run'[j].outcome = run[j].outcome /\ run'[j].unsaved = run[j].unsaved
          /\ \A k \in Jobs : k # j => run'[k] = run[k]
      BY <2>2, <1>u
    <3>2. /\ job'[j].row = job[j].row /\ job'[j].agent = job[j].agent
          /\ job[j].row = "live" => job'[j].status = run[j].outcome
          /\ \A k \in Jobs : k # j => job'[k] = job[k]
      BY <2>2, JobWritten
    <3>3. faults' = faults
      BY <2>2 DEF NoFault
    <3>4. JobInv(j)' /\ \A s \in Schedules : LastRunInv(s, j)'
      BY <1>i, <2>1, <3>1, <3>2, <3>3 DEF JobInv, LastRunInv
    <3> QED BY <1>k, <2>1, <3>1, <3>2, <3>3, <3>4, GoroutineFrame
  <2>3. CASE run' = [run EXCEPT ![j] = [@ EXCEPT !.pc = "schedResult", !.unsaved = TRUE]] /\ UNCHANGED job /\ Fault
    <3>1. /\ run'[j].pc = "schedResult" /\ run'[j].unsaved
          /\ \A k \in Jobs : k # j => run'[k] = run[k]
      BY <1>0, <2>3 DEF Goroutine
    <3>2. faults' # 0
      BY <2>3, FaultCount
    <3>3. JobInv(j)' /\ \A s \in Schedules : LastRunInv(s, j)'
      BY <1>i, <2>1, <2>3, <3>1, <3>2 DEF JobInv, LastRunInv
    <3> QED BY <1>k, <2>1, <2>3, <3>1, <3>2, <3>3, GoroutineFrame
  <2> QED BY <1>5, <2>2, <2>3 DEF RecordResult
<1>6. CASE RecordScheduleResult(j)
  <2>1. /\ run'[j].pc = "finish" /\ run'[j].outcome = run[j].outcome /\ run'[j].unsaved = run[j].unsaved
        /\ \A k \in Jobs : k # j => run'[k] = run[k]
    BY <1>6, <1>u DEF RecordScheduleResult
  <2>2. UNCHANGED <<call, job, audit>> /\ run[j].pc = "schedResult"
    BY <1>6 DEF RecordScheduleResult
  <2>3. /\ \A s \in Schedules : \/ LastRunKept(s) /\ sched'[s].lastJob = sched[s].lastJob
                                \/ sched'[s].lastJob = j /\ sched'[s].lastStatus = run[j].outcome
        /\ faults' = 0 => faults = 0
    BY <1>6, LastRunWritten DEF RecordScheduleResult
  <2>4. JobInv(j)'
    BY <1>i, <2>1, <2>2, <2>3 DEF JobInv
  <2>5. \A s \in Schedules : LastRunInv(s, j)'
    BY <1>i, <2>1, <2>2, <2>3, ConstantsAssumption DEF LastRunInv, LastRunKept, JobInv
  <2> QED BY <2>1, <2>2, <2>3, <2>4, <2>5, GoroutineFrame
<1>7. CASE FinishRun(j)
  <2>1. /\ run'[j].pc = "done" /\ run'[j].outcome = run[j].outcome /\ run'[j].unsaved = run[j].unsaved
        /\ \A k \in Jobs : k # j => run'[k] = run[k]
    BY <1>7, <1>u DEF FinishRun
  <2>2. UNCHANGED <<call, job, sched>> /\ run[j].pc = "finish" /\ (faults' = 0 => faults = 0)
    BY <1>7, FaultCount DEF FinishRun
  <2>3. /\ \A k \in Jobs : k # j => audit'[k] = audit[k]
        /\ "completed" \in audit'[j] => "completed" \in audit[j] \/ run[j].outcome = "succeeded"
        /\ "failed" \in audit'[j] => "failed" \in audit[j] \/ run[j].outcome # "succeeded"
    BY <1>7 DEF FinishRun, TypeOK
  <2>4. JobInv(j)' /\ \A s \in Schedules : LastRunInv(s, j)'
    BY <1>i, <2>1, <2>2, <2>3 DEF JobInv, LastRunInv
  <2> QED BY <1>k, <2>1, <2>2, <2>3, <2>4, GoroutineFrame
<1>8. CASE ProcessJob(j)
  <2>1. UNCHANGED <<call, job, sched, audit, run, faults>>
    BY <1>8 DEF ProcessJob
  <2> QED BY <2>1, LifeFrame DEF RowKept, LastRunKept, ReaderKept
<1> QED BY <1>1, <1>2, <1>3, <1>4, <1>5, <1>6, <1>7, <1>8 DEF RunStep

\* A crash only turns goroutines at work into lost ones, and leaves no reader.
LEMMA CrashLife == TypeOK /\ LifeInv /\ Crash => LifeInv'
<1> SUFFICES ASSUME TypeOK, LifeInv, Crash PROVE LifeInv'
  OBVIOUS
<1>1. UNCHANGED <<job, sched, audit>> /\ faults' # 0
  BY FaultCount DEF Crash, rows
<1>2. \A c \in Callers : call'[c].pc = "idle"
  BY DEF Crash, NoCall, NewCall
<1>3. \A k \in Jobs : \/ run'[k] = run[k]
                      \/ /\ run'[k].pc = "lost" /\ run[k].pc \in Working
                         /\ run'[k].outcome = run[k].outcome /\ run'[k].unsaved = run[k].unsaved
  BY DEF Crash, TypeOK, Goroutine
<1>4. ASSUME NEW k \in Jobs PROVE JobInv(k)' /\ StarterInv(k)'
  BY <1>1, <1>3 DEF LifeInv, JobInv, StarterInv, Working
<1>5. ASSUME NEW s \in Schedules, NEW k \in Jobs PROVE LastRunInv(s, k)'
  BY <1>1, <1>3 DEF LifeInv, LastRunInv, Working
<1>6. ASSUME NEW c \in Callers PROVE ReadInv(c)'
  BY <1>2 DEF ReadInv
<1> QED BY <1>4, <1>5, <1>6 DEF LifeInv

LEMMA NextLife == TypeOK /\ LifeInv /\ [Next]_vars => LifeInv'
<1> SUFFICES ASSUME TypeOK, LifeInv, [Next]_vars PROVE LifeInv'
  OBVIOUS
<1>0. Scheduler \in Callers /\ \A r \in Requests : r \in Callers
  BY DEF Callers
<1>1. CASE Administration \/ Clock
  <2>1. \A c \in Callers : UNCHANGED call => ReaderKept(c)
    BY DEF ReaderKept
  <2> QED BY <1>1, <2>1, AdministrationLife, LifeFrame
<1>2. ASSUME NEW c \in Callers, Enqueue(c) PROVE LifeInv'
  BY <1>2, CallerLife, InsertLife, SpawnLife DEF Enqueue
<1>3. CASE UNCHANGED vars
  BY <1>3, LifeFrame DEF vars, rows, RowKept, LastRunKept, ReaderKept
<1> QED BY <1>0, <1>1, <1>2, <1>3, CallerLife, RunLife, CrashLife DEF Next, SchedulerStep

LEMMA InitLife == Init => LifeInv
<1> SUFFICES ASSUME Init PROVE LifeInv
  OBVIOUS
<1>1. /\ \A j \in Jobs : /\ job[j].row = "unused" /\ job[j].agent = None /\ run[j].pc = "none"
                         /\ ~run[j].unsaved /\ audit[j] = {}
      /\ \A s \in Schedules : sched[s].lastJob = None
      /\ \A c \in Callers : call[c].pc = "idle"
  BY DEF Init, NoJob, NoRun, NoSchedule, NoCall, NewCall
<1> QED BY <1>1, ConstantsAssumption DEF LifeInv, JobInv, StarterInv, LastRunInv, ReadInv

LEMMA LifeInvariant == Spec => []LifeInv
BY InitLife, NextLife, TypeCorrect, PTL DEF Spec

\* Without crashes and failed statements a live job that is not finished has a
\* goroutine at work or a caller of enqueue about to start one.
THEOREM JobsOwned == Spec => []UnfinishedJobOwned
<1>1. TypeOK /\ LifeInv => UnfinishedJobOwned
  <2> SUFFICES ASSUME TypeOK, LifeInv, faults = 0, NEW j \in Jobs, LiveJob(j), job[j].status \notin Terminal,
                      run[j].pc \notin Working
               PROVE  \E c \in Callers : call[c].pc = "read" /\ call[c].job = j
    BY DEF UnfinishedJobOwned
  <2>1. run[j].pc \in {"none", "done", "lost"} /\ run[j].outcome \in Terminal
    BY DEF TypeOK, Goroutine, RunPC
  <2>2. JobInv(j) /\ StarterInv(j) /\ job[j].row = "live"
    BY DEF LifeInv, LiveJob
  <2>3. run[j].pc = "none"
    BY <2>1, <2>2 DEF JobInv
  <2> QED BY <2>2, <2>3 DEF StarterInv
<1> QED BY <1>1, LifeInvariant, TypeCorrect, PTL

\* The outcome a schedule shows and the one the audit log holds are the one on
\* the job row, whenever run could write that row.
THEOREM RecordsConsistent == Spec => []RecordsAgree
<1>1. TypeOK /\ LifeInv => RecordsAgree
  <2> SUFFICES ASSUME TypeOK, LifeInv, NEW j \in Jobs, LiveJob(j), ~run[j].unsaved
               PROVE  /\ \A s \in Schedules :
                           sched[s].lastJob = j /\ sched[s].lastStatus \in Terminal =>
                             sched[s].lastStatus = job[j].status
                      /\ "completed" \in audit[j] => job[j].status = "succeeded"
                      /\ "failed" \in audit[j] => job[j].status \in {"failed", "rejected"}
    BY DEF RecordsAgree
  <2>1. run[j].outcome \in Terminal
    BY DEF TypeOK, Goroutine
  <2>2. JobInv(j) /\ \A s \in Schedules : LastRunInv(s, j)
    BY DEF LifeInv
  <2> QED BY <2>1, <2>2 DEF JobInv, LastRunInv, LiveJob, Terminal
<1> QED BY <1>1, LifeInvariant, TypeCorrect, PTL

-----------------------------------------------------------------------------
(* Refinement of ScanJobLifecycle                                          *)

JobState == [j \in Jobs |-> IF LiveJob(j) THEN job[j].status ELSE job[j].row]

\* A step that inserts no row and advances no goroutine deletes the rows it
\* takes away, all at once, and changes no other state.
LEMMA KeptRefines ==
  ASSUME TypeOK, job' \in [Jobs -> JobRow], \A j \in Jobs : RowKept(j)
  PROVE  Lifecycle!Next \/ JobState' = JobState
<1> DEFINE D == {j \in Jobs : job[j].row = "live" /\ job'[j].row # "live"}
<1>1. \A j \in Jobs : job[j].row \in RowState /\ job'[j].row \in RowState /\ job[j].status \in JobStatus
  BY DEF TypeOK, JobRow
<1>2. \A j \in D : job'[j].row = "deleted" /\ JobState[j] \notin {"unused", "deleted"}
  BY <1>1 DEF RowKept, JobState, LiveJob, JobStatus, Terminal
<1>3. JobState' = [j \in Jobs |-> IF j \in D THEN "deleted" ELSE JobState[j]]
  <2>1. ASSUME NEW j \in Jobs
        PROVE  JobState'[j] = IF j \in D THEN "deleted" ELSE JobState[j]
    <3>1. CASE j \in D
      BY <1>2, <3>1 DEF JobState, LiveJob
    <3>2. CASE j \notin D /\ job[j].row = "live"
      BY <3>2 DEF JobState, LiveJob, RowKept
    <3>3. CASE job[j].row # "live"
      BY <1>1, <3>3 DEF JobState, LiveJob, RowKept, RowState
    <3> QED BY <3>1, <3>2, <3>3
  <2> HIDE DEF D
  <2> QED BY <2>1 DEF JobState
<1>4. PICK E \in SUBSET Jobs : E = D
  OBVIOUS
<1> HIDE DEF D
<1>5. Lifecycle!Delete(E)
  BY <1>2, <1>3, <1>4 DEF Lifecycle!Delete, JobState
<1> QED BY <1>5 DEF Lifecycle!Next

\* A step that writes one row moves the state of that job alone.
LEMMA OneRowRefines ==
  ASSUME TypeOK, NEW j \in Jobs, \A k \in Jobs : k # j => job'[k] = job[k], NEW x,
         x = IF job'[j].row = "live" THEN job'[j].status ELSE job'[j].row
  PROVE  JobState' = [JobState EXCEPT ![j] = x] /\ JobState'[j] = x
<1>1. JobState \in [Jobs -> {JobState[k] : k \in Jobs}] /\ DOMAIN JobState' = Jobs
  BY DEF JobState
<1>2. JobState'[j] = x /\ \A k \in Jobs : k # j => JobState'[k] = JobState[k]
  BY DEF JobState, LiveJob
<1>3. JobState' = [k \in Jobs |-> JobState'[k]]
  BY DEF JobState
<1> QED BY <1>1, <1>2, <1>3

LEMMA StepRefines == TypeOK /\ TypeOK' /\ LifeInv /\ [Next]_vars => Lifecycle!Next \/ JobState' = JobState
<1> SUFFICES ASSUME TypeOK, TypeOK', LifeInv, [Next]_vars PROVE Lifecycle!Next \/ JobState' = JobState
  OBVIOUS
<1>0. /\ Scheduler \in Callers /\ \A r \in Requests : r \in Callers
      /\ job' \in [Jobs -> JobRow] /\ job \in [Jobs -> JobRow]
  BY DEF Callers, TypeOK
<1>1. CASE Administration \/ Clock
  BY <1>0, <1>1, AdministrationLife, KeptRefines
<1>2. CASE UNCHANGED job
  BY <1>2 DEF JobState, LiveJob
<1>3. ASSUME NEW c \in Callers, NEW j \in Jobs, InsertJob(c, j) PROVE Lifecycle!Next
  <2>1. /\ job'[j].row = "live" /\ job'[j].status = "queued" /\ job[j].row = "unused"
        /\ \A k \in Jobs : k # j => job'[k] = job[k]
    BY <1>0, <1>3 DEF InsertJob
  <2>2. JobState' = [JobState EXCEPT ![j] = "queued"] /\ JobState[j] = "unused"
    BY <2>1, OneRowRefines DEF JobState, LiveJob
  <2> QED BY <2>2 DEF Lifecycle!Next, Lifecycle!Create, JobState
<1>4. ASSUME NEW j \in Jobs, NEW status \in {"running"} \cup Terminal, UpdateScanJobResult(j, status),
             job[j].row = "live" => job[j].status = "queued" \/ (job[j].status = "running" /\ status # "running")
      PROVE  Lifecycle!Next \/ JobState' = JobState
  <2>1. CASE job[j].row = "live"
    <3>1. /\ job'[j].row = "live" /\ job'[j].status = status
          /\ \A k \in Jobs : k # j => job'[k] = job[k]
      BY <1>4, <2>1, JobWritten
    <3>2. JobState' = [JobState EXCEPT ![j] = status] /\ JobState[j] = job[j].status
      BY <2>1, <3>1, OneRowRefines DEF JobState, LiveJob
    <3>3. Lifecycle!Start(j) \/ Lifecycle!Finish(j)
      BY <1>4, <2>1, <3>2 DEF Lifecycle!Start, Lifecycle!Finish, Lifecycle!Results, JobState, Terminal
    <3> QED BY <3>3 DEF Lifecycle!Next
  <2>2. CASE job[j].row # "live"
    BY <1>2, <1>4, <2>2 DEF UpdateScanJobResult, LiveJob
  <2> QED BY <2>1, <2>2
<1>5. ASSUME NEW j \in Jobs, RunStep(j) \/ ProcessJob(j) PROVE Lifecycle!Next \/ JobState' = JobState
  <2>1. JobInv(j) /\ run[j].outcome \in Terminal
    BY DEF LifeInv, TypeOK, Goroutine
  <2>2. CASE MarkRunning(j)
    BY <1>2, <1>4, <2>1, <2>2 DEF MarkRunning, JobInv
  <2>3. CASE RecordResult(j)
    BY <1>2, <1>4, <2>1, <2>3 DEF RecordResult, JobInv, Terminal
  <2> QED BY <1>2, <1>5, <2>2, <2>3 DEF RunStep, RecordRunning, SendJob, ReceiveResult, DispatchFails,
                RecordScheduleResult, FinishRun, ProcessJob, rows
<1>6. ASSUME NEW c \in Callers, Enqueue(c) PROVE Lifecycle!Next \/ JobState' = JobState
  BY <1>2, <1>3, <1>6, CallerLife, SpawnLife DEF Enqueue
<1>7. CASE SchedulerStep \/ Trigger
  BY <1>0, <1>2, <1>6, <1>7, CallerLife DEF SchedulerStep
<1>8. CASE Crash \/ UNCHANGED vars
  BY <1>2, <1>8 DEF Crash, vars, rows
<1> QED BY <1>0, <1>1, <1>5, <1>6, <1>7, <1>8 DEF Next

\* The orchestrator implements ScanJobLifecycle: whatever interleaves, fails or
\* crashes, a row is created queued, its status moves forward only, its result
\* is written once and a deleted row never comes back.
THEOREM LifecycleRefined == Spec => JobLifecycle
<1>1. Init => Lifecycle!Init
  BY DEF Init, Lifecycle!Init, LiveJob, NoJob
<1>2. TypeOK /\ TypeOK' /\ LifeInv /\ [Next]_vars =>
        [Lifecycle!Next]_[j \in Jobs |-> IF LiveJob(j) THEN job[j].status ELSE job[j].row]
  BY StepRefines DEF JobState
<1> QED BY <1>1, <1>2, TypeCorrect, LifeInvariant, PTL DEF Spec, JobLifecycle, Lifecycle!Spec
=============================================================================
