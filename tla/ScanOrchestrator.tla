-------------------------- MODULE ScanOrchestrator --------------------------
(***************************************************************************)
(* The app-side scan coordinator: agent, schedule and job rows, the        *)
(* scheduler tick, the HTTP requests that trigger a scan by hand, and one  *)
(* goroutine per job that dispatches it to its agent and records the       *)
(* outcome.  A database statement is one step, so any two actors           *)
(* interleave between the statements of a handler, and any write may fail. *)
(*                                                                         *)
(* A CIDR list is a set of Nets; a scope stands for the allowed_cidrs of a *)
(* job, whose targets lie inside it.  Of an agent's status only "active"   *)
(* is told apart.  Time is two facts about a schedule: next_run_at <= now  *)
(* (due) and "now is inside the firing window" (open).                     *)
(***************************************************************************)
EXTENDS Naturals, FiniteSets

CONSTANTS
  Agents,      \* ids of scan_agents rows
  Schedules,   \* ids of scan_schedules rows
  MaxJobs,     \* bound on the scan_jobs rows ever created
  Requests,    \* concurrent HTTP requests that trigger a scan
  Scheduler,   \* the goroutine of StartScheduler
  Nets,        \* blocks of addresses a CIDR list may contain
  Scopes,      \* the CIDR lists operators enter
  Own,         \* Own[a]: the allowlist configured on agent a itself
  None,        \* SQL NULL
  MaxFaults,   \* bound on process crashes and failed statements together
  MaxPeriods   \* bound on the times a schedule becomes due

Jobs == 1 .. MaxJobs   \* ids of scan_jobs rows, in the order of created_at

ASSUME ConstantsAssumption ==
  /\ MaxJobs \in Nat
  /\ MaxFaults \in Nat
  /\ MaxPeriods \in Nat
  /\ Scopes \subseteq SUBSET Nets
  /\ Own \in [Agents -> SUBSET Nets]
  /\ None \notin Agents
  /\ None \notin Schedules
  /\ None \notin Jobs
  /\ Scheduler \notin Requests

VARIABLES
  agent,     \* scan_agents
  sched,     \* scan_schedules
  job,       \* scan_jobs
  open,      \* open[s]: the wall clock is inside the window of s
  todo,      \* what is left of the list RunDueSchedules iterates over
  call,      \* call[c]: caller c of GetScanAgent and enqueue
  run,       \* run[j]: the goroutine dispatching j
  inbox,     \* inbox[j]: what the agent has done with j
  probed,    \* probed[a]: the nets agent a has sent packets to
  audit,     \* audit[j]: the audit entries whose subject is j
  faults,    \* crashes and failed statements so far
  granted,   \* history: nets ever on the allowlist of a while a was active
  periods,   \* history: how often a schedule became due
  attempts   \* history: how often the scheduler attempted a schedule

rows    == <<agent, sched, job>>
history == <<granted, periods, attempts>>
vars    == <<rows, open, todo, call, run, inbox, probed, audit, faults, history>>

-----------------------------------------------------------------------------
(* Rows and local variables                                                *)

Callers   == Requests \cup {Scheduler}
RowState  == {"unused", "live", "deleted"}
Terminal  == {"succeeded", "failed", "rejected"}
JobStatus == {"queued", "running"} \cup Terminal
LastRun   == {"", "running"} \cup Terminal
CallPC    == {"idle", "load", "insert", "read", "reject", "mark"}
Working   == {"start", "schedRunning", "dispatch", "inflight", "record",
              "schedResult", "finish"}
RunPC     == {"none", "done", "lost"} \cup Working

AgentRow    == [row : RowState, active : BOOLEAN, allowed : SUBSET Nets]
ScheduleRow == [row : RowState, agent : Agents \cup {None}, scope : SUBSET Nets,
                enabled : BOOLEAN, due : BOOLEAN,
                lastStatus : LastRun, lastJob : Jobs \cup {None}]
JobRow      == [row : RowState, agent : Agents \cup {None},
                schedule : Schedules \cup {None}, scope : SUBSET Nets,
                status : JobStatus]

\* A ScanJobInput on its way through enqueue: active and allowed are the agent
\* row as GetScanAgent returned it, job the row CreateScanJob inserted.
Call        == [pc : CallPC, agent : Agents \cup {None},
                schedule : Schedules \cup {None}, scope : SUBSET Nets,
                active : BOOLEAN, allowed : SUBSET Nets, job : Jobs \cup {None}]
Due         == [id : Schedules, agent : Agents \cup {None}, scope : SUBSET Nets]
Goroutine   == [pc : RunPC, agent : Agents \cup {None},
                schedule : Schedules \cup {None}, scope : SUBSET Nets,
                outcome : Terminal, unsaved : BOOLEAN]

NoAgent(r)    == [row |-> r, active |-> FALSE, allowed |-> {}]
NoSchedule(r) == [row |-> r, agent |-> None, scope |-> {}, enabled |-> FALSE,
                  due |-> FALSE, lastStatus |-> "", lastJob |-> None]
NoJob(r)      == [row |-> r, agent |-> None, schedule |-> None, scope |-> {},
                  status |-> "queued"]
NoRun         == [pc |-> "none", agent |-> None, schedule |-> None, scope |-> {},
                  outcome |-> "failed", unsaved |-> FALSE]
NewCall(pc, a, s, scope) ==
  [pc |-> pc, agent |-> a, schedule |-> s, scope |-> scope,
   active |-> FALSE, allowed |-> {}, job |-> None]
NoCall        == NewCall("idle", None, None, {})

LiveAgent(a)    == a \in Agents /\ agent[a].row = "live"
LiveSchedule(s) == s \in Schedules /\ sched[s].row = "live"
LiveJob(j)      == j \in Jobs /\ job[j].row = "live"

\* A process crash or a statement that returns an error.
Fault  == faults < MaxFaults /\ faults' = faults + 1
NoFault == UNCHANGED faults

Init ==
  /\ agent = [a \in Agents |-> NoAgent("unused")]
  /\ sched = [s \in Schedules |-> NoSchedule("unused")]
  /\ job = [j \in Jobs |-> NoJob("unused")]
  /\ open = [s \in Schedules |-> TRUE]
  /\ todo = {}
  /\ call = [c \in Callers |-> NoCall]
  /\ run = [j \in Jobs |-> NoRun]
  /\ inbox = [j \in Jobs |-> "none"]
  /\ probed = [a \in Agents |-> {}]
  /\ audit = [j \in Jobs |-> {}]
  /\ faults = 0
  /\ granted = [a \in Agents |-> {}]
  /\ periods = [s \in Schedules |-> 0]
  /\ attempts = [s \in Schedules |-> 0]

-----------------------------------------------------------------------------
(* Administration of agents and schedules                                  *)

\* Every write to an agent row goes through this operator, which also keeps
\* the history of what operators have granted.
WriteAgent(a, active, allowed) ==
  /\ agent' = [agent EXCEPT ![a] = [row |-> "live", active |-> active, allowed |-> allowed]]
  /\ granted' = IF active THEN [granted EXCEPT ![a] = @ \cup allowed] ELSE granted
  /\ UNCHANGED <<sched, job, open, todo, call, run, inbox, probed, audit, faults,
                 periods, attempts>>

\* agentCreate with the form's status, or the enrollment of a discovered agent.
CreateScanAgent(a, active, allowed) ==
  /\ agent[a].row = "unused"
  /\ allowed # {}
  /\ WriteAgent(a, active, allowed)

\* agentUpdate writes every column of the form, the status included.
UpdateScanAgent(a, active, allowed) ==
  /\ LiveAgent(a)
  /\ allowed # {}
  /\ WriteAgent(a, active, allowed)

\* agentApprove sets the status without looking at the current one.
ApproveAgent(a) ==
  /\ LiveAgent(a)
  /\ WriteAgent(a, TRUE, agent[a].allowed)

\* scan_schedules.agent_id and scan_jobs.agent_id are ON DELETE CASCADE, and
\* scan_jobs.schedule_id is ON DELETE SET NULL for the schedules that go.
CascadeSchedules(a) ==
  [s \in Schedules |-> IF sched[s].agent = a THEN NoSchedule("deleted") ELSE sched[s]]
\* Mutant: the schedules of a deleted agent go, their jobs keep pointing at them.
CascadeJobsKeepsSchedule(a) ==
  [j \in Jobs |-> IF job[j].agent = a THEN NoJob("deleted") ELSE job[j]]
CascadeJobs(a) ==
  [j \in Jobs |->
     IF job[j].agent = a THEN NoJob("deleted")
     ELSE IF job[j].schedule # None /\ sched[job[j].schedule].agent = a
     THEN [job[j] EXCEPT !.schedule = None]
     ELSE job[j]]
DeleteScanAgent(a) ==
  /\ LiveAgent(a)
  /\ agent' = [agent EXCEPT ![a] = NoAgent("deleted")]
  /\ sched' = CascadeSchedules(a)
  /\ job' = CascadeJobs(a)
  /\ UNCHANGED <<open, todo, call, run, inbox, probed, audit, faults, history>>

\* ValidateAgentScope: the job's allowlist lies inside the given allowlist.
ValidateAgentScope(scope, allowed) ==
  /\ allowed # {}
  /\ scope # {}
  /\ scope \subseteq allowed

\* Mutant: the status check is forgotten.
ValidateJobForAnyAgent(i) == ValidateAgentScope(i.scope, i.allowed)

\* ValidateJobForAgent, on the agent row the caller loaded.
ValidateJobForAgent(i) ==
  /\ i.active
  /\ ValidateAgentScope(i.scope, i.allowed)

\* The check of validateScheduleAgentScope and the write that follows it are
\* one step here: an allowlist narrowed between the two leads to the same
\* rows as one narrowed after both, and a deleted agent fails the foreign key.
CreateScanSchedule(s, a, scope, enabled) ==
  /\ sched[s].row = "unused"
  /\ LiveAgent(a)
  /\ ValidateAgentScope(scope, agent[a].allowed)
  /\ sched' = [sched EXCEPT ![s] =
                 [NoSchedule("live") EXCEPT !.agent = a, !.scope = scope, !.enabled = enabled]]
  /\ UNCHANGED <<agent, job, open, todo, call, run, inbox, probed, audit, faults, history>>

\* next_run_at and the last-run columns are left alone.
UpdateScanSchedule(s, a, scope, enabled) ==
  /\ LiveSchedule(s)
  /\ LiveAgent(a)
  /\ ValidateAgentScope(scope, agent[a].allowed)
  /\ sched' = [sched EXCEPT ![s] = [@ EXCEPT !.agent = a, !.scope = scope, !.enabled = enabled]]
  /\ UNCHANGED <<agent, job, open, todo, call, run, inbox, probed, audit, faults, history>>

\* scan_jobs.schedule_id is ON DELETE SET NULL.
DetachJobs(s) ==
  [j \in Jobs |-> IF job[j].schedule = s THEN [job[j] EXCEPT !.schedule = None] ELSE job[j]]
DeleteScanSchedule(s) ==
  /\ LiveSchedule(s)
  /\ sched' = [sched EXCEPT ![s] = NoSchedule("deleted")]
  /\ job' = DetachJobs(s)
  /\ UNCHANGED <<agent, open, todo, call, run, inbox, probed, audit, faults, history>>

\* The wall clock passes next_run_at, or crosses a boundary of the window.
Elapse(s) ==
  /\ LiveSchedule(s)
  /\ ~sched[s].due
  /\ periods[s] < MaxPeriods
  /\ sched' = [sched EXCEPT ![s].due = TRUE]
  /\ periods' = [periods EXCEPT ![s] = @ + 1]
  /\ UNCHANGED <<agent, job, open, todo, call, run, inbox, probed, audit, faults,
                 granted, attempts>>

CrossWindow(s) ==
  /\ LiveSchedule(s)
  /\ open' = [open EXCEPT ![s] = ~@]
  /\ UNCHANGED <<rows, todo, call, run, inbox, probed, audit, faults, history>>

-----------------------------------------------------------------------------
(* Triggering a scan.  A request (scanCreate, scheduleRunNow) and the      *)
(* scheduler (runSchedule) build an input and go through the same steps:   *)
(* GetScanAgent, validation and INSERT, then the row read back.            *)

\* The caller returns from enqueue: a request answers, the scheduler moves on.
Return(c, schedulerPC) ==
  call' = [call EXCEPT ![c] = IF c = Scheduler THEN [@ EXCEPT !.pc = schedulerPC] ELSE NoCall]

ScanCreate(r, a, scope) ==
  /\ call[r].pc = "idle"
  /\ scope # {}
  /\ call' = [call EXCEPT ![r] = NewCall("load", a, None, scope)]
  /\ UNCHANGED <<rows, open, todo, run, inbox, probed, audit, faults, history>>

\* loadSchedulePage reads the schedule; what follows uses that copy.
ScheduleRunNow(r, s) ==
  /\ call[r].pc = "idle"
  /\ LiveSchedule(s)
  /\ call' = [call EXCEPT ![r] = NewCall("load", sched[s].agent, s, sched[s].scope)]
  /\ UNCHANGED <<rows, open, todo, run, inbox, probed, audit, faults, history>>

\* RunDueSchedules lists the due schedules and reads the clock once: the window
\* check of every listed schedule uses that instant.
DueNow == {s \in Schedules : LiveSchedule(s) /\ sched[s].enabled /\ sched[s].due /\ open[s]}
\* Mutant: a schedule is not listed while a job of its is unfinished.
ListDueUnlessRunning ==
  /\ call[Scheduler].pc = "idle"
  /\ todo = {}
  /\ \A j \in Jobs : LiveJob(j) => job[j].status \in Terminal
  /\ DueNow # {}
  /\ todo' = {[id |-> s, agent |-> sched[s].agent, scope |-> sched[s].scope] : s \in DueNow}
  /\ UNCHANGED <<rows, open, call, run, inbox, probed, audit, faults, history>>
ListDue ==
  /\ call[Scheduler].pc = "idle"
  /\ todo = {}
  /\ DueNow # {}
  /\ todo' = {[id |-> s, agent |-> sched[s].agent, scope |-> sched[s].scope] : s \in DueNow}
  /\ UNCHANGED <<rows, open, call, run, inbox, probed, audit, faults, history>>

\* The loop of RunDueSchedules takes up its next schedule.
RunSchedule(d) ==
  /\ call[Scheduler].pc = "idle"
  /\ todo' = todo \ {d}
  /\ call' = [call EXCEPT ![Scheduler] = NewCall("load", d.agent, d.id, d.scope)]
  /\ attempts' = [attempts EXCEPT ![d.id] = @ + 1]
  /\ UNCHANGED <<rows, open, run, inbox, probed, audit, faults, granted, periods>>

\* GetScanAgent: on an error TriggerManual and runSchedule both give up, and
\* runSchedule does so without recording anything on the schedule.
GetScanAgent(c) ==
  /\ call[c].pc = "load"
  /\ \/ /\ LiveAgent(call[c].agent)
        /\ call' = [call EXCEPT ![c] = [@ EXCEPT !.pc = "insert",
                                          !.active = agent[call[c].agent].active,
                                          !.allowed = agent[call[c].agent].allowed]]
        /\ NoFault
     \/ /\ ~LiveAgent(call[c].agent)
        /\ Return(c, "mark")
        /\ NoFault
     \/ /\ Return(c, "mark")
        /\ Fault
  /\ UNCHANGED <<rows, open, todo, run, inbox, probed, audit, history>>

\* The foreign keys of scan_jobs, checked by the INSERT.
ForeignKeysHold(i) ==
  /\ LiveAgent(i.agent)
  /\ i.schedule # None => LiveSchedule(i.schedule)

\* enqueue validates the input against the loaded agent and inserts the row.
InsertJob(c, j) ==
  /\ call[c].pc = "insert"
  /\ ValidateJobForAgent(call[c])
  /\ ForeignKeysHold(call[c])
  /\ job[j].row = "unused"
  /\ \A k \in Jobs : job[k].row = "unused" => j <= k
  /\ job' = [job EXCEPT ![j] = [row |-> "live", agent |-> call[c].agent,
               schedule |-> call[c].schedule, scope |-> call[c].scope, status |-> "queued"]]
  /\ call' = [call EXCEPT ![c] = [NewCall("read", @.agent, @.schedule, @.scope) EXCEPT !.job = j]]
  /\ UNCHANGED <<agent, sched, open, todo, run, inbox, probed, audit, faults, history>>

EnqueueFails(c) ==
  /\ call[c].pc = "insert"
  /\ IF ValidateJobForAgent(call[c]) /\ ForeignKeysHold(call[c]) THEN Fault ELSE NoFault
  /\ Return(c, "reject")
  /\ UNCHANGED <<rows, open, todo, run, inbox, probed, audit, history>>

\* CreateScanJob reads the row back; enqueue then audits it and starts the
\* goroutine with the row as read.  When the read fails (an error, a request
\* whose client has gone) the row stays and no goroutine starts.
SpawnRun(c) ==
  LET j == call[c].job IN
  /\ call[c].pc = "read"
  /\ \/ /\ LiveJob(j)
        /\ run' = [run EXCEPT ![j] = [NoRun EXCEPT !.pc = "start", !.agent = job[j].agent,
                     !.schedule = job[j].schedule, !.scope = job[j].scope]]
        /\ audit' = [audit EXCEPT ![j] = @ \cup {"created"}]
        /\ Return(c, "mark")
        /\ NoFault
     \/ /\ ~LiveJob(j)
        /\ Return(c, "reject")
        /\ NoFault
        /\ UNCHANGED <<run, audit>>
     \/ /\ Return(c, "reject")
        /\ Fault
        /\ UNCHANGED <<run, audit>>
  /\ UNCHANGED <<rows, open, todo, inbox, probed, history>>

\* SetScanScheduleLastRun: an UPDATE that finds no row changes nothing.
SetScanScheduleLastRun(s, status, j) ==
  sched' = IF LiveSchedule(s)
           THEN [sched EXCEPT ![s] = [@ EXCEPT !.lastStatus = status, !.lastJob = j]]
           ELSE sched

\* Mutant: the loop continues with the next schedule after a rejection.
RecordRejectionSkipsMark ==
  /\ call[Scheduler].pc = "reject"
  /\ SetScanScheduleLastRun(call[Scheduler].schedule, "rejected", None)
  /\ call' = [call EXCEPT ![Scheduler] = NoCall]
  /\ UNCHANGED <<agent, job, open, todo, run, inbox, probed, audit, faults, history>>

\* runSchedule records the rejection of a schedule it could not enqueue.
RecordRejection ==
  /\ call[Scheduler].pc = "reject"
  /\ \/ SetScanScheduleLastRun(call[Scheduler].schedule, "rejected", None) /\ NoFault
     \/ UNCHANGED sched /\ Fault
  /\ call' = [call EXCEPT ![Scheduler].pc = "mark"]
  /\ UNCHANGED <<agent, job, open, todo, run, inbox, probed, audit, history>>

\* The loop ends its iteration with MarkScanScheduleRan, whatever happened.
MarkScanScheduleRan ==
  LET s == call[Scheduler].schedule IN
  /\ call[Scheduler].pc = "mark"
  /\ \/ /\ sched' = IF LiveSchedule(s) THEN [sched EXCEPT ![s].due = FALSE] ELSE sched
        /\ NoFault
     \/ UNCHANGED sched /\ Fault
  /\ call' = [call EXCEPT ![Scheduler] = NoCall]
  /\ UNCHANGED <<agent, job, open, todo, run, inbox, probed, audit, history>>

-----------------------------------------------------------------------------
(* The goroutine of a job, and the agent it is dispatched to               *)

\* UpdateScanJobResult: an UPDATE that finds no row changes nothing.
UpdateScanJobResult(j, status) ==
  job' = IF LiveJob(j) THEN [job EXCEPT ![j].status = status] ELSE job

\* recordScheduleRun: nothing to write for a job without a schedule.
RecordScheduleRun(j, status) ==
  IF run[j].schedule = None
  THEN UNCHANGED <<sched, faults>>
  ELSE \/ SetScanScheduleLastRun(run[j].schedule, status, j) /\ NoFault
       \/ UNCHANGED sched /\ Fault

MarkRunning(j) ==
  /\ run[j].pc = "start"
  /\ \/ UpdateScanJobResult(j, "running") /\ NoFault
     \/ UNCHANGED job /\ Fault
  /\ run' = [run EXCEPT ![j].pc = "schedRunning"]
  /\ UNCHANGED <<agent, sched, open, todo, call, inbox, probed, audit, history>>

RecordRunning(j) ==
  /\ run[j].pc = "schedRunning"
  /\ RecordScheduleRun(j, "running")
  /\ run' = [run EXCEPT ![j].pc = "dispatch"]
  /\ UNCHANGED <<agent, job, open, todo, call, inbox, probed, audit, history>>

\* Dispatch posts the job to the endpoint of the agent loaded in enqueue.
SendJob(j) ==
  /\ run[j].pc = "dispatch"
  /\ run' = [run EXCEPT ![j].pc = "inflight"]
  /\ inbox' = [inbox EXCEPT ![j] = "sent"]
  /\ UNCHANGED <<rows, open, todo, call, probed, audit, faults, history>>

\* Mutants: a failed dispatch returns before its result is recorded; a deadline
\* that records the failure but does not end the wait; no deadline.
DispatchFailsEarlyReturn(j) ==
  /\ run[j].pc \in {"dispatch", "inflight"}
  /\ run' = [run EXCEPT ![j].pc = "done"]
  /\ UNCHANGED <<rows, open, todo, call, inbox, probed, audit, faults, history>>
DispatchFailsThenWaits(j) ==
  /\ run[j].pc = "inflight"
  /\ UpdateScanJobResult(j, "failed")
  /\ UNCHANGED <<agent, sched, open, todo, call, run, inbox, probed, audit, faults, history>>
DispatchFailsNoDeadline(j) ==
  /\ run[j].pc = "dispatch"
  /\ run' = [run EXCEPT ![j] = [@ EXCEPT !.pc = "record", !.outcome = "failed"]]
  /\ UNCHANGED <<rows, open, todo, call, inbox, probed, audit, faults, history>>

\* Dispatch returns an error: not configured, a dial or TLS failure, an
\* undecodable answer, or the deadline of dispatchCtx.
DispatchFails(j) ==
  /\ run[j].pc \in {"dispatch", "inflight"}
  /\ run' = [run EXCEPT ![j] = [@ EXCEPT !.pc = "record", !.outcome = "failed"]]
  /\ inbox' = [inbox EXCEPT ![j] = IF @ = "sent" THEN "sent" ELSE "none"]
  /\ UNCHANGED <<rows, open, todo, call, probed, audit, faults, history>>

\* The agent's answer reaches the app only while it still waits for it.
Reply(j, status) ==
  inbox' = [inbox EXCEPT ![j] = IF run[j].pc = "inflight" THEN status ELSE "none"]

\* The agent's submitJob.  It judges the job by its own allowlist, and may get
\* to it after the app has stopped waiting.
ProcessJob(j) ==
  LET a == run[j].agent IN
  /\ inbox[j] = "sent"
  /\ \/ /\ ~ValidateAgentScope(run[j].scope, Own[a])
        /\ Reply(j, "rejected")
        /\ UNCHANGED probed
     \/ /\ ValidateAgentScope(run[j].scope, Own[a])
        /\ Reply(j, "succeeded") \/ Reply(j, "failed")
        /\ probed' = [probed EXCEPT ![a] = @ \cup run[j].scope]
  /\ UNCHANGED <<rows, open, todo, call, run, audit, faults, history>>

\* Mutant: an answer without a final status is accepted.
ReceiveResultAnyStatus(j) ==
  /\ run[j].pc = "inflight"
  /\ run' = [run EXCEPT ![j] = [@ EXCEPT !.pc = "record", !.outcome = inbox[j]]]
  /\ inbox' = [inbox EXCEPT ![j] = "none"]
  /\ UNCHANGED <<rows, open, todo, call, probed, audit, faults, history>>
ReceiveResult(j) ==
  /\ run[j].pc = "inflight"
  /\ inbox[j] \in Terminal
  /\ run' = [run EXCEPT ![j] = [@ EXCEPT !.pc = "record", !.outcome = inbox[j]]]
  /\ inbox' = [inbox EXCEPT ![j] = "none"]
  /\ UNCHANGED <<rows, open, todo, call, probed, audit, faults, history>>

\* Mutant: only a success is written to the job row.
RecordResultOfSuccess(j) ==
  /\ run[j].pc = "record"
  /\ IF run[j].outcome = "succeeded" THEN UpdateScanJobResult(j, run[j].outcome) ELSE UNCHANGED job
  /\ run' = [run EXCEPT ![j].pc = "schedResult"]
  /\ UNCHANGED <<agent, sched, open, todo, call, inbox, probed, audit, faults, history>>
RecordResult(j) ==
  /\ run[j].pc = "record"
  /\ \/ /\ UpdateScanJobResult(j, run[j].outcome)
        /\ run' = [run EXCEPT ![j].pc = "schedResult"]
        /\ NoFault
     \/ /\ run' = [run EXCEPT ![j] = [@ EXCEPT !.pc = "schedResult", !.unsaved = TRUE]]
        /\ UNCHANGED job
        /\ Fault
  /\ UNCHANGED <<agent, sched, open, todo, call, inbox, probed, audit, history>>

RecordScheduleResult(j) ==
  /\ run[j].pc = "schedResult"
  /\ RecordScheduleRun(j, run[j].outcome)
  /\ run' = [run EXCEPT ![j].pc = "finish"]
  /\ UNCHANGED <<agent, job, open, todo, call, inbox, probed, audit, history>>

\* TouchScanAgent changes no column the model keeps.
FinishRun(j) ==
  /\ run[j].pc = "finish"
  /\ \/ /\ audit' = [audit EXCEPT ![j] =
                       @ \cup {IF run[j].outcome = "succeeded" THEN "completed" ELSE "failed"}]
        /\ NoFault
     \/ UNCHANGED audit /\ Fault
  /\ run' = [run EXCEPT ![j].pc = "done"]
  /\ UNCHANGED <<rows, open, todo, call, inbox, probed, history>>

\* The process dies and restarts: rows, and what agents hold, survive.  Nothing
\* at start-up looks for jobs left behind.
Crash ==
  /\ Fault
  /\ run' = [j \in Jobs |-> IF run[j].pc \in Working THEN [run[j] EXCEPT !.pc = "lost"] ELSE run[j]]
  /\ call' = [c \in Callers |-> NoCall]
  /\ todo' = {}
  /\ UNCHANGED <<rows, open, inbox, probed, audit, history>>

-----------------------------------------------------------------------------
Administration ==
  \/ \E a \in Agents :
       \/ \E active \in BOOLEAN, allowed \in Scopes :
            CreateScanAgent(a, active, allowed) \/ UpdateScanAgent(a, active, allowed)
       \/ ApproveAgent(a)
       \/ DeleteScanAgent(a)
  \/ \E s \in Schedules :
       \/ \E a \in Agents, scope \in Scopes, enabled \in BOOLEAN :
            CreateScanSchedule(s, a, scope, enabled) \/ UpdateScanSchedule(s, a, scope, enabled)
       \/ DeleteScanSchedule(s)

Trigger ==
  \E r \in Requests :
    \/ \E a \in Agents, scope \in Scopes : ScanCreate(r, a, scope)
    \/ \E s \in Schedules : ScheduleRunNow(r, s)

Enqueue(c) == GetScanAgent(c) \/ EnqueueFails(c) \/ SpawnRun(c) \/ \E j \in Jobs : InsertJob(c, j)

SchedulerStep ==
  \/ ListDue
  \/ \E d \in todo : RunSchedule(d)
  \/ Enqueue(Scheduler)
  \/ RecordRejection
  \/ MarkScanScheduleRan

RunStep(j) ==
  \/ MarkRunning(j) \/ RecordRunning(j) \/ SendJob(j) \/ ReceiveResult(j) \/ DispatchFails(j)
  \/ RecordResult(j) \/ RecordScheduleResult(j) \/ FinishRun(j)

Clock == \E s \in Schedules : Elapse(s) \/ CrossWindow(s)

Next ==
  \/ Administration
  \/ Trigger
  \/ \E r \in Requests : Enqueue(r)
  \/ SchedulerStep
  \/ \E j \in Jobs : RunStep(j) \/ ProcessJob(j)
  \/ Clock
  \/ Crash

\* The Go scheduler runs every goroutine, and each blocking call of a job ends:
\* its dispatch has a deadline.  Agents, operators and the clock owe nothing.
Fairness ==
  /\ WF_vars(SchedulerStep)
  /\ \A r \in Requests : WF_vars(Enqueue(r))
  /\ \A j \in Jobs : WF_vars(RunStep(j))

Spec == Init /\ [][Next]_vars /\ Fairness

-----------------------------------------------------------------------------
(* Properties                                                              *)

\* Every row, goroutine and history variable has the shape its Go type gives it.
TypeOK ==
  /\ agent \in [Agents -> AgentRow]
  /\ sched \in [Schedules -> ScheduleRow]
  /\ job \in [Jobs -> JobRow]
  /\ open \in [Schedules -> BOOLEAN]
  /\ todo \in SUBSET Due
  /\ call \in [Callers -> Call]
  /\ run \in [Jobs -> Goroutine]
  /\ inbox \in [Jobs -> {"none", "sent"} \cup Terminal]
  /\ probed \in [Agents -> SUBSET Nets]
  /\ audit \in [Jobs -> SUBSET {"created", "completed", "failed"}]
  /\ faults \in 0 .. MaxFaults
  /\ granted \in [Agents -> SUBSET Nets]
  /\ periods \in [Schedules -> 0 .. MaxPeriods]
  /\ attempts \in [Schedules -> Nat]

\* The foreign keys of the scan tables hold whatever is deleted while a request,
\* a tick or a job is between two statements (migrations.go, version 5).
ReferentialIntegrity ==
  /\ \A s \in Schedules : LiveSchedule(s) => LiveAgent(sched[s].agent)
  /\ \A j \in Jobs : LiveJob(j) =>
       /\ LiveAgent(job[j].agent)
       /\ job[j].schedule # None => LiveSchedule(job[j].schedule)

\* Two boundaries stand between an operator's input and a packet: an agent only
\* ever probes nets of its own allowlist that were also on its registered
\* allowlist at some moment at which it was active, although enqueue validates
\* against a row that may change before the job is sent.
ProbesAuthorised ==
  \A a \in Agents : probed[a] \subseteq Own[a] \cap granted[a]

\* RunDueSchedules attempts a schedule once each time it falls due; only a crash
\* or a failed MarkScanScheduleRan makes it attempt the same period again.
OneAttemptPerPeriod ==
  \A s \in Schedules : attempts[s] <= periods[s] + faults

\* Without crashes and failed statements, a job that is not finished is always
\* somebody's: its goroutine is at work, or its creator is about to start it.
UnfinishedJobOwned ==
  faults = 0 =>
    \A j \in Jobs : LiveJob(j) /\ job[j].status \notin Terminal =>
      \/ run[j].pc \in Working
      \/ \E c \in Callers : call[c].pc = "read" /\ call[c].job = j

\* The outcome on the schedule, the one in the audit log and the one on the job
\* row never contradict each other, as long as the job's own write succeeded.
RecordsAgree ==
  \A j \in Jobs : LiveJob(j) /\ ~run[j].unsaved =>
    /\ \A s \in Schedules :
         sched[s].lastJob = j /\ sched[s].lastStatus \in Terminal =>
           sched[s].lastStatus = job[j].status
    /\ "completed" \in audit[j] => job[j].status = "succeeded"
    /\ "failed" \in audit[j] => job[j].status \in {"failed", "rejected"}

\* run implements the life of a job that ScanJobLifecycle describes: statuses
\* only move forward, a result is written once, and every write of a goroutine
\* whose row is gone is lost.
Lifecycle == INSTANCE ScanJobLifecycle WITH
  state <- [j \in Jobs |-> IF LiveJob(j) THEN job[j].status ELSE job[j].row]
JobLifecycle == Lifecycle!Spec

\* A job whose goroutine starts is finished, unless the process crashes, its
\* result cannot be written or its row is deleted: run has no way to hang.
JobResolves ==
  \A j \in Jobs : run[j].pc = "start" ~>
    \/ ~LiveJob(j)
    \/ job[j].status \in Terminal
    \/ run[j].pc = "lost"
    \/ run[j].unsaved

\* A schedule that stays due, enabled and inside its window is taken up by the
\* scheduler, whatever became of its earlier jobs.  (At "insert" the scheduler
\* of the model may wait for a job id when MaxJobs are used up.)
DueScheduleAttempted ==
  \A s \in Schedules : []<>(\/ s \notin DueNow
                            \/ call[Scheduler].schedule = s
                            \/ call[Scheduler].pc = "insert")

\* LastRunStatus "is the outcome of the most recent attempt": when every
\* goroutine of a schedule has ended and no write failed, its last_job_id is its
\* newest job, or none.
LastRunIsMostRecent ==
  \A s \in Schedules, j \in Jobs :
    /\ faults = 0
    /\ sched[s].lastJob = j
    /\ \A k \in Jobs : run[k].schedule = s => run[k].pc \notin Working
    => \A k \in Jobs : run[k].schedule = s => k <= j
=============================================================================
