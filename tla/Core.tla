-------------------------------- MODULE Core --------------------------------
(***************************************************************************)
(* The controller of the maintenance center (maintenance_center/core.py):  *)
(* the durable write gate, the schedule, project pauses with their single  *)
(* automatic retry, the operation table, manual approvals, the scheduled   *)
(* round and reconciliation.                                               *)
(*                                                                         *)
(* One job at a time holds the execution lock (Core._execution, always     *)
(* taken without blocking); `worker' is that job with its local variables. *)
(* Everything else (configure, resume, reject, the planning part of a      *)
(* manual check) is a short database transaction of another thread and     *)
(* interleaves with every step of the worker. The gateway is an            *)
(* environment that may answer anything its type allows.                   *)
(*                                                                         *)
(* Simplifications:                                                        *)
(*  - A request id is the index of the operation in `ops'; an approval     *)
(*    token, its plan reference and its operation_ref are one number.      *)
(*  - Time is nextRun: "later" (a due time ahead) or "due". A plan may     *)
(*    have expired at any check of it.                                     *)
(*  - Of all schedule reports only the latest is kept; audit rows other    *)
(*    than retry_exhausted, texts, versions and captured logs are left out. *)
(*  - prepare_manual's call of reconcile() is the action Reconcile          *)
(*    followed by Prepare: it takes the same lock for the same steps.       *)
(*  - The adapter is always compose, so "update" is the only action.       *)
(***************************************************************************)
EXTENDS Naturals, Sequences, FiniteSets

CONSTANTS
    Project,      \* project identifiers
    Thread,       \* request threads that make and decide manual plans
    NoProject,    \* "no project" in a local variable
    Policies,     \* update policies the catalog may hold
    MaxRevision,  \* bound: changes of the schedule
    MaxPlans      \* bound: plans of the gateway that reach a claim or approval

ASSUME ProjectAssumption == NoProject \notin Project
ASSUME PolicyAssumption  == Policies \subseteq {"auto", "manual", "notify"}
ASSUME BoundAssumption   == MaxRevision \in Nat /\ MaxPlans \in Nat

VARIABLES
    catalog,    \* gateway.catalog: activity and policy of each project
    gate,       \* control.gate: writes are allowed only when "ready"
    revision,   \* control.revision
    enabled,    \* control.enabled
    targets,    \* control.targets
    nextRun,    \* control.next_run against the clock
    pause,      \* project_pause: event_ref and retry_used, NotPaused for no row
    ops,        \* operations, in the order of their insertion
    exhausted,  \* request ids with a retry_exhausted audit row
    report,     \* the latest row of schedule_reports
    plans,      \* Core._plans (memory): plans awaiting approval
    planner,    \* prepare_manual in each thread (memory)
    worker,     \* holder of Core._execution and its locals (memory)
    startup,    \* Core._startup (memory)
    issued      \* tokens handed out by the gateway

schedule  == <<revision, enabled, targets, nextRun>>
control   == <<gate, schedule>>
facts     == <<pause, ops, exhausted>>
durable   == <<control, facts, report>>
memory    == <<plans, planner, startup>>
vars      == <<catalog, durable, memory, worker, issued>>

-----------------------------------------------------------------------------
Terminal   == {"succeeded", "failed"}
Unfinished == {"running", "unknown"}
Gate       == {"startup", "reconciling", "ready", "planning_unavailable",
               "operation_uncertain", "registry_change_unknown"}
Item       == {"absent", "not_checked", "no_update", "recovered_no_update",
               "retry_failed", "paused", "update_available", "check_failed"}
              \cup Terminal \cup {"unknown"}
\* The jobs that take the lock; "change" and "initial" are those of Management.
Job        == {"none", "down", "boot", "reconcile", "approve", "round",
               "change", "initial"}
Pc         == {"idle", "rec_start", "rec", "begin", "loop", "plan", "claim",
               "apply", "retry_claim", "retry_check", "retry_report", "tail",
               "broken", "close", "request", "commit", "next", "store"}

\* Gates that a due round or a manual check tries to lift by reconciling.
Bug_Transient == {"reconciling"}
Transient     == {"planning_unavailable", "reconciling"}

NotPaused  == [ref |-> 0, used |-> FALSE]
NoReport   == [open |-> FALSE, first |-> 1, item |-> [p \in Project |-> "absent"]]
NoPlanner  == [project |-> NoProject, rev |-> 0]
Idle       == [job |-> "none", pc |-> "idle", ret |-> "idle",
               project |-> NoProject, token |-> 0, rev |-> 0, retry |-> 0,
               todo |-> {}, recover |-> FALSE]

Active     == {p \in Project : catalog[p].active}
Paused(p)  == pause[p].ref # 0
Unresolved == {i \in DOMAIN ops : ops[i].status \in Unfinished}
Serving    == worker.job \notin {"down", "boot"}
Free       == worker.job = "none"
At(pc)     == worker.pc = pc

Policy(p)  == catalog[p].policy

Operation == [project: Project, actor: {"manual", "schedule"},
              status: Terminal \cup Unfinished, token: Nat, retryOf: Nat]
Plan      == [project: Project, token: Nat, rev: Nat]
Worker    == [job: Job, pc: Pc, ret: Pc, project: Project \cup {NoProject},
              token: Nat, rev: Nat, retry: Nat, todo: SUBSET Project,
              recover: BOOLEAN]

TypeOK ==
    /\ catalog \in [Project -> [active: BOOLEAN, policy: Policies]]
    /\ gate \in Gate
    /\ revision \in Nat
    /\ enabled \in BOOLEAN
    /\ targets \in SUBSET Project
    /\ nextRun \in {"none", "later", "due"}
    /\ pause \in [Project -> [ref: Nat, used: BOOLEAN]]
    /\ ops \in Seq(Operation)
    /\ exhausted \in SUBSET Nat
    /\ report \in [open: BOOLEAN, first: Nat, item: [Project -> Item]]
    /\ plans \in SUBSET Plan
    /\ planner \in [Thread -> [project: Project \cup {NoProject}, rev: Nat]]
    /\ worker \in Worker
    /\ startup \in BOOLEAN
    /\ issued \in Nat

-----------------------------------------------------------------------------
(* A fresh database: the controller is down and nothing is scheduled. *)
Init ==
    /\ catalog \in [Project -> [active: {TRUE}, policy: Policies]]
    /\ gate = "startup" /\ revision = 0 /\ enabled = FALSE
    /\ targets = {} /\ nextRun = "none"
    /\ pause = [p \in Project |-> NotPaused]
    /\ ops = <<>> /\ exhausted = {} /\ report = NoReport
    /\ plans = {} /\ planner = [t \in Thread |-> NoPlanner]
    /\ worker = [Idle EXCEPT !.job = "down"]
    /\ startup = TRUE /\ issued = 0

(* The process ends at any point; only the database survives. *)
Crash ==
    /\ worker.job # "down"
    /\ plans' = {} /\ planner' = [t \in Thread |-> NoPlanner]
    /\ worker' = [Idle EXCEPT !.job = "down"]
    /\ startup' = TRUE
    /\ UNCHANGED <<catalog, durable, issued>>

(* Core.__init__, then the reconciliation of the web lifespan: nothing is  *)
(* served and nothing is scheduled before that reconciliation returns.     *)
Bug_Interrupted(o) == IF o.status = "running" THEN [o EXCEPT !.status = "interrupted"] ELSE o
Interrupted(o) == IF o.status = "running" THEN [o EXCEPT !.status = "unknown"] ELSE o

Restart ==
    /\ worker.job = "down"
    /\ gate' = "startup"
    /\ ops' = [i \in DOMAIN ops |-> Interrupted(ops[i])]
    /\ worker' = [Idle EXCEPT !.job = "boot", !.pc = "rec_start"]
    /\ UNCHANGED <<catalog, schedule, pause, exhausted, report, memory, issued>>

-----------------------------------------------------------------------------
(* Requests that hold no execution lock. *)

(* configure: the expected revision is compared in the same transaction, so *)
(* the request either acts on the current schedule or is refused.           *)
Configure(T, on) ==
    /\ Serving
    /\ revision < MaxRevision
    /\ T \subseteq Active
    /\ on => T # {}
    /\ revision' = revision + 1
    /\ targets' = T /\ enabled' = on
    /\ nextRun' = IF on THEN "later" ELSE "none"
    /\ plans' = {}
    /\ UNCHANGED <<catalog, gate, facts, report, planner, worker, startup, issued>>

(* resume_project with the event the administrator was shown. *)
Resume(p, ref) ==
    /\ Serving
    /\ gate = "ready"
    /\ p \in Active
    /\ Paused(p) /\ pause[p].ref = ref
    /\ pause' = [pause EXCEPT ![p] = NotPaused]
    /\ UNCHANGED <<catalog, control, ops, exhausted, report, memory, worker, issued>>

\* An approval leaves the table before it is used.
Bug_Popped(plan) == plans
Popped(plan)     == plans \ {plan}

Reject(plan) ==
    /\ Serving
    /\ plan \in plans
    /\ plans' = plans \ {plan}
    /\ UNCHANGED <<catalog, durable, planner, startup, worker, issued>>

(* prepare_manual up to its gateway call. *)
Prepare(t, p) ==
    /\ Serving
    /\ planner[t] = NoPlanner
    /\ p \in Active
    /\ gate = "ready"
    /\ planner' = [planner EXCEPT ![t] = [project |-> p, rev |-> revision]]
    /\ UNCHANGED <<catalog, durable, plans, startup, worker, issued>>

(* The answer to prepare_manual: a plan becomes an approval only when the  *)
(* gate and the revision are still those the check started from.           *)
Bug_StillCurrent(t) == gate = "ready"
StillCurrent(t)     == gate = "ready" /\ revision = planner[t].rev

Prepared(t, answer) ==
    LET p == planner[t].project
        keep == answer = "plan" /\ Policy(p) # "notify" /\ StillCurrent(t)
    IN  /\ p # NoProject
        /\ keep => issued < MaxPlans
        /\ issued' = IF keep THEN issued + 1 ELSE issued
        /\ plans' = IF keep
                    THEN plans \cup {[project |-> p, token |-> issued + 1,
                                      rev |-> planner[t].rev]}
                    ELSE plans
        /\ planner' = [planner EXCEPT ![t] = NoPlanner]
        /\ UNCHANGED <<catalog, durable, startup, worker>>

(* The due time of an enabled schedule passes. *)
Tick ==
    /\ nextRun = "later"
    /\ nextRun' = "due"
    /\ UNCHANGED <<catalog, gate, revision, enabled, targets, facts, report, memory, worker, issued>>

-----------------------------------------------------------------------------
(* The record of an operation's result (_finish) and what it does to the   *)
(* gate, the waiting approvals and the project's pause.                    *)
\* A failure while paused inherits the retry already spent.
Bug_RetryUsed(p, scope) == scope # "project"
RetryUsed(p, scope)     == IF Paused(p) THEN pause[p].used ELSE scope # "project"

Finish(i, status, scope) ==
    LET p    == ops[i].project
        used == RetryUsed(p, scope)
        shut == status = "unknown" \/ scope = "common"
    IN  /\ ops' = [ops EXCEPT ![i].status = status]
        /\ gate' = IF shut THEN "operation_uncertain" ELSE gate
        /\ plans' = IF shut THEN {} ELSE plans
        /\ pause' = CASE status = "failed"    -> [pause EXCEPT ![p] = [ref |-> i, used |-> used]]
                      [] status = "succeeded" -> [pause EXCEPT ![p] = NotPaused]
                      [] OTHER                -> pause
        /\ exhausted' = IF status = "failed" /\ used THEN exhausted \cup {i} ELSE exhausted

ReportItem(p, status) ==
    report' = IF report.item[p] = "absent" THEN report
              ELSE [report EXCEPT !.item[p] = status]

-----------------------------------------------------------------------------
(* Reconciliation (_reconcile_locked). *)

Reconcile ==
    /\ Free
    /\ worker' = [Idle EXCEPT !.job = "reconcile", !.pc = "rec_start"]
    /\ UNCHANGED <<catalog, durable, memory, issued>>

\* The round goes on with the projects it has left, or ends.
Bug_Rest(p) == worker.todo
Rest(p)     == worker.todo \ {p}

After(p) == [worker EXCEPT !.pc = "loop", !.project = NoProject, !.token = 0,
                           !.retry = 0, !.todo = Rest(p)]
EndRound == [worker EXCEPT !.pc = "tail", !.project = NoProject, !.token = 0,
                           !.todo = {}]

Bug_Released == [worker EXCEPT !.pc = "idle"]
Released     == Idle

\* Where the job that called the reconciliation goes on, with its result.
Returned(ok) ==
    CASE worker.ret = "begin" -> [worker EXCEPT !.pc = "begin"]
      [] worker.ret = "loop"  -> IF ok THEN [worker EXCEPT !.pc = "loop"] ELSE EndRound
      [] worker.ret = "close" -> [worker EXCEPT !.pc = "close"]
      [] OTHER                -> Released

\* No registry change is pending: all writes stop while the host is asked.
ReconcileStart ==
    /\ At("rec_start")
    /\ gate' = "reconciling" /\ plans' = {}
    /\ worker' = [worker EXCEPT !.pc = "rec"]
    /\ UNCHANGED <<catalog, schedule, facts, report, planner, startup, issued>>

\* The host names the pending operation and its final result ...
ReconcileMatched(i, status) ==
    /\ At("rec")
    /\ i \in Unresolved
    /\ status \in Terminal
    /\ Finish(i, status, "project")
    /\ UNCHANGED <<catalog, schedule, report, planner, startup, worker, issued>>

\* ... or fails, is still busy, or answers with some other operation.
ReconcileUnmatched(i) ==
    /\ At("rec")
    /\ i \in Unresolved
    /\ worker' = Returned(FALSE)
    /\ UNCHANGED <<catalog, durable, memory, issued>>

\* Nothing is unresolved: silent spent retries are announced, writes resume.
Bug_MayReopen == TRUE
MayReopen     == Unresolved = {}

\* Rounds cut short by the end of the process are closed at the first chance.
Bug_ClosedReport == report
ClosedReport     == IF startup THEN [report EXCEPT !.open = FALSE] ELSE report

ReconcileDone ==
    /\ At("rec")
    /\ MayReopen
    /\ gate' = "ready"
    /\ exhausted' = exhausted \cup {pause[p].ref : p \in {q \in Project : Paused(q) /\ pause[q].used}}
    /\ report' = ClosedReport
    /\ nextRun' = IF startup /\ enabled /\ nextRun = "none" THEN "later" ELSE nextRun
    /\ startup' = FALSE
    /\ worker' = Returned(TRUE)
    /\ UNCHANGED <<catalog, revision, enabled, targets, pause, ops, plans, planner, issued>>

-----------------------------------------------------------------------------
(* Approval and dispatch (approve, _apply). *)

Approve(plan) ==
    /\ Free
    /\ plan \in plans
    /\ plans' = Popped(plan)
    /\ worker' = [Idle EXCEPT !.job = "approve", !.pc = "claim",
                              !.project = plan.project, !.token = plan.token,
                              !.rev = plan.rev]
    /\ UNCHANGED <<catalog, durable, planner, startup, issued>>

Automatic == worker.job = "round"

\* What the dispatch transaction re-reads before it claims the operation.
Bug_MayDispatch(p) == p \in Active /\ gate = "ready"
MayDispatch(p) ==
    /\ p \in Active
    /\ Policy(p) # "notify"
    /\ gate = "ready"
    /\ revision = worker.rev
    /\ Automatic => /\ enabled
                    /\ p \in targets
                    /\ Policy(p) = "auto"
                    /\ Paused(p) => worker.retry = pause[p].ref /\ pause[p].used
    /\ worker.retry # 0 => pause[p].ref = worker.retry

Claim ==
    LET p == worker.project
    IN  /\ At("claim")
        /\ MayDispatch(p)
        /\ ops' = Append(ops, [project |-> p,
                               actor   |-> IF Automatic THEN "schedule" ELSE "manual",
                               status  |-> "running",
                               token   |-> worker.token,
                               retryOf |-> worker.retry])
        /\ worker' = [worker EXCEPT !.pc = "apply"]
        /\ UNCHANGED <<catalog, control, pause, exhausted, report, memory, issued>>

\* Refused by a check of the claim, or because the plan has expired.
ClaimRefused ==
    /\ At("claim")
    /\ worker' = CASE worker.job = "round" /\ worker.retry = 0 -> EndRound
                   [] worker.job = "round" /\ worker.retry # 0 -> [worker EXCEPT !.pc = "retry_report"]
                   [] worker.job = "initial"                   -> [worker EXCEPT !.pc = "store"]
                   [] OTHER                                    -> Idle
    /\ exhausted' = IF worker.retry # 0 THEN exhausted \cup {worker.retry} ELSE exhausted
    /\ UNCHANGED <<catalog, control, pause, ops, report, memory, issued>>

\* Where a job goes on after the gateway has answered its dispatch.
Dispatched(status) ==
    CASE worker.job = "round"   -> IF status = "unknown" /\ worker.retry = 0
                                   THEN EndRound ELSE After(worker.project)
      [] worker.job = "initial" -> [worker EXCEPT !.pc = "store"]
      [] OTHER                  -> Idle

\* An exception of the gateway and a malformed answer are both "unknown".
ApplyReturns(status, scope) ==
    /\ At("apply")
    /\ status \in Terminal \cup {"unknown"}
    /\ Finish(Len(ops), status, scope)
    /\ IF worker.job = "round" THEN ReportItem(worker.project, status)
                               ELSE report' = report
    /\ worker' = Dispatched(status)
    /\ UNCHANGED <<catalog, schedule, planner, startup, issued>>

-----------------------------------------------------------------------------
(* The scheduled round (run_due). *)


\* A due round first tries to lift a transient gate.
RoundRecovers ==
    /\ Free
    /\ gate \in Transient /\ enabled /\ nextRun = "due"
    /\ worker' = [Idle EXCEPT !.job = "round", !.pc = "rec_start", !.ret = "begin"]
    /\ UNCHANGED <<catalog, durable, memory, issued>>

RoundMayBegin == gate = "ready" /\ enabled /\ nextRun = "due"
BeginsRound   == Free \/ (worker.job = "round" /\ At("begin"))

RoundBegin ==
    /\ BeginsRound
    /\ RoundMayBegin
    /\ report' = [open |-> TRUE, first |-> Len(ops) + 1,
                  item |-> [p \in Project |-> IF p \in targets \cap Active
                                              THEN "not_checked" ELSE "absent"]]
    /\ nextRun' = "later"
    /\ worker' = [Idle EXCEPT !.job = "round", !.pc = "loop", !.rev = revision,
                              !.todo = Active]
    /\ UNCHANGED <<catalog, gate, revision, enabled, targets, facts, memory, issued>>

RoundDeclined ==
    /\ worker.job = "round" /\ At("begin")
    /\ ~RoundMayBegin
    /\ worker' = Idle
    /\ UNCHANGED <<catalog, durable, memory, issued>>

RoundCurrent == gate = "ready" /\ revision = worker.rev

\* An iteration of the round reads the state once and acts on that reading.
LoopProject(p) ==
    /\ At("loop")
    /\ p \in worker.todo
    /\ RoundCurrent
    /\ \/ /\ p \notin targets
          /\ worker' = After(p)
          /\ report' = report
       \/ /\ p \in targets /\ Paused(p) /\ pause[p].used
          /\ worker' = After(p)
          /\ ReportItem(p, "paused")
       \/ /\ p \in targets /\ Paused(p) /\ ~pause[p].used
          /\ worker' = [worker EXCEPT !.pc = "retry_claim", !.project = p,
                                      !.retry = pause[p].ref]
          /\ report' = report
       \/ /\ p \in targets /\ ~Paused(p)
          /\ worker' = [worker EXCEPT !.pc = "plan", !.project = p]
          /\ report' = report
    /\ UNCHANGED <<catalog, control, facts, memory, issued>>

\* The gate closed by the round's own failed check is lifted by the host, any
\* other change of gate or revision ends the round.
LoopInterrupted ==
    /\ At("loop")
    /\ worker.todo # {}
    /\ ~RoundCurrent
    /\ worker' = IF gate = "planning_unavailable" /\ revision = worker.rev /\ enabled
                 THEN [worker EXCEPT !.pc = "rec_start", !.ret = "loop"]
                 ELSE EndRound
    /\ UNCHANGED <<catalog, durable, memory, issued>>

LoopDone ==
    /\ At("loop")
    /\ worker.todo = {}
    /\ worker' = EndRound
    /\ UNCHANGED <<catalog, durable, memory, issued>>

\* The gateway's answer to the plan of a round.
PlanFound ==
    LET p == worker.project
    IN  /\ worker.job = "round" /\ At("plan")
        /\ \/ /\ Policy(p) = "auto"
              /\ issued < MaxPlans
              /\ issued' = issued + 1
              /\ worker' = [worker EXCEPT !.pc = "claim", !.token = issued + 1]
              /\ report' = report
           \/ /\ Policy(p) # "auto"
              /\ ReportItem(p, "update_available")
              /\ worker' = After(p)
              /\ issued' = issued
        /\ UNCHANGED <<catalog, control, facts, memory>>

PlanNone(item) ==
    /\ worker.job = "round" /\ At("plan")
    /\ item \in {"no_update", "check_failed"}
    /\ ReportItem(worker.project, item)
    /\ worker' = After(worker.project)
    /\ UNCHANGED <<catalog, control, facts, memory, issued>>

\* The check breaks off: first the project's item is written ...
PlanBroken(outage) ==
    /\ worker.job = "round" /\ At("plan")
    /\ ReportItem(worker.project, "check_failed")
    /\ worker' = [After(worker.project) EXCEPT !.pc = "broken", !.recover = ~outage]
    /\ UNCHANGED <<catalog, control, facts, memory, issued>>

\* ... then all writes stop. A shared outage (OSError, TimeoutError) ends the
\* round; any other error leaves the gate to be lifted before the next project.
ChecksStop ==
    /\ At("broken")
    /\ gate' = "planning_unavailable" /\ plans' = {}
    /\ worker' = IF worker.recover THEN [worker EXCEPT !.pc = "loop"] ELSE EndRound
    /\ UNCHANGED <<catalog, schedule, facts, report, planner, startup, issued>>

\* The durable one-shot claim of a project's retry.
MayRetry(p) ==
    /\ gate = "ready" /\ revision = worker.rev /\ enabled /\ p \in targets
    /\ pause[p].ref = worker.retry /\ ~pause[p].used

Spent(p) == [pause EXCEPT ![p].used = TRUE]

RetryClaim ==
    LET p == worker.project
    IN  /\ At("retry_claim")
        /\ pause' = IF MayRetry(p) THEN Spent(p) ELSE pause
        /\ worker' = [worker EXCEPT !.pc = IF MayRetry(p) THEN "retry_check" ELSE "retry_report"]
        /\ UNCHANGED <<catalog, control, ops, exhausted, report, memory, issued>>

\* The retried project is unhealthy, or health or plan could not be read.
RetryCheckFails ==
    /\ At("retry_check")
    /\ exhausted' = exhausted \cup {worker.retry}
    /\ worker' = [worker EXCEPT !.pc = "retry_report"]
    /\ UNCHANGED <<catalog, control, pause, ops, report, memory, issued>>

\* Healthy and nothing to update: the pause is lifted if nothing moved.
RetryNoUpdate ==
    LET p == worker.project
    IN  /\ At("retry_check")
        /\ pause' = IF RoundCurrent /\ pause[p].ref = worker.retry
                    THEN [pause EXCEPT ![p] = NotPaused] ELSE pause
        /\ worker' = [worker EXCEPT !.pc = "retry_report"]
        /\ UNCHANGED <<catalog, control, ops, exhausted, report, memory, issued>>

RetryPlanned ==
    /\ At("retry_check")
    /\ issued < MaxPlans
    /\ issued' = issued + 1
    /\ worker' = [worker EXCEPT !.pc = "claim", !.token = issued + 1]
    /\ UNCHANGED <<catalog, durable, memory>>

\* A retry that dispatched nothing is reported by what the pause row says now.
RetryReport ==
    LET p == worker.project
    IN  /\ At("retry_report")
        /\ ReportItem(p, IF Paused(p) THEN "retry_failed" ELSE "recovered_no_update")
        /\ worker' = After(p)
        /\ UNCHANGED <<catalog, control, facts, memory, issued>>

\* The last project may have failed its check with no iteration left.
TailRecovers ==
    /\ worker.recover /\ gate = "planning_unavailable"
    /\ revision = worker.rev /\ enabled

RoundTail ==
    /\ At("tail")
    /\ TailRecovers
    /\ worker' = [worker EXCEPT !.pc = "rec_start", !.ret = "close"]
    /\ UNCHANGED <<catalog, durable, memory, issued>>

RoundClose ==
    /\ At("close") \/ (At("tail") /\ ~TailRecovers)
    /\ report' = [report EXCEPT !.open = FALSE]
    /\ worker' = Idle
    /\ UNCHANGED <<catalog, control, facts, memory, issued>>

-----------------------------------------------------------------------------
ReconcileStep ==
    \/ ReconcileStart
    \/ \E i \in DOMAIN ops : \/ \E s \in Terminal : ReconcileMatched(i, s)
                             \/ ReconcileUnmatched(i)
    \/ ReconcileDone

DispatchStep ==
    \/ Claim
    \/ ClaimRefused
    \/ \E s \in Terminal \cup {"unknown"}, c \in {"project", "common"} : ApplyReturns(s, c)

RoundStep ==
    \/ RoundBegin
    \/ RoundDeclined
    \/ \E p \in Project : LoopProject(p)
    \/ LoopInterrupted
    \/ LoopDone
    \/ PlanFound
    \/ \E item \in {"no_update", "check_failed"} : PlanNone(item)
    \/ \E outage \in BOOLEAN : PlanBroken(outage)
    \/ ChecksStop
    \/ RetryClaim
    \/ RetryCheckFails
    \/ RetryNoUpdate
    \/ RetryPlanned
    \/ RetryReport
    \/ RoundTail
    \/ RoundClose

\* The steps of whoever holds the execution lock.
WorkerStep == ReconcileStep \/ DispatchStep \/ (~Free /\ RoundStep)

\* A thread checks a project by hand, or decides on a plan of some such check.
Manual(t) ==
    \/ \E p \in Project : Prepare(t, p)
    \/ \E answer \in {"plan", "other"} : Prepared(t, answer)
    \/ \E plan \in plans : Reject(plan)
    \/ \E plan \in plans : Approve(plan)

Request ==
    \/ \E T \in SUBSET Project, on \in BOOLEAN : Configure(T, on)
    \/ \E p \in Project : Paused(p) /\ Resume(p, pause[p].ref)
    \/ \E t \in Thread : Manual(t)
    \/ Reconcile

Next ==
    \/ Crash
    \/ Restart
    \/ Request
    \/ Tick
    \/ RoundRecovers
    \/ ReconcileStep
    \/ DispatchStep
    \/ RoundStep

Spec == Init /\ [][Next]_vars

(* Fairness: every gateway call ends (180 s, 25200 s for an apply), so the  *)
(* lock holder always goes on; the service manager restarts the process;    *)
(* the clock moves; the scheduler wakes every 30 s.                         *)
Fairness ==
    /\ WF_vars(WorkerStep)
    /\ WF_vars(Restart)
    /\ WF_vars(Tick)
    /\ WF_vars(RoundRecovers)
    /\ WF_vars(RoundBegin)

FairSpec == Spec /\ Fairness

=============================================================================
