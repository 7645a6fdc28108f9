--------------------------- MODULE CoreProperties ---------------------------
(* What must hold of the controller. *)
EXTENDS Core

\* Writes are open only when every earlier operation has a final result: the
\* one operation that may be unresolved under an open gate is the one its
\* worker is waiting for, or was when the process died; a restart closes the
\* gate (core.py __init__, _apply, _finish, _reconcile_locked).
ReadyMeansResolved ==
    gate = "ready" => \A i \in Unresolved : /\ i = Len(ops)
                                            /\ ops[i].status = "running"
                                            /\ (At("apply") \/ worker.job = "down")

\* A round updates only what the schedule in force at that moment asks for,
\* whatever was configured, resumed or closed since it read the state: the
\* project is served, on an enabled schedule and on automatic policy, the
\* round's report names it and says nothing of it yet, and a paused project is
\* updated only as the retry of the failure that paused it, the first one ever
\* of that failure, over deaths and reconciliations (core.py run_due,
\* _retry_paused, the transaction of _apply).
ScheduleObeyed ==
    [][LET o == ops'[Len(ops')]
       IN  Len(ops') > Len(ops) /\ o.actor = "schedule" =>
               /\ enabled /\ o.project \in targets \cap Active
               /\ Policy(o.project) = "auto"
               /\ report.item[o.project] = "not_checked"
               /\ o.retryOf = pause[o.project].ref
               /\ o.retryOf # 0 => \A i \in DOMAIN ops : ops[i].retryOf # o.retryOf]_vars

\* An approval waiting for its administrator was prepared under the schedule
\* and the gate of this moment: no change of either leaves an older one behind
\* (core.py prepare_manual, configure, _pause_all, _finish).
PlansAreCurrent ==
    plans # {} => gate = "ready" /\ \A plan \in plans : plan.rev = revision

\* A plan of the gateway is executed at most once, over approvals, rounds,
\* crashes and restarts: no two operations carry one token, and a token that
\* was dispatched is neither waiting for approval nor about to be dispatched.
TokenOnce ==
    /\ \A i, j \in DOMAIN ops : ops[i].token = ops[j].token => i = j
    /\ \A i \in DOMAIN ops : \A plan \in plans : ops[i].token # plan.token
    /\ At("claim") => \A i \in DOMAIN ops : ops[i].token # worker.token

\* A failure is retried automatically at most once: a project whose retry is
\* spent gets it back only when its pause is lifted. A death in the middle of
\* the retry, its failure, a manual update that fails, reconciled results and
\* restarts keep it spent (core.py _retry_paused, "durable one-shot", _finish).
SpentStaysSpent ==
    [][\A p \in Project : pause[p].used /\ pause'[p].ref # 0 => pause'[p].used]_vars

RoundOps(p) == {i \in DOMAIN ops : /\ i >= report.first
                                   /\ ops[i].project = p
                                   /\ ops[i].actor = "schedule"}

\* What the round's report says of a project is what the round did to it: a
\* result only for an operation of this round with that result (an unknown one
\* may have been settled since), a check, pause or retry outcome only when the
\* round dispatched nothing, and never two operations for one project.
ReportHonest ==
    \A p \in Project :
        /\ Cardinality(RoundOps(p)) <= 1
        /\ report.item[p] \in Terminal =>
               \E i \in RoundOps(p) : ops[i].status = report.item[p]
        /\ report.item[p] = "unknown" =>
               \E i \in RoundOps(p) : ops[i].status # "running"
        /\ report.item[p] \notin Terminal \cup {"unknown", "not_checked"} =>
               RoundOps(p) = {}

\* An unfinished report is that of the round in progress, or was left by a dead
\* process and is closed before writes resume: no round starts over another.
OpenReportOwned ==
    report.open => startup \/ (worker.job = "round" /\ worker.pc # "begin")

\* Whoever takes the execution lock gives it back (or the process ends), on
\* every path through gateway failures and nested reconciliations.
ExecutionReleased == ~Free ~> (Free \/ worker.job = "down")

\* core.py run_due: "A previous read-only planning failure must not suppress
\* every future schedule wake." Under an enabled schedule the gate does not
\* stay closed by a failed check.
PlanningGateLifted ==
    (gate = "planning_unavailable" /\ enabled) ~> (gate # "planning_unavailable" \/ ~enabled)

\* notices.py text: a "retry_failed" item tells the administrator that the
\* project "needs manual recovery"; then no automatic retry may be left to it.
RetryFailedIsFinal ==
    \A p \in Project :
        report.open /\ report.item[p] = "retry_failed" /\ Paused(p) => pause[p].used

\* Every retry that was used up without lifting the pause is announced by a
\* retry_exhausted audit row once its round is over.
SpentRetryAnnounced ==
    Free /\ gate = "ready" =>
        \A p \in Project : Paused(p) /\ pause[p].used => pause[p].ref \in exhausted

(* What the controller promises about operations: OperationLedger. *)
RowsOf(table) == [i \in DOMAIN table |-> [project |-> table[i].project,
                                          status  |-> table[i].status]]
OperationRows == RowsOf(ops)
Ledger     == INSTANCE OperationLedger WITH ledger <- OperationRows
LedgerSpec == Ledger!Spec

=============================================================================
