------------------------ MODULE ManagementProperties ------------------------
(* What must hold of the controller together with project registration. *)
EXTENDS Management, CoreProperties

\* Writes are open only when no registry change is in doubt: one change at a
\* time is pending, and under an open gate it is the one its job is waiting for
\* (project_management.py change, reconcile_changes).
OneChangeOpen ==
    /\ \A i \in Pending : i = Len(changes)
    /\ gate = "ready" /\ Pending # {} => worker.job \in {"change", "down"}

\* A change is recorded as completed only if the host made it, under whatever
\* losses, late executions and crashes: the host has since then only gone on
\* to later changes of that project (project_management.py _commit).
CompletedIsReal ==
    \A i \in DOMAIN changes :
        changes[i].status = "completed" => registry[changes[i].project].ref >= i

\* A change recorded as failed was not made: tests/test_project_management.py
\* test_wakeup_failure_does_not_report_successful_registration_as_failed.
FailedIsUnmade ==
    \A i \in DOMAIN changes :
        changes[i].status = "failed" => registry[changes[i].project].ref # i

\* While no change is in doubt the catalog that authorises every write is the
\* registry of the host.
CatalogIsRegistry ==
    Pending = {} /\ worker.job # "down" =>
        /\ seen.rev = hostRev
        /\ \A p \in Project : /\ catalog[p].active = registry[p].active
                              /\ catalog[p].policy = registry[p].policy

\* The schedule holds registered projects only: a removal takes its project out
\* of it, also when its answer was lost and a reconciliation found it out.
TargetsServed == Pending = {} /\ worker.job # "down" => targets \subseteq Active

\* An approval that waits is for a project still registered, also when it was
\* prepared while the project was being removed.
ApprovalsServed == Pending = {} => \A plan \in plans : plan.project \in Active

\* A first check that waits is for a project still registered.
QueuedServed ==
    Pending = {} /\ worker.job # "down" =>
        \A i \in Queued : changes[i].project \in Active

\* A first check only advances: once claimed it is never queued again, and a
\* result is final, over crashes, restarts and reconciliations.
CheckRank(c) == CASE c.status = "none"    -> 0
                  [] c.status = "pending" -> 1
                  [] c.status = "running" -> 2
                  [] c.status = "unknown" -> 3
                  [] OTHER                -> 4
CheckOnlyAdvances ==
    [][\A i \in DOMAIN checks : \/ checks'[i] = checks[i]
                                \/ CheckRank(checks'[i]) > CheckRank(checks[i])
                                \/ checks[i].op = 0 /\ checks'[i].op # 0]_all

\* Writes are open only when every dispatched first check says what became of
\* its operation: none is left running or unknown behind a settled operation.
CheckTellsOperation ==
    gate = "ready" /\ Free =>
        \A i \in DOMAIN checks :
            /\ checks[i].status \notin {"running", "unknown"}
            /\ checks[i].op # 0 => checks[i].status = ops[checks[i].op].status

\* An enrollment's first check is not forgotten: if from some time on writes
\* stay open, every queued check is taken up, also that of a project paused
\* meanwhile, and beside rounds that keep falling due.
ChecksServed == <>[](gate = "ready") => []<>(Queued = {})

=============================================================================
