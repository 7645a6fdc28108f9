----------------------------- MODULE Management -----------------------------
(***************************************************************************)
(* Registration of projects (maintenance_center/project_management.py with *)
(* the catalog of managed_gateway.py) on top of the controller of Core:    *)
(* durable registry changes, and the one first check of each enrollment.   *)
(*                                                                         *)
(* The host's registry is the truth; the controller holds a copy of it     *)
(* (catalog, seen) that it refreshes at startup, after a change and while  *)
(* reconciling a change. One change request is on the wire at a time: it   *)
(* may be lost, refused, answered, or carried out after the controller has *)
(* stopped waiting for it (the transport kills only the local ssh).        *)
(*                                                                         *)
(* Simplifications: the request id of a change is its index in `changes',  *)
(* and the first check of an enrollment has the same index in `checks';    *)
(* why the host refuses a request is left open; reconcile_checks runs      *)
(* within the step that reopens the gate (a crash between the two leads to *)
(* the same states as a crash before both, since a restart shuts the gate).*)
(***************************************************************************)
EXTENDS Core

CONSTANTS
    MaxChanges,        \* bound: registry changes
    ListMayBeRefused   \* may the host refuse the list that follows a change?

ASSUME ChangeAssumption == MaxChanges \in Nat /\ ListMayBeRefused \in BOOLEAN

VARIABLES
    changes,   \* registry_changes
    checks,    \* initial_checks; status "none" where there is no row
    registry,  \* the host's registry: activity, policy, last_change_ref
    hostRev,   \* the host's registry revision
    seen,      \* gateway.registry_revision, and last_change_ref of each project
    wire,      \* the change request in flight
    initial    \* the first check in progress and its outcome (memory)

host  == <<registry, hostRev>>
rows  == <<changes, checks>>
extra == <<rows, host, seen, wire, initial>>
all   == <<vars, extra>>

Action     == {"enroll", "configure", "remove"}
NoCheck    == [status |-> "none", op |-> 0]
NoInitial  == [check |-> 0, outcome |-> "failed"]
NoWire     == [phase |-> "none", rev |-> 0, policy |-> "none"]
Pending    == {i \in DOMAIN changes : changes[i].status = "pending"}
Queued     == {i \in DOMAIN checks : checks[i].status = "pending"}

MTypeOK ==
    /\ TypeOK
    /\ changes \in Seq([project: Project, action: Action,
                        status: {"pending", "completed", "failed"}])
    /\ checks \in Seq([status: {"none", "pending", "running", "cancelled", "unknown"} \cup Terminal,
                       op: 0..Len(ops)])
    /\ registry \in [Project -> [active: BOOLEAN, policy: Policies, ref: 0..Len(changes)]]
    /\ hostRev \in Nat
    /\ seen \in [rev: 0..hostRev, ref: [Project -> 0..Len(changes)]]
    /\ wire \in [phase: {"none", "sent", "done", "refused"}, rev: Nat, policy: Policies \cup {"none"}]
    /\ initial \in [check: 0..Len(checks), outcome: Terminal]

-----------------------------------------------------------------------------
\* The copy of the registry that a successful list leaves in the controller.
Bug_Refresh ==
    /\ catalog' = [p \in Project |-> [catalog[p] EXCEPT !.active = registry[p].active]]
    /\ seen' = [rev |-> hostRev, ref |-> [p \in Project |-> registry[p].ref]]
Refresh ==
    /\ catalog' = [p \in Project |-> [active |-> registry[p].active, policy |-> registry[p].policy]]
    /\ seen' = [rev |-> hostRev, ref |-> [p \in Project |-> registry[p].ref]]

\* A new controller beside a host on which projects may be registered already.
MInit ==
    /\ Init
    /\ changes = <<>> /\ checks = <<>>
    /\ registry \in [Project -> [active: BOOLEAN, policy: Policies, ref: {0}]]
    /\ hostRev = 0 /\ wire = NoWire /\ initial = NoInitial
    /\ seen = [rev |-> 0, ref |-> [p \in Project |-> 0]]
    /\ \A p \in Project : catalog[p].policy = registry[p].policy

MCrash ==
    /\ Crash
    /\ initial' = NoInitial
    /\ UNCHANGED <<rows, host, seen, wire>>

\* A first check claimed but not dispatched when the process died has failed;
\* a dispatched one waits for its operation to be reconciled.
Bug_Abandoned(c) == IF c.status = "running" /\ c.op = 0 THEN [c EXCEPT !.status = "pending"] ELSE c
Abandoned(c)     == IF c.status = "running" /\ c.op = 0 THEN [c EXCEPT !.status = "failed"] ELSE c

MRestart ==
    /\ worker.job = "down"
    /\ Refresh
    /\ gate' = "startup"
    /\ ops' = [i \in DOMAIN ops |-> Interrupted(ops[i])]
    /\ checks' = [i \in DOMAIN checks |-> Abandoned(checks[i])]
    /\ worker' = [Idle EXCEPT !.job = "boot", !.pc = "rec_start"]
    /\ UNCHANGED <<schedule, pause, exhausted, report, memory, issued,
                   changes, host, wire, initial>>

-----------------------------------------------------------------------------
(* A change of the registry (change, _commit). *)

Change(p, action, policy) ==
    /\ Free
    /\ gate = "ready"
    /\ Unresolved = {}
    /\ Len(changes) < MaxChanges
    /\ changes' = Append(changes, [project |-> p, action |-> action, status |-> "pending"])
    /\ checks' = Append(checks, NoCheck)
    /\ wire' = [phase |-> "sent", rev |-> seen.rev,
                policy |-> IF action = "remove" THEN "none" ELSE policy]
    /\ worker' = [Idle EXCEPT !.job = "change", !.pc = "request"]
    /\ UNCHANGED <<catalog, durable, memory, issued, host, seen, initial>>

(* The host carries the request out, now or long after it was given up:    *)
(* the registry is still at the revision the request expects.              *)
HostApplies ==
    /\ wire.phase = "sent"
    /\ wire.rev = hostRev
    /\ LET id == Len(changes)
           c  == changes[id]
       IN  /\ registry[c.project].active = (c.action # "enroll")
           /\ registry' = [registry EXCEPT ![c.project] =
                  [active |-> c.action # "remove",
                   policy |-> IF c.action = "remove" THEN @.policy ELSE wire.policy,
                   ref    |-> id]]
    /\ hostRev' = hostRev + 1
    /\ wire' = [wire EXCEPT !.phase = "done"]
    /\ UNCHANGED <<vars, rows, seen, initial>>

HostRefuses ==
    /\ wire.phase = "sent"
    /\ wire' = [wire EXCEPT !.phase = "refused"]
    /\ UNCHANGED <<vars, rows, host, seen, initial>>

\* The answer arrived and so did the list after it.
ChangeAnswered ==
    /\ At("request") /\ wire.phase = "done"
    /\ Refresh
    /\ worker' = [worker EXCEPT !.pc = "commit"]
    /\ UNCHANGED <<durable, memory, issued, rows, host, wire, initial>>

\* Any refusal with a code of its own, be it of the change or of the list
\* after it, is taken for a change that was not made.
ChangeRefused ==
    /\ At("request")
    /\ wire.phase = "refused" \/ (wire.phase = "done" /\ ListMayBeRefused)
    /\ changes' = [changes EXCEPT ![Len(changes)].status = "failed"]
    /\ worker' = Released
    /\ UNCHANGED <<catalog, durable, memory, issued, checks, host, seen, wire, initial>>

\* No answer that can be trusted: the list alone may tell.
ChangeUncertain(listed) ==
    /\ At("request")
    /\ IF listed THEN Refresh ELSE UNCHANGED <<catalog, seen>>
    /\ worker' = [worker EXCEPT !.pc = "commit"]
    /\ UNCHANGED <<durable, memory, issued, rows, host, wire, initial>>

\* The registry names the change as the last one of its project.
Bug_Confirmed(i) == changes[i].action # "remove" => catalog[changes[i].project].active
Confirmed(i)     == seen.ref[changes[i].project] = i

\* The removed project leaves the schedule, an enrolled one joins it.
Bug_Targets(i) == IF changes[i].action = "enroll" THEN targets \cup {changes[i].project} ELSE targets
Targets(i) == (targets \cap Active) \cup
              IF changes[i].action = "enroll" THEN {changes[i].project} \cap Active ELSE {}

\* An enrollment queues its first check, a removal cancels those still queued.
Bug_Checks(i) == IF changes[i].action = "enroll" THEN [checks EXCEPT ![i].status = "pending"] ELSE checks
Checks(i) ==
    LET p == changes[i].project
    IN  IF ~catalog[p].active
        THEN [j \in DOMAIN checks |->
                 IF changes[j].project = p /\ checks[j].status = "pending"
                 THEN [checks[j] EXCEPT !.status = "cancelled"] ELSE checks[j]]
        ELSE IF changes[i].action = "enroll" THEN [checks EXCEPT ![i].status = "pending"] ELSE checks

Bug_NextRevision == revision
NextRevision     == revision + 1

CommitChange(i) ==
    /\ At("commit")
    /\ i \in Pending
    /\ Confirmed(i)
    /\ changes' = [changes EXCEPT ![i].status = "completed"]
    /\ targets' = Targets(i)
    /\ revision' = NextRevision
    /\ checks' = Checks(i)
    /\ pause' = IF catalog[changes[i].project].active THEN pause
                ELSE [pause EXCEPT ![changes[i].project] = NotPaused]
    /\ plans' = {}
    /\ worker' = IF worker.job = "change" THEN Released ELSE [worker EXCEPT !.pc = "rec_start"]
    /\ UNCHANGED <<catalog, gate, enabled, nextRun, ops, exhausted, report, planner,
                   startup, issued, host, seen, wire, initial>>

\* Not confirmed: all writes stop until a reconciliation sees the change.
CommitRefused(i) ==
    /\ At("commit")
    /\ i \in Pending
    /\ ~Confirmed(i)
    /\ gate' = "registry_change_unknown" /\ plans' = {}
    /\ worker' = IF worker.job = "change" THEN Released ELSE Returned(FALSE)
    /\ UNCHANGED <<catalog, schedule, facts, report, planner, startup, issued, extra>>

-----------------------------------------------------------------------------
(* Reconciliation looks at pending changes first (reconcile_changes). *)

Bug_ChangesSettled == TRUE
ChangesSettled     == Pending = {}

ReconcileChanges ==
    /\ At("rec_start")
    /\ ~ChangesSettled
    /\ Refresh
    /\ worker' = [worker EXCEPT !.pc = "commit"]
    /\ UNCHANGED <<durable, memory, issued, rows, host, wire, initial>>

ReconcileListFails ==
    /\ At("rec_start")
    /\ ~ChangesSettled
    /\ gate' = "registry_change_unknown" /\ plans' = {}
    /\ worker' = Returned(FALSE)
    /\ UNCHANGED <<catalog, schedule, facts, report, planner, startup, issued, extra>>

MReconcileStart == ChangesSettled /\ ReconcileStart /\ UNCHANGED extra

\* Checks left open take the result of their operation (reconcile_checks).
Bug_Settled(c) == IF c.status = "running" /\ c.op # 0 THEN [c EXCEPT !.status = ops[c.op].status] ELSE c
Settled(c)     == IF c.status \in {"running", "unknown"} /\ c.op # 0
                  THEN [c EXCEPT !.status = ops[c.op].status] ELSE c

MReconcileDone ==
    /\ ReconcileDone
    /\ checks' = [i \in DOMAIN checks |-> Settled(checks[i])]
    /\ UNCHANGED <<changes, host, seen, wire, initial>>

-----------------------------------------------------------------------------
(* The first check of an enrollment (run_initial). *)

\* The oldest queued check is next, whatever has become of its project.
Bug_IsNext(i) == i \in Queued /\ ~Paused(changes[i].project)
IsNext(i)     == i \in Queued /\ \A j \in Queued : i <= j

\* It is claimed and its project looked at. Nothing joins the queue while the
\* lock is held, so the queue may be read anew for each check.
InitialClaim(i) ==
    LET p     == changes[i].project
        ready == p \in Active /\ ~Paused(p)
    IN  /\ Free \/ At("next")
        /\ gate = "ready"
        /\ IsNext(i)
        /\ checks' = [checks EXCEPT ![i].status = "running"]
        /\ initial' = [check |-> i, outcome |-> "failed"]
        /\ worker' = [Idle EXCEPT !.job = "initial", !.project = p, !.rev = revision,
                                  !.pc = IF ready THEN "plan" ELSE "store"]
        /\ UNCHANGED <<catalog, durable, memory, issued, changes, host, seen, wire>>

InitialStop ==
    /\ At("next")
    /\ gate # "ready" \/ Queued = {}
    /\ worker' = Released
    /\ UNCHANGED <<catalog, durable, memory, issued, extra>>

\* An update under "auto" is dispatched: enrolling granted this one execution.
InitialPlanned ==
    /\ worker.job = "initial" /\ At("plan")
    /\ Policy(worker.project) = "auto"
    /\ issued < MaxPlans
    /\ issued' = issued + 1
    /\ worker' = [worker EXCEPT !.pc = "claim", !.token = issued + 1]
    /\ UNCHANGED <<catalog, durable, memory, extra>>

\* Nothing to update, an update to be reported only, or a failed check.
InitialChecked(outcome) ==
    /\ worker.job = "initial" /\ At("plan")
    /\ outcome \in Terminal
    /\ initial' = [initial EXCEPT !.outcome = outcome]
    /\ worker' = [worker EXCEPT !.pc = "store"]
    /\ UNCHANGED <<catalog, durable, memory, issued, rows, host, seen, wire>>

\* The check is linked to its operation in the transaction that claims it.
Linked == [checks EXCEPT ![initial.check].op = Len(ops) + 1]

MClaim ==
    /\ Claim
    /\ checks' = IF worker.job = "initial" THEN Linked ELSE checks
    /\ UNCHANGED <<changes, host, seen, wire, initial>>

InitialStore ==
    LET i  == initial.check
        op == checks[i].op
    IN  /\ At("store")
        /\ checks' = [checks EXCEPT ![i].status = IF op # 0 THEN ops[op].status ELSE initial.outcome]
        /\ initial' = NoInitial
        /\ worker' = [Idle EXCEPT !.job = "initial", !.pc = "next"]
        /\ UNCHANGED <<catalog, durable, memory, issued, changes, host, seen, wire>>

-----------------------------------------------------------------------------
ChangeStep ==
    \/ ChangeAnswered
    \/ ChangeRefused
    \/ \E listed \in BOOLEAN : ChangeUncertain(listed)
    \/ \E i \in Pending : CommitChange(i) \/ CommitRefused(i)

InitialStep ==
    \/ \E i \in Queued : InitialClaim(i)
    \/ InitialStop
    \/ InitialPlanned
    \/ \E outcome \in Terminal : InitialChecked(outcome)
    \/ InitialStore

MReconcileStep ==
    \/ ReconcileChanges
    \/ ReconcileListFails
    \/ MReconcileStart
    \/ \E i \in DOMAIN ops : \/ \E s \in Terminal : ReconcileMatched(i, s) /\ UNCHANGED extra
                             \/ ReconcileUnmatched(i) /\ UNCHANGED extra
    \/ MReconcileDone

MDispatchStep ==
    \/ MClaim
    \/ ClaimRefused /\ UNCHANGED extra
    \/ \E s \in Terminal \cup {"unknown"} : ApplyReturns(s, "project") /\ UNCHANGED extra

HostStep == HostApplies \/ HostRefuses

MNext ==
    \/ MCrash
    \/ MRestart
    \/ \E p \in Project, action \in Action, policy \in Policies : Change(p, action, policy)
    \/ HostStep
    \/ ChangeStep
    \/ InitialStep
    \/ MReconcileStep
    \/ MDispatchStep
    \/ Request /\ UNCHANGED extra
    \/ Tick /\ UNCHANGED extra
    \/ RoundRecovers /\ UNCHANGED extra
    \/ RoundStep /\ UNCHANGED extra

MSpec == MInit /\ [][MNext]_all

\* The steps of whoever holds the execution lock.
MWorkerStep ==
    \/ ChangeStep
    \/ MReconcileStep
    \/ MDispatchStep
    \/ ~Free /\ InitialStep
    \/ ~Free /\ RoundStep /\ UNCHANGED extra

(* As for Core; besides, every tick of the scheduler looks at the queue of  *)
(* first checks, before it looks at the schedule, so a free moment between  *)
(* two rounds is used for them (scheduler.py tick).                         *)
MFairness ==
    /\ WF_all(MWorkerStep)
    /\ WF_all(MRestart)
    /\ WF_all(Tick /\ UNCHANGED extra)
    /\ WF_all(RoundRecovers /\ UNCHANGED extra)
    /\ WF_all(RoundBegin /\ UNCHANGED extra)
    /\ SF_all(\E i \in Queued : InitialClaim(i))

MFairSpec == MSpec /\ MFairness

=============================================================================
