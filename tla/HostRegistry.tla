---------------------------- MODULE HostRegistry ----------------------------
(***************************************************************************)
(* The root worker of the maintenance host (host/project_registry.py) with *)
(* the administrator's review tool (host/recover.py).                      *)
(*                                                                         *)
(* Every request but the list and the operation status is handled under a  *)
(* lock that is taken without waiting; a worker may die at any step, which *)
(* keeps the files, and the lock as long as a command it started goes on   *)
(* (only compose's recreation is told apart). The deployment itself (`deployed',  *)
(* `healthy') is changed by updates and, at any time, by its owner.        *)
(*                                                                         *)
(* Simplifications: a token is its index in `tokens', and the reference of *)
(* an operation is the token of its plan; a version number stands for all  *)
(* that inspect() captures of a deployment; a token may have expired at    *)
(* any check of it; requests that are refused change nothing; the consumed *)
(* mark of a preview and the registry write that follows are one step.     *)
(***************************************************************************)
EXTENDS Naturals, Sequences, FiniteSets

CONSTANTS
    Project,
    Policies,    \* update policies an administrator may choose
    MaxTokens,   \* bound: previews and plans
    MaxRevision, \* bound: registry changes
    MaxDrift     \* bound: versions of a deployment

ASSUME PolicyAssumption == Policies \subseteq {"auto", "manual", "notify"}
ASSUME BoundAssumption  == MaxTokens \in Nat /\ MaxRevision \in Nat /\ MaxDrift \in Nat

VARIABLES
    projects,  \* registry.json: the definition of each project
    revision,  \* registry.json: its revision
    tokens,    \* previews/ and plans/
    record,    \* operations/: the last operation of each project
    receipts,  \* audit/: operations put on record
    reviews,   \* the review digest the administrator was given last
    deployed,  \* version of the deployment as inspect() sees it
    healthy,   \* health of the deployment as readonly() sees it
    stale,     \* history: tokens the deployment moved away from while unused
    worker,    \* the lock holder and its locals
    child,     \* token of the compose command that is running, 0 for none
    touched    \* operations whose containers compose was told to recreate

registry   == <<projects, revision>>
operations == <<record, receipts>>
deployment == <<deployed, healthy, stale>>
commands   == <<child, touched>>
hostvars   == <<registry, tokens, operations, reviews, deployment, worker, commands>>

NoRecord == [status |-> "idle", ref |-> 0, byHand |-> FALSE]
Free     == [pc |-> "idle", token |-> 0, seen |-> 0]

\* The lock's descriptors are handed to every command the worker runs: a
\* command that outlives its worker goes on holding the lock.
Bug_Locked == worker.pc # "idle"
Locked     == worker.pc # "idle" \/ child # 0
At(pc)     == worker.pc = pc

\* Plans that were accepted and consumed.
SpentPlans == {t \in DOMAIN tokens : tokens[t].kind = "plan" /\ tokens[t].consumed}

HTypeOK ==
    /\ projects \in [Project -> [active: BOOLEAN, policy: Policies, rev: 0..MaxRevision]]
    /\ revision \in 0..MaxRevision
    /\ tokens \in Seq([kind: {"preview", "plan"}, project: Project, rev: 0..MaxRevision,
                       material: 0..MaxDrift, consumed: BOOLEAN])
    /\ record \in [Project -> [status: {"idle", "unknown", "succeeded", "failed"},
                               ref: 0..MaxTokens, byHand: BOOLEAN]]
    /\ receipts \subseteq SpentPlans
    /\ deployed \in [Project -> 0..MaxDrift]
    /\ healthy \in [Project -> BOOLEAN]
    /\ worker \in [pc: {"idle", "consumed", "prepare", "up", "compose", "verify"},
                   token: 0..MaxTokens, seen: 0..MaxDrift]
    /\ At("idle") \/ worker.token \in SpentPlans
    /\ child \in 0..MaxTokens
    /\ touched \subseteq receipts
    /\ stale \subseteq DOMAIN tokens

(* A host on which projects may be registered, with no operation yet. *)
Init ==
    /\ projects \in [Project -> [active: BOOLEAN, policy: Policies, rev: {0}]]
    /\ revision = 0 /\ tokens = <<>>
    /\ record = [p \in Project |-> NoRecord] /\ receipts = {} /\ reviews = {}
    /\ deployed = [p \in Project |-> 0] /\ healthy = [p \in Project |-> TRUE]
    /\ worker = Free /\ child = 0 /\ touched = {} /\ stale = {}

\* Anything unresolved, of any project, stops changes, plans and updates.
Bug_ClearToChange(p) == record[p].status # "unknown"
ClearToChange(p)     == \A q \in Project : record[q].status # "unknown"

-----------------------------------------------------------------------------
(* The owner of the deployment edits or restarts it, it breaks or recovers. *)

\* Tokens made of the deployment as it was, but for the execution that is
\* frozen on disk already.
Outdated(p) == {t \in DOMAIN tokens : /\ tokens[t].project = p
                                      /\ t \notin touched
                                      /\ ~(At("up") /\ t = worker.token)}

Moves(p) ==
    /\ deployed[p] < MaxDrift
    /\ deployed' = [deployed EXCEPT ![p] = @ + 1]
    /\ stale' = stale \cup Outdated(p)

Drift(p) ==
    /\ Moves(p)
    /\ UNCHANGED <<registry, tokens, operations, reviews, healthy, worker, commands>>

Health(p) ==
    /\ healthy' = [healthy EXCEPT ![p] = ~@]
    /\ UNCHANGED <<registry, tokens, operations, reviews, deployed, stale, worker, commands>>

-----------------------------------------------------------------------------
(* Requests that end in one write (preview, enroll, configure, remove, plan). *)

Issue(kind, p) ==
    /\ Len(tokens) < MaxTokens
    /\ tokens' = Append(tokens, [kind |-> kind, project |-> p, rev |-> projects[p].rev,
                                 material |-> deployed[p], consumed |-> FALSE])
    /\ UNCHANGED <<registry, operations, reviews, deployment, worker, commands>>

Preview(p) == ~Locked /\ Issue("preview", p)

Plan(p) == ~Locked /\ projects[p].active /\ ClearToChange(p) /\ Issue("plan", p)

Consumed(t) == [tokens EXCEPT ![t].consumed = TRUE]

\* Every commit of a definition moves its own revision and the registry's.
Commit(p, active, policy) ==
    projects' = [projects EXCEPT ![p] = [active |-> active, policy |-> policy, rev |-> @.rev + 1]]

Enroll(t, policy) ==
    LET p == tokens[t].project
    IN  /\ ~Locked
        /\ ClearToChange(p)
        /\ tokens[t].kind = "preview" /\ ~tokens[t].consumed
        /\ tokens[t].material = deployed[p]
        /\ ~projects[p].active
        /\ revision < MaxRevision
        /\ tokens' = Consumed(t)
        /\ Commit(p, TRUE, policy)
        /\ revision' = revision + 1
        /\ UNCHANGED <<operations, reviews, deployment, worker, commands>>

\* configure and remove, at the registry revision they expect.
Reconfigure(p, active, policy) ==
    /\ ~Locked
    /\ projects[p].active
    /\ ClearToChange(p)
    /\ revision < MaxRevision
    /\ ~active => policy = projects[p].policy
    /\ Commit(p, active, policy)
    /\ revision' = revision + 1
    /\ UNCHANGED <<tokens, operations, reviews, deployment, worker, commands>>

-----------------------------------------------------------------------------
(* An update (apply-update, generic_apply). *)

Mine == tokens[worker.token].project

\* The deployment is captured, the plan accepted and consumed.
Spend(t) == Consumed(t)

ApplyStart(t) ==
    LET p == tokens[t].project
    IN  /\ ~Locked
        /\ projects[p].active
        /\ ClearToChange(p)
        /\ projects[p].policy # "notify"
        /\ tokens[t].kind = "plan" /\ ~tokens[t].consumed
        /\ tokens[t].rev = projects[p].rev
        /\ tokens' = Spend(t)
        /\ worker' = [pc |-> "consumed", token |-> t, seen |-> deployed[p]]
        /\ UNCHANGED <<registry, operations, reviews, deployment, commands>>

\* Unknown goes on record, with a receipt, before anything is done ...
Bug_Receipted == receipts
Receipted     == receipts \cup {worker.token}
Recorded == [record EXCEPT ![Mine] = [status |-> "unknown", ref |-> worker.token, byHand |-> FALSE]]

ApplyRecord ==
    /\ At("consumed")
    /\ worker.seen = tokens[worker.token].material
    /\ record' = Recorded
    /\ receipts' = Receipted
    /\ worker' = [worker EXCEPT !.pc = "prepare"]
    /\ UNCHANGED <<registry, tokens, reviews, deployment, commands>>

\* ... or the plan is refused: stale material, changed targets, expired.
ApplyRefuse ==
    /\ At("consumed")
    /\ worker' = Free
    /\ UNCHANGED <<registry, tokens, operations, reviews, deployment, commands>>

\* Images are pulled and compared, the deployment is inspected once more and
\* the execution is frozen on disk.
Bug_Unmoved == TRUE
Unmoved     == deployed[Mine] = tokens[worker.token].material

ApplyPrepare ==
    /\ At("prepare")
    /\ Unmoved
    /\ worker' = [worker EXCEPT !.pc = "up"]
    /\ UNCHANGED <<registry, tokens, operations, reviews, deployment, commands>>

\* A failure before recreation_started is known to have left the business alone.
ApplyAbort ==
    /\ At("prepare")
    /\ record' = [record EXCEPT ![Mine].status = "failed"]
    /\ worker' = Free
    /\ UNCHANGED <<registry, tokens, receipts, reviews, deployment, commands>>

\* compose is told to recreate the services from the frozen execution, and
\* does so whether or not the worker lives to see it.
ApplyRecreate ==
    /\ At("up")
    /\ child' = worker.token
    /\ touched' = touched \cup {worker.token}
    /\ worker' = [worker EXCEPT !.pc = "compose"]
    /\ UNCHANGED <<registry, tokens, operations, reviews, deployment>>

ComposeEnds ==
    /\ child # 0
    /\ Moves(tokens[child].project)
    /\ child' = 0
    /\ worker' = IF At("compose") THEN [worker EXCEPT !.pc = "verify"] ELSE worker
    /\ UNCHANGED <<registry, tokens, operations, reviews, healthy, touched>>

Bug_Result(ok) == IF ok THEN "succeeded" ELSE "failed"
Result(ok)     == IF ok THEN "succeeded" ELSE "unknown"

\* Healthy with the expected images and contract, or not to be told.
ApplyFinish(ok) ==
    /\ At("verify")
    /\ ok => healthy[Mine]
    /\ record' = [record EXCEPT ![Mine].status = Result(ok)]
    /\ worker' = Free
    /\ UNCHANGED <<registry, tokens, receipts, reviews, deployment, commands>>

WorkerDies ==
    /\ ~At("idle")
    /\ worker' = Free
    /\ UNCHANGED <<registry, tokens, operations, reviews, deployment, commands>>

-----------------------------------------------------------------------------
(* The administrator's review of an unknown operation (recover.py). *)

Snapshot(p) == [project |-> p, revision |-> revision, definition |-> projects[p],
                operation |-> record[p], material |-> deployed[p], health |-> healthy[p]]

Review(p) ==
    /\ ~Locked
    /\ record[p].status = "unknown"
    /\ reviews' = {Snapshot(p)}
    /\ UNCHANGED <<registry, tokens, operations, deployment, worker, commands>>

Resolve(p) ==
    /\ ~Locked
    /\ record[p].status = "unknown"
    /\ Snapshot(p) \in reviews
    /\ healthy[p]
    /\ record' = [record EXCEPT ![p].status = "failed", ![p].byHand = TRUE]
    /\ UNCHANGED <<registry, tokens, receipts, reviews, deployment, worker, commands>>

-----------------------------------------------------------------------------
ApplyStep ==
    \/ \E t \in DOMAIN tokens : ApplyStart(t)
    \/ ApplyRecord
    \/ ApplyRefuse
    \/ ApplyPrepare
    \/ ApplyAbort
    \/ ApplyRecreate
    \/ ComposeEnds
    \/ \E ok \in BOOLEAN : ApplyFinish(ok)

Next ==
    \/ \E p \in Project : Drift(p) \/ Health(p)
    \/ \E p \in Project : Preview(p) \/ Plan(p) \/ Review(p) \/ Resolve(p)
    \/ \E t \in DOMAIN tokens, policy \in Policies : Enroll(t, policy)
    \/ \E p \in Project, active \in BOOLEAN, policy \in Policies : Reconfigure(p, active, policy)
    \/ ApplyStep
    \/ WorkerDies

Spec == Init /\ [][Next]_hostvars

=============================================================================
