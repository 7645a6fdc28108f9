-------------------------- MODULE ManagementProofs --------------------------
(***************************************************************************)
(* Machine-checked proofs about the registration of projects, for every    *)
(* set of projects and threads and every bound.                            *)
(***************************************************************************)
EXTENDS ManagementProperties, CoreProofs

ChangeRow == [project: Project, action: Action, status: {"pending", "completed", "failed"}]
CheckRow  == [status: {"none", "pending", "running", "cancelled", "unknown"} \cup Terminal, op: Nat]

-----------------------------------------------------------------------------
(* The inductive invariant. What concerns the jobs and the request holds of *)
(* every host; what concerns the copy of the registry and all that is       *)
(* decided by it needs a host that does not refuse the list after a change. *)

\* Where the jobs of a change, a first check and a reconciliation stand.
JobsInPlace ==
    /\ worker.job = "change" => worker.pc \in {"request", "commit"}
    /\ At("request") => worker.job = "change"
    /\ At("request") \/ At("commit") => Pending # {}
    /\ At("rec") => Pending = {}
    /\ worker.job = "initial" => worker.pc \in {"plan", "claim", "apply", "store", "next"}
    /\ At("store") \/ At("next") => worker.job = "initial"

\* A request that may still be carried out is that of the pending change, which
\* the host has not made, and of which the controller cannot have heard.
RequestTracked ==
    /\ wire.phase = "sent" => /\ Pending # {}
                              /\ changes[Len(changes)].action # "remove" => wire.policy \in Policies
    /\ Pending # {} /\ wire.phase \in {"sent", "refused"} =>
           \A p \in Project : registry[p].ref < Len(changes)
    /\ \A p \in Project : seen.ref[p] <= registry[p].ref

ChangesInv == /\ JobsInPlace
              /\ OneChangeOpen
              /\ RequestTracked
              /\ CompletedIsReal
              /\ Len(checks) = Len(changes)

\* The lock holder has claimed this first check and not yet stored its result.
Owned(i) == worker.job = "initial" /\ ~At("next") /\ i = initial.check

\* A first check is open only in the hands of its job, or, once dispatched, under
\* a shut gate; a dispatched one that is not open says what its operation says.
CheckInPlace(i) ==
    /\ checks[i].status \in {"none", "pending", "cancelled"} => checks[i].op = 0
    /\ checks[i].status = "running" => \/ Owned(i)
                                       \/ worker.job = "down"
                                       \/ checks[i].op # 0 /\ gate # "ready"
    /\ checks[i].status = "unknown" => checks[i].op # 0 /\ gate # "ready"
    /\ checks[i].status \in Terminal /\ checks[i].op # 0 =>
           ops[checks[i].op].status = checks[i].status

\* The check in hand is open, and not linked to an operation before the claim.
HeldInPlace ==
    worker.job = "initial" /\ ~At("next") =>
        /\ initial.check \in DOMAIN checks
        /\ checks[initial.check].status = "running"
        /\ At("plan") \/ At("claim") => checks[initial.check].op = 0

ChecksInPlace == /\ HeldInPlace
                 /\ \A i \in DOMAIN checks : CheckInPlace(i)
                 /\ \A i \in Pending : checks[i].status = "none"

MInv == MTypeOK /\ GateInv /\ TokenInv /\ ChangesInv /\ ChecksInPlace

-----------------------------------------------------------------------------
(* The tables of changes and of first checks. *)

LEMMA TableOfChanges ==
    ASSUME MTypeOK
    PROVE  /\ changes \in Seq(ChangeRow) /\ DOMAIN changes = 1 .. Len(changes) /\ Len(changes) \in Nat
           /\ \A i \in DOMAIN changes : /\ changes[i] \in ChangeRow
                                        /\ changes[i].project \in Project
                                        /\ changes[i].action \in Action
                                        /\ changes[i].status \in {"pending", "completed", "failed"}
<1>1. changes \in Seq(ChangeRow)
  BY DEF MTypeOK, ChangeRow
<1>2. \A i \in DOMAIN changes : changes[i] \in ChangeRow
  BY <1>1, LenProperties
<1>3. QED
  BY <1>1, <1>2, LenProperties DEF ChangeRow

LEMMA TableOfChecks ==
    ASSUME MTypeOK
    PROVE  /\ checks \in [1 .. Len(checks) -> CheckRow]
           /\ DOMAIN checks = 1 .. Len(checks) /\ Len(checks) \in Nat
           /\ \A i \in DOMAIN checks : /\ checks[i] \in CheckRow
                                       /\ checks[i].op \in 0 .. Len(ops)
                                       /\ checks[i].status \in {"none", "pending", "running", "cancelled",
                                                                "unknown", "succeeded", "failed"}
<1> DEFINE S == [status: {"none", "pending", "running", "cancelled", "unknown"} \cup Terminal,
                 op: 0 .. Len(ops)]
<1>1. checks \in Seq(S) /\ Len(ops) \in Nat
  BY TableOfOps DEF MTypeOK
<1>2. /\ DOMAIN checks = 1 .. Len(checks) /\ Len(checks) \in Nat
      /\ checks \in [1 .. Len(checks) -> S]
  BY <1>1, LenProperties
<1>3. \A i \in DOMAIN checks : checks[i] \in S
  BY <1>2
<1>4. S \subseteq CheckRow
  BY <1>1 DEF CheckRow
<1>5. checks \in [1 .. Len(checks) -> CheckRow]
  BY <1>2, <1>3, <1>4
<1>6. QED
  BY <1>2, <1>3, <1>4, <1>5 DEF Terminal

\* A table of checks of the same length with typed rows is typed.
LEMMA ChecksTyped ==
    ASSUME MTypeOK, NEW n \in Nat,
           checks' \in [1 .. Len(checks) -> CheckRow], \A i \in DOMAIN checks : checks'[i].op <= n
    PROVE  /\ checks' \in Seq([status: {"none", "pending", "running", "cancelled", "unknown"} \cup Terminal,
                               op: 0 .. n])
           /\ Len(checks') = Len(checks)
<1> DEFINE S == [status: {"none", "pending", "running", "cancelled", "unknown"} \cup Terminal,
                 op: 0 .. n]
<1>1. DOMAIN checks = 1 .. Len(checks) /\ Len(checks) \in Nat
  BY TableOfChecks
<1>2. \A i \in 1 .. Len(checks) : checks'[i] \in S
  BY <1>1 DEF CheckRow
<1>3. checks' \in [1 .. Len(checks) -> S]
  BY <1>2
<1>4. checks' \in Seq(S)
  <2>1. [1 .. Len(checks) -> S] \in {[1 .. k -> S] : k \in Nat}
    BY <1>1
  <2>2. checks' \in UNION {[1 .. k -> S] : k \in Nat}
    BY <1>3, <2>1
  <2>3. QED
    BY <2>2, SeqDef
<1>5. DOMAIN checks' = 1 .. Len(checks') /\ Len(checks') \in Nat
  BY <1>4, LenProperties
<1>6. QED
  BY <1>1, <1>4, <1>5

\* The end of the one pending change.
LEMMA ChangeEnds ==
    ASSUME MTypeOK, OneChangeOpen, NEW i \in Pending, NEW status \in {"completed", "failed"},
           changes' = [changes EXCEPT ![i].status = status]
    PROVE  /\ changes' \in Seq(ChangeRow) /\ Len(changes') = Len(changes) /\ DOMAIN changes' = DOMAIN changes
           /\ i = Len(changes) /\ i \in DOMAIN changes /\ Pending' = {}
           /\ \A j \in DOMAIN changes : /\ changes'[j].project = changes[j].project
                                        /\ changes'[j].action = changes[j].action
                                        /\ changes'[j].status = IF j = i THEN status ELSE changes[j].status
<1>1. i \in DOMAIN changes /\ i = Len(changes)
  BY DEF Pending, OneChangeOpen
<1>2. [changes[i] EXCEPT !.status = status] \in ChangeRow
  BY <1>1, TableOfChanges DEF ChangeRow
<1>3. /\ changes' \in Seq(ChangeRow) /\ Len(changes') = Len(changes)
      /\ \A j \in DOMAIN changes : changes'[j] = IF j = i THEN [changes[i] EXCEPT !.status = status]
                                                          ELSE changes[j]
  BY <1>1, <1>2, TableOfChanges, ExceptSeq
<1>4. DOMAIN changes' = DOMAIN changes
  BY <1>3, TableOfChanges, LenProperties
<1>5. \A j \in DOMAIN changes : /\ changes'[j].project = changes[j].project
                                /\ changes'[j].action = changes[j].action
                                /\ changes'[j].status = IF j = i THEN status ELSE changes[j].status
  BY <1>3, TableOfChanges DEF ChangeRow
<1>6. Pending' = {}
  BY <1>1, <1>4, <1>5 DEF Pending, OneChangeOpen
<1>7. QED
  BY <1>1, <1>3, <1>4, <1>5, <1>6

\* A request of a change adds it to the table and leaves it pending.
LEMMA ChangeBegins ==
    ASSUME MTypeOK, ChangesInv, NEW p \in Project, NEW action \in Action, NEW policy \in Policies,
           Change(p, action, policy)
    PROVE  /\ Pending = {} /\ Pending' = {Len(changes) + 1}
           /\ changes' \in Seq(ChangeRow) /\ Len(changes') = Len(changes) + 1
           /\ DOMAIN changes' = 1 .. Len(changes) + 1
           /\ \A i \in DOMAIN changes : changes'[i] = changes[i]
           /\ changes'[Len(changes) + 1] = [project |-> p, action |-> action, status |-> "pending"]
           /\ DOMAIN checks' = 1 .. Len(checks) + 1 /\ Len(checks') = Len(checks) + 1
           /\ \A i \in DOMAIN checks : checks'[i] = checks[i]
           /\ checks'[Len(checks) + 1] = NoCheck
           /\ checks' \in Seq([status: {"none", "pending", "running", "cancelled", "unknown"} \cup Terminal,
                               op: 0 .. Len(ops)])
<1> DEFINE row == [project |-> p, action |-> action, status |-> "pending"]
           S == [status: {"none", "pending", "running", "cancelled", "unknown"} \cup Terminal,
                 op: 0 .. Len(ops)]
<1>1. row \in ChangeRow /\ changes' = Append(changes, row) /\ checks' = Append(checks, NoCheck)
  BY DEF ChangeRow, Change
<1>2. /\ changes' \in Seq(ChangeRow) /\ Len(changes') = Len(changes) + 1
      /\ \A i \in 1 .. Len(changes) : changes'[i] = changes[i]
      /\ changes'[Len(changes) + 1] = row
  BY <1>1, TableOfChanges, AppendProperties
<1>3. DOMAIN changes' = 1 .. Len(changes) + 1
  BY <1>2, LenProperties
<1>4. checks \in Seq(S) /\ NoCheck \in S
  BY TableOfOps DEF MTypeOK, NoCheck
<1>5. /\ checks' \in Seq(S) /\ Len(checks') = Len(checks) + 1
      /\ \A i \in 1 .. Len(checks) : checks'[i] = checks[i]
      /\ checks'[Len(checks) + 1] = NoCheck
  BY <1>1, <1>4, AppendProperties
<1>6. DOMAIN checks' = 1 .. Len(checks) + 1
  BY <1>5, LenProperties
<1>7. Pending = {}
  BY DEF Change, ChangesInv, OneChangeOpen, Free
<1>8. Pending' = {Len(changes) + 1}
  BY <1>2, <1>3, <1>7, TableOfChanges DEF Pending
<1>9. QED
  BY <1>2, <1>3, <1>5, <1>6, <1>7, <1>8, TableOfChanges, TableOfChecks

-----------------------------------------------------------------------------
(* What the steps of the controller that registration takes no part in     *)
(* leave of what it looks at.                                              *)

Aside ==
    /\ \/ ChangesSettled /\ ReconcileStart
       \/ \E i \in DOMAIN ops : \/ \E s \in Terminal : ReconcileMatched(i, s)
                                \/ ReconcileUnmatched(i)
       \/ ClaimRefused
       \/ \E s \in Terminal \cup {"unknown"} : ApplyReturns(s, "project")
       \/ Request
       \/ Tick
       \/ RoundRecovers
       \/ RoundStep
       \/ UNCHANGED vars
    /\ UNCHANGED extra

LEMMA AsideIsCore == Aside => [Next]_vars
BY DEF Aside, Next, ReconcileStep, DispatchStep

\* A job that is neither a change nor a first check goes on to another step of
\* its own, or ends.
Onward(w) == /\ w.job \notin {"down", "change", "initial"}
             /\ w.pc \notin {"request", "commit", "next", "store", "rec"}

\* The lock holder moves, from no step of a change, and to none.
JobMoves ==
    /\ worker.job \notin {"down", "change"} /\ worker'.job \notin {"down", "change"}
    /\ worker.pc \notin {"request", "commit", "next", "store"}
    /\ worker'.pc \notin {"request", "commit", "next"}
    /\ worker'.pc = "rec" => Pending = {}
    /\ worker.job = "initial" => worker'.job = "initial" /\ worker'.pc = "store"
    /\ worker.job # "initial" => worker'.job # "initial" /\ worker'.pc # "store"

LEMMA OnwardJobs ==
    ASSUME TypeOK, worker.job \notin {"down", "change", "initial"}
    PROVE  /\ Onward(Idle) /\ Onward(EndRound)
           /\ \A p : Onward(After(p))
           /\ \A ok \in BOOLEAN : Onward(Returned(ok))
<1>1. worker \in Worker
  BY DEF TypeOK
<1>2. Onward(Idle)
  BY DEF Onward, Idle
<1>3. Onward(EndRound)
  BY <1>1 DEF Onward, EndRound, Worker
<1>4. \A p : Onward(After(p))
  BY <1>1 DEF Onward, After, Worker
<1>5. \A pc \in {"begin", "loop", "close"} : Onward([worker EXCEPT !.pc = pc])
  BY <1>1 DEF Onward, Worker
<1>6. QED
  BY <1>2, <1>3, <1>4, <1>5 DEF Returned, Released

LEMMA AsideJobs ==
    ASSUME TypeOK, DownIsIdle, JobsInPlace, Aside
    PROVE  worker' = worker \/ JobMoves
<1> USE DEF JobsInPlace, DownIsIdle, At, JobMoves
<1>0. worker \in Worker
  BY DEF TypeOK
<1>1. ASSUME worker.job \notin {"down", "change", "initial"},
             worker.pc \notin {"request", "commit", "next", "store"}, Onward(worker')
      PROVE  JobMoves
  BY <1>1 DEF Onward
<1>2. ASSUME Free
      PROVE  /\ worker.job \notin {"down", "change", "initial"}
             /\ worker.pc \notin {"request", "commit", "next", "store"}
  BY <1>2 DEF Free
<1>3. ASSUME NEW pc \in {"rec_start", "rec", "begin", "loop", "retry_claim", "retry_check",
                         "retry_report", "broken", "tail", "close"}, worker.pc = pc
      PROVE  /\ worker.job \notin {"down", "change", "initial"}
             /\ worker.pc \notin {"request", "commit", "next", "store"}
  BY <1>3
<1>4. ASSUME worker.job = "round", worker.pc = "plan"
      PROVE  /\ worker.job \notin {"down", "change", "initial"}
             /\ worker.pc \notin {"request", "commit", "next", "store"}
  BY <1>4
<1>5. CASE Request
  <2>1. ASSUME NEW T, NEW on, NEW p, NEW plan, NEW t, NEW answer,
               \/ Configure(T, on) \/ Resume(p, pause[p].ref) \/ Reject(plan)
               \/ Prepare(t, p) \/ Prepared(t, answer)
        PROVE  worker' = worker
    BY <2>1 DEF Configure, Resume, Reject, Prepare, Prepared
  <2>2. ASSUME NEW plan, Approve(plan) \/ Reconcile
        PROVE  Free /\ Onward(worker')
    BY <2>2 DEF Approve, Reconcile, Onward, Idle
  <2>3. QED
    BY <1>1, <1>2, <1>5, <2>1, <2>2 DEF Request, Manual
<1>6. CASE Tick \/ UNCHANGED vars
  BY <1>6 DEF Tick, vars
<1>7. CASE RoundRecovers
  <2>1. Free /\ Onward(worker')
    BY <1>7 DEF RoundRecovers, Onward, Idle
  <2>2. QED
    BY <1>1, <1>2, <2>1
<1>8. CASE ChangesSettled /\ ReconcileStart
  <2>1. worker.pc = "rec_start" /\ worker'.pc = "rec" /\ worker'.job = worker.job
    BY <1>0, <1>8 DEF ReconcileStart, Worker
  <2>2. QED
    BY <1>3, <1>8, <2>1 DEF ChangesSettled
<1>9. ASSUME NEW i, ReconcileUnmatched(i)
      PROVE  JobMoves
  BY <1>1, <1>3, <1>9, OnwardJobs DEF ReconcileUnmatched
<1>10. ASSUME NEW i, NEW s, ReconcileMatched(i, s)
       PROVE  worker' = worker
  BY <1>10 DEF ReconcileMatched
<1>11. CASE ClaimRefused
  <2>1. worker.pc = "claim" /\ worker.job \notin {"down", "change"}
    BY <1>11 DEF ClaimRefused
  <2>2. CASE worker.job = "initial"
    <3>1. worker' = [worker EXCEPT !.pc = "store"]
      BY <1>11, <2>2 DEF ClaimRefused
    <3>2. QED
      BY <1>0, <2>1, <2>2, <3>1 DEF Worker
  <2>3. CASE worker.job # "initial"
    <3>1. worker' = EndRound \/ worker' = [worker EXCEPT !.pc = "retry_report"] \/ worker' = Idle
      BY <1>11, <2>3 DEF ClaimRefused
    <3>2. Onward([worker EXCEPT !.pc = "retry_report"])
      BY <1>0, <2>1, <2>3 DEF Onward, Worker
    <3>3. QED
      BY <1>1, <2>1, <2>3, <3>1, <3>2, OnwardJobs
  <2>4. QED
    BY <2>2, <2>3
<1>12. ASSUME NEW s, NEW c, ApplyReturns(s, c)
       PROVE  JobMoves
  <2>1. worker.pc = "apply" /\ worker.job \notin {"down", "change"} /\ worker' = Dispatched(s)
    BY <1>12 DEF ApplyReturns
  <2>2. CASE worker.job = "initial"
    <3>1. worker' = [worker EXCEPT !.pc = "store"]
      BY <2>1, <2>2 DEF Dispatched
    <3>2. QED
      BY <1>0, <2>1, <2>2, <3>1 DEF Worker
  <2>3. CASE worker.job # "initial"
    BY <1>1, <2>1, <2>3, OnwardJobs DEF Dispatched
  <2>4. QED
    BY <2>2, <2>3
<1>13. CASE RoundStep
  <2>1. CASE RoundBegin
    <3>1. Onward(worker')
      BY <2>1 DEF RoundBegin, Onward, Idle
    <3>2. QED
      BY <1>1, <1>2, <1>3, <2>1, <3>1 DEF RoundBegin, BeginsRound
  <2>2. ASSUME NEW p, LoopProject(p)
        PROVE  JobMoves
    <3>1. worker.job \notin {"down", "change", "initial"} /\ worker.pc = "loop"
      BY <1>3, <2>2 DEF LoopProject
    <3>2. Onward([worker EXCEPT !.pc = "retry_claim", !.project = p, !.retry = pause[p].ref])
      BY <1>0, <3>1 DEF Onward, Worker
    <3>3. Onward([worker EXCEPT !.pc = "plan", !.project = p])
      BY <1>0, <3>1 DEF Onward, Worker
    <3>4. QED
      BY <1>1, <2>2, <3>1, <3>2, <3>3, OnwardJobs DEF LoopProject
  <2>3. CASE LoopInterrupted
    <3>1. worker.job \notin {"down", "change", "initial"} /\ worker.pc = "loop"
      BY <1>3, <2>3 DEF LoopInterrupted
    <3>2. Onward([worker EXCEPT !.pc = "rec_start", !.ret = "loop"])
      BY <1>0, <3>1 DEF Onward, Worker
    <3>3. QED
      BY <1>1, <2>3, <3>1, <3>2, OnwardJobs DEF LoopInterrupted
  <2>4. CASE RoundDeclined \/ LoopDone \/ RoundClose \/ RetryReport
    BY <1>1, <1>3, <2>4, OnwardJobs DEF RoundDeclined, LoopDone, RoundClose, RetryReport
  <2>5. CASE PlanFound \/ RetryPlanned
    <3>1. worker.job \notin {"down", "change", "initial"} /\ worker.pc \in {"plan", "retry_check"}
      BY <1>3, <2>5 DEF PlanFound, RetryPlanned
    <3>2. Onward([worker EXCEPT !.pc = "claim", !.token = issued + 1])
      BY <1>0, <3>1 DEF Onward, Worker
    <3>3. QED
      BY <1>1, <2>5, <3>1, <3>2, OnwardJobs DEF PlanFound, RetryPlanned
  <2>6. ASSUME NEW item, PlanNone(item)
        PROVE  JobMoves
    BY <1>1, <1>4, <2>6, OnwardJobs DEF PlanNone
  <2>7. ASSUME NEW outage \in BOOLEAN, PlanBroken(outage)
        PROVE  JobMoves
    <3>1. worker.job = "round" /\ worker.pc = "plan"
      BY <2>7 DEF PlanBroken
    <3>2. Onward(worker')
      BY <1>0, <2>7, <3>1 DEF PlanBroken, Onward, After, Worker
    <3>3. QED
      BY <1>1, <1>4, <3>1, <3>2
  <2>8. CASE RetryClaim \/ RetryCheckFails \/ RetryNoUpdate
    <3>1. worker.job \notin {"down", "change", "initial"} /\ worker.pc \in {"retry_claim", "retry_check"}
      BY <1>3, <2>8 DEF RetryClaim, RetryCheckFails, RetryNoUpdate
    <3>2. \A pc \in {"retry_check", "retry_report"} : Onward([worker EXCEPT !.pc = pc])
      BY <1>0, <3>1 DEF Onward, Worker
    <3>3. QED
      BY <1>1, <2>8, <3>1, <3>2 DEF RetryClaim, RetryCheckFails, RetryNoUpdate
  <2>9. CASE RoundTail
    <3>1. worker.job \notin {"down", "change", "initial"} /\ worker.pc = "tail"
      BY <1>3, <2>9 DEF RoundTail
    <3>2. Onward([worker EXCEPT !.pc = "rec_start", !.ret = "close"])
      BY <1>0, <3>1 DEF Onward, Worker
    <3>3. QED
      BY <1>1, <2>9, <3>1, <3>2 DEF RoundTail
  <2>10. CASE ChecksStop
    <3>1. worker.job \notin {"down", "change", "initial"} /\ worker.pc = "broken"
      BY <1>3, <2>10 DEF ChecksStop
    <3>2. Onward([worker EXCEPT !.pc = "loop"])
      BY <1>0, <3>1 DEF Onward, Worker
    <3>3. QED
      BY <1>1, <2>10, <3>1, <3>2, OnwardJobs DEF ChecksStop
  <2>11. QED
    BY <1>13, <2>1, <2>2, <2>3, <2>4, <2>5, <2>6, <2>7, <2>8, <2>9, <2>10 DEF RoundStep
<1>14. QED
  BY <1>5, <1>6, <1>7, <1>8, <1>9, <1>10, <1>11, <1>12, <1>13 DEF Aside

\* A final result stays, and nothing here opens the gate.
OpsKept ==
    /\ DOMAIN ops' = DOMAIN ops /\ Len(ops') = Len(ops)
    /\ \A i \in DOMAIN ops : ops[i].status \in Terminal => ops'[i].status = ops[i].status
    /\ gate' = "ready" => gate = "ready"

LEMMA AsideOps ==
    ASSUME GateInv, Aside
    PROVE  OpsKept
<1> USE DEF control, schedule, facts, durable, memory
<1>1. TypeOK /\ AppliesLast
  BY DEF GateInv
<1>2. ASSUME UNCHANGED <<ops, gate>>
      PROVE  OpsKept
  BY <1>2 DEF OpsKept
<1>3. ASSUME NEW i \in DOMAIN ops, NEW s \in Terminal \cup {"unknown"}, Finish(i, s, "project"),
             ops[i].status \notin Terminal
      PROVE  OpsKept
  <2>1. gate' = "ready" => gate = "ready"
    BY <1>3 DEF Finish
  <2>2. QED
    BY <1>1, <1>3, <2>1, ToldOps DEF OpsKept
<1>4. ASSUME NEW i \in DOMAIN ops, NEW s \in Terminal, ReconcileMatched(i, s)
      PROVE  OpsKept
  BY <1>3, <1>4 DEF ReconcileMatched, Unresolved, Unfinished, Terminal
<1>5. ASSUME NEW s \in Terminal \cup {"unknown"}, ApplyReturns(s, "project")
      PROVE  OpsKept
  <2>1. Len(ops) \in DOMAIN ops /\ ops[Len(ops)].status = "running"
    BY <1>1, <1>5, EmptySeq, LenProperties DEF GateInv, RunningIsApplied, AppliesLast, TypeOK, ApplyReturns
  <2>2. QED
    BY <1>3, <1>5, <2>1 DEF ApplyReturns, Terminal
<1>6. ASSUME NEW i, ReconcileUnmatched(i)
      PROVE  OpsKept
  BY <1>2, <1>6 DEF ReconcileUnmatched
<1>7. CASE ReconcileStart
  BY <1>7 DEF ReconcileStart, OpsKept
<1>8. CASE ClaimRefused \/ Tick \/ RoundRecovers \/ UNCHANGED vars
  BY <1>2, <1>8 DEF ClaimRefused, Tick, RoundRecovers, vars
<1>9. CASE Request
  BY <1>2, <1>9 DEF Request, Manual, Configure, Resume, Prepare, Prepared, Reject, Approve, Reconcile
<1>10. CASE ChecksStop
  BY <1>10 DEF ChecksStop, OpsKept
<1>11. CASE RoundStep
  BY <1>2, <1>10, <1>11 DEF RoundStep, RoundBegin, RoundDeclined, LoopProject, LoopInterrupted,
     LoopDone, PlanFound, PlanNone, PlanBroken, RetryClaim, RetryCheckFails, RetryNoUpdate,
     RetryPlanned, RetryReport, RoundTail, RoundClose
<1>12. QED
  BY <1>4, <1>5, <1>6, <1>7, <1>8, <1>9, <1>11 DEF Aside

\* Whoever is put on the schedule, checked by hand or approved is registered in
\* the copy of the registry, or was checked under the present revision.
ServesActive ==
    /\ UNCHANGED catalog
    /\ targets' = targets \/ (worker.job # "down" /\ targets' \subseteq Active)
    /\ revision' >= revision
    /\ \A t \in Thread : \/ planner'[t] = planner[t]
                         \/ planner'[t] = NoPlanner
                         \/ /\ worker.job # "down" /\ planner'[t].project \in Active
                            /\ planner'[t].rev = revision /\ revision' = revision
    /\ \A plan \in plans' : \/ plan \in plans
                            \/ \E t \in Thread : /\ planner[t].project = plan.project
                                                 /\ plan.project # NoProject
                                                 /\ planner[t].rev = revision

LEMMA AsideServes ==
    ASSUME TypeOK, Aside
    PROVE  ServesActive
<1> USE DEF control, schedule, facts, durable, memory
<1>0. revision \in Nat
  BY DEF TypeOK
<1>1. ASSUME UNCHANGED <<catalog, targets, revision, planner>>, plans' \subseteq plans
      PROVE  ServesActive
  BY <1>0, <1>1 DEF ServesActive
<1>2. ASSUME NEW T, NEW on, Configure(T, on)
      PROVE  ServesActive
  BY <1>0, <1>2 DEF Configure, ServesActive, Serving
<1>3. ASSUME NEW p \in Project, NEW t \in Thread, Prepare(t, p)
      PROVE  ServesActive
  BY <1>0, <1>3 DEF Prepare, ServesActive, Serving, TypeOK
<1>4. ASSUME NEW t \in Thread, NEW answer, Prepared(t, answer)
      PROVE  ServesActive
  <2>1. UNCHANGED <<catalog, targets, revision>>
    BY <1>4 DEF Prepared
  <2>2. \A u \in Thread : planner'[u] = planner[u] \/ planner'[u] = NoPlanner
    BY <1>4 DEF Prepared, TypeOK
  <2>3. \A plan \in plans' : plan \in plans \/ /\ plan.project = planner[t].project
                                               /\ planner[t].project # NoProject
                                               /\ planner[t].rev = revision
    BY <1>4 DEF Prepared, StillCurrent
  <2>4. QED
    BY <1>0, <2>1, <2>2, <2>3 DEF ServesActive
<1>5. ASSUME NEW p, NEW plan, Resume(p, pause[p].ref) \/ Reject(plan) \/ Approve(plan) \/ Reconcile
      PROVE  ServesActive
  BY <1>1, <1>5 DEF Resume, Reject, Approve, Popped, Reconcile
<1>6. CASE Request
  BY <1>2, <1>3, <1>4, <1>5, <1>6 DEF Request, Manual
<1>7. ASSUME NEW i, NEW s, ReconcileMatched(i, s) \/ ReconcileUnmatched(i) \/ ApplyReturns(s, "project")
      PROVE  ServesActive
  BY <1>1, <1>7 DEF ReconcileMatched, ReconcileUnmatched, ApplyReturns, Finish
<1>8. CASE ReconcileStart \/ ClaimRefused \/ Tick \/ RoundRecovers \/ UNCHANGED vars
  BY <1>1, <1>8 DEF ReconcileStart, ClaimRefused, Tick, RoundRecovers, vars
<1>9. CASE RoundStep
  BY <1>1, <1>9 DEF RoundStep, RoundBegin, RoundDeclined, LoopProject, LoopInterrupted,
     LoopDone, PlanFound, PlanNone, PlanBroken, ChecksStop, RetryClaim, RetryCheckFails,
     RetryNoUpdate, RetryPlanned, RetryReport, RoundTail, RoundClose
<1>10. QED
  BY <1>6, <1>7, <1>8, <1>9 DEF Aside

-----------------------------------------------------------------------------
(* The write gate and the tokens: registration adds steps of the lock      *)
(* holder, and a restart that reads the registry.                          *)

\* The steps of the lock holder that registration adds to the controller.
Registers ==
    \/ \E p \in Project, action \in Action, policy \in Policies : Change(p, action, policy)
    \/ ChangeAnswered
    \/ ChangeRefused
    \/ \E listed \in BOOLEAN : ChangeUncertain(listed)
    \/ \E i \in Pending : CommitChange(i) \/ CommitRefused(i)
    \/ ReconcileChanges
    \/ ReconcileListFails
    \/ \E i \in Queued : InitialClaim(i)
    \/ InitialStop
    \/ InitialPlanned
    \/ \E outcome \in Terminal : InitialChecked(outcome)
    \/ InitialStore

LEMMA MSteps ==
    [MNext]_all => \/ Aside \/ Registers \/ MCrash \/ MRestart
                   \/ MClaim \/ MReconcileDone \/ HostApplies \/ HostRefuses
BY DEF MNext, HostStep, ChangeStep, InitialStep, MReconcileStep, MDispatchStep, Aside,
       Registers, MReconcileStart, all

LEMMA RefreshTypes ==
    ASSUME MTypeOK, Refresh
    PROVE  /\ catalog' \in [Project -> [active: BOOLEAN, policy: Policies]]
           /\ seen' \in [rev: 0..hostRev, ref: [Project -> 0..Len(changes)]]
BY DEF MTypeOK, Refresh

\* Where these steps leave the lock holder.
LEMMA RegistersWorker ==
    ASSUME MTypeOK, DownIsIdle, ChangesInv, Registers
    PROVE  /\ worker' \in Worker
           /\ worker.job # "down" /\ worker.pc # "apply"
           /\ Moved(worker')
<1> USE DEF At, DownIsIdle, JobsInPlace, ChangesInv
<1>0. TypeOK /\ worker \in Worker /\ revision \in Nat /\ issued \in Nat
  BY DEF MTypeOK, TypeOK
<1>1. Idle \in Worker /\ Moved(Idle)
  BY <1>0, WorkerTypes DEF Moved, Idle
<1>2. ASSUME NEW p, NEW action, NEW policy, Change(p, action, policy)
      PROVE  worker.job = "none" /\ worker' \in Worker /\ Moved(worker')
  <2>1. [Idle EXCEPT !.job = "change", !.pc = "request"] \in Worker
    BY DEF Idle, Worker, Job, Pc
  <2>2. QED
    BY <1>2, <2>1 DEF Change, Free, Moved, Idle
<1>3. ASSUME NEW pc \in {"commit", "rec_start", "store"}, worker.job \notin {"none", "down"},
             worker' = [worker EXCEPT !.pc = pc]
      PROVE  worker' \in Worker /\ Moved(worker')
  <2>1. pc \in Pc
    BY DEF Pc
  <2>2. QED
    BY <1>0, <1>3, <2>1 DEF Worker, Moved
<1>4. ASSUME NEW listed, ChangeAnswered \/ ChangeUncertain(listed) \/ ReconcileChanges
      PROVE  /\ worker.job \notin {"none", "down"} /\ worker.pc # "apply"
             /\ worker' \in Worker /\ Moved(worker')
  <2>1. worker.pc \in {"request", "rec_start"} /\ worker' = [worker EXCEPT !.pc = "commit"]
    BY <1>4 DEF ChangeAnswered, ChangeUncertain, ReconcileChanges
  <2>2. QED
    BY <1>3, <2>1
<1>5. ASSUME NEW i, CommitChange(i) \/ CommitRefused(i) \/ ReconcileListFails
      PROVE  /\ worker.job \notin {"none", "down"} /\ worker.pc # "apply"
             /\ worker' \in Worker /\ Moved(worker')
  <2>1. worker.pc \in {"commit", "rec_start"} /\ worker.job \notin {"none", "down"}
    BY <1>5 DEF CommitChange, CommitRefused, ReconcileListFails
  <2>2. worker' = Idle \/ worker' = [worker EXCEPT !.pc = "rec_start"] \/ worker' = Returned(FALSE)
    BY <1>5 DEF CommitChange, CommitRefused, ReconcileListFails, Released
  <2>3. QED
    BY <1>0, <1>1, <1>3, <2>1, <2>2, WorkerTypes, ReturnedMoves
<1>6. ASSUME ChangeRefused \/ InitialStop
      PROVE  worker.job # "down" /\ worker.pc # "apply" /\ worker' = Idle
  BY <1>6 DEF ChangeRefused, InitialStop, Released
<1>7. ASSUME NEW i \in Queued, InitialClaim(i)
      PROVE  worker.job # "down" /\ worker.pc # "apply" /\ worker' \in Worker /\ Moved(worker')
  <2>1. worker.job # "down" /\ worker.pc # "apply"
    BY <1>7 DEF InitialClaim, Free
  <2>2. PICK pc \in {"plan", "store"} :
           worker' = [Idle EXCEPT !.job = "initial", !.project = changes[i].project,
                                  !.rev = revision, !.pc = pc]
    BY <1>7 DEF InitialClaim
  <2>3. i \in DOMAIN checks
    BY DEF Queued
  <2>4. worker'.project = changes[i].project /\ worker'.job = "initial" /\ worker'.pc = pc
    BY <2>2 DEF Idle
  <2>5. changes[i].project \in Project
    BY <1>7, <2>3, TableOfChanges, TableOfChecks DEF InitialClaim
  <2>6. worker' \in Worker
    BY <1>0, <2>2, <2>5 DEF Idle, Worker, Job, Pc
  <2>7. QED
    BY <2>1, <2>4, <2>6 DEF Moved
<1>8. ASSUME NEW outcome, InitialPlanned \/ InitialChecked(outcome)
      PROVE  worker.job # "down" /\ worker.pc # "apply" /\ worker' \in Worker /\ Moved(worker')
  <2>1. /\ worker.job = "initial" /\ worker.pc = "plan"
        /\ \/ worker' = [worker EXCEPT !.pc = "claim", !.token = issued + 1]
           \/ worker' = [worker EXCEPT !.pc = "store"]
    BY <1>8 DEF InitialPlanned, InitialChecked
  <2>2. /\ "claim" \in Pc /\ issued + 1 \in Nat
    BY <1>0 DEF Pc
  <2>3. /\ [worker EXCEPT !.pc = "claim", !.token = issued + 1] \in Worker
        /\ Moved([worker EXCEPT !.pc = "claim", !.token = issued + 1])
    BY <1>0, <2>1, <2>2 DEF Worker, Moved
  <2>4. QED
    BY <1>3, <2>1, <2>3
<1>9. ASSUME InitialStore
      PROVE  worker.job # "down" /\ worker.pc # "apply" /\ worker' \in Worker /\ Moved(worker')
  <2>1. [Idle EXCEPT !.job = "initial", !.pc = "next"] \in Worker
    BY DEF Idle, Worker, Job, Pc
  <2>2. QED
    BY <1>9, <2>1 DEF InitialStore, Moved, Idle
<1>10. QED
  BY <1>1, <1>2, <1>4, <1>5, <1>6, <1>7, <1>8, <1>9 DEF Registers

\* They leave the operations and open no gate; who changes the revision or shuts
\* the gate drops the approvals.
LEMMA RegistersGate ==
    ASSUME MTypeOK, GateInv, ChangesInv, Registers
    PROVE  GateInv'
<1> USE DEF control, schedule, facts, durable, memory
<1>1. TypeOK /\ DownIsIdle /\ PlansAreCurrent /\ Len(checks) = Len(changes)
  BY DEF GateInv, ChangesInv
<1>2. /\ worker' \in Worker
      /\ worker.job # "down" /\ worker.pc # "apply"
      /\ Moved(worker')
  BY <1>1, RegistersWorker
<1>3. /\ UNCHANGED <<ops, exhausted, report, planner, startup, nextRun, enabled>>
      /\ gate' = gate \/ gate' = "registry_change_unknown"
  BY DEF Registers, Change, ChangeAnswered, ChangeRefused, ChangeUncertain, CommitChange, CommitRefused,
         ReconcileChanges, ReconcileListFails, InitialClaim, InitialStop, InitialPlanned,
         InitialChecked, InitialStore
<1>4. UNCHANGED <<gate, revision, plans>> \/ plans' = {}
  BY DEF Registers, Change, ChangeAnswered, ChangeRefused, ChangeUncertain, CommitChange, CommitRefused,
         ReconcileChanges, ReconcileListFails, InitialClaim, InitialStop, InitialPlanned,
         InitialChecked, InitialStore
<1>5. catalog' = catalog \/ Refresh
  BY DEF Registers, Change, ChangeAnswered, ChangeRefused, ChangeUncertain, CommitChange, CommitRefused,
         ReconcileChanges, ReconcileListFails, InitialClaim, InitialStop, InitialPlanned,
         InitialChecked, InitialStore
<1>6. issued' = issued \/ issued' = issued + 1
  BY DEF Registers, Change, ChangeAnswered, ChangeRefused, ChangeUncertain, CommitChange, CommitRefused,
         ReconcileChanges, ReconcileListFails, InitialClaim, InitialStop, InitialPlanned,
         InitialChecked, InitialStore
<1>7. UNCHANGED <<revision, targets, pause>> \/ \E i \in Pending : CommitChange(i)
  BY DEF Registers, Change, ChangeAnswered, ChangeRefused, ChangeUncertain, CommitRefused,
         ReconcileChanges, ReconcileListFails, InitialClaim, InitialStop, InitialPlanned,
         InitialChecked, InitialStore
<1>8. revision' \in Nat /\ targets' \in SUBSET Project /\ pause' \in [Project -> [ref: Nat, used: BOOLEAN]]
  <2>1. CASE UNCHANGED <<revision, targets, pause>>
    BY <1>1, <2>1 DEF TypeOK
  <2>2. ASSUME NEW i \in Pending, CommitChange(i)
        PROVE  /\ revision' \in Nat /\ targets' \in SUBSET Project
               /\ pause' \in [Project -> [ref: Nat, used: BOOLEAN]]
    <3>1. revision' = revision + 1 /\ targets' = Targets(i)
      BY <2>2 DEF CommitChange, NextRevision
    <3>2. pause' = pause \/ pause' = [pause EXCEPT ![changes[i].project] = NotPaused]
      BY <2>2 DEF CommitChange
    <3>3. NotPaused \in [ref: Nat, used: BOOLEAN]
      BY DEF NotPaused
    <3>4. targets' \subseteq Project /\ revision' \in Nat
      BY <1>1, <3>1 DEF TypeOK, Targets, Active
    <3>5. pause' \in [Project -> [ref: Nat, used: BOOLEAN]]
      BY <1>1, <3>2, <3>3 DEF TypeOK
    <3>6. QED
      BY <3>4, <3>5
  <2>3. QED
    BY <1>7, <2>1, <2>2
<1>9. TypeOK'
  <2>1. catalog' \in [Project -> [active: BOOLEAN, policy: Policies]]
    BY <1>1, <1>5, RefreshTypes DEF TypeOK
  <2>2. gate' \in Gate /\ plans' \in SUBSET Plan /\ issued' \in Nat
    BY <1>1, <1>3, <1>4, <1>6 DEF TypeOK, Gate
  <2>3. QED
    BY <1>1, <1>2, <1>3, <1>8, <2>1, <2>2 DEF TypeOK
<1>10. PlansAreCurrent'
  BY <1>1, <1>4 DEF PlansAreCurrent
<1>11. WorkerMoves
  BY <1>2, <1>3 DEF WorkerMoves, Moved
<1>12. QED
  BY <1>9, <1>10, <1>11, QuietGate

LEMMA RegistersTokens ==
    ASSUME MTypeOK, TokenInv, ChangesInv, Registers
    PROVE  TokenInv'
<1> USE DEF control, schedule, facts, durable, memory
<1>1. TypeOK /\ worker \in Worker
  BY DEF MTypeOK, TypeOK
<1>2. ops' = ops /\ plans' \subseteq plans
  BY DEF Registers, Change, ChangeAnswered, ChangeRefused, ChangeUncertain, CommitChange, CommitRefused,
         ReconcileChanges, ReconcileListFails, InitialClaim, InitialStop, InitialPlanned,
         InitialChecked, InitialStore
<1>3. CASE InitialPlanned
  <2>1. UNCHANGED <<ops, plans>> /\ issued' = issued + 1 /\ worker'.token = issued + 1
    BY <1>1, <1>3 DEF InitialPlanned, Worker
  <2>2. QED
    BY <1>1, <2>1, IssueStep
<1>4. CASE ~InitialPlanned
  <2>1. issued' = issued
    BY <1>4 DEF Registers, Change, ChangeAnswered, ChangeRefused, ChangeUncertain, CommitChange,
       CommitRefused, ReconcileChanges, ReconcileListFails, InitialClaim, InitialStop,
       InitialChecked, InitialStore
  <2>2. worker'.pc # "claim"
    <3>1. ASSUME NEW p, NEW action, NEW policy,
                 Change(p, action, policy) \/ InitialStop \/ InitialStore
          PROVE  worker'.pc # "claim"
      <4>1. \/ worker' = Idle
            \/ worker' = [Idle EXCEPT !.job = "change", !.pc = "request"]
            \/ worker' = [Idle EXCEPT !.job = "initial", !.pc = "next"]
        BY <3>1 DEF Change, InitialStop, InitialStore, Released
      <4>2. /\ Idle.pc = "idle"
            /\ [Idle EXCEPT !.job = "change", !.pc = "request"].pc = "request"
            /\ [Idle EXCEPT !.job = "initial", !.pc = "next"].pc = "next"
        BY DEF Idle
      <4>3. QED
        BY <4>1, <4>2
    <3>2. ASSUME NEW i, NEW listed, NEW outcome,
                 \/ ChangeAnswered \/ ChangeRefused \/ ChangeUncertain(listed)
                 \/ CommitChange(i) \/ CommitRefused(i)
                 \/ ReconcileChanges \/ ReconcileListFails \/ InitialChecked(outcome)
          PROVE  worker'.pc # "claim"
      BY <1>1, <3>2, ReturnsToNoClaim DEF ChangeAnswered, ChangeRefused, ChangeUncertain, CommitChange,
         CommitRefused, ReconcileChanges, ReconcileListFails, InitialChecked, Released
    <3>3. ASSUME NEW i, InitialClaim(i)
          PROVE  worker'.pc # "claim"
      <4>1. \E pc \in {"plan", "store"} :
               worker' = [Idle EXCEPT !.job = "initial", !.project = changes[i].project,
                                      !.rev = revision, !.pc = pc]
        BY <3>3 DEF InitialClaim
      <4>2. QED
        BY <4>1 DEF Idle
    <3>4. QED
      BY <1>4, <3>1, <3>2, <3>3 DEF Registers
  <2>3. Tokenless
    BY <1>2, <2>1, <2>2 DEF Tokenless, SameTokens
  <2>4. QED
    BY <2>3, TokenlessStep
<1>5. QED
  BY <1>3, <1>4

LEMMA MGateStep ==
    ASSUME MTypeOK, GateInv, TokenInv, ChangesInv, [MNext]_all
    PROVE  GateInv' /\ TokenInv'
<1> USE DEF control, schedule, facts, durable, memory
<1>1. TypeOK /\ AppliesLast /\ DownIsIdle /\ PlansAreCurrent
  BY DEF GateInv
<1>2. ASSUME [Next]_vars
      PROVE  GateInv' /\ TokenInv'
  BY <1>1, <1>2, GateStep, TokenStep
<1>3. CASE Aside
  BY <1>2, <1>3, AsideIsCore
<1>4. CASE MCrash \/ MClaim \/ MReconcileDone
  BY <1>2, <1>4 DEF MCrash, MClaim, MReconcileDone, Next, ReconcileStep, DispatchStep
<1>5. CASE HostApplies \/ HostRefuses
  BY <1>2, <1>5 DEF HostApplies, HostRefuses
<1>6. CASE Registers
  BY <1>6, RegistersGate, RegistersTokens
<1>7. CASE MRestart
  <2>1. [Idle EXCEPT !.job = "boot", !.pc = "rec_start"] \in Worker
    BY DEF Idle, Worker, Job, Pc
  <2>2. ops' \in Seq(Operation)
    BY <1>1, <1>7, InterruptedTypes DEF MRestart
  <2>3. catalog' \in [Project -> [active: BOOLEAN, policy: Policies]]
    BY <1>7, RefreshTypes DEF MRestart
  <2>4. TypeOK'
    BY <1>1, <1>7, <2>1, <2>2, <2>3 DEF MRestart, TypeOK, Gate
  <2>5. PlansAreCurrent'
    BY <1>1, <1>7 DEF MRestart, PlansAreCurrent, DownIsIdle
  <2>6. GateInv'
    BY <1>7, <2>4, <2>5, RebootGate DEF MRestart
  <2>7. Tokenless
    BY <1>1, <1>7, InterruptedOps DEF MRestart, Tokenless, SameTokens, Idle
  <2>8. QED
    BY <2>6, <2>7, TokenlessStep
<1>8. QED
  BY <1>3, <1>4, <1>5, <1>6, <1>7, MSteps

-----------------------------------------------------------------------------
(* Types. *)

CheckStatus == {"none", "pending", "running", "cancelled", "unknown"} \cup Terminal

\* The new state of one first check.
LEMMA OneCheck ==
    ASSUME MTypeOK, NEW i, NEW status \in CheckStatus, checks' = [checks EXCEPT ![i].status = status]
    PROVE  /\ checks' \in [1 .. Len(checks) -> CheckRow]
           /\ \A j \in DOMAIN checks : /\ checks'[j].op = checks[j].op
                                       /\ checks'[j].status = IF j = i THEN status ELSE checks[j].status
BY TableOfChecks DEF CheckRow, CheckStatus

\* First checks after a restart, a reconciliation and a dispatch.
LEMMA AbandonedChecks ==
    ASSUME MTypeOK, checks' = [i \in DOMAIN checks |-> Abandoned(checks[i])]
    PROVE  /\ checks' \in [1 .. Len(checks) -> CheckRow]
           /\ \A j \in DOMAIN checks :
                  /\ checks'[j].op = checks[j].op
                  /\ checks'[j].status = IF checks[j].status = "running" /\ checks[j].op = 0
                                         THEN "failed" ELSE checks[j].status
<1>1. \A c \in CheckRow : /\ Abandoned(c) \in CheckRow /\ Abandoned(c).op = c.op
                          /\ Abandoned(c).status = IF c.status = "running" /\ c.op = 0
                                                   THEN "failed" ELSE c.status
  BY DEF Abandoned, CheckRow, Terminal
<1>2. QED
  BY <1>1, TableOfChecks

LEMMA SettledChecks ==
    ASSUME MTypeOK, checks' = [i \in DOMAIN checks |-> Settled(checks[i])]
    PROVE  /\ checks' \in [1 .. Len(checks) -> CheckRow]
           /\ \A j \in DOMAIN checks :
                  /\ checks'[j].op = checks[j].op
                  /\ checks'[j].status = IF checks[j].status \in {"running", "unknown"} /\ checks[j].op # 0
                                         THEN ops[checks[j].op].status ELSE checks[j].status
<1>1. \A j \in DOMAIN checks :
         /\ checks[j] \in CheckRow
         /\ checks[j].op # 0 => checks[j].op \in DOMAIN ops /\ ops[checks[j].op] \in Operation
  BY TableOfChecks, TableOfOps DEF MTypeOK
<1>2. \A c \in CheckRow : \A o \in Operation : /\ [c EXCEPT !.status = o.status] \in CheckRow
                                               /\ [c EXCEPT !.status = o.status].op = c.op
                                               /\ [c EXCEPT !.status = o.status].status = o.status
  BY DEF CheckRow, Operation, Unfinished
<1>3. \A j \in DOMAIN checks :
         /\ Settled(checks[j]) \in CheckRow
         /\ Settled(checks[j]).op = checks[j].op
         /\ Settled(checks[j]).status = IF checks[j].status \in {"running", "unknown"} /\ checks[j].op # 0
                                        THEN ops[checks[j].op].status ELSE checks[j].status
  BY <1>1, <1>2 DEF Settled
<1>4. QED
  BY <1>3, TableOfChecks

LEMMA LinkedChecks ==
    ASSUME MTypeOK, MClaim
    PROVE  /\ checks' \in [1 .. Len(checks) -> CheckRow]
           /\ \A j \in DOMAIN checks :
                  /\ checks'[j].status = checks[j].status
                  /\ checks'[j].op = IF worker.job = "initial" /\ j = initial.check
                                     THEN Len(ops) + 1 ELSE checks[j].op
<1>1. Len(ops) + 1 \in Nat
  BY TableOfOps DEF MTypeOK
<1>2. QED
  BY <1>1, TableOfChecks DEF MClaim, Linked, CheckRow

\* The commit of a change queues the enrolled project's check or cancels the
\* removed one's.
LEMMA CommittedChecks ==
    ASSUME MTypeOK, NEW i \in DOMAIN changes, CommitChange(i)
    PROVE  /\ checks' \in [1 .. Len(checks) -> CheckRow]
           /\ \A j \in DOMAIN checks :
                  /\ checks'[j].op = checks[j].op
                  /\ checks'[j].status =
                        IF ~catalog[changes[i].project].active
                        THEN IF changes[j].project = changes[i].project /\ checks[j].status = "pending"
                             THEN "cancelled" ELSE checks[j].status
                        ELSE IF j = i /\ changes[i].action = "enroll" THEN "pending"
                             ELSE checks[j].status
<1>1. checks' = Checks(i)
  BY DEF CommitChange
<1>2. CASE ~catalog[changes[i].project].active
  <2>1. \A c \in CheckRow : /\ [c EXCEPT !.status = "cancelled"] \in CheckRow
                            /\ [c EXCEPT !.status = "cancelled"].op = c.op
                            /\ [c EXCEPT !.status = "cancelled"].status = "cancelled"
    BY DEF CheckRow
  <2>2. checks' = [j \in DOMAIN checks |->
                     IF changes[j].project = changes[i].project /\ checks[j].status = "pending"
                     THEN [checks[j] EXCEPT !.status = "cancelled"] ELSE checks[j]]
    BY <1>1, <1>2 DEF Checks
  <2>3. QED
    BY <1>2, <2>1, <2>2, TableOfChecks
<1>3. CASE catalog[changes[i].project].active /\ changes[i].action = "enroll"
  <2>1. checks' = [checks EXCEPT ![i].status = "pending"]
    BY <1>1, <1>3 DEF Checks
  <2>2. /\ checks' \in [1 .. Len(checks) -> CheckRow]
        /\ \A j \in DOMAIN checks : /\ checks'[j].op = checks[j].op
                                    /\ checks'[j].status = IF j = i THEN "pending" ELSE checks[j].status
    <3>1. "pending" \in CheckStatus
      BY DEF CheckStatus
    <3>2. QED
      BY <2>1, <3>1, OneCheck
  <2>3. QED
    BY <1>3, <2>2
<1>4. CASE catalog[changes[i].project].active /\ changes[i].action # "enroll"
  <2>1. checks' = checks
    BY <1>1, <1>4 DEF Checks
  <2>2. QED
    BY <1>4, <2>1, TableOfChecks
<1>5. QED
  BY <1>2, <1>3, <1>4

\* A first check whose job ends takes the result of its operation, or the
\* outcome of the check itself.
LEMMA StoredChecks ==
    ASSUME MInv, InitialStore
    PROVE  /\ initial.check \in DOMAIN checks
           /\ checks[initial.check].status = "running"
           /\ checks' \in [1 .. Len(checks) -> CheckRow]
           /\ \A j \in DOMAIN checks :
                  /\ checks'[j].op = checks[j].op
                  /\ j # initial.check => checks'[j].status = checks[j].status
                  /\ j = initial.check =>
                        /\ checks'[j].status \in Terminal \cup {"unknown"}
                        /\ checks[j].op = 0 => checks'[j].status \in Terminal
                        /\ checks[j].op # 0 => /\ checks[j].op \in DOMAIN ops
                                               /\ checks'[j].status = ops[checks[j].op].status
<1> DEFINE i == initial.check
           status == IF checks[i].op # 0 THEN ops[checks[i].op].status ELSE initial.outcome
<1>1. MTypeOK /\ TypeOK /\ At("store") /\ worker.job = "initial" /\ ~At("next")
  BY DEF MInv, MTypeOK, InitialStore, ChangesInv, JobsInPlace, At
<1>2. i \in DOMAIN checks /\ checks[i].status = "running"
  BY <1>1 DEF MInv, ChecksInPlace, CheckInPlace, HeldInPlace
<1>3. checks[i].op # 0 => /\ checks[i].op \in DOMAIN ops /\ ops[checks[i].op] \in Operation
                          /\ ops[checks[i].op].status # "running"
  BY <1>1, <1>2, TableOfChecks, TableOfOps DEF MInv, GateInv, RunningIsApplied, At
<1>4. initial.outcome \in Terminal
  BY <1>1 DEF MTypeOK
<1>5. /\ status \in Terminal \cup {"unknown"}
      /\ checks[i].op = 0 => status \in Terminal
  BY <1>3, <1>4 DEF Operation, Unfinished
<1>6. checks' = [checks EXCEPT ![i].status = status] /\ status \in CheckStatus
  BY <1>5 DEF InitialStore, CheckStatus
<1>7. /\ checks' \in [1 .. Len(checks) -> CheckRow]
      /\ \A j \in DOMAIN checks : /\ checks'[j].op = checks[j].op
                                  /\ checks'[j].status = IF j = i THEN status ELSE checks[j].status
  <2> HIDE DEF i, status
  <2>1. QED
    BY ONLY <1>1, <1>6, OneCheck
<1>8. QED
  BY <1>1, <1>2, <1>3, <1>5, <1>7

LEMMA MTypeStep ==
    ASSUME MInv, GateInv', [MNext]_all
    PROVE  MTypeOK' /\ Len(checks') = Len(changes')
<1> USE DEF host, rows, extra
<1>1. MTypeOK /\ TypeOK /\ TypeOK' /\ GateInv /\ ChangesInv /\ ChecksInPlace
  BY DEF MInv, GateInv
<1>2. /\ changes \in Seq(ChangeRow) /\ Len(changes) \in Nat /\ Len(ops) \in Nat
      /\ Len(checks) = Len(changes) /\ DOMAIN changes = 1 .. Len(changes)
      /\ checks \in [1 .. Len(checks) -> CheckRow]
      /\ \A i \in DOMAIN checks : checks[i].op <= Len(ops)
  BY <1>1, TableOfChanges, TableOfChecks, TableOfOps DEF ChangesInv
<1>3. /\ registry \in [Project -> [active: BOOLEAN, policy: Policies, ref: 0..Len(changes)]]
      /\ hostRev \in Nat /\ seen \in [rev: 0..hostRev, ref: [Project -> 0..Len(changes)]]
      /\ wire \in [phase: {"none", "sent", "done", "refused"}, rev: Nat, policy: Policies \cup {"none"}]
      /\ initial \in [check: 0..Len(checks), outcome: Terminal]
  BY <1>1 DEF MTypeOK
<1>4. NoInitial \in [check: 0..Len(checks), outcome: Terminal]
  BY <1>2 DEF NoInitial, Terminal
<1> DEFINE Tables == /\ changes' \in Seq(ChangeRow) /\ Len(changes') = Len(changes)
                     /\ checks' \in Seq([status: {"none", "pending", "running", "cancelled", "unknown"}
                                                 \cup Terminal, op: 0..Len(ops')])
                     /\ Len(checks') = Len(checks)
           Typed == MTypeOK' /\ Len(checks') = Len(changes')
\* The tables keep their length, except that a change adds a row.
<1>5. ASSUME Len(ops') >= Len(ops), Len(ops') \in Nat, changes' \in Seq(ChangeRow),
             Len(changes') = Len(changes),
             checks' \in [1 .. Len(checks) -> CheckRow],
             \A i \in DOMAIN checks : checks'[i].op <= Len(ops')
      PROVE  Tables
  BY <1>1, <1>5, ChecksTyped
<1>6. ASSUME Len(ops') = Len(ops), UNCHANGED rows
      PROVE  Tables
  BY <1>2, <1>5, <1>6
<1>7. ASSUME Len(ops') = Len(ops), changes' = changes,
             checks' \in [1 .. Len(checks) -> CheckRow],
             \A i \in DOMAIN checks : checks'[i].op = checks[i].op
      PROVE  Tables
  BY <1>2, <1>5, <1>7
<1>8. ASSUME Tables, UNCHANGED <<registry, hostRev, wire>>,
             seen' = seen \/ seen' \in [rev: 0..hostRev, ref: [Project -> 0..Len(changes)]],
             initial' = initial \/ initial' \in [check: 0..Len(checks), outcome: Terminal]
      PROVE  Typed
  BY <1>1, <1>2, <1>3, <1>8 DEF MTypeOK, ChangeRow
<1>9. CASE Aside
  <2>1. Len(ops') = Len(ops) /\ UNCHANGED extra
    BY <1>1, <1>9, AsideOps DEF OpsKept, Aside
  <2>2. QED
    BY <1>6, <1>8, <2>1
<1>10. CASE MCrash
  BY <1>4, <1>6, <1>8, <1>10 DEF MCrash, Crash, durable, facts
<1>11. CASE MRestart
  <2>1. Len(ops') = Len(ops)
    BY <1>1, <1>11, InterruptedOps DEF MRestart
  <2>2. Tables
    BY <1>1, <1>7, <1>11, <2>1, AbandonedChecks DEF MRestart
  <2>3. seen' \in [rev: 0..hostRev, ref: [Project -> 0..Len(changes)]]
    BY <1>1, <1>11, RefreshTypes DEF MRestart
  <2>4. QED
    BY <1>8, <1>11, <2>2, <2>3 DEF MRestart
<1>12. CASE MClaim
  <2>1. Len(ops') = Len(ops) + 1 /\ Len(ops') \in Nat
    BY <1>1, <1>12, ClaimAppends, TableOfOps, AppendProperties DEF MClaim
  <2>2. \A i \in DOMAIN checks : checks'[i].op <= Len(ops')
    BY <1>1, <1>2, <1>12, <2>1, LinkedChecks, TableOfChecks
  <2>3. Tables
    BY <1>1, <1>2, <1>5, <1>12, <2>1, <2>2, LinkedChecks DEF MClaim
  <2>4. QED
    BY <1>8, <1>12, <2>3 DEF MClaim
<1>13. CASE MReconcileDone
  <2>1. ops' = ops
    BY <1>13 DEF MReconcileDone, ReconcileDone
  <2>2. Tables
    BY <1>1, <1>7, <1>13, <2>1, SettledChecks DEF MReconcileDone
  <2>3. QED
    BY <1>8, <1>13, <2>2 DEF MReconcileDone
<1>14. CASE HostRefuses
  <2>1. Tables /\ UNCHANGED <<registry, hostRev, seen, initial>>
    BY <1>6, <1>14 DEF HostRefuses, vars, durable, facts
  <2>2. wire' \in [phase: {"none", "sent", "done", "refused"}, rev: Nat, policy: Policies \cup {"none"}]
    BY <1>3, <1>14 DEF HostRefuses
  <2>3. QED
    BY <1>1, <1>2, <1>3, <2>1, <2>2 DEF MTypeOK, ChangeRow
<1>15. CASE HostApplies
  <2>1. Tables /\ UNCHANGED <<seen, initial>>
    BY <1>6, <1>15 DEF HostApplies, vars, durable, facts
  <2>2. wire' \in [phase: {"none", "sent", "done", "refused"}, rev: Nat, policy: Policies \cup {"none"}]
    BY <1>3, <1>15 DEF HostApplies
  <2>3. hostRev' = hostRev + 1 /\ seen' \in [rev: 0..hostRev', ref: [Project -> 0..Len(changes)]]
    BY <1>3, <1>15, <2>1 DEF HostApplies
  <2>4. /\ Len(changes) \in DOMAIN changes
        /\ changes[Len(changes)].action # "remove" => wire.policy \in Policies
    BY <1>1, <1>15 DEF HostApplies, ChangesInv, OneChangeOpen, RequestTracked, Pending
  <2>5. registry' \in [Project -> [active: BOOLEAN, policy: Policies, ref: 0..Len(changes)]]
    <3>1. PICK row : /\ registry' = [registry EXCEPT ![changes[Len(changes)].project] = row]
                     /\ row = [active |-> changes[Len(changes)].action # "remove",
                               policy |-> IF changes[Len(changes)].action = "remove"
                                          THEN registry[changes[Len(changes)].project].policy
                                          ELSE wire.policy,
                               ref    |-> Len(changes)]
      BY <1>15 DEF HostApplies
    <3>2. changes[Len(changes)].project \in Project
      BY <1>1, <2>4, TableOfChanges
    <3>3. row \in [active: BOOLEAN, policy: Policies, ref: 0..Len(changes)]
      BY <1>2, <1>3, <2>4, <3>1, <3>2
    <3>4. QED
      BY <1>3, <3>1, <3>3
  <2>6. QED
    BY <1>1, <1>2, <1>3, <2>1, <2>2, <2>3, <2>5 DEF MTypeOK, ChangeRow
<1>16. ASSUME NEW p \in Project, NEW action \in Action, NEW policy \in Policies, Change(p, action, policy)
       PROVE  Typed
  <2>1. /\ changes' \in Seq(ChangeRow) /\ Len(changes') = Len(changes) + 1
        /\ Len(checks') = Len(checks) + 1
        /\ checks' \in Seq([status: {"none", "pending", "running", "cancelled", "unknown"} \cup Terminal,
                            op: 0 .. Len(ops)])
    BY <1>1, <1>16, ChangeBegins
  <2>2. UNCHANGED <<ops, registry, hostRev, seen, initial>>
    BY <1>16 DEF Change, durable, facts
  <2>3. wire' \in [phase: {"none", "sent", "done", "refused"}, rev: Nat, policy: Policies \cup {"none"}]
    BY <1>3, <1>16 DEF Change
  <2>4. /\ registry' \in [Project -> [active: BOOLEAN, policy: Policies, ref: 0..Len(changes')]]
        /\ seen' \in [rev: 0..hostRev', ref: [Project -> 0..Len(changes')]]
        /\ initial' \in [check: 0..Len(checks'), outcome: Terminal]
    BY <1>2, <1>3, <2>1, <2>2
  <2>5. QED
    BY <1>1, <1>2, <1>3, <2>1, <2>2, <2>3, <2>4 DEF MTypeOK, ChangeRow
<1>17. ASSUME NEW listed, \/ ChangeAnswered \/ ChangeUncertain(listed) \/ ReconcileChanges
                          \/ ReconcileListFails \/ InitialStop \/ InitialPlanned
       PROVE  Typed
  <2>1. UNCHANGED <<ops, changes, checks, registry, hostRev, wire, initial>> /\ (seen' = seen \/ Refresh)
    BY <1>17 DEF ChangeAnswered, ChangeUncertain, ReconcileChanges, ReconcileListFails, InitialStop,
       InitialPlanned, durable, facts
  <2>2. Tables
    BY <1>6, <2>1
  <2>3. QED
    BY <1>1, <1>8, <2>1, <2>2, RefreshTypes
<1>18. CASE ChangeRefused
  <2>1. Len(changes) \in Pending
    BY <1>1, <1>18 DEF ChangeRefused, ChangesInv, JobsInPlace, OneChangeOpen
  <2>2. changes' \in Seq(ChangeRow) /\ Len(changes') = Len(changes)
    BY <1>1, <1>18, <2>1, ChangeEnds DEF ChangeRefused, ChangesInv
  <2>3. UNCHANGED <<ops, checks, registry, hostRev, seen, wire, initial>>
    BY <1>18 DEF ChangeRefused, durable, facts
  <2>4. Tables
    BY <1>2, <1>5, <2>2, <2>3
  <2>5. QED
    BY <1>8, <2>3, <2>4
<1>19. ASSUME NEW i \in Pending, CommitChange(i)
       PROVE  Typed
  <2>1. changes' \in Seq(ChangeRow) /\ Len(changes') = Len(changes) /\ i \in DOMAIN changes
    BY <1>1, <1>19, ChangeEnds DEF CommitChange, ChangesInv
  <2>2. /\ checks' \in [1 .. Len(checks) -> CheckRow]
        /\ \A j \in DOMAIN checks : checks'[j].op = checks[j].op
    BY <1>1, <1>19, <2>1, CommittedChecks
  <2>3. UNCHANGED <<ops, registry, hostRev, seen, wire, initial>>
    BY <1>19 DEF CommitChange
  <2>4. Tables
    BY SMTT(30), <1>2, <1>5, <2>1, <2>2, <2>3
  <2>5. QED
    BY <1>8, <2>3, <2>4
<1>20. ASSUME NEW i, CommitRefused(i)
       PROVE  Typed
  <2>1. UNCHANGED <<ops, changes, checks, registry, hostRev, seen, wire, initial>>
    BY <1>20 DEF CommitRefused, facts
  <2>2. QED
    BY <1>6, <1>8, <2>1
<1>21. ASSUME NEW i \in Queued, InitialClaim(i)
       PROVE  Typed
  <2>1. UNCHANGED <<ops, changes, registry, hostRev, seen, wire>>
    BY <1>21 DEF InitialClaim, durable, facts
  <2>2. checks' = [checks EXCEPT ![i].status = "running"] /\ "running" \in CheckStatus
    BY <1>21 DEF InitialClaim, CheckStatus
  <2>3. Tables
    BY <1>1, <1>7, <2>1, <2>2, OneCheck
  <2>4. i \in 1 .. Len(checks)
    BY <1>2 DEF Queued
  <2>5. initial' = [check |-> i, outcome |-> "failed"]
    BY <1>21 DEF InitialClaim
  <2>6. initial' \in [check: 0..Len(checks), outcome: Terminal]
    BY <1>2, <2>4, <2>5 DEF Terminal
  <2>7. QED
    BY <1>8, <2>1, <2>3, <2>6
<1>22. ASSUME NEW outcome \in Terminal, InitialChecked(outcome)
       PROVE  Typed
  <2>1. UNCHANGED <<ops, changes, checks, registry, hostRev, seen, wire>>
    BY <1>22 DEF InitialChecked, durable, facts
  <2>2. initial' \in [check: 0..Len(checks), outcome: Terminal]
    BY <1>3, <1>22 DEF InitialChecked
  <2>3. QED
    BY <1>6, <1>8, <2>1, <2>2
<1>23. CASE InitialStore
  <2>1. UNCHANGED <<ops, changes, registry, hostRev, seen, wire>> /\ initial' = NoInitial
    BY <1>23 DEF InitialStore, durable, facts
  <2>2. Tables
    BY <1>7, <1>23, <2>1, StoredChecks
  <2>3. QED
    BY <1>4, <1>8, <2>1, <2>2
<1>24. CASE Registers
  BY <1>16, <1>17, <1>18, <1>19, <1>20, <1>21, <1>22, <1>23, <1>24 DEF Registers
<1>25. QED
  BY <1>9, <1>10, <1>11, <1>12, <1>13, <1>14, <1>15, <1>24, MSteps

-----------------------------------------------------------------------------
(* One change at a time, and what the host has of it. *)

LEMMA ChangesStep ==
    ASSUME MInv, GateInv', MTypeOK', Len(checks') = Len(changes'), [MNext]_all
    PROVE  ChangesInv'
<1> USE DEF control, schedule, facts, durable, memory, host, rows, extra
<1>1. /\ MTypeOK /\ TypeOK /\ worker \in Worker /\ DownIsIdle
      /\ ChangesInv /\ JobsInPlace /\ OneChangeOpen /\ RequestTracked /\ CompletedIsReal
  BY DEF MInv, GateInv, TypeOK, ChangesInv
<1>2. /\ DOMAIN changes = 1 .. Len(changes) /\ Len(changes) \in Nat
      /\ \A i \in DOMAIN changes : changes[i].project \in Project
      /\ \A p \in Project : registry[p].ref \in 0 .. Len(changes) /\ seen.ref[p] \in 0 .. Len(changes)
  BY <1>1, TableOfChanges DEF MTypeOK
<1> DEFINE Placed == JobsInPlace' /\ OneChangeOpen'
           Tracked == RequestTracked' /\ CompletedIsReal'
<1>3. ASSUME UNCHANGED <<changes, registry, wire>>, seen' = seen \/ Refresh
      PROVE  Tracked /\ Pending' = Pending /\ Len(changes') = Len(changes)
  <2>1. \A p \in Project : seen'.ref[p] = seen.ref[p] \/ seen'.ref[p] = registry[p].ref
    BY <1>3 DEF Refresh
  <2>2. Pending' = Pending
    BY <1>3 DEF Pending
  <2>3. \A p \in Project : seen'.ref[p] <= registry'[p].ref
    BY <1>1, <1>2, <1>3, <2>1 DEF RequestTracked
  <2>4. RequestTracked'
    BY <1>1, <1>3, <2>2, <2>3 DEF RequestTracked
  <2>5. CompletedIsReal'
    BY <1>1, <1>3 DEF CompletedIsReal
  <2>6. QED
    BY <1>3, <2>2, <2>4, <2>5
\* Under an open gate only a change that waits for its answer is pending.
<1>4. gate = "ready" /\ worker.job \notin {"change", "down"} => Pending = {}
  BY <1>1 DEF OneChangeOpen
<1>5. CASE Aside
  <2>1. /\ UNCHANGED <<changes, registry, wire, seen>>
        /\ gate' = "ready" => gate = "ready"
        /\ worker' = worker \/ JobMoves
    BY <1>1, <1>5, AsideOps, AsideJobs DEF Aside, OpsKept, MInv
  <2>2. Tracked /\ Pending' = Pending /\ Len(changes') = Len(changes)
    BY <1>3, <2>1
  <2>3. Placed
    BY <1>1, <1>4, <2>1, <2>2 DEF JobsInPlace, OneChangeOpen, JobMoves, At
  <2>4. QED
    BY <2>2, <2>3 DEF ChangesInv
<1>6. CASE MCrash
  <2>1. UNCHANGED <<changes, registry, wire, seen>> /\ worker'.job = "down" /\ worker'.pc = "idle"
    BY <1>6 DEF MCrash, Crash, Idle
  <2>2. Tracked /\ Pending' = Pending /\ Len(changes') = Len(changes)
    BY <1>3, <2>1
  <2>3. Placed
    BY <1>1, <2>1, <2>2 DEF JobsInPlace, OneChangeOpen, At
  <2>4. QED
    BY <2>2, <2>3 DEF ChangesInv
<1>7. CASE MRestart
  <2>1. /\ UNCHANGED <<changes, registry, wire>> /\ Refresh
        /\ worker'.job = "boot" /\ worker'.pc = "rec_start" /\ gate' = "startup"
    BY <1>7 DEF MRestart, Idle
  <2>2. Tracked /\ Pending' = Pending /\ Len(changes') = Len(changes)
    BY <1>3, <2>1
  <2>3. Placed
    BY <1>1, <2>1, <2>2 DEF JobsInPlace, OneChangeOpen, At
  <2>4. QED
    BY <2>2, <2>3 DEF ChangesInv
<1>8. CASE MClaim
  <2>1. /\ UNCHANGED <<changes, registry, wire, seen, gate>> /\ gate = "ready" /\ worker.pc = "claim"
        /\ worker'.pc = "apply" /\ worker'.job = worker.job
    BY <1>1, <1>8 DEF MClaim, Claim, MayDispatch, Worker, At
  <2>2. Tracked /\ Pending' = Pending /\ Len(changes') = Len(changes)
    BY <1>3, <2>1
  <2>3. Pending = {}
    BY <1>1, <1>4, <2>1 DEF JobsInPlace, DownIsIdle, At
  <2>4. Placed
    BY <1>1, <2>1, <2>2, <2>3 DEF JobsInPlace, OneChangeOpen, At
  <2>5. QED
    BY <2>2, <2>4 DEF ChangesInv
<1>9. CASE MReconcileDone
  <2>1. /\ UNCHANGED <<changes, registry, wire, seen>> /\ At("rec") /\ worker' = Returned(TRUE)
    BY <1>9 DEF MReconcileDone, ReconcileDone
  <2>2. Tracked /\ Pending' = {} /\ Len(changes') = Len(changes)
    BY <1>1, <1>3, <2>1 DEF JobsInPlace
  <2>3. Onward(worker')
    BY <1>1, <2>1, OnwardJobs DEF JobsInPlace, DownIsIdle, At
  <2>4. Placed
    BY <2>2, <2>3 DEF JobsInPlace, OneChangeOpen, At, Onward
  <2>5. QED
    BY <2>2, <2>4 DEF ChangesInv
<1>10. CASE HostApplies \/ HostRefuses
  <2>1. UNCHANGED <<gate, worker, changes, seen>> /\ wire.phase = "sent"
    BY <1>10 DEF HostApplies, HostRefuses, vars
  <2>2. Pending' = Pending /\ Pending = {Len(changes)} /\ Len(changes) \in DOMAIN changes
    BY <1>1, <2>1 DEF RequestTracked, OneChangeOpen, Pending
  <2>3. Placed
    BY <1>1, <2>1, <2>2 DEF JobsInPlace, OneChangeOpen, At
  <2>4. CASE HostRefuses
    <3>1. UNCHANGED registry /\ wire'.phase = "refused"
      BY <1>1, <2>4 DEF HostRefuses, MTypeOK
    <3>2. Tracked
      BY <1>1, <2>1, <2>2, <3>1 DEF RequestTracked, CompletedIsReal
    <3>3. QED
      BY <2>3, <3>2 DEF ChangesInv
  <2>5. CASE HostApplies
    <3>1. wire'.phase = "done"
      BY <1>1, <2>5 DEF HostApplies, MTypeOK
    <3>2. \A p \in Project : \/ registry'[p].ref = registry[p].ref
                             \/ registry'[p].ref = Len(changes)
      BY <1>1, <2>5 DEF HostApplies, MTypeOK
    <3>3. \A p \in Project : registry'[p].ref >= registry[p].ref
      BY <1>2, <3>2
    <3>4. \A p \in Project : seen'.ref[p] <= registry'[p].ref
      BY <1>1, <1>2, <2>1, <3>2 DEF RequestTracked
    <3>5. CompletedIsReal'
      <4>1. ASSUME NEW i \in DOMAIN changes, changes[i].status = "completed"
            PROVE  registry'[changes[i].project].ref >= i
        <5>1. registry[changes[i].project].ref >= i /\ changes[i].project \in Project
          BY <1>1, <1>2, <4>1 DEF CompletedIsReal
        <5>2. QED
          BY <1>2, <3>2, <5>1
      <4>2. QED
        BY <2>1, <4>1 DEF CompletedIsReal
    <3>6. RequestTracked'
      BY <3>1, <3>4 DEF RequestTracked
    <3>7. QED
      BY <2>3, <3>5, <3>6 DEF ChangesInv
  <2>6. QED
    BY <1>10, <2>4, <2>5
<1>11. ASSUME NEW p \in Project, NEW action \in Action, NEW policy \in Policies, Change(p, action, policy)
       PROVE  ChangesInv'
  <2>1. /\ Pending' = {Len(changes) + 1} /\ Len(changes') = Len(changes) + 1
        /\ DOMAIN changes' = 1 .. Len(changes) + 1
        /\ \A i \in DOMAIN changes : changes'[i] = changes[i]
        /\ changes'[Len(changes) + 1] = [project |-> p, action |-> action, status |-> "pending"]
    BY <1>1, <1>11, ChangeBegins
  <2>2. /\ UNCHANGED <<registry, seen, gate>> /\ wire'.phase = "sent"
        /\ action # "remove" => wire'.policy \in Policies
        /\ worker'.job = "change" /\ worker'.pc = "request"
    BY <1>11 DEF Change, Idle
  <2>3. Placed
    BY <2>1, <2>2 DEF JobsInPlace, OneChangeOpen, At
  <2>4. RequestTracked'
    BY <1>1, <1>2, <2>1, <2>2 DEF RequestTracked
  <2>5. CompletedIsReal'
    BY <1>1, <1>2, <2>1, <2>2 DEF CompletedIsReal
  <2>6. QED
    BY <2>3, <2>4, <2>5 DEF ChangesInv
<1>12. ASSUME NEW listed, ChangeAnswered \/ ChangeUncertain(listed) \/ ReconcileChanges
       PROVE  ChangesInv'
  <2>1. UNCHANGED <<changes, registry, wire, gate>> /\ (seen' = seen \/ Refresh)
    BY <1>12 DEF ChangeAnswered, ChangeUncertain, ReconcileChanges
  <2>2. /\ worker.pc \in {"request", "rec_start"} /\ Pending # {}
        /\ worker'.pc = "commit" /\ worker'.job = worker.job
    BY <1>1, <1>12 DEF ChangeAnswered, ChangeUncertain, ReconcileChanges, ChangesSettled, At,
       JobsInPlace, Worker
  <2>3. Tracked /\ Pending' = Pending /\ Len(changes') = Len(changes)
    BY <1>3, <2>1
  <2>4. Placed
    BY <1>1, <2>1, <2>2, <2>3 DEF JobsInPlace, OneChangeOpen, At
  <2>5. QED
    BY <2>3, <2>4 DEF ChangesInv
<1>13. CASE ChangeRefused
  <2>1. Len(changes) \in Pending /\ wire.phase # "sent"
    BY <1>1, <1>13 DEF ChangeRefused, JobsInPlace, OneChangeOpen
  <2>2. /\ Len(changes') = Len(changes) /\ DOMAIN changes' = DOMAIN changes /\ Pending' = {}
        /\ \A j \in DOMAIN changes : /\ changes'[j].project = changes[j].project
                                     /\ changes'[j].status = "completed" => changes[j].status = "completed"
    <3>1. changes' = [changes EXCEPT ![Len(changes)].status = "failed"]
      BY <1>13 DEF ChangeRefused
    <3>2. /\ Len(changes') = Len(changes) /\ DOMAIN changes' = DOMAIN changes /\ Pending' = {}
          /\ \A j \in DOMAIN changes :
                /\ changes'[j].project = changes[j].project
                /\ changes'[j].status = IF j = Len(changes) THEN "failed" ELSE changes[j].status
      BY <1>1, <2>1, <3>1, ChangeEnds
    <3>3. QED
      BY <3>2
  <2>3. UNCHANGED <<registry, seen, wire>> /\ worker'.job = "none" /\ worker'.pc = "idle"
    BY <1>13 DEF ChangeRefused, Released, Idle
  <2>4. Placed
    BY <2>2, <2>3 DEF JobsInPlace, OneChangeOpen, At
  <2>5. Tracked
    BY <1>1, <2>1, <2>2, <2>3 DEF RequestTracked, CompletedIsReal
  <2>6. QED
    BY <2>4, <2>5 DEF ChangesInv
<1>14. ASSUME NEW i \in Pending, CommitChange(i)
       PROVE  ChangesInv'
  <2>1. /\ Len(changes') = Len(changes) /\ DOMAIN changes' = DOMAIN changes /\ Pending' = {}
        /\ i = Len(changes) /\ i \in DOMAIN changes
        /\ \A j \in DOMAIN changes : /\ changes'[j].project = changes[j].project
                                     /\ changes'[j].status = "completed" =>
                                            j = i \/ changes[j].status = "completed"
    BY <1>1, <1>14, ChangeEnds DEF CommitChange
  <2>2. /\ UNCHANGED <<registry, seen, wire>> /\ At("commit") /\ Confirmed(i)
        /\ worker' = Idle \/ (worker' = [worker EXCEPT !.pc = "rec_start"] /\ worker.job # "change")
    BY <1>14 DEF CommitChange, Released
  <2>3. registry[changes[i].project].ref >= i /\ wire.phase # "sent"
    BY <1>1, <1>2, <2>1, <2>2 DEF RequestTracked, Confirmed
  <2>4. worker.job \notin {"down", "initial"}
    BY <1>1, <2>2 DEF JobsInPlace, DownIsIdle, At
  <2>5. \/ worker'.job = "none" /\ worker'.pc = "idle"
        \/ worker'.job = worker.job /\ worker'.pc = "rec_start" /\ worker.job # "change"
    BY <1>1, <2>2 DEF Idle, Worker
  <2>6. Placed
    BY <2>1, <2>4, <2>5 DEF JobsInPlace, OneChangeOpen, At
  <2>7. Tracked
    BY <1>1, <2>1, <2>2, <2>3 DEF RequestTracked, CompletedIsReal
  <2>8. QED
    BY <2>6, <2>7 DEF ChangesInv
<1>15. ASSUME NEW i, CommitRefused(i) \/ ReconcileListFails
       PROVE  ChangesInv'
  <2>1. /\ UNCHANGED <<changes, registry, wire, seen>> /\ gate' # "ready"
        /\ worker.pc \in {"commit", "rec_start"}
        /\ worker' = Idle \/ (worker' = Returned(FALSE) /\ worker.job # "change")
    BY <1>1, <1>15 DEF CommitRefused, ReconcileListFails, Released, At, JobsInPlace
  <2>2. Onward(worker')
    <3>1. Onward(Idle)
      BY DEF Onward, Idle
    <3>2. worker.job \notin {"down", "initial"}
      BY <1>1, <2>1 DEF JobsInPlace, DownIsIdle
    <3>3. QED
      BY <1>1, <2>1, <3>1, <3>2, OnwardJobs
  <2>3. Tracked /\ Pending' = Pending /\ Len(changes') = Len(changes)
    BY <1>3, <2>1
  <2>4. Placed
    BY <1>1, <2>1, <2>2, <2>3 DEF JobsInPlace, OneChangeOpen, At, Onward
  <2>5. QED
    BY <2>3, <2>4 DEF ChangesInv
<1>16. ASSUME NEW i, NEW outcome,
              InitialClaim(i) \/ InitialStop \/ InitialPlanned \/ InitialChecked(outcome) \/ InitialStore
       PROVE  ChangesInv'
  <2>1. UNCHANGED <<changes, registry, wire, seen, gate>>
    BY <1>16 DEF InitialClaim, InitialStop, InitialPlanned, InitialChecked, InitialStore
  <2>2. /\ worker.job \in {"none", "initial"}
        /\ \/ worker'.job = "initial" /\ worker'.pc \in {"plan", "claim", "store", "next"}
           \/ worker'.job = "none" /\ worker'.pc = "idle"
    <3>1. CASE InitialClaim(i)
      <4>1. PICK pc \in {"plan", "store"} :
               worker' = [Idle EXCEPT !.job = "initial", !.project = changes[i].project,
                                      !.rev = revision, !.pc = pc]
        BY <3>1 DEF InitialClaim
      <4>2. QED
        BY <1>1, <3>1, <4>1 DEF InitialClaim, Free, At, JobsInPlace, Idle
    <3>2. CASE InitialStop
      BY <1>1, <3>2 DEF InitialStop, Released, At, JobsInPlace, Idle
    <3>3. CASE InitialPlanned \/ InitialChecked(outcome)
      BY <1>1, <3>3 DEF InitialPlanned, InitialChecked, Worker
    <3>4. CASE InitialStore
      BY <1>1, <3>4 DEF InitialStore, At, JobsInPlace, Idle
    <3>5. QED
      BY <1>16, <3>1, <3>2, <3>3, <3>4
  <2>3. Tracked /\ Pending' = Pending /\ Len(changes') = Len(changes)
    BY <1>3, <2>1
  <2>4. gate = "ready" => Pending = {}
    BY <1>4, <2>2
  <2>5. Placed
    BY <1>1, <2>1, <2>2, <2>3, <2>4 DEF JobsInPlace, OneChangeOpen, At
  <2>6. QED
    BY <2>3, <2>5 DEF ChangesInv
<1>17. CASE Registers
  BY <1>11, <1>12, <1>13, <1>14, <1>15, <1>16, <1>17 DEF Registers
<1>18. QED
  BY <1>5, <1>6, <1>7, <1>8, <1>9, <1>10, <1>17, MSteps

-----------------------------------------------------------------------------
(* First checks. *)

\* What a step may do to the status of a first check.
Advances(from, to) == \/ from = "none" /\ to = "pending"
                      \/ from = "pending" /\ to \in {"running", "cancelled"}
                      \/ from = "running" /\ to \in Terminal \cup {"unknown"}
                      \/ from = "unknown" /\ to \in Terminal

ChecksAdvance ==
    \A i \in DOMAIN checks :
        /\ i \in DOMAIN checks' /\ checks'[i] \in CheckRow
        /\ \/ checks'[i].status = checks[i].status /\ checks'[i].op = checks[i].op
           \/ Advances(checks[i].status, checks'[i].status)
           \/ checks[i].op = 0 /\ checks'[i].op # 0

\* Once writes may resume, every dispatched check has a final result to take.
LEMMA SettledFinally ==
    ASSUME MInv, MReconcileDone
    PROVE  /\ checks' \in [1 .. Len(checks) -> CheckRow]
           /\ \A j \in DOMAIN checks :
                  /\ checks'[j].op = checks[j].op
                  /\ checks[j].status \in {"running", "unknown"} =>
                        /\ checks[j].op # 0
                        /\ checks'[j].status = ops[checks[j].op].status
                        /\ checks'[j].status \in Terminal
                  /\ checks[j].status \notin {"running", "unknown"} => checks'[j].status = checks[j].status
<1>1. /\ MTypeOK /\ TypeOK /\ DownIsIdle /\ JobsInPlace /\ ChecksInPlace
      /\ At("rec") /\ Unresolved = {}
      /\ checks' = [i \in DOMAIN checks |-> Settled(checks[i])]
  BY DEF MInv, GateInv, ChangesInv, MReconcileDone, ReconcileDone, MayReopen
<1>2. worker.job \notin {"down", "initial"}
  BY <1>1 DEF DownIsIdle, JobsInPlace, At
<1>3. \A j \in DOMAIN checks :
         /\ checks[j].op \in 0 .. Len(ops)
         /\ checks[j].status \in {"running", "unknown"} => checks[j].op # 0
  BY <1>1, <1>2, TableOfChecks DEF ChecksInPlace, CheckInPlace, HeldInPlace, Owned
<1>4. \A k \in DOMAIN ops : ops[k].status \in Terminal
  BY <1>1, TableOfOps DEF Unresolved, Operation
<1>5. \A j \in DOMAIN checks : checks[j].op # 0 => ops[checks[j].op].status \in Terminal
  BY <1>1, <1>3, <1>4, TableOfOps
<1>6. QED
  BY <1>1, <1>3, <1>5, SettledChecks

LEMMA ChecksStep ==
    ASSUME MInv, GateInv', [MNext]_all
    PROVE  ChecksInPlace' /\ ChecksAdvance
<1> USE DEF control, schedule, facts, durable, memory, host, rows, extra, ChecksInPlace, CheckInPlace, HeldInPlace, Owned, At
<1>1. /\ MTypeOK /\ TypeOK /\ worker \in Worker /\ DownIsIdle /\ ReadyMeansResolved
      /\ ChangesInv /\ JobsInPlace /\ OneChangeOpen /\ ChecksInPlace
  BY DEF MInv, GateInv, TypeOK, ChangesInv
<1>2. /\ DOMAIN checks = 1 .. Len(checks) /\ Len(checks) \in Nat
      /\ DOMAIN ops = 1 .. Len(ops) /\ Len(ops) \in Nat
      /\ checks \in [1 .. Len(checks) -> CheckRow]
      /\ \A i \in DOMAIN checks : checks[i].op \in 0 .. Len(ops)
      /\ Pending \subseteq DOMAIN checks
  <2>1. Pending \subseteq DOMAIN checks
    BY <1>1, TableOfChecks, TableOfChanges DEF Pending, ChangesInv
  <2>2. QED
    BY <1>1, <2>1, TableOfChecks, TableOfOps
<1>3. ASSUME UNCHANGED checks
      PROVE  ChecksAdvance
  BY <1>2, <1>3 DEF ChecksAdvance
<1>4. ASSUME UNCHANGED changes
      PROVE  Pending' = Pending
  BY <1>4 DEF Pending
<1> DEFINE Told == \A k \in DOMAIN ops : ops[k].status \in Terminal => ops'[k].status = ops[k].status
\* Steps that leave the table alone and hand no first check over.
<1>5. ASSUME UNCHANGED <<changes, checks>>, Told, worker.job # "down" \/ worker'.job = "down",
             gate' = "ready" => gate = "ready",
             worker'.job # "initial" \/ worker'.pc = "next",
             worker.job # "initial" \/ worker.pc = "next" \/ worker'.job = "down"
      PROVE  ChecksInPlace' /\ ChecksAdvance
  BY <1>1, <1>2, <1>3, <1>4, <1>5
<1>6. ASSUME UNCHANGED ops
      PROVE  Told
  BY <1>6
<1>7. CASE Aside
  <2>1. /\ UNCHANGED <<changes, checks, initial>> /\ Told
        /\ gate' = "ready" => gate = "ready"
        /\ worker' = worker \/ JobMoves
    BY <1>1, <1>7, AsideOps, AsideJobs DEF Aside, OpsKept, MInv
  <2>2. QED
    BY <1>1, <1>2, <1>3, <1>4, <2>1 DEF JobMoves
<1>8. CASE MCrash
  <2>1. UNCHANGED <<changes, checks, gate, ops>> /\ worker'.job = "down"
    BY <1>8 DEF MCrash, Crash, Idle
  <2>2. QED
    BY <1>5, <1>6, <2>1
<1>9. CASE MRestart
  <2>1. UNCHANGED changes /\ gate' = "startup" /\ worker'.job = "boot"
    BY <1>9 DEF MRestart, Idle
  <2>2. Told
    BY <1>9, <1>1, InterruptedOps DEF MRestart, Terminal
  <2>3. /\ checks' \in [1 .. Len(checks) -> CheckRow]
        /\ \A j \in DOMAIN checks :
               /\ checks'[j].op = checks[j].op
               /\ checks'[j].status = IF checks[j].status = "running" /\ checks[j].op = 0
                                      THEN "failed" ELSE checks[j].status
    BY <1>1, <1>9, AbandonedChecks DEF MRestart
  <2>4. ChecksAdvance
    BY <1>2, <2>3 DEF ChecksAdvance, Advances, Terminal
  <2>5. ChecksInPlace'
    <3>1. DOMAIN checks' = DOMAIN checks
      BY <1>2, <2>3
    <3>2. HeldInPlace'
      BY <1>1, <1>2, <2>3, <2>1, <2>2
    <3>3. ASSUME NEW j \in DOMAIN checks
          PROVE  CheckInPlace(j)'
      BY <1>1, <1>2, <3>3, <2>3, <2>1, <2>2
    <3>4. ASSUME NEW j \in Pending'
          PROVE  checks'[j].status = "none"
      BY <1>1, <1>2, <1>4, <3>4, <2>3, <2>1, <2>2
    <3>5. QED
      BY <3>1, <3>2, <3>3, <3>4
  <2>6. QED
    BY <2>4, <2>5
<1>10. CASE MClaim
  <2>1. /\ UNCHANGED <<changes, gate, initial>> /\ worker.pc = "claim"
        /\ worker'.pc = "apply" /\ worker'.job = worker.job
    BY <1>1, <1>10 DEF MClaim, Claim, Worker
  <2>2. Told
    BY <1>1, <1>2, <1>10, ClaimAppends, TableOfOps, AppendProperties DEF MClaim
  <2>3. /\ checks' \in [1 .. Len(checks) -> CheckRow]
        /\ \A j \in DOMAIN checks :
               /\ checks'[j].status = checks[j].status
               /\ checks'[j].op = IF worker.job = "initial" /\ j = initial.check
                                  THEN Len(ops) + 1 ELSE checks[j].op
    BY <1>1, <1>10, LinkedChecks
  <2>4. ChecksAdvance
    BY <1>1, <1>2, <2>1, <2>3 DEF ChecksAdvance
  <2>5. ChecksInPlace'
    <3>1. DOMAIN checks' = DOMAIN checks
      BY <1>2, <2>3
    <3>2. HeldInPlace'
      BY <1>1, <1>2, <2>3, <2>1, <2>2
    <3>3. ASSUME NEW j \in DOMAIN checks
          PROVE  CheckInPlace(j)'
      BY <1>1, <1>2, <3>3, <2>3, <2>1, <2>2 DEF Terminal
    <3>4. ASSUME NEW j \in Pending'
          PROVE  checks'[j].status = "none"
      BY <1>1, <1>2, <1>4, <3>4, <2>3, <2>1, <2>2
    <3>5. QED
      BY <3>1, <3>2, <3>3, <3>4
  <2>6. QED
    BY <2>4, <2>5
<1>11. CASE MReconcileDone
  <2>1. UNCHANGED <<changes, ops>> /\ At("rec") /\ worker' = Returned(TRUE)
    BY <1>11 DEF MReconcileDone, ReconcileDone
  <2>2. Onward(worker')
    BY <1>1, <2>1, OnwardJobs DEF JobsInPlace, DownIsIdle
  <2>3. /\ checks' \in [1 .. Len(checks) -> CheckRow]
        /\ \A j \in DOMAIN checks :
               /\ checks'[j].op = checks[j].op
               /\ checks[j].status \in {"running", "unknown"} =>
                     /\ checks[j].op # 0
                     /\ checks'[j].status = ops[checks[j].op].status
                     /\ checks'[j].status \in Terminal
               /\ checks[j].status \notin {"running", "unknown"} => checks'[j].status = checks[j].status
    BY <1>11, SettledFinally
  <2>4. ChecksAdvance
    BY <1>2, <2>3 DEF ChecksAdvance, Advances
  <2>5. ChecksInPlace'
    <3>1. DOMAIN checks' = DOMAIN checks
      BY <1>2, <2>3
    <3>2. HeldInPlace'
      BY <1>1, <1>2, <2>3, <2>1, <2>2 DEF Onward
    <3>3. ASSUME NEW j \in DOMAIN checks
          PROVE  CheckInPlace(j)'
      <4>1. CheckInPlace(j) /\ checks[j].op \in 0 .. Len(ops)
        BY <1>1, <1>2, <2>1, <3>3 DEF ChecksInPlace
      <4>2. CASE checks[j].status \in {"running", "unknown"}
        <5>1. /\ checks'[j].op = checks[j].op /\ checks'[j].op # 0
              /\ checks'[j].status \in Terminal /\ checks'[j].status = ops'[checks'[j].op].status
          BY <2>1, <2>3, <3>3, <4>2
        <5>2. QED
          BY <5>1 DEF CheckInPlace, Terminal
      <4>3. CASE checks[j].status \notin {"running", "unknown"}
        <5>1. checks'[j].op = checks[j].op /\ checks'[j].status = checks[j].status /\ ops' = ops
          BY <2>1, <2>3, <3>3, <4>3
        <5>2. QED
          BY <4>1, <4>3, <5>1 DEF CheckInPlace
      <4>4. QED
        BY <4>2, <4>3
    <3>4. ASSUME NEW j \in Pending'
          PROVE  checks'[j].status = "none"
      BY <1>1, <1>2, <1>4, <3>4, <2>3, <2>1, <2>2
    <3>5. QED
      BY <3>1, <3>2, <3>3, <3>4
  <2>6. QED
    BY <2>4, <2>5
<1>12. CASE HostApplies \/ HostRefuses
  <2>1. UNCHANGED <<changes, checks, initial, worker, gate, ops>>
    BY <1>12 DEF HostApplies, HostRefuses, vars
  <2>2. QED
    BY <1>1, <1>2, <1>3, <1>4, <2>1
<1>13. ASSUME NEW p \in Project, NEW action \in Action, NEW policy \in Policies, Change(p, action, policy)
       PROVE  ChecksInPlace' /\ ChecksAdvance
  <2>1. /\ Pending' = {Len(changes) + 1} /\ Len(checks) = Len(changes)
        /\ DOMAIN checks' = 1 .. Len(checks) + 1
        /\ \A i \in DOMAIN checks : checks'[i] = checks[i]
        /\ checks'[Len(checks) + 1] = NoCheck
    BY <1>1, <1>13, ChangeBegins DEF ChangesInv
  <2>2. /\ UNCHANGED <<gate, ops>> /\ worker.job = "none" /\ worker'.job = "change"
    BY <1>13 DEF Change, Free, Idle
  <2>3. ChecksAdvance
    BY <1>2, <2>1 DEF ChecksAdvance
  <2>4. ChecksInPlace'
    BY <1>1, <1>2, <2>1, <2>2 DEF NoCheck, Terminal
  <2>5. QED
    BY <2>3, <2>4
<1>14. ASSUME NEW listed, ChangeAnswered \/ ChangeUncertain(listed) \/ ReconcileChanges
       PROVE  ChecksInPlace' /\ ChecksAdvance
  <2>1. /\ UNCHANGED <<changes, checks, gate, ops>>
        /\ worker.pc \in {"request", "rec_start"} /\ worker'.job = worker.job
    BY <1>1, <1>14 DEF ChangeAnswered, ChangeUncertain, ReconcileChanges, Worker
  <2>2. worker.job \notin {"initial", "down"}
    BY <1>1, <2>1 DEF JobsInPlace, DownIsIdle
  <2>3. QED
    BY <1>5, <1>6, <2>1, <2>2
<1>15. ASSUME NEW i, CommitRefused(i) \/ ReconcileListFails
       PROVE  ChecksInPlace' /\ ChecksAdvance
  <2>1. /\ UNCHANGED <<changes, checks, ops>> /\ gate' # "ready"
        /\ worker.pc \in {"commit", "rec_start"}
        /\ worker' = Idle \/ (worker' = Returned(FALSE) /\ worker.job # "change")
    BY <1>1, <1>15 DEF CommitRefused, ReconcileListFails, Released, JobsInPlace
  <2>2. worker.job \notin {"initial", "down"}
    BY <1>1, <2>1 DEF JobsInPlace, DownIsIdle
  <2>3. Onward(worker')
    <3>1. Onward(Idle)
      BY DEF Onward, Idle
    <3>2. QED
      BY <1>1, <2>1, <2>2, <3>1, OnwardJobs
  <2>4. QED
    BY <1>5, <1>6, <2>1, <2>2, <2>3 DEF Onward
<1>16. CASE ChangeRefused
  <2>1. /\ Len(changes) \in Pending /\ worker.job = "change"
        /\ changes' = [changes EXCEPT ![Len(changes)].status = "failed"]
        /\ UNCHANGED <<checks, gate, ops>> /\ worker'.job = "none"
    BY <1>1, <1>16 DEF ChangeRefused, JobsInPlace, OneChangeOpen, Released, Idle
  <2>2. Pending' = {}
    BY <1>1, <2>1, ChangeEnds
  <2>3. ChecksInPlace'
    BY <1>1, <1>2, <2>1, <2>2
  <2>4. QED
    BY <1>3, <2>1, <2>3
<1>17. ASSUME NEW i \in Pending, CommitChange(i)
       PROVE  ChecksInPlace' /\ ChecksAdvance
  <2>1. Pending' = {} /\ i \in DOMAIN changes
    BY <1>1, <1>17, ChangeEnds DEF CommitChange
  <2>2. /\ UNCHANGED <<gate, ops>> /\ worker.pc = "commit"
        /\ worker' = Idle \/ worker' = [worker EXCEPT !.pc = "rec_start"]
    BY <1>17 DEF CommitChange, Released
  <2>3. worker.job \notin {"initial", "down"} /\ worker'.job \notin {"initial", "down"}
    BY <1>1, <2>2 DEF JobsInPlace, DownIsIdle, Idle, Worker
  <2>4. /\ checks' \in [1 .. Len(checks) -> CheckRow]
        /\ \A j \in DOMAIN checks :
               /\ checks'[j].op = checks[j].op
               /\ \/ checks'[j].status = checks[j].status
                  \/ checks[j].status = "pending" /\ checks'[j].status = "cancelled"
                  \/ j = i /\ checks'[j].status = "pending"
    BY <1>1, <1>17, <2>1, CommittedChecks
  <2>5. checks[i].status = "none"
    BY <1>1
  <2>6. ChecksAdvance
    BY <1>2, <2>4, <2>5 DEF ChecksAdvance, Advances
  <2>7. ChecksInPlace'
    BY <1>1, <1>2, <2>1, <2>2, <2>3, <2>4, <2>5 DEF Terminal
  <2>8. QED
    BY <2>6, <2>7
<1>18. ASSUME NEW i \in Queued, InitialClaim(i)
       PROVE  ChecksInPlace' /\ ChecksAdvance
  <2>1. /\ UNCHANGED <<changes, gate, ops>> /\ gate = "ready"
        /\ worker.job = "none" \/ worker.pc = "next"
        /\ checks' = [checks EXCEPT ![i].status = "running"] /\ initial'.check = i
    BY <1>18 DEF InitialClaim, Free
  <2>2. PICK pc \in {"plan", "store"} :
           worker' = [Idle EXCEPT !.job = "initial", !.project = changes[i].project,
                                  !.rev = revision, !.pc = pc]
    BY <1>18 DEF InitialClaim
  <2>3. worker'.job = "initial" /\ worker'.pc \in {"plan", "store"} /\ worker.job \notin {"change", "down"}
    BY <1>1, <2>1, <2>2 DEF JobsInPlace, Idle
  <2>4. /\ checks' \in [1 .. Len(checks) -> CheckRow]
        /\ \A j \in DOMAIN checks : /\ checks'[j].op = checks[j].op
                                    /\ checks'[j].status = IF j = i THEN "running" ELSE checks[j].status
    <3>1. "running" \in CheckStatus /\ i \in DOMAIN checks
      BY DEF CheckStatus, Queued
    <3>2. MTypeOK /\ checks' = [checks EXCEPT ![i].status = "running"]
      BY <1>1, <2>1
    <3>3. QED
      BY ONLY <3>1, <3>2, OneCheck
  <2>5. i \in DOMAIN checks /\ checks[i].status = "pending" /\ checks[i].op = 0
    BY <1>1 DEF Queued
  <2>6. Pending' = {}
    BY <1>1, <1>4, <2>1, <2>3 DEF OneChangeOpen
  <2>7. ChecksAdvance
    BY <1>2, <2>4, <2>5 DEF ChecksAdvance, Advances
  <2>8. ChecksInPlace'
    <3>1. DOMAIN checks' = DOMAIN checks
      BY <1>2, <2>4
    <3>2. HeldInPlace'
      BY <1>1, <1>2, <2>4, <2>1, <2>3, <2>5, <2>6
    <3>3. ASSUME NEW j \in DOMAIN checks
          PROVE  CheckInPlace(j)'
      BY <1>1, <1>2, <3>3, <2>4, <2>1, <2>3, <2>5, <2>6 DEF Terminal
    <3>4. ASSUME NEW j \in Pending'
          PROVE  checks'[j].status = "none"
      BY <1>1, <1>2, <1>4, <3>4, <2>4, <2>1, <2>3, <2>5, <2>6
    <3>5. QED
      BY <3>1, <3>2, <3>3, <3>4
  <2>9. QED
    BY <2>7, <2>8
<1>19. CASE InitialStop
  <2>1. UNCHANGED <<changes, checks, gate, ops>> /\ worker.pc = "next" /\ worker'.job = "none"
    BY <1>19 DEF InitialStop, Released, Idle
  <2>2. worker.job # "down"
    BY <1>1, <2>1 DEF JobsInPlace
  <2>3. QED
    BY <1>5, <1>6, <2>1, <2>2
<1>20. ASSUME NEW outcome, InitialPlanned \/ InitialChecked(outcome)
       PROVE  ChecksInPlace' /\ ChecksAdvance
  <2>1. /\ UNCHANGED <<changes, checks, gate, ops>> /\ worker.job = "initial" /\ worker.pc = "plan"
        /\ worker'.job = "initial" /\ worker'.pc \in {"claim", "store"}
        /\ initial'.check = initial.check
    BY <1>1, <1>20 DEF InitialPlanned, InitialChecked, Worker, MTypeOK
  <2>2. ChecksInPlace'
    BY <1>1, <1>2, <1>4, <2>1
  <2>3. QED
    BY <1>3, <2>1, <2>2
<1>21. CASE InitialStore
  <2>1. /\ UNCHANGED <<changes, gate, ops>> /\ worker.pc = "store"
        /\ worker'.job = "initial" /\ worker'.pc = "next"
    BY <1>21 DEF InitialStore, Idle
  <2>2. worker.job = "initial"
    BY <1>1, <2>1 DEF JobsInPlace
  <2>3. /\ initial.check \in DOMAIN checks
        /\ checks[initial.check].status = "running"
        /\ checks' \in [1 .. Len(checks) -> CheckRow]
        /\ \A j \in DOMAIN checks :
               /\ checks'[j].op = checks[j].op
               /\ j # initial.check => checks'[j].status = checks[j].status
               /\ j = initial.check =>
                     /\ checks'[j].status \in Terminal \cup {"unknown"}
                     /\ checks[j].op = 0 => checks'[j].status \in Terminal
                     /\ checks[j].op # 0 => /\ checks[j].op \in DOMAIN ops
                                            /\ checks'[j].status = ops[checks[j].op].status
    BY <1>21, StoredChecks
  <2>4. \A k \in DOMAIN ops : ops[k].status = "unknown" => gate # "ready"
    BY <1>1 DEF ReadyMeansResolved, Unresolved, Unfinished
  <2>5. ChecksAdvance
    BY <1>2, <2>3 DEF ChecksAdvance, Advances
  <2>6. ChecksInPlace'
    <3>1. DOMAIN checks' = DOMAIN checks
      BY <1>2, <2>3
    <3>2. HeldInPlace'
      BY <1>1, <1>2, <2>3, <2>1, <2>2, <2>4
    <3>3. ASSUME NEW j \in DOMAIN checks
          PROVE  CheckInPlace(j)'
      BY <1>1, <1>2, <3>3, <2>3, <2>1, <2>2, <2>4 DEF Terminal
    <3>4. ASSUME NEW j \in Pending'
          PROVE  checks'[j].status = "none"
      BY <1>1, <1>2, <1>4, <3>4, <2>3, <2>1, <2>2, <2>4
    <3>5. QED
      BY <3>1, <3>2, <3>3, <3>4
  <2>7. QED
    BY <2>5, <2>6
<1>22. CASE Registers
  BY <1>13, <1>14, <1>15, <1>16, <1>17, <1>18, <1>19, <1>20, <1>21, <1>22 DEF Registers
<1>23. QED
  BY <1>7, <1>8, <1>9, <1>10, <1>11, <1>12, <1>22, MSteps

-----------------------------------------------------------------------------
(* The invariant and what follows from it. *)

LEMMA MInitInv == MInit => MInv
<1> SUFFICES ASSUME MInit
             PROVE  MInv
  OBVIOUS
<1>1. GateInv /\ TokenInv /\ TypeOK
  <2>1. GateInv
    BY GateInit DEF MInit
  <2>2. TokenInv
    BY DEF MInit, Init, TokenInv, TokenOnce, At, Idle
  <2>3. QED
    BY <2>1, <2>2 DEF GateInv
<1>2. /\ changes = <<>> /\ DOMAIN changes = {} /\ Len(changes) = 0 /\ Pending = {}
      /\ checks = <<>> /\ DOMAIN checks = {} /\ Len(checks) = 0
      /\ ops = <<>> /\ Len(ops) = 0
  BY EmptySeq DEF MInit, Init, Pending
<1>3. MTypeOK
  <2>1. registry \in [Project -> [active: BOOLEAN, policy: Policies, ref: 0 .. Len(changes)]]
    BY <1>2 DEF MInit
  <2>2. /\ changes \in Seq([project: Project, action: Action, status: {"pending", "completed", "failed"}])
        /\ checks \in Seq([status: {"none", "pending", "running", "cancelled", "unknown"} \cup Terminal,
                           op: 0 .. Len(ops)])
    BY <1>2, EmptySeq
  <2>3. /\ seen \in [rev: 0 .. hostRev, ref: [Project -> 0 .. Len(changes)]]
        /\ hostRev \in Nat
        /\ wire \in [phase: {"none", "sent", "done", "refused"}, rev: Nat, policy: Policies \cup {"none"}]
        /\ initial \in [check: 0 .. Len(checks), outcome: Terminal]
    BY <1>2 DEF MInit, NoWire, NoInitial, Terminal
  <2>4. QED
    BY <1>1, <2>1, <2>2, <2>3 DEF MTypeOK
<1>4. worker.job = "down" /\ worker.pc = "idle"
  BY DEF MInit, Init, Idle
<1>5. ChangesInv
  <2>1. JobsInPlace /\ OneChangeOpen /\ CompletedIsReal
    BY <1>2, <1>4 DEF JobsInPlace, At, OneChangeOpen, CompletedIsReal
  <2>2. RequestTracked
    BY <1>2 DEF RequestTracked, MInit, NoWire
  <2>3. QED
    BY <1>2, <2>1, <2>2 DEF ChangesInv
<1>6. ChecksInPlace
  BY <1>2, <1>4 DEF ChecksInPlace, HeldInPlace
<1>7. QED
  BY <1>1, <1>3, <1>5, <1>6 DEF MInv

LEMMA MInvStep == MInv /\ [MNext]_all => MInv' /\ ChecksAdvance
<1> SUFFICES ASSUME MInv, [MNext]_all
             PROVE  MInv' /\ ChecksAdvance
  OBVIOUS
<1>1. GateInv' /\ TokenInv'
  BY MGateStep DEF MInv
<1>2. MTypeOK' /\ Len(checks') = Len(changes')
  BY <1>1, MTypeStep
<1>3. ChangesInv'
  BY <1>1, <1>2, ChangesStep
<1>4. ChecksInPlace' /\ ChecksAdvance
  BY <1>1, ChecksStep
<1>5. QED
  BY <1>1, <1>2, <1>3, <1>4 DEF MInv

\* Every variable of the controller and of its host keeps its type; a sequence
\* of checks never names an operation that is not in the table.
THEOREM RegistrationTypes == MSpec => []MTypeOK
<1>1. MInv => MTypeOK
  BY DEF MInv
<1>2. QED
  BY <1>1, MInitInv, MInvStep, PTL DEF MSpec

\* Registration, with changes that shut and reopen the gate on their own, leaves
\* the guarantee of the dispatch as it is: an open gate means nothing is
\* unresolved.
THEOREM RegistrationKeepsGate == MSpec => []ReadyMeansResolved
<1>1. MInv => ReadyMeansResolved
  BY DEF MInv, GateInv
<1>2. QED
  BY <1>1, MInitInv, MInvStep, PTL DEF MSpec

\* No approval outlives the schedule it was prepared under when it is a commit
\* of a registry change that moves the schedule.
THEOREM RegistrationKeepsApprovals == MSpec => []PlansAreCurrent
<1>1. MInv => PlansAreCurrent
  BY DEF MInv, GateInv
<1>2. QED
  BY <1>1, MInitInv, MInvStep, PTL DEF MSpec

\* No plan is executed twice, first checks included, which dispatch without
\* asking (project_management.py run_initial).
THEOREM FirstChecksExecutedOnce == MSpec => []TokenOnce
<1>1. MInv => TokenOnce
  BY DEF MInv, TokenInv
<1>2. QED
  BY <1>1, MInitInv, MInvStep, PTL DEF MSpec

\* No second change is begun while one is in doubt, and under an open gate only
\* the job that asked for the change may be waiting for its answer.
THEOREM OneChangeAtATime == MSpec => []OneChangeOpen
<1>1. MInv => OneChangeOpen
  BY DEF MInv, ChangesInv
<1>2. QED
  BY <1>1, MInitInv, MInvStep, PTL DEF MSpec

\* The controller never records a change the host did not make, however the
\* request was lost, answered late or carried out after it was given up.
THEOREM CompletedChangesAreReal == MSpec => []CompletedIsReal
<1>1. MInv => CompletedIsReal
  BY DEF MInv, ChangesInv
<1>2. QED
  BY <1>1, MInitInv, MInvStep, PTL DEF MSpec

\* Once writes are open and nobody works, each dispatched first check shows the
\* result of its operation.
THEOREM ChecksTellTheTruth == MSpec => []CheckTellsOperation
<1>1. MInv => CheckTellsOperation
  <2> SUFFICES ASSUME MInv, gate = "ready", Free, NEW i \in DOMAIN checks
               PROVE  /\ checks[i].status \notin {"running", "unknown"}
                      /\ checks[i].op # 0 => checks[i].status = ops[checks[i].op].status
    BY DEF CheckTellsOperation
  <2>1. CheckInPlace(i) /\ worker.job = "none"
    BY DEF MInv, ChecksInPlace, Free
  <2>2. checks[i].status \notin {"running", "unknown"}
    BY <2>1 DEF CheckInPlace, Owned
  <2>3. checks[i].status \in {"none", "pending", "running", "cancelled", "unknown", "succeeded", "failed"}
    BY TableOfChecks DEF MInv
  <2>4. QED
    BY <2>1, <2>2, <2>3 DEF CheckInPlace, Terminal
<1>2. QED
  BY <1>1, MInitInv, MInvStep, PTL DEF MSpec

\* A first check is claimed once and its result, once final, is never changed,
\* over crashes, restarts and reconciliations.
THEOREM ChecksOnlyAdvance == MSpec => CheckOnlyAdvances
<1> DEFINE Onwards ==
      \A i \in DOMAIN checks : \/ checks'[i] = checks[i]
                               \/ CheckRank(checks'[i]) > CheckRank(checks[i])
                               \/ checks[i].op = 0 /\ checks'[i].op # 0
<1>1. ASSUME MInv, ChecksAdvance
      PROVE  Onwards
  <2>1. SUFFICES ASSUME NEW i \in DOMAIN checks
                 PROVE  \/ checks'[i] = checks[i]
                        \/ CheckRank(checks'[i]) > CheckRank(checks[i])
                        \/ checks[i].op = 0 /\ checks'[i].op # 0
    OBVIOUS
  <2>2. checks[i] \in CheckRow /\ checks'[i] \in CheckRow
    BY <1>1, TableOfChecks DEF MInv, ChecksAdvance
  <2>3. CASE checks'[i].status = checks[i].status /\ checks'[i].op = checks[i].op
    BY <2>2, <2>3 DEF CheckRow
  <2>4. CASE Advances(checks[i].status, checks'[i].status)
    BY <2>4 DEF Advances, CheckRank, Terminal
  <2>5. QED
    BY <1>1, <2>3, <2>4 DEF ChecksAdvance
<1>2. MInv /\ [MNext]_all => [Onwards]_all
  BY <1>1, MInvStep
<1> HIDE DEF Onwards
<1>3. MSpec => [][Onwards]_all
  BY <1>2, MInitInv, MInvStep, PTL DEF MSpec
<1>4. QED
  BY <1>3 DEF Onwards, CheckOnlyAdvances

-----------------------------------------------------------------------------
(* What is decided by the copy of the registry. All of it rests on a host   *)
(* that does not refuse the list which follows a change: one that does      *)
(* makes the controller give up a change that was made.                     *)

Registered == {p \in Project : registry[p].active}

\* The copy is that of the present registry, or of the one before the pending
\* change, which the host has made and the controller has not seen.
CopyTrue ==
    worker.job # "down" =>
        \/ /\ seen.rev = hostRev
           /\ \A p \in Project : /\ catalog[p].active = registry[p].active
                                 /\ catalog[p].policy = registry[p].policy
                                 /\ seen.ref[p] = registry[p].ref
        \/ /\ Pending # {} /\ wire.phase = "done"
           /\ \A p \in Project : seen.ref[p] < Len(changes)

\* No change is in doubt: none is pending, or the pending one is still asked for
\* and not made.
Undisturbed == Pending = {} \/ (At("request") /\ wire.phase \in {"sent", "refused"})

\* Then the schedule, the queue of first checks, the approvals and the manual
\* checks that may still become one are all of registered projects.
Served ==
    Undisturbed =>
        /\ targets \subseteq Registered
        /\ \A i \in Queued : changes[i].project \in Registered
        /\ \A plan \in plans : plan.project \in Registered
        /\ \A t \in Thread : planner[t].project # NoProject /\ planner[t].rev = revision =>
               planner[t].project \in Registered

\* A change in doubt endangers the queue only for its own project, and the
\* revision it ends with outdates every check that is being prepared.
DoubtBounded ==
    /\ \A i \in Pending : \A j \in Queued : changes[j].project \in Registered \cup {changes[i].project}
    /\ \A t \in Thread : planner[t].rev <= revision

RegistryInv == CopyTrue /\ Served /\ DoubtBounded

\* The projects of the changes are kept, and no first check joins the queue.
QueueShrinks ==
    /\ Queued' \subseteq Queued
    /\ \A j \in Queued : changes'[j].project = changes[j].project

LEMMA QueueStep ==
    ASSUME MInv, [MNext]_all
    PROVE  QueueShrinks \/ \E i \in Pending : CommitChange(i)
<1> USE DEF rows, extra
<1>1. /\ MTypeOK /\ TypeOK /\ ChangesInv /\ JobsInPlace /\ OneChangeOpen
      /\ DOMAIN checks = DOMAIN changes /\ DOMAIN checks = 1 .. Len(checks)
  BY TableOfChecks, TableOfChanges DEF MInv, GateInv, ChangesInv
<1>2. ASSUME UNCHANGED <<changes, checks>>
      PROVE  QueueShrinks
  BY <1>2 DEF QueueShrinks, Queued
<1>3. ASSUME UNCHANGED changes, checks' \in [1 .. Len(checks) -> CheckRow],
             \A j \in DOMAIN checks : checks'[j].status = "pending" => checks[j].status = "pending"
      PROVE  QueueShrinks
  BY <1>1, <1>3 DEF QueueShrinks, Queued
<1>4. CASE Aside \/ MCrash \/ HostApplies \/ HostRefuses
  BY <1>2, <1>4 DEF Aside, MCrash, HostApplies, HostRefuses
<1>5. CASE MRestart
  BY <1>1, <1>3, <1>5, AbandonedChecks DEF MRestart
<1>6. CASE MClaim
  BY <1>1, <1>3, <1>6, LinkedChecks DEF MClaim
<1>7. CASE MReconcileDone
  <2>1. UNCHANGED changes
    BY <1>7 DEF MReconcileDone
  <2>2. \A j \in DOMAIN checks : checks'[j].status = "pending" => checks[j].status = "pending"
    BY <1>7, SettledFinally DEF Terminal
  <2>3. QED
    BY <1>3, <1>7, <2>1, <2>2, SettledFinally
<1>8. ASSUME NEW p \in Project, NEW action \in Action, NEW policy \in Policies, Change(p, action, policy)
      PROVE  QueueShrinks
  <2>1. /\ DOMAIN checks' = 1 .. Len(checks) + 1 /\ checks'[Len(checks) + 1] = NoCheck
        /\ \A j \in DOMAIN checks : checks'[j] = checks[j]
    BY <1>1, <1>8, ChangeBegins
  <2>2. \A j \in DOMAIN changes : changes'[j] = changes[j]
    BY <1>1, <1>8, ChangeBegins
  <2>3. QED
    BY <1>1, <2>1, <2>2 DEF QueueShrinks, Queued, NoCheck
<1>9. ASSUME NEW i, NEW listed, NEW outcome,
             \/ ChangeAnswered \/ ChangeUncertain(listed) \/ CommitRefused(i) \/ ReconcileChanges
             \/ ReconcileListFails \/ InitialStop \/ InitialPlanned \/ InitialChecked(outcome)
      PROVE  QueueShrinks
  BY <1>2, <1>9 DEF ChangeAnswered, ChangeUncertain, CommitRefused, ReconcileChanges,
     ReconcileListFails, InitialStop, InitialPlanned, InitialChecked
<1>10. CASE ChangeRefused
  <2>1. /\ Len(changes) \in Pending /\ checks' = checks
        /\ changes' = [changes EXCEPT ![Len(changes)].status = "failed"]
    BY <1>1, <1>10 DEF ChangeRefused, JobsInPlace, OneChangeOpen
  <2>2. \A j \in DOMAIN changes : changes'[j].project = changes[j].project
    BY <1>1, <2>1, ChangeEnds
  <2>3. QED
    BY <1>1, <2>1, <2>2 DEF QueueShrinks, Queued
<1>11. ASSUME NEW i \in Queued, InitialClaim(i)
       PROVE  QueueShrinks
  <2>1. UNCHANGED changes /\ checks' = [checks EXCEPT ![i].status = "running"] /\ "running" \in CheckStatus
    BY <1>11 DEF InitialClaim, CheckStatus
  <2>2. /\ checks' \in [1 .. Len(checks) -> CheckRow]
        /\ \A j \in DOMAIN checks : checks'[j].status = IF j = i THEN "running" ELSE checks[j].status
    BY ONLY <1>1, <2>1, OneCheck
  <2>3. QED
    BY <1>3, <2>1, <2>2
<1>12. CASE InitialStore
  <2>1. UNCHANGED changes
    BY <1>12 DEF InitialStore
  <2>2. \A j \in DOMAIN checks : checks'[j].status = "pending" => checks[j].status = "pending"
    BY <1>12, StoredChecks DEF Terminal
  <2>3. QED
    BY <1>3, <1>12, <2>1, <2>2, StoredChecks
<1>13. QED
  BY <1>4, <1>5, <1>6, <1>7, <1>8, <1>9, <1>10, <1>11, <1>12, MSteps DEF Registers

LEMMA CopyStep ==
    ASSUME ListMayBeRefused = FALSE, MInv, CopyTrue, [MNext]_all
    PROVE  CopyTrue'
<1> USE DEF host, rows, extra, control, schedule, facts, durable, memory
<1>1. /\ MTypeOK /\ TypeOK /\ DownIsIdle /\ ChangesInv /\ JobsInPlace /\ OneChangeOpen /\ RequestTracked
      /\ hostRev \in Nat /\ seen.rev <= hostRev /\ Len(changes) \in Nat
      /\ \A p \in Project : seen.ref[p] \in Nat /\ registry[p].ref \in Nat
  <2>1. MTypeOK
    BY DEF MInv
  <2>2. /\ hostRev \in Nat /\ seen.rev \in 0 .. hostRev /\ Len(changes) \in Nat
        /\ \A p \in Project : seen.ref[p] \in 0 .. Len(changes) /\ registry[p].ref \in 0 .. Len(changes)
    BY <2>1, TableOfChanges DEF MTypeOK
  <2>3. QED
    BY <2>1, <2>2 DEF MInv, GateInv, ChangesInv
<1>2. ASSUME UNCHANGED <<catalog, registry, hostRev, seen, wire, changes>>,
             worker'.job # "down" => worker.job # "down"
      PROVE  CopyTrue'
  BY <1>2 DEF CopyTrue, Pending
<1>3. ASSUME Refresh, UNCHANGED <<registry, hostRev>>
      PROVE  CopyTrue'
  BY <1>3 DEF Refresh, CopyTrue
<1>4. CASE Aside
  <2>1. UNCHANGED <<catalog, registry, hostRev, seen, wire, changes>>
    BY <1>1, <1>4, AsideServes DEF Aside, ServesActive
  <2>2. worker'.job # "down" => worker.job # "down"
    BY <1>1, <1>4, AsideJobs DEF JobMoves
  <2>3. QED
    BY <1>2, <2>1, <2>2
<1>5. CASE MCrash
  BY <1>5 DEF MCrash, Crash, Idle, CopyTrue
<1>6. CASE MRestart
  BY <1>3, <1>6 DEF MRestart
<1>7. CASE MClaim
  BY <1>1, <1>2, <1>7 DEF MClaim, Claim, At, DownIsIdle
<1>8. CASE MReconcileDone
  BY <1>1, <1>2, <1>8 DEF MReconcileDone, ReconcileDone, At, DownIsIdle
<1>9. CASE HostApplies
  <2>1. /\ wire.phase = "sent" /\ wire'.phase = "done" /\ UNCHANGED <<changes, seen>>
    BY <1>1, <1>9 DEF HostApplies, MTypeOK
  <2>2. Pending # {} /\ \A p \in Project : registry[p].ref < Len(changes)
    BY <1>1, <2>1 DEF RequestTracked
  <2>3. \A p \in Project : seen.ref[p] < Len(changes)
    BY <1>1, <2>2 DEF RequestTracked
  <2>4. QED
    BY <2>1, <2>2, <2>3 DEF CopyTrue, Pending
<1>10. CASE HostRefuses
  BY <1>10 DEF HostRefuses, CopyTrue, vars
<1>11. ASSUME NEW p \in Project, NEW action \in Action, NEW policy \in Policies, Change(p, action, policy)
       PROVE  CopyTrue'
  <2>1. Pending = {}
    BY <1>1, <1>11, ChangeBegins
  <2>2. UNCHANGED <<catalog, registry, hostRev, seen>> /\ worker.job # "down"
    BY <1>11 DEF Change, Free
  <2>3. QED
    BY <2>1, <2>2 DEF CopyTrue
<1>12. CASE ChangeAnswered \/ ReconcileChanges
  BY <1>3, <1>12 DEF ChangeAnswered, ReconcileChanges
<1>13. ASSUME NEW listed \in BOOLEAN, ChangeUncertain(listed)
       PROVE  CopyTrue'
  <2>1. UNCHANGED <<registry, hostRev, wire, changes>> /\ worker.job # "down"
    BY <1>1, <1>13 DEF ChangeUncertain, JobsInPlace
  <2>2. Refresh \/ UNCHANGED <<catalog, seen>>
    BY <1>13 DEF ChangeUncertain
  <2>3. QED
    BY <1>2, <1>3, <2>1, <2>2
<1>14. ASSUME ChangeRefused \/ \E i \in Pending : CommitChange(i)
       PROVE  CopyTrue'
  <2>1. UNCHANGED <<catalog, registry, hostRev, seen, wire>>
    BY <1>14 DEF ChangeRefused, CommitChange
  <2>2. worker.job # "down"
    BY <1>1, <1>14 DEF ChangeRefused, CommitChange, At, DownIsIdle
  <2>3. wire.phase # "done" \/ \E p \in Project : seen.ref[p] >= Len(changes)
    <3>1. CASE ChangeRefused
      BY <3>1 DEF ChangeRefused
    <3>2. ASSUME NEW i \in Pending, CommitChange(i)
          PROVE  changes[i].project \in Project /\ seen.ref[changes[i].project] >= Len(changes)
      BY <1>1, <3>2, TableOfChanges DEF CommitChange, Confirmed, Pending, OneChangeOpen
    <3>3. QED
      BY <1>14, <3>1, <3>2
  <2>4. QED
    BY <1>1, <2>1, <2>2, <2>3 DEF CopyTrue
<1>15. ASSUME NEW i,
              \/ CommitRefused(i) \/ ReconcileListFails \/ InitialClaim(i) \/ InitialStop
              \/ InitialPlanned \/ InitialStore
       PROVE  CopyTrue'
  BY <1>1, <1>2, <1>15 DEF CommitRefused, ReconcileListFails, InitialClaim, InitialStop,
     InitialPlanned, InitialStore, At, Free, DownIsIdle
<1>16. ASSUME NEW outcome, InitialChecked(outcome)
       PROVE  CopyTrue'
  BY <1>1, <1>2, <1>16 DEF InitialChecked, At, DownIsIdle
<1>17. QED
  BY <1>4, <1>5, <1>6, <1>7, <1>8, <1>9, <1>10, <1>11, <1>12, <1>13, <1>14, <1>15, <1>16, MSteps
     DEF Registers

\* While no change is in doubt the copy names the registered projects.
LEMMA ActiveIsRegistered ==
    ASSUME CopyTrue, Undisturbed, worker.job # "down"
    PROVE  Active = Registered
BY DEF CopyTrue, Undisturbed, Active, Registered

\* Steps that name no project anew, neither for the schedule nor for a check.
NamesNobody ==
    /\ UNCHANGED <<registry, targets, revision>>
    /\ plans' \subseteq plans
    /\ \A t \in Thread : planner'[t] \in {planner[t], NoPlanner}

LEMMA NobodyServed ==
    ASSUME TypeOK, Served, DoubtBounded, QueueShrinks, NamesNobody,
           Undisturbed' => Undisturbed, Undisturbed \/ Pending' \subseteq Pending,
           \A i \in Pending : changes'[i].project = changes[i].project
    PROVE  Served' /\ DoubtBounded'
<1> USE DEF NamesNobody, QueueShrinks
<1>1. Registered' = Registered /\ NoPlanner.project = NoProject /\ NoPlanner.rev = 0 /\ revision \in Nat
  BY DEF Registered, NoPlanner, TypeOK
<1>2. Served'
  BY <1>1 DEF Served
<1>3. \A i \in Pending' : \A j \in Queued' : changes'[j].project \in Registered \cup {changes'[i].project}
  BY <1>1 DEF Served, DoubtBounded
<1>4. \A t \in Thread : planner'[t].rev <= revision
  BY <1>1 DEF DoubtBounded
<1>5. QED
  BY <1>1, <1>3, <1>2, <1>4 DEF DoubtBounded

LEMMA AsideServed ==
    ASSUME MInv, RegistryInv, TypeOK', Aside
    PROVE  Served' /\ DoubtBounded'
<1> USE DEF extra, rows, host
<1>1. /\ TypeOK /\ DownIsIdle /\ JobsInPlace /\ CopyTrue /\ Served /\ DoubtBounded
      /\ ServesActive /\ revision \in Nat
  BY AsideServes DEF MInv, GateInv, ChangesInv, RegistryInv, TypeOK
<1>2. /\ UNCHANGED <<changes, checks, registry, wire>>
      /\ Pending' = Pending /\ Queued' = Queued /\ Registered' = Registered
  BY DEF Aside, Pending, Queued, Registered
<1>3. At("request")' <=> At("request")
  BY <1>1, AsideJobs DEF JobMoves, At
<1>4. Undisturbed' <=> Undisturbed
  BY <1>2, <1>3 DEF Undisturbed
<1>5. NoPlanner.project = NoProject /\ NoPlanner.rev = 0
  BY DEF NoPlanner
<1>6. \A t \in Thread : planner'[t].rev <= revision'
  <2>1. SUFFICES ASSUME NEW t \in Thread
                 PROVE  planner'[t].rev <= revision'
    OBVIOUS
  <2>2. revision' \in Nat /\ revision <= revision' /\ planner[t].rev <= revision /\ planner[t].rev \in Nat
    BY <1>1 DEF ServesActive, DoubtBounded, TypeOK
  <2>3. \/ planner'[t] = planner[t] \/ planner'[t] = NoPlanner
        \/ planner'[t].rev = revision /\ revision' = revision
    BY <1>1 DEF ServesActive
  <2>4. QED
    BY <1>1, <1>5, <2>2, <2>3
<1>7. ASSUME Undisturbed
      PROVE  /\ targets' \subseteq Registered
             /\ \A t \in Thread : planner'[t].project # NoProject /\ planner'[t].rev = revision' =>
                    planner'[t].project \in Registered
             /\ \A plan \in plans' : plan.project \in Registered
  <2>1. worker.job # "down" => Active = Registered
    BY <1>1, <1>7, ActiveIsRegistered
  <2>2. targets' \subseteq Registered
    BY <1>1, <1>7, <2>1 DEF ServesActive, Served
  <2>3. \A plan \in plans' : plan.project \in Registered
    BY <1>1, <1>7 DEF ServesActive, Served
  <2>4. ASSUME NEW t \in Thread, planner'[t].project # NoProject, planner'[t].rev = revision'
        PROVE  planner'[t].project \in Registered
    <3>1. CASE planner'[t] = planner[t]
      <4>1. /\ planner[t].rev <= revision /\ revision <= revision' /\ planner[t].rev = revision'
            /\ planner[t].rev \in Nat
        BY <1>1, <2>4, <3>1 DEF DoubtBounded, ServesActive, TypeOK
      <4>2. planner[t].rev = revision
        BY <1>1, <4>1
      <4>3. QED
        BY <1>1, <1>7, <2>4, <3>1, <4>2 DEF Served
    <3>2. CASE planner'[t] = NoPlanner
      BY <1>5, <2>4, <3>2
    <3>3. CASE worker.job # "down" /\ planner'[t].project \in Active
      BY <2>1, <3>3
    <3>4. QED
      BY <1>1, <3>1, <3>2, <3>3 DEF ServesActive
  <2>5. QED
    BY <2>2, <2>3, <2>4
<1>8. Served'
  BY <1>1, <1>2, <1>4, <1>7 DEF Served
<1>9. QED
  BY <1>1, <1>2, <1>6, <1>8 DEF DoubtBounded

\* A confirmed change takes effect on all that waits.
LEMMA CommitServed ==
    ASSUME MInv, RegistryInv, NEW i \in Pending, CommitChange(i)
    PROVE  Served' /\ DoubtBounded'
<1>1. /\ MTypeOK /\ TypeOK /\ DownIsIdle /\ OneChangeOpen /\ CopyTrue /\ DoubtBounded
      /\ DOMAIN checks = 1 .. Len(checks) /\ DOMAIN checks = DOMAIN changes
      /\ i \in DOMAIN changes /\ i = Len(changes) /\ Len(changes) \in Nat /\ revision \in Nat
  BY TableOfChecks, TableOfChanges DEF MInv, GateInv, ChangesInv, RegistryInv, Pending, OneChangeOpen, TypeOK
<1>2. changes[i].project \in Project /\ seen.ref[changes[i].project] = Len(changes)
  BY <1>1, TableOfChanges DEF CommitChange, Confirmed
<1>3. worker.job # "down"
  BY <1>1 DEF CommitChange, At, DownIsIdle
<1>4. Active = Registered
  BY <1>1, <1>2, <1>3 DEF CopyTrue, Active, Registered
<1>5. /\ Registered' = Registered /\ targets' = Targets(i) /\ plans' = {} /\ revision' = revision + 1
      /\ planner' = planner
  BY DEF CommitChange, Registered, host, NextRevision
<1>6. targets' \subseteq Registered
  BY <1>4, <1>5 DEF Targets
<1>7. Pending' = {} /\ \A j \in DOMAIN changes : changes'[j].project = changes[j].project
  BY <1>1, ChangeEnds DEF CommitChange
<1>8. ASSUME NEW j \in Queued'
      PROVE  changes'[j].project \in Registered
  <2>1. /\ j \in DOMAIN checks
        /\ checks'[j].status = "pending"
        /\ checks'[j].status = IF ~catalog[changes[i].project].active
                               THEN IF changes[j].project = changes[i].project /\ checks[j].status = "pending"
                                    THEN "cancelled" ELSE checks[j].status
                               ELSE IF j = i /\ changes[i].action = "enroll" THEN "pending"
                                    ELSE checks[j].status
    BY <1>1, <1>8, CommittedChecks DEF Queued
  <2>2. catalog[changes[i].project].active <=> changes[i].project \in Registered
    BY <1>2, <1>4 DEF Active
  <2>3. j \in Queued => changes[j].project \in Registered \cup {changes[i].project}
    BY <1>1 DEF DoubtBounded
  <2>4. QED
    BY <1>1, <1>7, <2>1, <2>2, <2>3 DEF Queued
<1>9. ASSUME NEW t \in Thread
      PROVE  planner'[t].rev < revision'
  <2>1. planner[t].rev <= revision /\ planner[t].rev \in Nat
    BY <1>1 DEF DoubtBounded, TypeOK
  <2>2. QED
    BY <1>1, <1>5, <2>1
<1>10. revision' \in Nat /\ \A t \in Thread : planner'[t].rev \in Nat
  BY <1>1, <1>5 DEF TypeOK
<1>11. Served'
  BY <1>5, <1>6, <1>8, <1>9, <1>10 DEF Served
<1>12. QED
  BY <1>7, <1>9, <1>10, <1>11 DEF DoubtBounded

LEMMA ServedStep ==
    ASSUME ListMayBeRefused = FALSE, MInv, MInv', RegistryInv, [MNext]_all
    PROVE  Served' /\ DoubtBounded'
<1> USE DEF host, rows, extra, control, schedule, facts, durable, memory
<1>1. /\ MTypeOK /\ TypeOK /\ TypeOK' /\ DownIsIdle /\ ChangesInv /\ JobsInPlace
      /\ OneChangeOpen /\ RequestTracked /\ CopyTrue /\ Served /\ DoubtBounded
  BY DEF MInv, GateInv, ChangesInv, RegistryInv
<1>2. CASE \E i \in Pending : CommitChange(i)
  BY <1>2, CommitServed
<1>3. SUFFICES ASSUME QueueShrinks
               PROVE  Served' /\ DoubtBounded'
  BY <1>2, QueueStep
<1>4. CASE Aside
  BY <1>1, <1>4, AsideServed
<1>5. ASSUME NamesNobody, UNCHANGED changes, Undisturbed' => Undisturbed
      PROVE  Served' /\ DoubtBounded'
  <2>1. Pending' = Pending
    BY <1>5 DEF Pending
  <2>2. QED
    BY <1>1, <1>3, <1>5, <2>1, NobodyServed
\* Steps after which a change, if one is pending, is in doubt.
<1>6. ASSUME NamesNobody, UNCHANGED changes, worker'.pc # "request"
      PROVE  Served' /\ DoubtBounded'
  BY <1>5, <1>6 DEF Undisturbed, Pending, At
<1>7. CASE MCrash \/ MRestart
  <2>1. /\ Idle.pc = "idle" /\ [Idle EXCEPT !.job = "down"].pc = "idle"
        /\ [Idle EXCEPT !.job = "boot", !.pc = "rec_start"].pc = "rec_start"
    BY DEF Idle
  <2>2. worker'.pc # "request"
    BY <1>7, <2>1 DEF MCrash, Crash, MRestart
  <2>3. NamesNobody /\ UNCHANGED changes
    BY <1>7 DEF MCrash, Crash, MRestart, NamesNobody
  <2>4. QED
    BY <1>6, <2>2, <2>3
<1>8. CASE MClaim
  <2>1. NamesNobody /\ UNCHANGED changes
    BY <1>8 DEF MClaim, Claim, NamesNobody
  <2>2. worker'.pc = "apply"
    BY <1>1, <1>8 DEF MClaim, Claim, TypeOK, Worker
  <2>3. QED
    BY <1>6, <2>1, <2>2
<1>9. CASE MReconcileDone
  <2>1. Pending = {} /\ NamesNobody /\ UNCHANGED changes
    BY <1>1, <1>9 DEF MReconcileDone, ReconcileDone, NamesNobody, JobsInPlace
  <2>2. QED
    BY <1>5, <2>1 DEF Undisturbed
<1>10. CASE HostApplies
  <2>1. /\ wire'.phase = "done" /\ Pending # {} /\ UNCHANGED <<changes, checks, planner, revision>>
    BY <1>1, <1>10 DEF HostApplies, MTypeOK, RequestTracked, vars
  <2>2. Pending' = Pending /\ Queued' = Queued
    BY <2>1 DEF Pending, Queued
  <2>3. Registered \subseteq Registered' \cup {changes[Len(changes)].project}
    BY <1>1, <1>10 DEF HostApplies, MTypeOK, Registered
  <2>4. Served'
    BY <2>1, <2>2 DEF Served, Undisturbed
  <2>5. \A i \in Pending : \A j \in Queued : changes[j].project \in Registered' \cup {changes[i].project}
    BY <1>1, <2>3 DEF DoubtBounded, OneChangeOpen
  <2>6. \A t \in Thread : planner[t].rev <= revision
    BY <1>1 DEF DoubtBounded
  <2>7. QED
    BY <2>1, <2>2, <2>4, <2>5, <2>6 DEF DoubtBounded
<1>11. CASE HostRefuses
  <2>1. NamesNobody /\ UNCHANGED <<changes, worker>> /\ wire.phase = "sent"
    BY <1>11 DEF HostRefuses, NamesNobody, vars
  <2>2. Undisturbed' => Undisturbed
    BY <2>1 DEF Undisturbed, At, Pending
  <2>3. QED
    BY <1>5, <2>1, <2>2
<1>12. ASSUME NEW p \in Project, NEW action \in Action, NEW policy \in Policies, Change(p, action, policy)
       PROVE  Served' /\ DoubtBounded'
  <2>1. Pending = {} /\ \A i \in DOMAIN changes : changes'[i] = changes[i]
    BY <1>1, <1>12, ChangeBegins
  <2>2. NamesNobody
    BY <1>12 DEF Change, NamesNobody
  <2>3. QED
    BY <1>1, <1>3, <2>1, <2>2, NobodyServed DEF Undisturbed
<1>13. ASSUME NEW listed, ChangeAnswered \/ ChangeUncertain(listed) \/ ReconcileChanges
       PROVE  Served' /\ DoubtBounded'
  <2>1. NamesNobody /\ UNCHANGED changes /\ worker'.pc # "request"
    BY <1>1, <1>13 DEF ChangeAnswered, ChangeUncertain, ReconcileChanges, NamesNobody, TypeOK, Worker
  <2>2. QED
    BY <1>6, <2>1
<1>14. CASE ChangeRefused
  <2>1. Undisturbed /\ NamesNobody
    BY <1>14 DEF ChangeRefused, Undisturbed, NamesNobody
  <2>2. \A i \in Pending : changes'[i].project = changes[i].project
    BY <1>1, <1>14, TableOfChanges DEF ChangeRefused, ChangeRow, Pending
  <2>3. (Undisturbed' => Undisturbed) /\ (Undisturbed \/ Pending' \subseteq Pending)
    BY <2>1
  <2>4. QED
    BY ONLY <1>1, <1>3, <2>1, <2>2, <2>3, NobodyServed
<1>15. ASSUME NEW i, CommitRefused(i) \/ ReconcileListFails
       PROVE  Served' /\ DoubtBounded'
  <2>1. NamesNobody /\ UNCHANGED changes
    BY <1>15 DEF CommitRefused, ReconcileListFails, NamesNobody
  <2>2. worker' = Idle \/ worker' = Returned(FALSE)
    BY <1>15 DEF CommitRefused, ReconcileListFails, Released
  <2>3. /\ Idle.pc = "idle" /\ EndRound.pc = "tail"
        /\ \A pc : [worker EXCEPT !.pc = pc].pc = pc
    BY <1>1 DEF Idle, EndRound, TypeOK, Worker
  <2>4. worker'.pc # "request"
    BY <2>2, <2>3 DEF Returned, Released
  <2>5. QED
    BY <1>6, <2>1, <2>4
<1>16. ASSUME NEW i, NEW outcome, InitialStop \/ InitialPlanned \/ InitialChecked(outcome) \/ InitialStore
       PROVE  Served' /\ DoubtBounded'
  <2>1. NamesNobody /\ UNCHANGED changes
    BY <1>16 DEF InitialStop, InitialPlanned, InitialChecked, InitialStore, NamesNobody
  <2>2. Idle.pc = "idle" /\ [Idle EXCEPT !.job = "initial", !.pc = "next"].pc = "next"
    BY DEF Idle
  <2>3. worker'.pc # "request"
    BY <1>1, <1>16, <2>2 DEF InitialStop, InitialPlanned, InitialChecked, InitialStore,
       Released, TypeOK, Worker
  <2>4. QED
    BY <1>6, <2>1, <2>3
<1>17. ASSUME NEW i, InitialClaim(i)
       PROVE  Served' /\ DoubtBounded'
  <2>1. NamesNobody /\ UNCHANGED changes
    BY <1>17 DEF InitialClaim, NamesNobody
  <2>2. PICK pc \in {"plan", "store"} :
           worker' = [Idle EXCEPT !.job = "initial", !.project = changes[i].project,
                                  !.rev = revision, !.pc = pc]
    BY <1>17 DEF InitialClaim
  <2>3. worker'.pc # "request"
    BY <2>2 DEF Idle
  <2>4. QED
    BY <1>6, <2>1, <2>3
<1>18. CASE Registers
  BY <1>2, <1>12, <1>13, <1>14, <1>15, <1>16, <1>17, <1>18 DEF Registers
<1>19. QED
  BY <1>4, <1>7, <1>8, <1>9, <1>10, <1>11, <1>18, MSteps

LEMMA RegistryStep ==
    ASSUME ListMayBeRefused = FALSE
    PROVE  MInv /\ RegistryInv /\ [MNext]_all => MInv' /\ RegistryInv'
BY MInvStep, CopyStep, ServedStep DEF RegistryInv

LEMMA RegistryInitInv == MInit => RegistryInv
<1> SUFFICES ASSUME MInit
             PROVE  RegistryInv
  OBVIOUS
<1>1. /\ worker.job = "down" /\ targets = {} /\ plans = {}
      /\ changes = <<>> /\ checks = <<>> /\ Pending = {} /\ Queued = {}
      /\ \A t \in Thread : planner[t].project = NoProject /\ planner[t].rev = 0
      /\ revision = 0
  BY DEF MInit, Init, Idle, NoPlanner, Pending, Queued
<1>2. QED
  BY <1>1 DEF RegistryInv, CopyTrue, Served, DoubtBounded

\* Whatever is lost, late or given up, the controller authorises writes by the
\* registry the host has, as long as no change is in doubt.
THEOREM CopyIsTrue ==
    ASSUME ListMayBeRefused = FALSE
    PROVE  MSpec => []CatalogIsRegistry
<1>1. MInv /\ RegistryInv /\ [MNext]_all => MInv' /\ RegistryInv'
  BY RegistryStep
<1>2. RegistryInv => CatalogIsRegistry
  BY DEF RegistryInv, CopyTrue, CatalogIsRegistry
<1>3. QED
  BY <1>1, <1>2, MInitInv, RegistryInitInv, PTL DEF MSpec

\* With no change in doubt, what the controller serves is registered.
LEMMA ServesRegistered ==
    ASSUME MInv, RegistryInv
    PROVE  TargetsServed /\ QueuedServed /\ ApprovalsServed
<1>1. CopyTrue /\ Served /\ DownIsIdle
  BY DEF RegistryInv, MInv, GateInv
<1>2. ASSUME Pending = {}, worker.job # "down"
      PROVE  Active = Registered
  BY <1>1, <1>2, ActiveIsRegistered DEF Undisturbed
<1>3. QED
  BY <1>1, <1>2 DEF Served, Undisturbed, DownIsIdle, TargetsServed, QueuedServed, ApprovalsServed

\* A removed project leaves the schedule, also when the removal was confirmed
\* only by a reconciliation.
THEOREM TargetsAreRegistered ==
    ASSUME ListMayBeRefused = FALSE
    PROVE  MSpec => []TargetsServed
<1>1. MInv /\ RegistryInv /\ [MNext]_all => MInv' /\ RegistryInv'
  BY RegistryStep
<1>2. MInv /\ RegistryInv => TargetsServed
  BY ServesRegistered
<1>3. QED
  BY <1>1, <1>2, MInitInv, RegistryInitInv, PTL DEF MSpec

\* A removed project leaves the queue of first checks, however late its removal
\* is confirmed.
THEOREM QueueIsRegistered ==
    ASSUME ListMayBeRefused = FALSE
    PROVE  MSpec => []QueuedServed
<1>1. MInv /\ RegistryInv /\ [MNext]_all => MInv' /\ RegistryInv'
  BY RegistryStep
<1>2. MInv /\ RegistryInv => QueuedServed
  BY ServesRegistered
<1>3. QED
  BY <1>1, <1>2, MInitInv, RegistryInitInv, PTL DEF MSpec

\* No plan of a removed project waits for approval, also when it was being
\* prepared while the project was removed.
THEOREM ApprovalsAreRegistered ==
    ASSUME ListMayBeRefused = FALSE
    PROVE  MSpec => []ApprovalsServed
<1>1. MInv /\ RegistryInv /\ [MNext]_all => MInv' /\ RegistryInv'
  BY RegistryStep
<1>2. MInv /\ RegistryInv => ApprovalsServed
  BY ServesRegistered
<1>3. QED
  BY <1>1, <1>2, MInitInv, RegistryInitInv, PTL DEF MSpec

\* A change the controller calls failed was not made and will not be: what the
\* code and its tests mean, and what a refused list breaks.
THEOREM FailedChangesAreUnmade ==
    ASSUME ListMayBeRefused = FALSE
    PROVE  MSpec => []FailedIsUnmade
<1>1. ASSUME MInv, FailedIsUnmade, [MNext]_all
      PROVE  FailedIsUnmade'
  <2> USE DEF host, rows, extra
  <2>1. MTypeOK /\ TypeOK /\ ChangesInv /\ JobsInPlace /\ OneChangeOpen /\ RequestTracked
    BY <1>1 DEF MInv, GateInv, ChangesInv
  <2>2. ASSUME UNCHANGED <<changes, registry>>
        PROVE  FailedIsUnmade'
    BY <1>1, <2>2 DEF FailedIsUnmade
  <2>3. CASE Aside \/ MCrash \/ MRestart \/ MClaim \/ MReconcileDone \/ HostRefuses
    BY <2>2, <2>3 DEF Aside, MCrash, MRestart, MClaim, MReconcileDone, HostRefuses
  <2>4. CASE HostApplies
    <3>1. Len(changes) \in Pending /\ changes' = changes
      BY <2>1, <2>4 DEF HostApplies, RequestTracked, OneChangeOpen
    <3>2. \A p \in Project : registry'[p].ref \in {registry[p].ref, Len(changes)}
      BY <2>1, <2>4 DEF HostApplies, MTypeOK
    <3>3. QED
      BY <1>1, <2>1, <3>1, <3>2, TableOfChanges DEF FailedIsUnmade, Pending
  <2>5. ASSUME NEW p \in Project, NEW action \in Action, NEW policy \in Policies, Change(p, action, policy)
        PROVE  FailedIsUnmade'
    <3>1. /\ DOMAIN changes' = 1 .. Len(changes) + 1
          /\ changes'[Len(changes) + 1] = [project |-> p, action |-> action, status |-> "pending"]
          /\ \A i \in DOMAIN changes : changes'[i] = changes[i]
      BY <2>1, <2>5, ChangeBegins
    <3>2. registry' = registry
      BY <2>5 DEF Change
    <3>3. QED
      BY <1>1, <2>1, <3>1, <3>2, TableOfChanges DEF FailedIsUnmade
  <2>6. CASE ChangeRefused
    <3>1. /\ Len(changes) \in Pending /\ wire.phase = "refused" /\ registry' = registry
          /\ changes' = [changes EXCEPT ![Len(changes)].status = "failed"]
      BY <2>1, <2>6 DEF ChangeRefused, JobsInPlace, OneChangeOpen
    <3>2. \A p \in Project : registry[p].ref < Len(changes)
      BY <2>1, <3>1 DEF RequestTracked
    <3>3. /\ DOMAIN changes' = DOMAIN changes
          /\ \A j \in DOMAIN changes :
                 /\ changes'[j].project = changes[j].project
                 /\ changes'[j].status = IF j = Len(changes) THEN "failed" ELSE changes[j].status
      BY <2>1, <3>1, ChangeEnds
    <3>4. QED
      BY <1>1, <2>1, <3>1, <3>2, <3>3, TableOfChanges DEF FailedIsUnmade, MTypeOK
  <2>7. ASSUME NEW i \in Pending, CommitChange(i)
        PROVE  FailedIsUnmade'
    <3>1. registry' = registry /\ changes' = [changes EXCEPT ![i].status = "completed"]
      BY <2>7 DEF CommitChange
    <3>2. /\ DOMAIN changes' = DOMAIN changes
          /\ \A j \in DOMAIN changes :
                 /\ changes'[j].project = changes[j].project
                 /\ changes'[j].status = IF j = i THEN "completed" ELSE changes[j].status
      BY <2>1, <3>1, ChangeEnds
    <3>3. QED
      BY <1>1, <3>1, <3>2 DEF FailedIsUnmade
  <2>8. ASSUME NEW i, NEW listed, NEW outcome,
               \/ ChangeAnswered \/ ChangeUncertain(listed) \/ CommitRefused(i) \/ ReconcileChanges
               \/ ReconcileListFails \/ InitialClaim(i) \/ InitialStop \/ InitialPlanned
               \/ InitialChecked(outcome) \/ InitialStore
        PROVE  FailedIsUnmade'
    BY <2>2, <2>8 DEF ChangeAnswered, ChangeUncertain, CommitRefused, ReconcileChanges,
       ReconcileListFails, InitialClaim, InitialStop, InitialPlanned, InitialChecked, InitialStore
  <2>9. QED
    BY <1>1, <2>3, <2>4, <2>5, <2>6, <2>7, <2>8, MSteps DEF Registers
<1>2. MInit => FailedIsUnmade
  BY DEF MInit, FailedIsUnmade
<1>3. MInv /\ FailedIsUnmade /\ [MNext]_all => MInv' /\ FailedIsUnmade'
  BY <1>1, MInvStep
<1>4. QED
  BY <1>2, <1>3, MInitInv, PTL DEF MSpec

=============================================================================
