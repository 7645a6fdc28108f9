----------------------------- MODULE CoreProofs -----------------------------
(***************************************************************************)
(* Machine-checked proofs about the controller, for every set of projects  *)
(* and threads and every bound.                                            *)
(***************************************************************************)
EXTENDS CoreProperties, SequenceTheorems, TLAPS

-----------------------------------------------------------------------------
(* Type correctness, action by action. *)

\* What the locals of a job may become when its step ends.
LEMMA WorkerTypes ==
    ASSUME TypeOK
    PROVE  /\ Idle \in Worker
           /\ worker.project \in Project \cup {NoProject}
           /\ \A pc \in Pc : [worker EXCEPT !.pc = pc] \in Worker
           /\ \A p \in Project \cup {NoProject} : After(p) \in Worker
           /\ EndRound \in Worker
           /\ \A ok \in BOOLEAN : Returned(ok) \in Worker
           /\ \A status : Dispatched(status) \in Worker
<1>1. Idle \in Worker
  BY DEF Idle, Worker, Job, Pc
<1>2. worker.project \in Project \cup {NoProject}
  BY DEF TypeOK, Worker
<1>3. \A pc \in Pc : [worker EXCEPT !.pc = pc] \in Worker
  BY DEF TypeOK, Worker
<1>4. \A p \in Project \cup {NoProject} : After(p) \in Worker
  BY DEF TypeOK, Worker, After, Rest, Pc
<1>5. EndRound \in Worker
  BY DEF TypeOK, Worker, EndRound, Pc
<1>6. "begin" \in Pc /\ "loop" \in Pc /\ "close" \in Pc /\ "store" \in Pc
  BY DEF Pc
<1>7. \A ok \in BOOLEAN : Returned(ok) \in Worker
  BY <1>1, <1>3, <1>5, <1>6 DEF Returned, Released
<1>8. \A status : Dispatched(status) \in Worker
  BY <1>1, <1>2, <1>3, <1>4, <1>5, <1>6 DEF Dispatched
<1>9. QED
  BY <1>1, <1>2, <1>3, <1>4, <1>5, <1>7, <1>8

\* _finish keeps the types of everything it writes.
LEMMA FinishTypes ==
    ASSUME TypeOK, NEW i \in DOMAIN ops, NEW status \in Terminal \cup {"unknown"},
           NEW scope \in {"project", "common"}, Finish(i, status, scope)
    PROVE  /\ ops' \in Seq(Operation) /\ Len(ops') = Len(ops)
           /\ \A j \in DOMAIN ops : ops'[j] = IF j = i THEN [ops[j] EXCEPT !.status = status]
                                                       ELSE ops[j]
           /\ gate' \in Gate
           /\ plans' \in SUBSET Plan
           /\ pause' \in [Project -> [ref: Nat, used: BOOLEAN]]
           /\ exhausted' \in SUBSET Nat
<1>1. /\ ops \in Seq(Operation) /\ ops \in [1 .. Len(ops) -> Operation]
      /\ DOMAIN ops = 1 .. Len(ops) /\ Len(ops) \in Nat
  BY LenProperties DEF TypeOK
<1>2. i \in 1 .. Len(ops) /\ i \in Nat /\ ops[i] \in Operation
  BY <1>1
<1>3. ops[i].project \in Project
  BY <1>2 DEF Operation
<1>4. [ops[i] EXCEPT !.status = status] \in Operation
  BY <1>2 DEF Operation, Unfinished
<1>5. ops' = [ops EXCEPT ![i] = [ops[i] EXCEPT !.status = status]]
  BY DEF Finish
<1>6. /\ ops' \in Seq(Operation) /\ Len(ops') = Len(ops)
      /\ \A j \in DOMAIN ops : ops'[j] = IF j = i THEN [ops[j] EXCEPT !.status = status]
                                                  ELSE ops[j]
  BY <1>1, <1>2, <1>4, <1>5, ExceptSeq
<1>7. RetryUsed(ops[i].project, scope) \in BOOLEAN
  BY <1>3 DEF RetryUsed, TypeOK
<1>8. pause' \in [Project -> [ref: Nat, used: BOOLEAN]]
  BY <1>2, <1>3, <1>7 DEF Finish, TypeOK, NotPaused
<1>9. gate' \in Gate /\ plans' \in SUBSET Plan
  BY DEF Finish, TypeOK, Gate
<1>10. exhausted' \in SUBSET Nat
  BY <1>2 DEF Finish, TypeOK
<1>11. QED
  BY <1>6, <1>8, <1>9, <1>10

\* The report stays a report whichever item a round writes.
LEMMA ReportItemTypes ==
    ASSUME TypeOK, NEW p, NEW status \in Item, ReportItem(p, status)
    PROVE  report' \in [open: BOOLEAN, first: Nat, item: [Project -> Item]]
BY DEF TypeOK, ReportItem

\* The final transaction of a restart: running rows become unknown.
LEMMA InterruptedTypes ==
    ASSUME TypeOK, ops' = [i \in DOMAIN ops |-> Interrupted(ops[i])]
    PROVE  /\ ops' \in Seq(Operation) /\ Len(ops') = Len(ops)
           /\ \A i \in DOMAIN ops : ops'[i] = Interrupted(ops[i])
<1>1. /\ ops \in Seq(Operation) /\ ops \in [1 .. Len(ops) -> Operation]
      /\ DOMAIN ops = 1 .. Len(ops) /\ Len(ops) \in Nat
  BY LenProperties DEF TypeOK
<1>2. \A i \in 1 .. Len(ops) : Interrupted(ops[i]) \in Operation
  BY <1>1 DEF Interrupted, Operation, Unfinished
<1>3. ops' \in [1 .. Len(ops) -> Operation]
  BY <1>1, <1>2
<1>4. ops' \in Seq(Operation)
  BY <1>1, <1>3, SeqDef
<1>5. DOMAIN ops' = 1 .. Len(ops') /\ Len(ops') \in Nat
  BY <1>4, LenProperties
<1>6. Len(ops') = Len(ops)
  BY <1>1, <1>3, <1>5
<1>7. QED
  BY <1>1, <1>4, <1>6

\* The operation table as a function of the operations' numbers.
LEMMA TableOfOps ==
    ASSUME TypeOK
    PROVE  /\ ops \in Seq(Operation) /\ DOMAIN ops = 1 .. Len(ops) /\ Len(ops) \in Nat
           /\ \A i \in DOMAIN ops : /\ ops[i] \in Operation /\ ops[i].token \in Nat
                                    /\ ops[i].project \in Project /\ ops[i].retryOf \in Nat
<1>1. ops \in Seq(Operation)
  BY DEF TypeOK
<1>2. \A i \in DOMAIN ops : ops[i] \in Operation
  BY <1>1, LenProperties
<1>3. QED
  BY <1>1, <1>2, LenProperties DEF Operation

\* A dispatch adds an operation about what the worker was about to claim.
LEMMA ClaimAppends ==
    ASSUME TypeOK, Claim
    PROVE  \E o \in Operation : /\ ops' = Append(ops, o)
                                /\ o.token = worker.token /\ o.project = worker.project
                                /\ o.actor = (IF Automatic THEN "schedule" ELSE "manual")
                                /\ o.status = "running" /\ o.retryOf = worker.retry
<1>1. worker \in Worker /\ worker.project \in Project
  BY DEF Claim, MayDispatch, Active, TypeOK
<1>2. [project |-> worker.project, actor |-> IF Automatic THEN "schedule" ELSE "manual",
       status |-> "running", token |-> worker.token, retryOf |-> worker.retry] \in Operation
  BY <1>1 DEF Worker, Operation, Unfinished
<1>3. QED
  BY <1>2 DEF Claim

\* The table after a result is told of one operation.
LEMMA ToldOps ==
    ASSUME TypeOK, NEW i \in DOMAIN ops, NEW status \in Terminal \cup {"unknown"},
           NEW scope \in {"project", "common"}, Finish(i, status, scope)
    PROVE  /\ DOMAIN ops' = DOMAIN ops /\ Len(ops') = Len(ops)
           /\ \A j \in DOMAIN ops : /\ ops'[j].token = ops[j].token
                                    /\ ops'[j].project = ops[j].project
                                    /\ ops'[j].actor = ops[j].actor
                                    /\ ops'[j].retryOf = ops[j].retryOf
                                    /\ ops'[j].status = IF j = i THEN status ELSE ops[j].status
<1>1. /\ ops' \in Seq(Operation) /\ Len(ops') = Len(ops)
      /\ \A j \in DOMAIN ops : ops'[j] = IF j = i THEN [ops[j] EXCEPT !.status = status]
                                                  ELSE ops[j]
  BY FinishTypes
<1>2. DOMAIN ops' = DOMAIN ops
  BY <1>1, TableOfOps, LenProperties
<1>3. QED
  BY <1>1, <1>2, TableOfOps DEF Operation

\* The table a restart leaves: what was running is unknown.
LEMMA InterruptedOps ==
    ASSUME TypeOK, ops' = [i \in DOMAIN ops |-> Interrupted(ops[i])]
    PROVE  /\ DOMAIN ops' = DOMAIN ops /\ Len(ops') = Len(ops)
           /\ \A i \in DOMAIN ops : /\ ops'[i].token = ops[i].token
                                    /\ ops'[i].project = ops[i].project
                                    /\ ops'[i].actor = ops[i].actor
                                    /\ ops'[i].retryOf = ops[i].retryOf
                                    /\ ops'[i].status = IF ops[i].status = "running" THEN "unknown"
                                                        ELSE ops[i].status
<1>1. /\ ops' \in Seq(Operation) /\ Len(ops') = Len(ops)
      /\ \A i \in DOMAIN ops : ops'[i] = Interrupted(ops[i])
  BY InterruptedTypes
<1>2. DOMAIN ops' = DOMAIN ops
  BY <1>1, TableOfOps, LenProperties
<1>3. QED
  BY <1>1, <1>2, TableOfOps DEF Operation, Interrupted

\* A worker that waits for a dispatch has inserted its operation.
AppliesLast == At("apply") => ops # <<>>

\* No step of the controller leaves its types.
LEMMA TypeStep == TypeOK /\ AppliesLast /\ [Next]_vars => TypeOK'
<1> SUFFICES ASSUME TypeOK, AppliesLast, [Next]_vars
             PROVE  TypeOK'
  OBVIOUS
<1> USE DEF control, schedule, facts, durable, memory
<1>1. CASE Crash
  BY <1>1, WorkerTypes DEF Crash, TypeOK, NoPlanner, Idle, Worker, Job
<1>2. CASE Restart
  <2>1. [Idle EXCEPT !.job = "boot", !.pc = "rec_start"] \in Worker
    BY DEF Idle, Worker, Job, Pc
  <2>2. ops' \in Seq(Operation)
    BY <1>2, InterruptedTypes DEF Restart
  <2>3. QED
    BY <1>2, <2>1, <2>2 DEF Restart, TypeOK, Gate
<1>3. ASSUME NEW T \in SUBSET Project, NEW on \in BOOLEAN, Configure(T, on)
      PROVE  TypeOK'
  BY <1>3 DEF Configure, TypeOK
<1>4. ASSUME NEW p \in Project, NEW ref, Resume(p, ref)
      PROVE  TypeOK'
  BY <1>4 DEF Resume, TypeOK, NotPaused
<1>5. ASSUME NEW plan \in plans, Reject(plan)
      PROVE  TypeOK'
  BY <1>5 DEF Reject, TypeOK
<1>6. ASSUME NEW plan \in plans, Approve(plan)
      PROVE  TypeOK'
  <2>1. plan \in Plan
    BY DEF TypeOK
  <2>2. worker' \in Worker
    BY <1>6, <2>1 DEF Approve, Idle, Worker, Plan, Job, Pc
  <2>3. QED
    BY <1>6, <2>2 DEF Approve, TypeOK, Popped
<1>7. ASSUME NEW t \in Thread, NEW p \in Project, Prepare(t, p)
      PROVE  TypeOK'
  BY <1>7 DEF Prepare, TypeOK
<1>8. ASSUME NEW t \in Thread, NEW answer, Prepared(t, answer)
      PROVE  TypeOK'
  <2>1. planner[t].project \in Project /\ planner[t].rev \in Nat
    BY <1>8 DEF Prepared, TypeOK
  <2>2. [project |-> planner[t].project, token |-> issued + 1, rev |-> planner[t].rev] \in Plan
    BY <2>1 DEF TypeOK, Plan
  <2>3. planner' \in [Thread -> [project: Project \cup {NoProject}, rev: Nat]]
    BY <1>8 DEF Prepared, TypeOK, NoPlanner
  <2>4. plans' \in SUBSET Plan /\ issued' \in Nat
    BY <1>8, <2>2 DEF Prepared, TypeOK
  <2>5. QED
    BY <1>8, <2>3, <2>4 DEF Prepared, TypeOK
<1>9. CASE Tick
  BY <1>9 DEF Tick, TypeOK
<1>10. CASE Reconcile
  <2>1. [Idle EXCEPT !.job = "reconcile", !.pc = "rec_start"] \in Worker
    BY DEF Idle, Worker, Job, Pc
  <2>2. QED
    BY <1>10, <2>1 DEF Reconcile, TypeOK
<1>11. CASE RoundRecovers
  <2>1. [Idle EXCEPT !.job = "round", !.pc = "rec_start", !.ret = "begin"] \in Worker
    BY DEF Idle, Worker, Job, Pc
  <2>2. QED
    BY <1>11, <2>1 DEF RoundRecovers, TypeOK
<1>12. CASE ReconcileStart
  BY <1>12, WorkerTypes DEF ReconcileStart, TypeOK, Gate, Pc
<1>13. ASSUME NEW i \in DOMAIN ops, NEW s \in Terminal, ReconcileMatched(i, s)
       PROVE  TypeOK'
  <2>1. Finish(i, s, "project")
    BY <1>13 DEF ReconcileMatched
  <2>2. QED
    BY <1>13, <2>1, FinishTypes DEF ReconcileMatched, TypeOK
<1>14. ASSUME NEW i, ReconcileUnmatched(i)
       PROVE  TypeOK'
  BY <1>14, WorkerTypes DEF ReconcileUnmatched, TypeOK
<1>15. CASE ReconcileDone
  <2>1. exhausted' \in SUBSET Nat
    BY <1>15 DEF ReconcileDone, TypeOK
  <2>2. QED
    BY <1>15, <2>1, WorkerTypes DEF ReconcileDone, TypeOK, Gate, ClosedReport
<1>16. CASE Claim
  <2>1. worker.project \in Project
    BY <1>16 DEF Claim, MayDispatch, Active
  <2>2. [project |-> worker.project, actor |-> IF Automatic THEN "schedule" ELSE "manual",
         status |-> "running", token |-> worker.token, retryOf |-> worker.retry] \in Operation
    BY <2>1 DEF TypeOK, Worker, Operation, Unfinished
  <2>3. ops' \in Seq(Operation)
    BY <1>16, <2>2, AppendProperties DEF Claim, TypeOK
  <2>4. QED
    BY <1>16, <2>3, WorkerTypes DEF Claim, TypeOK, Pc
<1>17. CASE ClaimRefused
  <2>1. worker' \in Worker
    BY <1>17, WorkerTypes DEF ClaimRefused, Pc
  <2>2. exhausted' \in SUBSET Nat
    BY <1>17 DEF ClaimRefused, TypeOK, Worker
  <2>3. QED
    BY <1>17, <2>1, <2>2 DEF ClaimRefused, TypeOK
<1>18. ASSUME NEW s \in Terminal \cup {"unknown"}, NEW c \in {"project", "common"},
              ApplyReturns(s, c)
       PROVE  TypeOK'
  <2>1. Finish(Len(ops), s, c) /\ Len(ops) \in DOMAIN ops
    BY <1>18, EmptySeq, LenProperties DEF ApplyReturns, AppliesLast, TypeOK
  <2>2. s \in Item
    BY DEF Item
  <2>3. report' \in [open: BOOLEAN, first: Nat, item: [Project -> Item]]
    BY <1>18, <2>2, ReportItemTypes DEF ApplyReturns, TypeOK
  <2>4. QED
    BY <1>18, <2>1, <2>3, FinishTypes, WorkerTypes DEF ApplyReturns, TypeOK
<1>19. CASE RoundBegin
  <2>1. worker' \in Worker
    BY <1>19 DEF RoundBegin, Idle, Worker, Job, Pc, Active, TypeOK
  <2>2. Len(ops) \in Nat
    BY LenProperties DEF TypeOK
  <2>3. report' \in [open: BOOLEAN, first: Nat, item: [Project -> Item]]
    BY <1>19, <2>2 DEF RoundBegin, Item
  <2>4. QED
    BY <1>19, <2>1, <2>3 DEF RoundBegin, TypeOK
<1>20. CASE RoundDeclined
  BY <1>20, WorkerTypes DEF RoundDeclined, TypeOK
<1>21. ASSUME NEW p \in Project, LoopProject(p)
       PROVE  TypeOK'
  <2>1. worker' \in Worker
    <3>1. pause[p].ref \in Nat /\ "retry_claim" \in Pc /\ "plan" \in Pc
      BY DEF TypeOK, Pc
    <3>2. [worker EXCEPT !.pc = "retry_claim", !.project = p, !.retry = pause[p].ref] \in Worker
      BY <3>1 DEF TypeOK, Worker
    <3>3. [worker EXCEPT !.pc = "plan", !.project = p] \in Worker
      BY <3>1 DEF TypeOK, Worker
    <3>4. QED
      BY <1>21, <3>2, <3>3, WorkerTypes DEF LoopProject
  <2>2. report' \in [open: BOOLEAN, first: Nat, item: [Project -> Item]]
    BY <1>21, ReportItemTypes DEF LoopProject, TypeOK, Item
  <2>3. QED
    BY <1>21, <2>1, <2>2 DEF LoopProject, TypeOK
<1>22. CASE LoopInterrupted
  <2>1. worker' \in Worker
    <3>1. [worker EXCEPT !.pc = "rec_start", !.ret = "loop"] \in Worker
      BY DEF TypeOK, Worker, Pc
    <3>2. QED
      BY <1>22, <3>1, WorkerTypes DEF LoopInterrupted
  <2>2. QED
    BY <1>22, <2>1 DEF LoopInterrupted, TypeOK
<1>23. CASE LoopDone
  BY <1>23, WorkerTypes DEF LoopDone, TypeOK
<1>24. CASE PlanFound
  <2>1. worker' \in Worker /\ issued' \in Nat
    <3> worker \in Worker /\ issued + 1 \in Nat /\ "claim" \in Pc
      BY DEF TypeOK, Pc
    <3>1. [worker EXCEPT !.pc = "claim", !.token = issued + 1] \in Worker
      BY DEF Worker
    <3>2. QED
      BY <1>24, <3>1, WorkerTypes DEF PlanFound, TypeOK
  <2>2. report' \in [open: BOOLEAN, first: Nat, item: [Project -> Item]]
    BY <1>24, ReportItemTypes DEF PlanFound, TypeOK, Item
  <2>3. QED
    BY <1>24, <2>1, <2>2 DEF PlanFound, TypeOK
<1>25. ASSUME NEW item, PlanNone(item)
       PROVE  TypeOK'
  <2>1. report' \in [open: BOOLEAN, first: Nat, item: [Project -> Item]]
    BY <1>25, ReportItemTypes DEF PlanNone, TypeOK, Item
  <2>2. QED
    BY <1>25, <2>1, WorkerTypes DEF PlanNone, TypeOK
<1>26. ASSUME NEW outage \in BOOLEAN, PlanBroken(outage)
       PROVE  TypeOK'
  <2>1. report' \in [open: BOOLEAN, first: Nat, item: [Project -> Item]]
    BY <1>26, ReportItemTypes DEF PlanBroken, TypeOK, Item
  <2>2. worker' \in Worker
    <3>1. \A w \in Worker, b \in BOOLEAN : [w EXCEPT !.pc = "broken", !.recover = b] \in Worker
      BY DEF Worker, Pc
    <3>2. After(worker.project) \in Worker
      BY WorkerTypes
    <3>3. (~outage) \in BOOLEAN
      OBVIOUS
    <3>4. QED
      BY <1>26, <3>1, <3>2, <3>3, Zenon DEF PlanBroken
  <2>3. QED
    BY <1>26, <2>1, <2>2 DEF PlanBroken, TypeOK
<1>27. CASE RetryClaim
  <2>1. pause' \in [Project -> [ref: Nat, used: BOOLEAN]]
    BY <1>27 DEF RetryClaim, Spent, TypeOK
  <2>2. QED
    BY <1>27, <2>1, WorkerTypes DEF RetryClaim, TypeOK, Pc
<1>28. CASE RetryCheckFails
  <2>1. exhausted' \in SUBSET Nat
    BY <1>28 DEF RetryCheckFails, TypeOK, Worker
  <2>2. QED
    BY <1>28, <2>1, WorkerTypes DEF RetryCheckFails, TypeOK, Pc
<1>29. CASE RetryNoUpdate
  <2>1. pause' \in [Project -> [ref: Nat, used: BOOLEAN]]
    BY <1>29 DEF RetryNoUpdate, NotPaused, TypeOK
  <2>2. QED
    BY <1>29, <2>1, WorkerTypes DEF RetryNoUpdate, TypeOK, Pc
<1>30. CASE RetryPlanned
  <2>1. worker' \in Worker /\ issued' \in Nat
    <3> worker \in Worker /\ issued + 1 \in Nat /\ "claim" \in Pc
      BY DEF TypeOK, Pc
    <3>1. [worker EXCEPT !.pc = "claim", !.token = issued + 1] \in Worker
      BY DEF Worker
    <3>2. QED
      BY <1>30, <3>1 DEF RetryPlanned, TypeOK
  <2>2. QED
    BY <1>30, <2>1 DEF RetryPlanned, TypeOK
<1>31. CASE RetryReport
  <2>1. report' \in [open: BOOLEAN, first: Nat, item: [Project -> Item]]
    BY <1>31, ReportItemTypes DEF RetryReport, TypeOK, Item
  <2>2. QED
    BY <1>31, <2>1, WorkerTypes DEF RetryReport, TypeOK
<1>32. CASE RoundTail
  <2>1. worker' \in Worker
    BY <1>32 DEF RoundTail, TypeOK, Worker, Pc
  <2>2. QED
    BY <1>32, <2>1 DEF RoundTail, TypeOK
<1>33. CASE RoundClose
  BY <1>33, WorkerTypes DEF RoundClose, TypeOK
<1>34. CASE UNCHANGED vars
  BY <1>34 DEF vars, TypeOK
<1>35. CASE ChecksStop
  <2>1. worker' \in Worker
    BY <1>35, WorkerTypes DEF ChecksStop, Pc
  <2>2. QED
    BY <1>35, <2>1 DEF ChecksStop, TypeOK, Gate
<1>36. QED
  BY <1>1, <1>2, <1>3, <1>4, <1>5, <1>6, <1>7, <1>8, <1>9, <1>10, <1>11, <1>12,
     <1>13, <1>14, <1>15, <1>16, <1>17, <1>18, <1>19, <1>20, <1>21, <1>22,
     <1>23, <1>24, <1>25, <1>26, <1>27, <1>28, <1>29, <1>30, <1>31, <1>32,
     <1>33, <1>34, <1>35
  DEF Next, Request, Manual, ReconcileStep, DispatchStep, RoundStep

-----------------------------------------------------------------------------
(* The write gate. ReadyMeansResolved is not inductive by itself: that the  *)
(* operation under an open gate is the last and a running one depends on    *)
(* where the worker stands, and a dead process has no worker.               *)

DownIsIdle ==
    /\ worker.job \in {"none", "down"} => worker.pc = "idle"
    /\ worker.job = "down" => plans = {} /\ \A t \in Thread : planner[t] = NoPlanner

OnlyLastOpen == \A i \in Unresolved : i = Len(ops)

RunningIsApplied ==
    /\ At("apply") => ops[Len(ops)].status = "running"
    /\ \A i \in DOMAIN ops : ops[i].status = "running" => At("apply") \/ worker.job = "down"

GateInv ==
    /\ TypeOK
    /\ AppliesLast
    /\ DownIsIdle
    /\ OnlyLastOpen
    /\ RunningIsApplied
    /\ ReadyMeansResolved
    /\ PlansAreCurrent

\* Steps of other threads: neither gate, operations nor worker move.
Bystander == UNCHANGED <<gate, ops, worker>> /\ (worker.job = "down" => UNCHANGED <<plans, planner>>)

\* Steps of the worker between dispatches. Only a reconciliation that found
\* nothing unresolved opens the gate.
WorkerMoves ==
    /\ UNCHANGED ops
    /\ worker.job # "down" /\ worker.job' # "down"
    /\ worker.pc # "apply" /\ worker.pc' # "apply"
    /\ worker.job' = "none" => worker.pc' = "idle"
    /\ \/ gate' = gate
       \/ gate' # "ready"
       \/ gate' = "ready" /\ Unresolved = {}

\* A step of a busy worker leaves it busy or the lock free.
Moved(w) == w.pc # "apply" /\ w.job # "down" /\ (w.job = "none" => w.pc = "idle")

\* A reconciliation hands the lock back, or goes on in the job that called it.
LEMMA ReturnedMoves ==
    ASSUME TypeOK, worker.job \notin {"none", "down"}, worker.pc # "apply"
    PROVE  /\ \A ok \in BOOLEAN : Moved(Returned(ok))
           /\ \A p : Moved(After(p))
           /\ Moved(EndRound)
           /\ Moved(Idle)
<1>1. worker \in Worker
  BY DEF TypeOK
<1>2. \A p : Moved(After(p))
  BY <1>1 DEF After, Worker, Moved
<1>3. Moved(EndRound)
  BY <1>1 DEF EndRound, Worker, Moved
<1>4. Moved(Idle)
  BY DEF Idle, Moved
<1>5. \A pc \in {"begin", "loop", "close"} : Moved([worker EXCEPT !.pc = pc])
  BY <1>1 DEF Worker, Moved
<1>6. \A ok \in BOOLEAN : Moved(Returned(ok))
  BY <1>3, <1>4, <1>5 DEF Returned, Released
<1>7. QED
  BY <1>2, <1>3, <1>4, <1>6

\* What the steps outside dispatch, result and reconciliation leave alone: every
\* step is one of the few that write the operations or the gate, or it keeps both.
LEMMA Footprint ==
    ASSUME TypeOK, DownIsIdle, [Next]_vars
    PROVE  \/ Bystander
           \/ WorkerMoves
           \/ Crash
           \/ Restart
           \/ Claim
           \/ \E i \in DOMAIN ops, s \in Terminal : ReconcileMatched(i, s)
           \/ \E s \in Terminal \cup {"unknown"}, c \in {"project", "common"} : ApplyReturns(s, c)
<1> USE DEF control, schedule, facts, durable, memory, At
<1>0. worker \in Worker
  BY DEF TypeOK
<1>1. ASSUME NEW T, NEW on, Configure(T, on)
      PROVE  Bystander
  BY <1>1 DEF Configure, Bystander, Serving
<1>2. ASSUME NEW p, NEW ref, Resume(p, ref)
      PROVE  Bystander
  BY <1>2 DEF Resume, Bystander
<1>3. ASSUME NEW plan, Reject(plan)
      PROVE  Bystander
  BY <1>3 DEF Reject, Bystander, Serving
<1>4. ASSUME NEW plan, Approve(plan)
      PROVE  WorkerMoves
  BY <1>4 DEF Approve, WorkerMoves, DownIsIdle, Free, Idle
<1>5. ASSUME NEW t, NEW p, Prepare(t, p)
      PROVE  Bystander
  BY <1>5 DEF Prepare, Bystander, Serving
<1>6. CASE Tick
  BY <1>6 DEF Tick, Bystander
<1>7. CASE Reconcile
  BY <1>7 DEF Reconcile, WorkerMoves, DownIsIdle, Free, Idle
<1>8. CASE RoundRecovers
  BY <1>8 DEF RoundRecovers, WorkerMoves, DownIsIdle, Free, Idle
<1>9. CASE ReconcileStart
  BY <1>0, <1>9 DEF ReconcileStart, WorkerMoves, DownIsIdle, Worker
<1>10. ASSUME NEW i, ReconcileUnmatched(i)
       PROVE  WorkerMoves
  BY <1>10, ReturnedMoves DEF Moved, ReconcileUnmatched, WorkerMoves, DownIsIdle
<1>11. CASE ReconcileDone
  BY <1>11, ReturnedMoves DEF Moved, ReconcileDone, WorkerMoves, DownIsIdle, MayReopen
<1>12. CASE ClaimRefused
  <2>1. worker.job \notin {"none", "down"} /\ worker.pc # "apply"
    BY <1>12 DEF ClaimRefused, DownIsIdle
  <2>2. \A pc \in {"retry_report", "store"} : Moved([worker EXCEPT !.pc = pc])
    BY <1>0, <2>1 DEF Worker, Moved
  <2>3. Moved(worker')
    BY <1>12, <2>1, <2>2, ReturnedMoves DEF ClaimRefused
  <2>4. QED
    BY <1>12, <2>1, <2>3 DEF ClaimRefused, WorkerMoves, Moved
<1>13. CASE RoundBegin
  BY <1>13 DEF RoundBegin, BeginsRound, WorkerMoves, DownIsIdle, Free, Idle
<1>14. CASE RoundDeclined
  BY <1>14 DEF RoundDeclined, WorkerMoves, Idle
<1>15. ASSUME NEW p, LoopProject(p)
       PROVE  WorkerMoves
  <2>1. worker.job \notin {"none", "down"} /\ worker.pc # "apply" /\ UNCHANGED <<ops, gate>>
    BY <1>15 DEF LoopProject, DownIsIdle
  <2>2. Moved(After(p)) /\ Moved(EndRound)
    BY <2>1, ReturnedMoves
  <2>3. Moved(worker')
    BY <1>0, <1>15, <2>1, <2>2 DEF Moved, LoopProject, Worker
  <2>4. QED
    BY <2>1, <2>3 DEF WorkerMoves, Moved
<1>16. CASE LoopInterrupted
  BY <1>0, <1>16, ReturnedMoves DEF Moved, LoopInterrupted, WorkerMoves, DownIsIdle, Worker
<1>17. CASE LoopDone
  BY <1>17, ReturnedMoves DEF Moved, LoopDone, WorkerMoves, DownIsIdle
<1>18. CASE PlanFound
  <2>1. worker.job = "round" /\ worker.pc # "apply" /\ UNCHANGED <<ops, gate>>
    BY <1>18 DEF PlanFound
  <2>2. Moved(After(worker.project))
    BY <2>1, ReturnedMoves
  <2>3. Moved(worker')
    BY <1>0, <1>18, <2>1, <2>2 DEF Moved, PlanFound, Worker
  <2>4. QED
    BY <2>1, <2>3 DEF WorkerMoves, Moved
<1>19. ASSUME NEW item, PlanNone(item)
       PROVE  WorkerMoves
  BY <1>19, ReturnedMoves DEF Moved, PlanNone, WorkerMoves
<1>20. ASSUME NEW outage \in BOOLEAN, PlanBroken(outage)
       PROVE  WorkerMoves
  <2>1. After(worker.project) \in Worker /\ worker.job = "round" /\ worker.pc # "apply"
    BY <1>20, WorkerTypes DEF PlanBroken
  <2>2. Moved(After(worker.project))
    BY <2>1, ReturnedMoves
  <2>3. Moved(worker')
    <3>1. \A w \in Worker : \A b : /\ [w EXCEPT !.pc = "broken", !.recover = b].pc = "broken"
                                   /\ [w EXCEPT !.pc = "broken", !.recover = b].job = w.job
      BY DEF Worker
    <3>2. worker'.pc = "broken" /\ worker'.job = After(worker.project).job
      BY <1>20, <2>1, <3>1, Zenon DEF PlanBroken
    <3>3. QED
      BY <2>1, <2>2, <3>2, <1>0 DEF Moved, After, Worker
  <2>4. QED
    BY <1>20, <2>1, <2>3 DEF PlanBroken, WorkerMoves, Moved
<1>21. CASE RetryClaim
  BY <1>0, <1>21 DEF RetryClaim, WorkerMoves, DownIsIdle, Worker
<1>22. CASE RetryCheckFails
  BY <1>0, <1>22 DEF RetryCheckFails, WorkerMoves, DownIsIdle, Worker
<1>23. CASE RetryNoUpdate
  BY <1>0, <1>23 DEF RetryNoUpdate, WorkerMoves, DownIsIdle, Worker
<1>24. CASE RetryPlanned
  BY <1>0, <1>24 DEF RetryPlanned, WorkerMoves, DownIsIdle, Worker
<1>25. CASE RetryReport
  BY <1>25, ReturnedMoves DEF Moved, RetryReport, WorkerMoves, DownIsIdle
<1>26. CASE RoundTail
  BY <1>0, <1>26 DEF RoundTail, WorkerMoves, DownIsIdle, Worker
<1>27. CASE RoundClose
  BY <1>27 DEF RoundClose, WorkerMoves, DownIsIdle, Idle
<1>28. CASE UNCHANGED vars
  BY <1>28 DEF vars, Bystander
<1>29. ASSUME NEW t \in Thread, NEW answer, Prepared(t, answer)
       PROVE  Bystander
  BY <1>29 DEF Prepared, Bystander, DownIsIdle, NoPlanner
<1>30. CASE ChecksStop
  <2>1. worker.job \notin {"none", "down"} /\ worker.pc = "broken"
    BY <1>30 DEF ChecksStop, DownIsIdle
  <2>2. Moved(EndRound) /\ Moved([worker EXCEPT !.pc = "loop"])
    BY <1>0, <2>1, ReturnedMoves DEF Moved, Worker
  <2>3. QED
    BY <1>30, <2>1, <2>2 DEF ChecksStop, WorkerMoves, Moved
<1>31. QED
  BY <1>1, <1>2, <1>3, <1>4, <1>5, <1>6, <1>7, <1>8, <1>9, <1>10, <1>11, <1>12,
     <1>13, <1>14, <1>15, <1>16, <1>17, <1>18, <1>19, <1>20, <1>21, <1>22,
     <1>23, <1>24, <1>25, <1>26, <1>27, <1>28, <1>29, <1>30
  DEF Next, Request, Manual, ReconcileStep, DispatchStep, RoundStep

\* Every step that moves the gate or the revision empties the approvals, and
\* only a planner that has seen no such move adds one.
LEMMA PlansStep ==
    ASSUME TypeOK, DownIsIdle, PlansAreCurrent, [Next]_vars
    PROVE  PlansAreCurrent'
<1> USE DEF control, schedule, facts, durable, memory, PlansAreCurrent
<1>1. ASSUME NEW T, NEW on, Configure(T, on)
      PROVE  PlansAreCurrent'
  BY <1>1 DEF Configure
<1>2. ASSUME NEW p, NEW ref, Resume(p, ref)
      PROVE  PlansAreCurrent'
  BY <1>2 DEF Resume
<1>3. ASSUME NEW plan, Reject(plan) \/ Approve(plan)
      PROVE  PlansAreCurrent'
  BY <1>3 DEF Reject, Approve, Popped
<1>4. ASSUME NEW t \in Thread, NEW answer, Prepared(t, answer)
      PROVE  PlansAreCurrent'
  BY <1>4 DEF Prepared, StillCurrent
<1>5. CASE Crash \/ Restart
  BY <1>5 DEF Crash, Restart, DownIsIdle
<1>6. CASE ReconcileDone
  BY <1>6 DEF ReconcileDone
<1>7. ASSUME NEW i, NEW s, NEW c, Finish(i, s, c), revision' = revision
      PROVE  PlansAreCurrent'
  BY <1>7 DEF Finish
<1>8. ASSUME NEW i, NEW s, ReconcileMatched(i, s)
      PROVE  PlansAreCurrent'
  BY <1>7, <1>8 DEF ReconcileMatched
<1>9. ASSUME NEW s, NEW c, ApplyReturns(s, c)
      PROVE  PlansAreCurrent'
  BY <1>7, <1>9 DEF ApplyReturns
<1>10. ASSUME ReconcileStart \/ ChecksStop
       PROVE  PlansAreCurrent'
  BY <1>10 DEF ReconcileStart, ChecksStop
<1>11. ASSUME UNCHANGED <<plans, gate, revision>>
       PROVE  PlansAreCurrent'
  BY <1>11
<1>12. ASSUME NEW t, NEW p, NEW i, NEW item, NEW outage,
              \/ Prepare(t, p) \/ Tick \/ Reconcile \/ RoundRecovers \/ ReconcileUnmatched(i)
              \/ Claim \/ ClaimRefused \/ RoundBegin \/ RoundDeclined \/ LoopProject(p)
              \/ LoopInterrupted \/ LoopDone \/ PlanFound \/ PlanNone(item) \/ PlanBroken(outage)
       PROVE  UNCHANGED <<plans, gate, revision>>
  BY <1>12 DEF Prepare, Tick, Reconcile, RoundRecovers, ReconcileUnmatched, Claim,
               ClaimRefused, RoundBegin, RoundDeclined, LoopProject, LoopInterrupted,
               LoopDone, PlanFound, PlanNone, PlanBroken
<1>13. CASE \/ RetryClaim \/ RetryCheckFails \/ RetryNoUpdate \/ RetryPlanned
            \/ RetryReport \/ RoundTail \/ RoundClose \/ UNCHANGED vars
  <2>1. UNCHANGED <<plans, gate, revision>>
    BY <1>13 DEF RetryClaim, RetryCheckFails, RetryNoUpdate, RetryPlanned,
                 RetryReport, RoundTail, RoundClose, vars
  <2>2. QED
    BY <2>1, <1>11
<1>14. QED
  BY <1>1, <1>2, <1>3, <1>4, <1>5, <1>6, <1>8, <1>9, <1>10, <1>11, <1>12, <1>13
  DEF Next, Request, Manual, ReconcileStep, DispatchStep, RoundStep

\* The inductive invariant holds of a fresh database.
LEMMA GateInit == Init => GateInv
<1> SUFFICES ASSUME Init
             PROVE  GateInv
  OBVIOUS
<1>1. ops = <<>> /\ DOMAIN ops = {} /\ ops \in Seq(Operation)
  BY EmptySeq DEF Init
<1>2. worker.job = "down" /\ worker.pc = "idle" /\ worker \in Worker
  BY DEF Init, Idle, Worker, Job, Pc
<1>3. TypeOK
  BY <1>1, <1>2 DEF Init, TypeOK, NotPaused, NoReport, NoPlanner, Gate, Item
<1>4. QED
  BY <1>1, <1>2, <1>3 DEF Init, GateInv, AppliesLast, DownIsIdle, OnlyLastOpen, At,
       RunningIsApplied, ReadyMeansResolved, PlansAreCurrent, Unresolved, NoPlanner

\* What a step of another thread, or of a worker between dispatches, leaves of
\* the invariant besides types and approvals.
LEMMA QuietGate ==
    ASSUME GateInv, TypeOK', PlansAreCurrent', Bystander \/ WorkerMoves
    PROVE  GateInv'
<1> USE DEF GateInv
<1>1. CASE Bystander
  <2>1. ops' = ops /\ gate' = gate /\ worker' = worker
    BY <1>1 DEF Bystander
  <2>2. DownIsIdle'
    BY <1>1, <2>1 DEF Bystander, DownIsIdle
  <2>3. /\ AppliesLast' /\ OnlyLastOpen' /\ RunningIsApplied' /\ ReadyMeansResolved'
    BY <2>1 DEF AppliesLast, OnlyLastOpen, RunningIsApplied, ReadyMeansResolved,
                Unresolved, At
  <2>4. QED
    BY <2>2, <2>3
<1>2. CASE WorkerMoves
  <2>1. /\ ops' = ops /\ Unresolved' = Unresolved
        /\ ~At("apply") /\ ~At("apply")' /\ worker.job # "down" /\ worker'.job # "down"
    BY <1>2 DEF WorkerMoves, Unresolved, At
  <2>2. gate' = "ready" => Unresolved = {}
    BY <1>2, <2>1 DEF WorkerMoves, ReadyMeansResolved
  <2>3. DownIsIdle'
    BY <1>2 DEF WorkerMoves, DownIsIdle
  <2>4. AppliesLast' /\ RunningIsApplied'
    BY <2>1 DEF AppliesLast, RunningIsApplied
  <2>5. OnlyLastOpen' /\ ReadyMeansResolved'
    BY <2>1, <2>2 DEF OnlyLastOpen, ReadyMeansResolved
  <2>6. QED
    BY <2>3, <2>4, <2>5
<1>3. QED
  BY <1>1, <1>2

\* A restart shuts the gate over what was running.
LEMMA RebootGate ==
    ASSUME GateInv, TypeOK', PlansAreCurrent', gate' = "startup",
           ops' = [i \in DOMAIN ops |-> Interrupted(ops[i])],
           worker' = [Idle EXCEPT !.job = "boot", !.pc = "rec_start"]
    PROVE  GateInv'
<1> USE DEF GateInv
<1>1. /\ DOMAIN ops' = DOMAIN ops /\ Len(ops') = Len(ops)
      /\ \A i \in DOMAIN ops : ops'[i].status = IF ops[i].status = "running" THEN "unknown"
                                                ELSE ops[i].status
  BY InterruptedOps
<1>2. Unresolved' = Unresolved /\ \A i \in DOMAIN ops' : ops'[i].status # "running"
  BY <1>1 DEF Unresolved, Unfinished
<1>3. gate' # "ready" /\ worker'.job = "boot" /\ ~At("apply")'
  BY DEF Idle, At
<1>4. QED
  BY <1>1, <1>2, <1>3 DEF AppliesLast, DownIsIdle, OnlyLastOpen, RunningIsApplied,
     ReadyMeansResolved

\* The inductive invariant is kept by every step.
LEMMA GateStep == GateInv /\ [Next]_vars => GateInv'
<1> SUFFICES ASSUME GateInv, [Next]_vars
             PROVE  GateInv'
  OBVIOUS
<1> USE DEF GateInv
<1>1. TypeOK' /\ PlansAreCurrent'
  BY TypeStep, PlansStep
<1>2. /\ ops \in Seq(Operation) /\ ops \in [1 .. Len(ops) -> Operation]
      /\ DOMAIN ops = 1 .. Len(ops) /\ Len(ops) \in Nat
      /\ worker \in Worker
  BY LenProperties DEF TypeOK
<1>3. CASE Bystander \/ WorkerMoves
  BY <1>1, <1>3, QuietGate
<1>5. CASE Crash
  <2>1. ops' = ops /\ gate' = gate /\ Unresolved' = Unresolved
    BY <1>5 DEF Crash, durable, control, facts, Unresolved
  <2>2. worker'.job = "down" /\ worker'.pc = "idle" /\ ~At("apply")'
    BY <1>5 DEF Crash, Idle, At
  <2>3. DownIsIdle'
    BY <1>5, <2>2 DEF Crash, DownIsIdle
  <2>4. AppliesLast' /\ RunningIsApplied' /\ OnlyLastOpen' /\ ReadyMeansResolved'
    BY <2>1, <2>2 DEF AppliesLast, RunningIsApplied, OnlyLastOpen, ReadyMeansResolved
  <2>5. QED
    BY <1>1, <2>3, <2>4
<1>6. CASE Restart
  BY <1>1, <1>6, RebootGate DEF Restart
<1>7. CASE Claim
  <2>1. /\ gate = "ready" /\ gate' = gate /\ At("claim") /\ worker.job # "down"
        /\ worker' = [worker EXCEPT !.pc = "apply"]
    BY <1>7 DEF Claim, MayDispatch, control, DownIsIdle, At
  <2>2. Unresolved = {}
    BY <2>1 DEF ReadyMeansResolved, At
  <2>3. /\ worker'.pc = "apply" /\ worker'.job = worker.job /\ worker.job # "none"
    BY <1>2, <2>1 DEF Worker, DownIsIdle, At
  <2>4. PICK o \in Operation : o.status = "running" /\ ops' = Append(ops, o)
    BY <1>7, ClaimAppends
  <2>5. /\ Len(ops') = Len(ops) + 1 /\ DOMAIN ops' = 1 .. Len(ops) + 1
        /\ ops'[Len(ops) + 1] = o /\ ops' # <<>>
        /\ \A i \in 1 .. Len(ops) : ops'[i] = ops[i]
    BY <1>2, <2>4, AppendProperties, LenProperties, EmptySeq
  <2>6. \A i \in 1 .. Len(ops) : ops'[i].status \notin Unfinished
    BY <1>2, <2>2, <2>5 DEF Unresolved
  <2>7. \A i \in Unresolved' : i = Len(ops')
    BY <1>2, <2>5, <2>6 DEF Unresolved
  <2>8. ops'[Len(ops')].status = "running"
    BY <2>4, <2>5
  <2>9. DownIsIdle'
    BY <2>1, <2>3 DEF DownIsIdle
  <2>10. QED
    BY <1>1, <2>3, <2>5, <2>7, <2>8, <2>9
    DEF AppliesLast, OnlyLastOpen, RunningIsApplied, ReadyMeansResolved, At
<1>8. ASSUME NEW i \in DOMAIN ops, NEW s \in Terminal, ReconcileMatched(i, s)
      PROVE  GateInv'
  <2>1. /\ Finish(i, s, "project") /\ worker' = worker /\ At("rec") /\ i \in Unresolved
        /\ plans' = plans /\ planner' = planner
    BY <1>8 DEF ReconcileMatched, Finish, Terminal
  <2>2. /\ Len(ops') = Len(ops) /\ ops' \in Seq(Operation)
        /\ \A j \in DOMAIN ops : ops'[j] = IF j = i THEN [ops[j] EXCEPT !.status = s] ELSE ops[j]
    BY <2>1, FinishTypes
  <2>3. DOMAIN ops' = DOMAIN ops
    BY <1>2, <2>2, LenProperties
  <2>4. ops'[i].status = s /\ s \notin Unfinished
    BY <1>2, <2>2 DEF Operation, Terminal, Unfinished
  <2>5. Unresolved' = {}
    BY <2>1, <2>2, <2>3, <2>4 DEF Unresolved, OnlyLastOpen
  <2>6. DownIsIdle'
    BY <2>1 DEF DownIsIdle
  <2>7. QED
    BY <1>1, <2>1, <2>5, <2>6
    DEF AppliesLast, OnlyLastOpen, RunningIsApplied, ReadyMeansResolved, At, Unresolved, Unfinished
<1>9. ASSUME NEW s \in Terminal \cup {"unknown"}, NEW c \in {"project", "common"},
             ApplyReturns(s, c)
      PROVE  GateInv'
  <2>1. Finish(Len(ops), s, c) /\ worker' = Dispatched(s) /\ At("apply")
    BY <1>9 DEF ApplyReturns
  <2>2. Len(ops) \in DOMAIN ops
    BY <1>2, <2>1, EmptySeq DEF AppliesLast
  <2>3. /\ Len(ops') = Len(ops) /\ ops' \in Seq(Operation)
        /\ \A j \in DOMAIN ops : ops'[j] = IF j = Len(ops) THEN [ops[j] EXCEPT !.status = s] ELSE ops[j]
    BY <2>1, <2>2, FinishTypes
  <2>4. DOMAIN ops' = DOMAIN ops
    BY <1>2, <2>3, LenProperties
  <2>5. ops'[Len(ops)].status = s
    BY <1>2, <2>2, <2>3 DEF Operation
  <2>6. \A j \in Unresolved' : j = Len(ops') /\ ops'[j].status = "unknown" /\ s = "unknown"
    BY <1>2, <2>2, <2>3, <2>4, <2>5 DEF Unresolved, OnlyLastOpen, Terminal, Unfinished
  <2>7. s = "unknown" => gate' # "ready"
    BY <2>1 DEF Finish
  <2>8. Moved(worker')
    <3>1. worker.job \notin {"none", "down"}
      BY <2>1 DEF DownIsIdle, At
    <3>2. worker' = Idle \/ worker' = After(worker.project) \/ worker' = EndRound
             \/ worker' = [worker EXCEPT !.pc = "store"]
      BY <2>1 DEF Dispatched
    <3>3. Moved(Idle)
      BY DEF Moved, Idle
    <3>4. Moved(After(worker.project)) /\ Moved(EndRound)
      BY <1>2, <3>1 DEF Moved, After, EndRound, Worker
    <3>5. Moved([worker EXCEPT !.pc = "store"])
      BY <1>2, <3>1 DEF Moved, Worker
    <3>6. QED
      BY <3>2, <3>3, <3>4, <3>5
  <2>9. \A j \in DOMAIN ops' : ops'[j].status # "running"
    BY <2>4, <2>6 DEF Unresolved, Unfinished
  <2>10. QED
    BY <1>1, <2>6, <2>7, <2>8, <2>9 DEF Moved, AppliesLast, DownIsIdle, OnlyLastOpen,
       RunningIsApplied, ReadyMeansResolved, At
<1>10. QED
  BY <1>3, <1>5, <1>6, <1>7, <1>8, <1>9, Footprint

\* Every reachable state of the controller has its declared types.
THEOREM TypeCorrect == Spec => []TypeOK
<1>1. GateInv => TypeOK
  BY DEF GateInv
<1>2. QED
  BY <1>1, GateInit, GateStep, PTL DEF Spec

\* An open gate means no earlier operation is without a final result, whatever
\* interleaves and wherever the process dies: the controller never dispatches
\* beside or on top of an uncertain operation.
THEOREM GateSafe == Spec => []ReadyMeansResolved
<1>1. GateInv => ReadyMeansResolved
  BY DEF GateInv
<1>2. QED
  BY <1>1, GateInit, GateStep, PTL DEF Spec

\* No approval outlives the schedule or the open gate it was prepared under.
THEOREM ApprovalsCurrent == Spec => []PlansAreCurrent
<1>1. GateInv => PlansAreCurrent
  BY DEF GateInv
<1>2. QED
  BY <1>1, GateInit, GateStep, PTL DEF Spec

-----------------------------------------------------------------------------
(* The operation table implements the abstract ledger. *)

Row == [project: Project, status: Terminal \cup Unfinished]

\* The rows of the ledger are those of the table, one by one.
LEMMA RowsTypes ==
    ASSUME NEW table \in Seq(Operation)
    PROVE  /\ RowsOf(table) \in Seq(Row) /\ Len(RowsOf(table)) = Len(table)
           /\ DOMAIN RowsOf(table) = DOMAIN table
           /\ \A i \in DOMAIN table : /\ RowsOf(table)[i].project = table[i].project
                                      /\ RowsOf(table)[i].status = table[i].status
                                      /\ RowsOf(table)[i] \in Row
<1>1. /\ table \in [1 .. Len(table) -> Operation]
      /\ DOMAIN table = 1 .. Len(table) /\ Len(table) \in Nat
  BY LenProperties
<1>2. \A i \in 1 .. Len(table) : [project |-> table[i].project, status |-> table[i].status] \in Row
  BY <1>1 DEF Operation, Row
<1>3. RowsOf(table) \in [1 .. Len(table) -> Row]
  BY <1>1, <1>2 DEF RowsOf
<1>4. RowsOf(table) \in Seq(Row)
  BY <1>1, <1>3, SeqDef
<1>5. DOMAIN RowsOf(table) = 1 .. Len(RowsOf(table)) /\ Len(RowsOf(table)) \in Nat
  BY <1>4, LenProperties
<1>6. Len(RowsOf(table)) = Len(table)
  BY <1>1, <1>3, <1>5
<1>7. QED
  BY <1>1, <1>3, <1>4, <1>6 DEF RowsOf

\* Changing the status of the last operation is one step of the ledger.
LEMMA LastRowBecomes ==
    ASSUME TypeOK, TypeOK', ops # <<>>, Len(ops') = Len(ops), NEW to,
           \A j \in DOMAIN ops : /\ ops'[j].project = ops[j].project
                                 /\ ops'[j].status = IF j = Len(ops) THEN to ELSE ops[j].status
    PROVE  Ledger!Becomes(ops[Len(ops)].status, to)
<1> DEFINE n == Len(ops)
<1>1. /\ ops \in Seq(Operation) /\ DOMAIN ops = 1 .. n /\ n \in Nat \ {0}
      /\ DOMAIN ops' = 1 .. n
  BY LenProperties, EmptySeq DEF TypeOK
<1>2. OperationRows # <<>>
  BY <1>1, RowsTypes, EmptySeq DEF OperationRows
<1>3. OperationRows[Len(OperationRows)].status = ops[n].status
  BY <1>1, RowsTypes DEF OperationRows
<1>4. OperationRows' = [OperationRows EXCEPT ![Len(OperationRows)].status = to]
  <2>1. Len(OperationRows) = n
    BY <1>1, RowsTypes DEF OperationRows
  <2>2. [OperationRows EXCEPT ![n].status = to]
          = [j \in DOMAIN ops |-> IF j = n THEN [OperationRows[n] EXCEPT !.status = to]
                                           ELSE OperationRows[j]]
    BY <1>1 DEF OperationRows, RowsOf
  <2>3. \A j \in DOMAIN ops : OperationRows'[j] = IF j = n THEN [OperationRows[n] EXCEPT !.status = to]
                                                          ELSE OperationRows[j]
    BY <1>1 DEF OperationRows, RowsOf
  <2>4. OperationRows' = [j \in DOMAIN ops |-> OperationRows'[j]]
    BY <1>1 DEF OperationRows, RowsOf
  <2>5. QED
    BY <2>1, <2>2, <2>3, <2>4
<1>5. QED
  BY <1>2, <1>3, <1>4 DEF Ledger!Becomes

\* Every step of the controller is a step of the ledger or leaves it alone.
LEMMA LedgerStep ==
    ASSUME GateInv, GateInv', [Next]_vars
    PROVE  [Ledger!Next]_OperationRows
<1> USE DEF GateInv
<1>1. /\ ops \in Seq(Operation) /\ ops \in [1 .. Len(ops) -> Operation]
      /\ DOMAIN ops = 1 .. Len(ops) /\ Len(ops) \in Nat
      /\ ops' \in Seq(Operation) /\ DOMAIN ops' = 1 .. Len(ops')
  BY LenProperties DEF TypeOK
<1>2. ASSUME ops' = ops
      PROVE  [Ledger!Next]_OperationRows
  BY <1>2 DEF OperationRows, RowsOf
<1>3. CASE Bystander \/ WorkerMoves \/ Crash
  BY <1>2, <1>3 DEF Bystander, WorkerMoves, Crash, durable, facts
<1>4. CASE Restart
  <2>1. Len(ops') = Len(ops) /\ \A i \in DOMAIN ops : ops'[i] = Interrupted(ops[i])
    BY <1>4, InterruptedTypes DEF Restart
  <2>2. CASE \A i \in DOMAIN ops : ops[i].status # "running"
    <3>1. \A i \in DOMAIN ops : ops'[i] = ops[i]
      BY <2>1, <2>2 DEF Interrupted
    <3>2. ops' = ops
      BY <1>1, <2>1, <3>1, SeqEqual
    <3>3. QED
      BY <1>2, <3>2
  <2>3. CASE \E i \in DOMAIN ops : ops[i].status = "running"
    <3>1. ops # <<>> /\ ops[Len(ops)].status = "running"
      BY <1>1, <2>3 DEF OnlyLastOpen, Unresolved, Unfinished
    <3>2. \A j \in DOMAIN ops : /\ ops'[j].project = ops[j].project
                                /\ ops'[j].status = IF j = Len(ops) THEN "unknown" ELSE ops[j].status
      BY <1>1, <2>1, <3>1 DEF Interrupted, Operation, OnlyLastOpen, Unresolved, Unfinished
    <3>3. Ledger!Becomes("running", "unknown")
      BY <2>1, <3>1, <3>2, LastRowBecomes
    <3>4. QED
      BY <3>3 DEF Ledger!Next
  <2>4. QED
    BY <2>2, <2>3
<1>5. CASE Claim
  <2>1. /\ gate = "ready" /\ At("claim") /\ worker.job # "down"
    BY <1>5 DEF Claim, MayDispatch, DownIsIdle, At
  <2>2. Unresolved = {}
    BY <2>1 DEF ReadyMeansResolved, At
  <2>3. PICK o \in Operation : o.status = "running" /\ ops' = Append(ops, o)
    BY <1>5, ClaimAppends
  <2>4. /\ Len(ops') = Len(ops) + 1 /\ ops'[Len(ops) + 1] = o
        /\ \A i \in 1 .. Len(ops) : ops'[i] = ops[i]
    BY <1>1, <2>3, AppendProperties
  <2> DEFINE row == [project |-> o.project, status |-> "running"]
  <2>5. o.project \in Project /\ row \in Row
    BY <2>3 DEF Operation, Row, Unfinished
  <2>6. /\ OperationRows \in Seq(Row) /\ Len(OperationRows) = Len(ops)
        /\ OperationRows' \in Seq(Row) /\ Len(OperationRows') = Len(ops')
    BY <1>1, RowsTypes DEF OperationRows
  <2>7. /\ Append(OperationRows, row) \in Seq(Row)
        /\ Len(Append(OperationRows, row)) = Len(ops) + 1
        /\ Append(OperationRows, row)[Len(ops) + 1] = row
        /\ \A i \in 1 .. Len(ops) : Append(OperationRows, row)[i] = OperationRows[i]
    BY <2>5, <2>6, AppendProperties
  <2>8. \A i \in 1 .. Len(ops) + 1 : OperationRows'[i] = Append(OperationRows, row)[i]
    BY <1>1, <2>3, <2>4, <2>7 DEF OperationRows, RowsOf
  <2>9. OperationRows' = Append(OperationRows, row)
    BY <2>4, <2>6, <2>7, <2>8, SeqEqual
  <2>10. Ledger!Open = {}
    BY <1>1, <2>2, RowsTypes DEF OperationRows, Ledger!Open, Unresolved, Unfinished
  <2>11. Ledger!Dispatch(o.project)
    BY <2>9, <2>10 DEF Ledger!Dispatch
  <2>12. QED
    BY <2>5, <2>11 DEF Ledger!Next
<1>6. ASSUME NEW i \in DOMAIN ops, NEW s \in Terminal \cup {"unknown"}, NEW c \in {"project", "common"},
             Finish(i, s, c), i = Len(ops)
      PROVE  Ledger!Becomes(ops[i].status, s)
  <2>1. /\ Len(ops') = Len(ops)
        /\ \A j \in DOMAIN ops : ops'[j] = IF j = i THEN [ops[j] EXCEPT !.status = s] ELSE ops[j]
    BY <1>6, FinishTypes
  <2>2. \A j \in DOMAIN ops : /\ ops'[j].project = ops[j].project
                              /\ ops'[j].status = IF j = Len(ops) THEN s ELSE ops[j].status
    BY <1>1, <1>6, <2>1 DEF Operation
  <2>3. ops # <<>>
    BY <1>1, <1>6, EmptySeq
  <2>4. QED
    BY <1>6, <2>1, <2>2, <2>3, LastRowBecomes
<1>7. ASSUME NEW i \in DOMAIN ops, NEW s \in Terminal, ReconcileMatched(i, s)
      PROVE  [Ledger!Next]_OperationRows
  <2>1. Finish(i, s, "project") /\ i = Len(ops) /\ ops[i].status \in Unfinished
    BY <1>7 DEF ReconcileMatched, OnlyLastOpen, Unresolved
  <2>2. Ledger!Becomes(ops[i].status, s)
    BY <1>6, <2>1
  <2>3. QED
    BY <2>1, <2>2 DEF Ledger!Next, Terminal, Unfinished
<1>8. ASSUME NEW s \in Terminal \cup {"unknown"}, NEW c \in {"project", "common"}, ApplyReturns(s, c)
      PROVE  [Ledger!Next]_OperationRows
  <2>1. Finish(Len(ops), s, c) /\ At("apply")
    BY <1>8 DEF ApplyReturns
  <2>2. Len(ops) \in DOMAIN ops /\ ops[Len(ops)].status = "running"
    BY <1>1, <2>1, EmptySeq DEF AppliesLast, RunningIsApplied
  <2>3. Ledger!Becomes("running", s)
    BY <1>6, <2>1, <2>2
  <2>4. QED
    BY <2>3 DEF Ledger!Next, Terminal
<1>9. QED
  BY <1>3, <1>4, <1>5, <1>7, <1>8, Footprint

\* The operation table, through interleavings, crashes and reconciliations, is
\* an OperationLedger: one operation at a time, final results stay final.
THEOREM ImplementsLedger == Spec => LedgerSpec
<1>1. Init => Ledger!Init
  BY DEF Init, Ledger!Init, OperationRows, RowsOf
<1>2. GateInv /\ GateInv' /\ [Next]_vars => [Ledger!Next]_OperationRows
  BY LedgerStep
<1>3. QED
  BY <1>1, <1>2, GateInit, GateStep, PTL DEF Spec, LedgerSpec, Ledger!Spec

-----------------------------------------------------------------------------
(* A plan of the gateway is executed at most once. *)

\* Every token in use was issued, no two approvals share one, and the one
\* about to be claimed has left the approvals.
TokenInv ==
    /\ \A i \in DOMAIN ops : ops[i].token <= issued
    /\ \A plan \in plans : plan.token <= issued
    /\ \A a, b \in plans : a.token = b.token => a = b
    /\ At("claim") => /\ worker.token <= issued
                      /\ \A plan \in plans : plan.token # worker.token
    /\ TokenOnce

SameTokens == /\ DOMAIN ops' = DOMAIN ops
              /\ \A i \in DOMAIN ops : ops'[i].token = ops[i].token

\* Steps that hand out no token and bring none to a claim.
Tokenless == /\ SameTokens
             /\ issued' = issued
             /\ plans' \subseteq plans
             /\ worker' = worker \/ worker'.pc # "claim"

\* A result or an interruption changes the status of an operation only.
LEMMA FinishTokens ==
    ASSUME TypeOK, NEW i \in DOMAIN ops, NEW status \in Terminal \cup {"unknown"},
           NEW scope \in {"project", "common"}, Finish(i, status, scope)
    PROVE  SameTokens /\ plans' \subseteq plans
BY ToldOps DEF Finish, SameTokens

\* No end of a reconciliation, of a project or of a round is a claim.
LEMMA ReturnsToNoClaim ==
    ASSUME TypeOK
    PROVE  /\ Idle.pc # "claim" /\ EndRound.pc # "claim"
           /\ \A p : After(p).pc # "claim"
           /\ \A pc : [worker EXCEPT !.pc = pc].pc = pc
           /\ \A ok \in BOOLEAN : Returned(ok).pc # "claim"
           /\ \A status : Dispatched(status).pc # "claim"
<1>1. worker \in Worker
  BY DEF TypeOK
<1>2. Idle.pc # "claim" /\ EndRound.pc # "claim"
  BY <1>1 DEF Idle, EndRound, Worker
<1>3. \A p : After(p).pc # "claim"
  BY <1>1 DEF After, Worker
<1>4. \A pc : [worker EXCEPT !.pc = pc].pc = pc
  BY <1>1 DEF Worker
<1>5. \A ok \in BOOLEAN : Returned(ok).pc # "claim"
  BY <1>2, <1>4 DEF Returned, Released
<1>6. \A status : Dispatched(status).pc # "claim"
  BY <1>2, <1>3, <1>4 DEF Dispatched
<1>7. QED
  BY <1>2, <1>3, <1>4, <1>5, <1>6

\* All steps but five are tokenless.
LEMMA TokenSteps ==
    ASSUME TypeOK, AppliesLast, [Next]_vars
    PROVE  \/ Tokenless
           \/ \E plan \in plans : Approve(plan)
           \/ \E t \in Thread, answer \in {"plan", "other"} : Prepared(t, answer)
           \/ Claim
           \/ PlanFound
           \/ RetryPlanned
<1> USE DEF control, schedule, facts, durable, memory, Tokenless
<1>0. worker \in Worker
  BY DEF TypeOK
<1>1. ASSUME ops' = ops
      PROVE  SameTokens
  BY <1>1 DEF SameTokens
<1>2. ASSUME NEW T, NEW on, NEW p, NEW plan, NEW t,
             Configure(T, on) \/ Resume(p, pause[p].ref) \/ Reject(plan) \/ Prepare(t, p)
      PROVE  Tokenless
  BY <1>1, <1>2 DEF Configure, Resume, Reject, Prepare
<1>3. ASSUME Crash \/ Tick \/ Reconcile \/ RoundRecovers
      PROVE  Tokenless
  BY <1>1, <1>3 DEF Crash, Tick, Reconcile, RoundRecovers, Idle
<1>4. CASE Restart
  BY <1>4, InterruptedOps DEF Restart, Idle, SameTokens
<1>5. ASSUME NEW i \in DOMAIN ops, NEW s \in Terminal, ReconcileMatched(i, s)
      PROVE  Tokenless
  BY <1>5, FinishTokens DEF ReconcileMatched
<1>6. ASSUME NEW i, ReconcileStart \/ ReconcileUnmatched(i) \/ ReconcileDone
      PROVE  Tokenless
  BY <1>1, <1>6, ReturnsToNoClaim DEF ReconcileStart, ReconcileUnmatched, ReconcileDone
<1>7. CASE ClaimRefused
  BY <1>1, <1>7, ReturnsToNoClaim DEF ClaimRefused
<1>8. ASSUME NEW s \in Terminal \cup {"unknown"}, NEW c \in {"project", "common"}, ApplyReturns(s, c)
      PROVE  Tokenless
  <2>1. Finish(Len(ops), s, c) /\ Len(ops) \in DOMAIN ops
    BY <1>8, EmptySeq, LenProperties DEF ApplyReturns, AppliesLast, TypeOK
  <2>2. SameTokens /\ plans' \subseteq plans
    BY <2>1, FinishTokens
  <2>3. QED
    BY <1>8, <2>2, ReturnsToNoClaim DEF ApplyReturns
<1>9. CASE RoundBegin
  <2>1. worker'.pc = "loop"
    BY <1>9 DEF RoundBegin, Idle
  <2>2. QED
    BY <1>1, <1>9, <2>1 DEF RoundBegin
<1>10. ASSUME RoundDeclined \/ LoopInterrupted \/ LoopDone
       PROVE  Tokenless
  <2>1. [worker EXCEPT !.pc = "rec_start", !.ret = "loop"].pc # "claim"
    BY <1>0 DEF Worker
  <2>2. QED
    BY <1>1, <1>10, <2>1, ReturnsToNoClaim DEF RoundDeclined, LoopInterrupted, LoopDone
<1>11. ASSUME NEW p, LoopProject(p)
       PROVE  Tokenless
  <2>1. worker'.pc # "claim"
    BY <1>0, <1>11, ReturnsToNoClaim DEF LoopProject, Worker
  <2>2. QED
    BY <1>1, <1>11, <2>1 DEF LoopProject
<1>12. ASSUME NEW item, PlanNone(item)
       PROVE  Tokenless
  BY <1>1, <1>12, ReturnsToNoClaim DEF PlanNone
<1>13. ASSUME NEW outage \in BOOLEAN, PlanBroken(outage)
       PROVE  Tokenless
  <2>1. worker'.pc # "claim"
    BY <1>0, <1>13 DEF PlanBroken, After, Worker
  <2>2. QED
    BY <1>1, <1>13, <2>1 DEF PlanBroken
<1>14. ASSUME RetryClaim \/ RetryCheckFails \/ RetryNoUpdate \/ RetryReport
       PROVE  Tokenless
  BY <1>1, <1>14, ReturnsToNoClaim DEF RetryClaim, RetryCheckFails, RetryNoUpdate, RetryReport
<1>15. ASSUME RoundTail \/ RoundClose
       PROVE  Tokenless
  <2>1. [worker EXCEPT !.pc = "rec_start", !.ret = "close"].pc # "claim"
    BY <1>0 DEF Worker
  <2>2. QED
    BY <1>1, <1>15, <2>1, ReturnsToNoClaim DEF RoundTail, RoundClose
<1>16. ASSUME UNCHANGED vars
       PROVE  Tokenless
  BY <1>1, <1>16 DEF vars
<1>17. ASSUME ChecksStop
       PROVE  Tokenless
  <2>1. worker'.pc # "claim"
    BY <1>0, <1>17, ReturnsToNoClaim DEF ChecksStop, Worker
  <2>2. QED
    BY <1>1, <1>17, <2>1 DEF ChecksStop
<1>18. QED
  BY <1>2, <1>3, <1>4, <1>5, <1>6, <1>7, <1>8, <1>9, <1>10, <1>11, <1>12, <1>13,
     <1>14, <1>15, <1>16, <1>17
  DEF Next, Request, Manual, ReconcileStep, DispatchStep, RoundStep

LEMMA TokenlessStep == TokenInv /\ Tokenless => TokenInv'
<1> SUFFICES ASSUME TokenInv, Tokenless
             PROVE  TokenInv'
  OBVIOUS
<1>1. worker' = worker \/ ~At("claim")'
  BY DEF Tokenless, At
<1>2. At("claim")' => At("claim") /\ worker'.token = worker.token
  BY <1>1 DEF At
<1>3. QED
  BY <1>2 DEF Tokenless, SameTokens, TokenInv, TokenOnce

\* A worker that is handed a token by this step is its only holder.
LEMMA IssueStep ==
    ASSUME TypeOK, TokenInv, UNCHANGED <<ops, plans>>,
           issued' = issued + 1, worker'.token = issued + 1
    PROVE  TokenInv'
<1>1. /\ issued \in Nat
      /\ \A plan \in plans : plan.token \in Nat
      /\ \A i \in DOMAIN ops : ops[i].token \in Nat
  BY TableOfOps DEF TypeOK, Plan
<1>2. \A used \in Nat : used <= issued => used # worker'.token /\ used <= issued'
  BY <1>1
<1>3. worker'.token <= issued'
  BY <1>1
<1>4. QED
  BY <1>1, <1>2, <1>3 DEF TokenInv, TokenOnce, At

\* A token handed out by this step is new to every approval and operation.
LEMMA TokenStep == TypeOK /\ AppliesLast /\ TokenInv /\ [Next]_vars => TokenInv'
<1> SUFFICES ASSUME TypeOK, AppliesLast, TokenInv, [Next]_vars
             PROVE  TokenInv'
  OBVIOUS
<1>1. /\ issued \in Nat /\ worker \in Worker /\ plans \in SUBSET Plan
      /\ ops \in Seq(Operation) /\ DOMAIN ops = 1 .. Len(ops) /\ Len(ops) \in Nat
      /\ \A i \in DOMAIN ops : ops[i] \in Operation
  BY LenProperties DEF TypeOK
<1>2. /\ worker.token \in Nat
      /\ \A plan \in plans : plan.token \in Nat
      /\ \A i \in DOMAIN ops : ops[i].token \in Nat
  BY <1>1 DEF Worker, Plan, Operation
<1>3. CASE Tokenless
  BY <1>3, TokenlessStep
<1>4. ASSUME NEW plan \in plans, Approve(plan)
      PROVE  TokenInv'
  <2>1. /\ plans' = plans \ {plan} /\ ops' = ops /\ issued' = issued
        /\ worker'.token = plan.token
    BY <1>4 DEF Approve, Popped, Idle, durable, facts
  <2>2. \A other \in plans' : other.token # plan.token
    BY <2>1 DEF TokenInv
  <2>3. QED
    BY <2>1, <2>2 DEF TokenInv, TokenOnce, At
<1>5. ASSUME NEW t \in Thread, NEW answer, Prepared(t, answer)
      PROVE  TokenInv'
  <2>1. ops' = ops /\ worker' = worker
    BY <1>5 DEF Prepared, durable, facts
  <2>2. CASE plans' = plans /\ issued' = issued
    BY <2>1, <2>2 DEF TokenInv, TokenOnce, At
  <2>3. CASE plans' # plans \/ issued' # issued
    <3>1. PICK plan : /\ plan.token = issued + 1
                      /\ plans' = plans \cup {plan}
                      /\ issued' = issued + 1
      BY <1>5, <2>3 DEF Prepared
    <3>2. \A used \in Nat : used <= issued => used # plan.token /\ used <= issued'
      BY <1>1, <3>1
    <3>3. QED
      BY <1>1, <1>2, <2>1, <3>1, <3>2 DEF TokenInv, TokenOnce, At
  <2>4. QED
    BY <2>2, <2>3
<1>6. CASE Claim
  <2>1. At("claim") /\ worker'.pc = "apply" /\ plans' = plans /\ issued' = issued
    BY <1>1, <1>6 DEF Claim, memory, Worker
  <2>2. PICK o \in Operation : o.token = worker.token /\ ops' = Append(ops, o)
    BY <1>6, ClaimAppends
  <2>3. /\ DOMAIN ops' = 1 .. Len(ops) + 1 /\ ops'[Len(ops) + 1] = o
        /\ \A i \in 1 .. Len(ops) : ops'[i] = ops[i]
    <3>1. Append(ops, o) \in Seq(Operation) /\ Len(Append(ops, o)) = Len(ops) + 1
      BY <1>1, <2>2, AppendProperties
    <3>2. QED
      BY <1>1, <2>2, <3>1, AppendProperties, LenProperties
  <2>4. ~At("claim")'
    BY <2>1 DEF At
  <2>5. \A i \in 1 .. Len(ops) : /\ ops[i].token # o.token
                                 /\ ops[i].token <= issued
                                 /\ \A plan \in plans : ops[i].token # plan.token
    BY <1>1, <2>1, <2>2 DEF TokenInv, TokenOnce
  <2>6. o.token <= issued /\ \A plan \in plans : o.token # plan.token
    BY <2>1, <2>2 DEF TokenInv
  <2>7. \A i, j \in DOMAIN ops' : ops'[i].token = ops'[j].token => i = j
    BY <1>1, <2>3, <2>5 DEF TokenInv, TokenOnce
  <2>8. \A i \in DOMAIN ops' : /\ ops'[i].token <= issued'
                               /\ \A plan \in plans' : ops'[i].token # plan.token
    BY <1>1, <2>1, <2>3, <2>5, <2>6
  <2>9. QED
    BY <2>1, <2>4, <2>7, <2>8 DEF TokenInv, TokenOnce
<1>7. CASE PlanFound \/ RetryPlanned
  <2>1. ops' = ops /\ plans' = plans
    BY <1>7 DEF PlanFound, RetryPlanned, durable, facts, memory
  <2>2. CASE issued' = issued
    <3>1. worker'.pc # "claim"
      BY <1>1, <1>7, <2>2, ReturnsToNoClaim DEF PlanFound, RetryPlanned
    <3>2. QED
      BY <2>1, <2>2, <3>1 DEF TokenInv, TokenOnce, At
  <2>3. CASE issued' # issued
    BY <1>1, <1>7, <2>1, <2>3, IssueStep DEF PlanFound, RetryPlanned, Worker
  <2>4. QED
    BY <2>2, <2>3
<1>8. QED
  BY <1>3, <1>4, <1>5, <1>6, <1>7, TokenSteps

\* No plan of the gateway is executed twice: not by a second approval, a round
\* after a restart, or a manual update beside a scheduled one.
THEOREM ExecutedOnce == Spec => []TokenOnce
<1>1. Init => TokenInv
  BY DEF Init, TokenInv, TokenOnce, At, Idle
<1>2. GateInv /\ TokenInv /\ [Next]_vars => TokenInv'
  BY TokenStep DEF GateInv
<1>3. TokenInv => TokenOnce
  BY DEF TokenInv
<1>4. QED
  BY <1>1, <1>2, <1>3, GateInit, GateStep, PTL DEF Spec

=============================================================================
