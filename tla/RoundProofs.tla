---------------------------- MODULE RoundProofs ----------------------------
(***************************************************************************)
(* What rounds promise, for every set of projects and threads and every    *)
(* bound: a spent retry stays spent until its pause is lifted, and what a  *)
(* round reports of a project is what it did to it.                        *)
(***************************************************************************)
EXTENDS CoreProofs, FiniteSetTheorems

-----------------------------------------------------------------------------
(* Retries. *)

\* Only a paused project has a spent retry, and a retry that is about to be
\* claimed is that of a failure.
RetryInv ==
    /\ \A p \in Project : pause[p].used => Paused(p)
    /\ At("retry_claim") => worker.retry # 0

SpentKept == \A p \in Project : pause[p].used /\ pause'[p].ref # 0 => pause'[p].used

\* Steps that neither touch a pause nor come to a retry.
Quiet == pause' = pause /\ (worker' = worker \/ worker'.pc # "retry_claim")

\* No answer of a reconciliation and no end of a project or round leads
\* straight into the claim of a retry.
LEMMA ReturnsElsewhere ==
    ASSUME TypeOK, At("rec_start") \/ At("rec")
    PROVE  \A ok \in BOOLEAN : Returned(ok).pc # "retry_claim"
<1>1. worker \in Worker
  BY DEF TypeOK
<1>2. EndRound.pc # "retry_claim" /\ Idle.pc # "retry_claim"
  BY <1>1 DEF EndRound, Idle, Worker
<1>3. \A pc \in {"begin", "loop", "close"} : [worker EXCEPT !.pc = pc].pc # "retry_claim"
  BY <1>1 DEF Worker
<1>4. QED
  BY <1>2, <1>3 DEF Returned, Released

\* All steps but five, and a round that turns to a project, are quiet.
LEMMA QuietSteps ==
    ASSUME TypeOK, [Next]_vars
    PROVE  \/ Quiet
           \/ \E p \in Project : Resume(p, pause[p].ref)
           \/ \E i \in DOMAIN ops, s \in Terminal : ReconcileMatched(i, s)
           \/ \E s \in Terminal \cup {"unknown"}, c \in {"project", "common"} : ApplyReturns(s, c)
           \/ \E p \in Project : LoopProject(p)
           \/ RetryClaim
           \/ RetryNoUpdate
<1> USE DEF control, schedule, facts, durable, memory, Quiet
<1>0. worker \in Worker
  BY DEF TypeOK
<1>1. ASSUME NEW T, NEW on, Configure(T, on)
      PROVE  Quiet
  BY <1>1 DEF Configure
<1>2. ASSUME NEW plan, Reject(plan) \/ Approve(plan)
      PROVE  Quiet
  BY <1>2 DEF Reject, Approve, Idle
<1>3. ASSUME NEW t, NEW p, NEW answer, Prepare(t, p) \/ Prepared(t, answer)
      PROVE  Quiet
  BY <1>3 DEF Prepare, Prepared
<1>4. ASSUME Crash \/ Restart \/ Tick \/ Reconcile \/ RoundRecovers
      PROVE  Quiet
  BY <1>4 DEF Crash, Restart, Tick, Reconcile, RoundRecovers, Idle
<1>5. ASSUME NEW i, ReconcileStart \/ ReconcileUnmatched(i) \/ ReconcileDone
      PROVE  Quiet
  BY <1>0, <1>5, ReturnsElsewhere DEF ReconcileStart, ReconcileUnmatched, ReconcileDone, Worker
<1>6. ASSUME Claim
      PROVE  Quiet
  BY <1>0, <1>6 DEF Claim, Worker
<1>7. ASSUME ClaimRefused
      PROVE  Quiet
  BY <1>0, <1>7 DEF ClaimRefused, EndRound, Idle, Worker
<1>8. ASSUME RoundBegin \/ RoundDeclined
      PROVE  Quiet
  <2>1. CASE RoundBegin
    <3>1. worker'.pc = "loop"
      BY <2>1 DEF RoundBegin, Idle
    <3>2. pause' = pause
      BY <2>1 DEF RoundBegin
    <3>3. QED
      BY <3>1, <3>2
  <2>2. CASE RoundDeclined
    BY <2>2 DEF RoundDeclined, Idle
  <2>3. QED
    BY <1>8, <2>1, <2>2
<1>9. ASSUME LoopInterrupted \/ LoopDone
      PROVE  Quiet
  BY <1>0, <1>9 DEF LoopInterrupted, LoopDone, EndRound, Worker
<1>10. ASSUME NEW item, PlanFound \/ PlanNone(item)
       PROVE  Quiet
  BY <1>0, <1>10 DEF PlanFound, PlanNone, After, Worker
<1>11. ASSUME NEW outage \in BOOLEAN, PlanBroken(outage)
       PROVE  Quiet
  BY <1>0, <1>11 DEF PlanBroken, After, Worker
<1>12. ASSUME RetryCheckFails \/ RetryPlanned \/ RetryReport
      PROVE  Quiet
  BY <1>0, <1>12 DEF RetryCheckFails, RetryPlanned, RetryReport, After, Worker
<1>13. ASSUME RoundTail \/ RoundClose
      PROVE  Quiet
  <2>1. CASE RoundTail
    BY <1>0, <2>1 DEF RoundTail, Worker
  <2>2. CASE RoundClose
    BY <2>2 DEF RoundClose, Idle
  <2>3. QED
    BY <1>13, <2>1, <2>2
<1>14. ASSUME UNCHANGED vars
      PROVE  Quiet
  BY <1>14 DEF vars
<1>15. ASSUME ChecksStop
       PROVE  Quiet
  BY <1>0, <1>15 DEF ChecksStop, EndRound, Worker
<1>16. QED
  BY <1>1, <1>2, <1>3, <1>4, <1>5, <1>6, <1>7, <1>8, <1>9, <1>10, <1>11, <1>12,
     <1>13, <1>14, <1>15
  DEF Next, Request, Manual, ReconcileStep, DispatchStep, RoundStep

\* _finish lifts a pause, leaves it, or moves it to the new failure with the
\* retry as spent as it was.
LEMMA FinishKeepsSpent ==
    ASSUME TypeOK, RetryInv, NEW i \in DOMAIN ops, i # 0, NEW status, NEW scope,
           Finish(i, status, scope)
    PROVE  SpentKept /\ \A p \in Project : pause'[p].used => pause'[p].ref # 0
<1>1. /\ pause \in [Project -> [ref: Nat, used: BOOLEAN]]
      /\ ops[i].project \in Project
  <2>1. ops \in Seq(Operation)
    BY DEF TypeOK
  <2>2. ops[i] \in Operation
    BY <2>1, LenProperties
  <2>3. QED
    BY <2>2 DEF TypeOK, Operation
<1> DEFINE p == ops[i].project
<1>2. CASE status = "failed"
  <2>1. pause' = [pause EXCEPT ![p] = [ref |-> i, used |-> RetryUsed(p, scope)]]
    BY <1>2 DEF Finish
  <2>2. pause[p].used => RetryUsed(p, scope)
    BY <1>1 DEF RetryInv, RetryUsed
  <2>3. QED
    BY <1>1, <2>1, <2>2 DEF RetryInv, SpentKept, Paused
<1>3. CASE status = "succeeded"
  BY <1>1, <1>3 DEF Finish, RetryInv, SpentKept, Paused, NotPaused
<1>4. CASE status \notin {"failed", "succeeded"}
  BY <1>4 DEF Finish, RetryInv, SpentKept, Paused
<1>5. QED
  BY <1>2, <1>3, <1>4

\* Every step keeps the invariant, and spent retries spent.
LEMMA RetryStep ==
    ASSUME TypeOK, AppliesLast, RetryInv, [Next]_vars
    PROVE  RetryInv' /\ SpentKept
<1>0. /\ worker \in Worker /\ pause \in [Project -> [ref: Nat, used: BOOLEAN]]
      /\ \A i \in DOMAIN ops : i # 0
  BY LenProperties DEF TypeOK
<1>1. CASE Quiet
  BY <1>1 DEF Quiet, RetryInv, SpentKept, Paused, At
<1>2. ASSUME NEW p \in Project, Resume(p, pause[p].ref)
      PROVE  RetryInv' /\ SpentKept
  BY <1>0, <1>2 DEF Resume, NotPaused, RetryInv, SpentKept, Paused, At
<1>3. ASSUME NEW i \in DOMAIN ops, NEW s \in Terminal, ReconcileMatched(i, s)
      PROVE  RetryInv' /\ SpentKept
  BY <1>0, <1>3, FinishKeepsSpent DEF ReconcileMatched, RetryInv, Paused, At
<1>4. ASSUME NEW s \in Terminal \cup {"unknown"}, NEW c \in {"project", "common"}, ApplyReturns(s, c)
      PROVE  RetryInv' /\ SpentKept
  <2>1. Finish(Len(ops), s, c) /\ Len(ops) \in DOMAIN ops
    BY <1>4, EmptySeq, LenProperties DEF ApplyReturns, AppliesLast, TypeOK
  <2>2. worker'.pc # "retry_claim"
    BY <1>0, <1>4 DEF ApplyReturns, Dispatched, After, EndRound, Idle, Worker
  <2>3. QED
    BY <1>0, <2>1, <2>2, FinishKeepsSpent DEF RetryInv, Paused, At
<1>5. ASSUME NEW p \in Project, LoopProject(p)
      PROVE  RetryInv' /\ SpentKept
  <2>1. pause' = pause
    BY <1>5 DEF LoopProject, facts
  <2>2. worker'.pc = "retry_claim" => worker'.retry # 0
    BY <1>0, <1>5 DEF LoopProject, After, Paused, Worker
  <2>3. QED
    BY <2>1, <2>2 DEF RetryInv, SpentKept, Paused, At
<1>6. CASE RetryClaim
  <2>1. worker'.pc # "retry_claim"
    BY <1>0, <1>6 DEF RetryClaim, Worker
  <2>2. pause' = pause \/ (MayRetry(worker.project) /\ pause' = [pause EXCEPT ![worker.project].used = TRUE])
    BY <1>6 DEF RetryClaim, Spent
  <2>3. QED
    BY <1>0, <1>6, <2>1, <2>2 DEF RetryClaim, MayRetry, RetryInv, SpentKept, Paused, At
<1>7. CASE RetryNoUpdate
  <2>1. worker'.pc # "retry_claim"
    BY <1>0, <1>7 DEF RetryNoUpdate, Worker
  <2>2. pause' = pause \/ pause' = [pause EXCEPT ![worker.project] = NotPaused]
    BY <1>7 DEF RetryNoUpdate
  <2>3. QED
    BY <1>0, <2>1, <2>2 DEF RetryInv, SpentKept, Paused, NotPaused, At
<1>8. QED
  BY <1>1, <1>2, <1>3, <1>4, <1>5, <1>6, <1>7, QuietSteps

\* No failure is retried automatically twice: a retry once spent is available
\* again only after its pause has been lifted, whatever fails, is reconciled or
\* dies in between.
THEOREM OneRetry == Spec => SpentStaysSpent
<1>1. Init => RetryInv
  BY DEF Init, RetryInv, NotPaused, At, Idle, Paused
<1>2. GateInv /\ RetryInv /\ [Next]_vars => RetryInv' /\ SpentKept
  BY RetryStep DEF GateInv
<1>3. QED
  BY <1>1, <1>2, GateInit, GateStep, PTL DEF Spec, SpentStaysSpent, SpentKept

-----------------------------------------------------------------------------
(* Reports. *)

\* Where the jobs of the controller stand, and where a reconciliation returns to.
RoundPlaces ==
    IF worker.job = "round"
    THEN /\ worker.pc \in {"begin", "loop", "plan", "claim", "apply", "retry_claim", "retry_check",
                           "retry_report", "broken", "tail", "close", "rec_start", "rec"}
         /\ worker.pc \in {"rec_start", "rec"} => worker.ret \in {"begin", "loop", "close"}
    ELSE /\ worker.job \notin {"change", "initial"}
         /\ worker.pc \in {"idle", "rec_start", "rec", "claim", "apply"}
         /\ worker.ret = "idle"

\* The round has inserted its report and not yet closed it.
Opened == /\ worker.job = "round" /\ worker.pc # "begin"
          /\ ~(worker.pc \in {"rec_start", "rec"} /\ worker.ret = "begin")

\* The round is at this project, and has not finished with it.
AtProject == worker.pc \in {"plan", "claim", "apply", "retry_claim", "retry_check", "retry_report"}

\* Nothing was dispatched for the project, and nothing is said of it.
Untold(p) == RoundOps(p) = {} /\ report.item[p] \in {"absent", "not_checked"}

\* Of the projects the round has left nothing is told, but that of the operation
\* it waits for; and while the schedule is that of the round, those on the
\* schedule have an item to tell it in.
RoundOpen ==
    Opened =>
        /\ worker.rev <= revision
        /\ AtProject => worker.project \in worker.todo
        /\ \A p \in worker.todo : Untold(p) \/ (At("apply") /\ p = worker.project)
        /\ At("apply") => /\ report.item[worker.project] = "not_checked"
                          /\ RoundOps(worker.project) = {Len(ops)}
        /\ revision = worker.rev =>
               \A p \in worker.todo \cap targets \cap Active : report.item[p] # "absent"

ReportOwned == /\ report.open => startup \/ Opened
               /\ worker.job = "down" => startup
               /\ report.first <= Len(ops) + 1

ItemHonest(p) ==
    /\ \A i, j \in RoundOps(p) : i = j
    /\ report.item[p] \in Terminal => \E i \in RoundOps(p) : ops[i].status = report.item[p]
    /\ report.item[p] = "unknown" => \E i \in RoundOps(p) : ops[i].status # "running"
    /\ report.item[p] \notin Terminal \cup {"unknown", "not_checked"} => RoundOps(p) = {}

ReportInv == /\ RoundPlaces
             /\ RoundOpen
             /\ ReportOwned
             /\ \A p \in Project : ItemHonest(p)

\* No operation joins or leaves those of the round, no result is taken back.
RowsKept ==
    /\ Len(ops') >= Len(ops)
    /\ \A p \in Project : RoundOps(p)' = RoundOps(p)
    /\ \A i \in DOMAIN ops : /\ ops[i].status \in Terminal => ops'[i].status = ops[i].status
                             /\ ops[i].status # "running" => ops'[i].status # "running"

\* The report says what it said, and was not opened again.
ItemsKept == /\ report'.item = report.item /\ report'.first = report.first
             /\ report'.open => report.open

\* Results that come in for rows of any status but a final one.
LEMMA RowsTold ==
    ASSUME TypeOK, report'.first = report.first, DOMAIN ops' = DOMAIN ops, Len(ops') = Len(ops),
           \A i \in DOMAIN ops : /\ ops'[i].project = ops[i].project
                                 /\ ops'[i].actor = ops[i].actor
                                 /\ ops[i].status \in Terminal => ops'[i].status = ops[i].status
                                 /\ ops[i].status # "running" => ops'[i].status # "running"
    PROVE  RowsKept
<1>1. Len(ops') >= Len(ops)
  BY TableOfOps
<1>2. \A p \in Project : RoundOps(p)' = RoundOps(p)
  BY DEF RoundOps
<1>3. QED
  BY <1>1, <1>2 DEF RowsKept

\* What was true of the items stays true when neither rows nor items change.
LEMMA HonestKept ==
    ASSUME ReportInv, RowsKept, ItemsKept
    PROVE  \A p \in Project : ItemHonest(p)'
<1>1. SUFFICES ASSUME NEW p \in Project
               PROVE  ItemHonest(p)'
  OBVIOUS
<1>2. ItemHonest(p) /\ RoundOps(p)' = RoundOps(p) /\ RoundOps(p) \subseteq DOMAIN ops
  BY DEF ReportInv, RowsKept, RoundOps
<1>3. QED
  BY <1>2 DEF ItemHonest, RowsKept, ItemsKept

\* Steps of other threads, and of a reconciliation that has heard of a result.
LEMMA BesideRound ==
    ASSUME TypeOK, TypeOK', ReportInv, RowsKept, Len(ops') = Len(ops),
           UNCHANGED <<report, worker, startup, catalog>>,
           revision' >= revision, revision' = revision => targets' = targets
    PROVE  ReportInv'
<1>1. revision \in Nat /\ revision' \in Nat /\ worker.rev \in Nat
  BY DEF TypeOK, Worker
<1>2. \A p \in Project : ItemHonest(p)'
  BY HonestKept DEF ItemsKept
<1>3. Opened' = Opened /\ RoundPlaces' = RoundPlaces /\ AtProject' = AtProject /\ Active' = Active
  BY DEF Opened, RoundPlaces, AtProject, Active
<1>4. \A p \in Project : RoundOps(p)' = RoundOps(p)
  BY DEF RowsKept
<1>5. Opened => worker.todo \subseteq Project
  BY DEF TypeOK, Worker
<1>6. At("apply")' = At("apply") /\ \A p \in Project : Untold(p)' = Untold(p)
  BY <1>4 DEF Untold, At
<1>7. RoundOpen'
  <2>1. SUFFICES ASSUME Opened
                 PROVE  RoundOpen'
    BY <1>3 DEF RoundOpen
  <2>2. RoundOpen /\ RoundPlaces
    BY DEF ReportInv
  <2>3. worker.rev <= revision'
    BY <1>1, <2>1, <2>2 DEF RoundOpen
  <2>4. AtProject => worker.project \in worker.todo
    BY <2>1, <2>2 DEF RoundOpen
  <2>5. \A p \in worker.todo : Untold(p)' \/ (At("apply")' /\ p = worker.project)
    BY <1>5, <1>6, <2>1, <2>2 DEF RoundOpen
  <2>6. At("apply") => /\ report.item[worker.project] = "not_checked"
                       /\ RoundOps(worker.project)' = {Len(ops)}
    BY <1>4, <1>5, <2>1, <2>2, <2>4 DEF RoundOpen, AtProject, At
  <2>7. revision' = worker.rev =>
            \A p \in worker.todo \cap targets' \cap Active : report.item[p] # "absent"
    <3>1. SUFFICES ASSUME revision' = worker.rev
                   PROVE  \A p \in worker.todo \cap targets' \cap Active : report.item[p] # "absent"
      OBVIOUS
    <3>2. revision' = revision
      BY <1>1, <2>1, <2>2, <3>1 DEF RoundOpen
    <3>3. QED
      BY <2>1, <2>2, <3>1, <3>2 DEF RoundOpen
  <2>8. QED
    BY <1>3, <1>6, <2>3, <2>4, <2>5, <2>6, <2>7 DEF RoundOpen
<1>8. QED
  BY <1>2, <1>3, <1>7 DEF ReportInv, ReportOwned

\* Steps that leave no round open.
LEMMA OutsideRound ==
    ASSUME TypeOK, TypeOK', ReportInv, RowsKept, ItemsKept, RoundPlaces', ~Opened',
           report'.open => startup', worker'.job = "down" => startup'
    PROVE  ReportInv'
<1>1. \A p \in Project : ItemHonest(p)'
  BY HonestKept
<1>2. RoundOpen'
  BY DEF RoundOpen
<1>3. report'.first <= Len(ops') + 1
  <2>1. report.first \in Nat /\ Len(ops) \in Nat /\ Len(ops') \in Nat
    BY LenProperties DEF TypeOK
  <2>2. QED
    BY <2>1 DEF ReportInv, ReportOwned, RowsKept, ItemsKept
<1>4. QED
  BY <1>1, <1>2, <1>3 DEF ReportInv, ReportOwned

\* Steps of a round that tell nothing.
LEMMA RoundMoves ==
    ASSUME TypeOK, TypeOK', ReportInv, Opened, ~At("apply"), UNCHANGED ops, ItemsKept,
           UNCHANGED <<revision, targets, catalog>>,
           worker'.rev = worker.rev, worker'.todo \subseteq worker.todo,
           RoundPlaces', Opened', worker'.pc # "apply",
           AtProject' => worker'.project \in worker'.todo
    PROVE  ReportInv'
<1>1. RowsKept
  BY RowsTold, TableOfOps DEF ItemsKept
<1>2. \A p \in Project : ItemHonest(p)'
  BY <1>1, HonestKept
<1>3. worker.todo \subseteq Project /\ Active' = Active
  BY DEF TypeOK, Worker, Active
<1>4. RoundOpen'
  BY <1>1, <1>3 DEF ReportInv, RoundOpen, Untold, At, ItemsKept, RowsKept
<1>5. worker'.job # "down" /\ report'.first <= Len(ops') + 1
  BY DEF Opened, ReportInv, ReportOwned, ItemsKept
<1>6. QED
  BY <1>2, <1>4, <1>5 DEF ReportInv, ReportOwned

\* Steps of a round that finish with a project and say what was done to it.
LEMMA RoundTells ==
    ASSUME TypeOK, TypeOK', ReportInv, Opened, RowsKept, UNCHANGED <<revision, targets, catalog>>,
           NEW p \in worker.todo, NEW item, ReportItem(p, item), ItemHonest(p)',
           At("apply") => p = worker.project,
           worker'.job = "round", worker'.pc \in {"loop", "broken", "tail"},
           worker'.rev = worker.rev, worker'.todo \subseteq worker.todo \ {p}
    PROVE  ReportInv'
<1>1. worker.todo \subseteq Project /\ Active' = Active
  BY DEF TypeOK, Worker, Active
<1>2. /\ \A q \in Project \ {p} : report'.item[q] = report.item[q]
      /\ report'.first = report.first
  BY DEF ReportItem, TypeOK
<1>3. \A q \in Project : ItemHonest(q)'
  <2>1. SUFFICES ASSUME NEW q \in Project \ {p}
                 PROVE  ItemHonest(q)'
    OBVIOUS
  <2>2. ItemHonest(q) /\ RoundOps(q)' = RoundOps(q) /\ RoundOps(q) \subseteq DOMAIN ops
    BY DEF ReportInv, RowsKept, RoundOps
  <2>3. QED
    BY <1>2, <2>2 DEF ItemHonest, RowsKept
<1>4. ~At("apply")' /\ ~AtProject' /\ Opened' /\ RoundPlaces'
  BY DEF At, AtProject, Opened, RoundPlaces
<1>5. RoundOpen'
  <2>1. RoundOpen
    BY DEF ReportInv
  <2>2. worker'.rev <= revision'
    BY <2>1 DEF RoundOpen
  <2>3. \A q \in worker'.todo : Untold(q)'
    BY <1>1, <1>2, <2>1 DEF RoundOpen, Untold, RowsKept
  <2>4. revision' = worker'.rev =>
            \A q \in worker'.todo \cap targets' \cap Active' : report'.item[q] # "absent"
    BY <1>1, <1>2, <2>1 DEF RoundOpen
  <2>5. QED
    BY <1>4, <2>2, <2>3, <2>4 DEF RoundOpen
<1>6. ReportOwned'
  <2>1. report.first \in Nat /\ Len(ops) \in Nat /\ Len(ops') \in Nat
    BY LenProperties DEF TypeOK
  <2>2. report'.first <= Len(ops') + 1
    BY <1>2, <2>1 DEF ReportInv, ReportOwned, RowsKept
  <2>3. QED
    BY <1>4, <2>2 DEF ReportOwned
<1>7. QED
  BY <1>3, <1>4, <1>5, <1>6 DEF ReportInv

\* The locals of a round that turns to its next project, or ends.
LEMMA RoundLocals ==
    ASSUME TypeOK, worker.job = "round"
    PROVE  /\ \A p : /\ After(p).job = "round" /\ After(p).pc = "loop"
                     /\ After(p).rev = worker.rev /\ After(p).todo = worker.todo \ {p}
           /\ EndRound.job = "round" /\ EndRound.pc = "tail"
           /\ EndRound.rev = worker.rev /\ EndRound.todo = {}
           /\ \A pc : LET w == [worker EXCEPT !.pc = pc]
                      IN  /\ w.job = "round" /\ w.pc = pc /\ w.ret = worker.ret
                          /\ w.rev = worker.rev /\ w.todo = worker.todo
                          /\ w.project = worker.project
<1>1. worker \in Worker
  BY DEF TypeOK
<1>2. QED
  BY <1>1 DEF Worker, After, Rest, EndRound

\* Nothing was dispatched for a project that the round now reports as checked.
LEMMA RoundSkips ==
    ASSUME TypeOK, TypeOK', ReportInv, Opened, ~At("apply"), UNCHANGED ops,
           UNCHANGED <<revision, targets, catalog>>,
           NEW p \in worker.todo, NEW item, item \notin Terminal \cup {"unknown", "not_checked"},
           ReportItem(p, item),
           worker'.job = "round", worker'.pc \in {"loop", "broken", "tail"},
           worker'.rev = worker.rev, worker'.todo \subseteq worker.todo \ {p}
    PROVE  ReportInv'
<1>1. p \in Project /\ report'.first = report.first
  BY DEF TypeOK, Worker, ReportItem
<1>2. RowsKept
  BY <1>1, RowsTold, TableOfOps
<1>3. RoundOps(p) = {} /\ report'.item[p] \notin Terminal \cup {"unknown"}
  BY <1>1 DEF ReportInv, RoundOpen, Untold, ReportItem, TypeOK, Terminal
<1>4. ItemHonest(p)'
  BY <1>1, <1>2, <1>3 DEF RowsKept, ItemHonest
<1>5. QED
  BY <1>2, <1>4, RoundTells

\* Requests of other threads, and results a reconciliation hears of, leave the
\* round and its report alone.
LEMMA ReportBystanders ==
    ASSUME GateInv, TypeOK', ReportInv,
           \/ \E T \in SUBSET Project, on \in BOOLEAN : Configure(T, on)
           \/ \E p \in Project : Resume(p, pause[p].ref)
           \/ \E plan \in plans : Reject(plan)
           \/ \E t \in Thread, p \in Project : Prepare(t, p)
           \/ \E t \in Thread, answer \in {"plan", "other"} : Prepared(t, answer)
           \/ Tick
           \/ \E i \in DOMAIN ops, s \in Terminal : ReconcileMatched(i, s)
           \/ UNCHANGED vars
    PROVE  ReportInv'
<1> USE DEF control, schedule, facts, durable, memory
<1>0. TypeOK /\ revision \in Nat
  BY DEF GateInv, TypeOK
<1>1. ASSUME UNCHANGED <<ops, report, worker, startup, catalog>>,
             revision' >= revision, revision' = revision => targets' = targets
      PROVE  ReportInv'
  BY <1>0, <1>1, BesideRound, RowsTold, TableOfOps
<1>2. ASSUME NEW T, NEW on, Configure(T, on)
      PROVE  ReportInv'
  <2>1. /\ UNCHANGED <<ops, report, worker, startup, catalog>>
        /\ revision' = revision + 1
    BY <1>2 DEF Configure
  <2>2. QED
    BY <1>0, <1>1, <2>1
<1>3. ASSUME NEW p, NEW t, NEW plan, NEW answer,
             \/ Resume(p, pause[p].ref) \/ Reject(plan) \/ Prepare(t, p) \/ Prepared(t, answer)
             \/ Tick \/ UNCHANGED vars
      PROVE  ReportInv'
  <2>1. UNCHANGED <<ops, report, worker, startup, catalog, revision, targets>>
    BY <1>3 DEF Resume, Reject, Prepare, Prepared, Tick, vars
  <2>2. QED
    BY <1>0, <1>1, <2>1
<1>4. ASSUME NEW i \in DOMAIN ops, NEW s \in Terminal, ReconcileMatched(i, s)
      PROVE  ReportInv'
  <2>1. /\ Finish(i, s, "project") /\ ops[i].status \in Unfinished
        /\ UNCHANGED <<report, worker, startup, catalog, revision, targets>>
    BY <1>4 DEF ReconcileMatched, Unresolved
  <2>2. /\ DOMAIN ops' = DOMAIN ops /\ Len(ops') = Len(ops)
        /\ \A j \in DOMAIN ops : /\ ops'[j].project = ops[j].project
                                 /\ ops'[j].actor = ops[j].actor
                                 /\ ops'[j].status = IF j = i THEN s ELSE ops[j].status
    BY <1>0, <2>1, ToldOps
  <2>3. RowsKept
    BY <1>0, <2>1, <2>2, RowsTold DEF Terminal, Unfinished
  <2>4. QED
    BY <1>0, <2>1, <2>2, <2>3, BesideRound
<1>5. QED
  BY <1>2, <1>3, <1>4

\* Ends, restarts and jobs other than a round leave the items of the report.
LEMMA ReportOutsiders ==
    ASSUME GateInv, TypeOK', ReportInv,
           \/ Crash \/ Restart \/ Reconcile \/ RoundRecovers
           \/ \E plan \in plans : Approve(plan)
           \/ RoundDeclined
    PROVE  ReportInv'
<1> USE DEF control, schedule, facts, durable, memory
<1>0. TypeOK /\ ReportOwned
  BY DEF GateInv, ReportInv
<1>1. ASSUME NEW job \in {"down", "boot", "reconcile", "approve", "none"},
             NEW pc \in {"idle", "rec_start", "claim"},
             worker'.job = job, worker'.pc = pc, worker'.ret = "idle"
      PROVE  RoundPlaces' /\ ~Opened'
  BY <1>1 DEF RoundPlaces, Opened
<1>2. CASE Crash
  <2>1. /\ worker' = [Idle EXCEPT !.job = "down"] /\ startup' = TRUE
        /\ UNCHANGED <<ops, report>>
    BY <1>2 DEF Crash
  <2>2. worker'.job = "down" /\ worker'.pc = "idle" /\ worker'.ret = "idle"
    BY <2>1 DEF Idle
  <2>3. RowsKept /\ ItemsKept
    BY <1>0, <2>1, RowsTold, TableOfOps DEF ItemsKept
  <2>4. QED
    BY <1>0, <1>1, <2>1, <2>2, <2>3, OutsideRound
<1>3. CASE Restart
  <2>1. /\ worker' = [Idle EXCEPT !.job = "boot", !.pc = "rec_start"]
        /\ ops' = [i \in DOMAIN ops |-> Interrupted(ops[i])]
        /\ UNCHANGED <<report, startup>> /\ startup
    BY <1>0, <1>3 DEF Restart, ReportOwned
  <2>2. worker'.job = "boot" /\ worker'.pc = "rec_start" /\ worker'.ret = "idle"
    BY <2>1 DEF Idle
  <2>3. RowsKept
    BY <1>0, <2>1, RowsTold, InterruptedOps DEF Terminal
  <2>4. QED
    BY <1>0, <1>1, <2>1, <2>2, <2>3, OutsideRound DEF ItemsKept
<1>4. ASSUME worker.job # "round" \/ At("begin"), worker.job # "down",
             UNCHANGED <<ops, report, startup>>, RoundPlaces', ~Opened', worker'.job # "down"
      PROVE  ReportInv'
  <2>1. ~Opened
    BY <1>4 DEF Opened, At
  <2>2. RowsKept /\ ItemsKept
    BY <1>0, <1>4, RowsTold, TableOfOps DEF ItemsKept
  <2>3. QED
    BY <1>0, <1>4, <2>1, <2>2, OutsideRound DEF ReportOwned
<1>5. CASE Reconcile
  <2>1. /\ worker' = [Idle EXCEPT !.job = "reconcile", !.pc = "rec_start"]
        /\ UNCHANGED <<ops, report, startup>> /\ Free
    BY <1>5 DEF Reconcile
  <2>2. worker'.job = "reconcile" /\ worker'.pc = "rec_start" /\ worker'.ret = "idle"
    BY <2>1 DEF Idle
  <2>3. QED
    BY <1>1, <1>4, <2>1, <2>2 DEF Free
<1>6. CASE RoundRecovers
  <2>1. /\ worker' = [Idle EXCEPT !.job = "round", !.pc = "rec_start", !.ret = "begin"]
        /\ UNCHANGED <<ops, report, startup>> /\ Free
    BY <1>6 DEF RoundRecovers
  <2>2. worker'.job = "round" /\ worker'.pc = "rec_start" /\ worker'.ret = "begin"
    BY <2>1 DEF Idle
  <2>3. QED
    BY <1>4, <2>1, <2>2 DEF Free, RoundPlaces, Opened
<1>7. ASSUME NEW plan \in plans, Approve(plan)
      PROVE  ReportInv'
  <2>1. UNCHANGED <<ops, report, startup>> /\ Free
    BY <1>7 DEF Approve
  <2>2. worker'.job = "approve" /\ worker'.pc = "claim" /\ worker'.ret = "idle"
    BY <1>7 DEF Approve, Idle
  <2>3. QED
    BY <1>1, <1>4, <2>1, <2>2 DEF Free
<1>8. CASE RoundDeclined
  <2>1. UNCHANGED <<ops, report, startup>> /\ At("begin") /\ worker.job = "round"
    BY <1>8 DEF RoundDeclined
  <2>2. worker'.job = "none" /\ worker'.pc = "idle" /\ worker'.ret = "idle"
    BY <1>8 DEF RoundDeclined, Idle
  <2>3. QED
    BY <1>1, <1>4, <2>1, <2>2
<1>9. QED
  BY <1>2, <1>3, <1>5, <1>6, <1>7, <1>8

\* A reconciliation that a round called hands back to it, any other ends.
LEMMA ReportReconciled ==
    ASSUME GateInv, TypeOK', ReportInv,
           ReconcileStart \/ (\E i \in DOMAIN ops : ReconcileUnmatched(i)) \/ ReconcileDone
    PROVE  ReportInv'
<1> USE DEF control, schedule, facts, durable, memory
<1>0. TypeOK /\ DownIsIdle /\ RoundPlaces /\ ReportOwned /\ worker \in Worker
  BY DEF GateInv, ReportInv, TypeOK
<1>1. /\ UNCHANGED <<ops, catalog, revision, targets>> /\ ItemsKept
      /\ worker.pc \in {"rec_start", "rec"}
      /\ report'.open => startup' = startup
      /\ worker' \in {[worker EXCEPT !.pc = "rec"], Returned(TRUE), Returned(FALSE)}
  <2>1. CASE ReconcileStart
    BY <2>1 DEF ReconcileStart, ItemsKept, At
  <2>2. CASE \E i \in DOMAIN ops : ReconcileUnmatched(i)
    BY <2>2 DEF ReconcileUnmatched, ItemsKept, At
  <2>3. CASE ReconcileDone
    BY <1>0, <2>3 DEF ReconcileDone, ItemsKept, At, ClosedReport, TypeOK
  <2>4. QED
    BY <2>1, <2>2, <2>3
<1>2. worker.job # "down"
  BY <1>0, <1>1 DEF DownIsIdle
<1>3. CASE worker.job = "round" /\ worker.ret \in {"loop", "close"}
  <2>1. /\ worker'.job = "round" /\ worker'.pc \in {"rec", "loop", "tail", "close"}
        /\ worker'.rev = worker.rev /\ worker'.todo \subseteq worker.todo
        /\ worker'.pc = "rec" => worker'.ret = worker.ret
    <3>1. worker' \in {[worker EXCEPT !.pc = "rec"], [worker EXCEPT !.pc = "loop"],
                       [worker EXCEPT !.pc = "close"], EndRound}
      BY <1>1, <1>3 DEF Returned
    <3>2. ASSUME NEW pc \in {"rec", "loop", "close"}, worker' = [worker EXCEPT !.pc = pc]
          PROVE  /\ worker'.job = "round" /\ worker'.pc = pc /\ worker'.ret = worker.ret
                 /\ worker'.rev = worker.rev /\ worker'.todo = worker.todo
      BY <1>0, <1>3, <3>2 DEF Worker
    <3>3. QED
      BY <1>0, <1>3, <3>1, <3>2, RoundLocals
  <2>2. Opened /\ ~At("apply") /\ RoundPlaces' /\ Opened' /\ worker'.pc # "apply" /\ ~AtProject'
    BY <1>1, <1>3, <2>1 DEF Opened, At, RoundPlaces, AtProject
  <2>3. QED
    BY <1>0, <1>1, <2>1, <2>2, RoundMoves
<1>4. CASE ~(worker.job = "round" /\ worker.ret \in {"loop", "close"})
  <2>1. worker' = [worker EXCEPT !.pc = "rec"] \/ worker' = [worker EXCEPT !.pc = "begin"] \/ worker' = Idle
    BY <1>0, <1>1, <1>4 DEF Returned, Released, RoundPlaces
  <2>2. ~Opened /\ (worker.job # "round" => worker' # [worker EXCEPT !.pc = "begin"])
    <3>1. ~Opened
      BY <1>0, <1>1, <1>4 DEF Opened, RoundPlaces
    <3>2. ASSUME worker.job # "round"
          PROVE  worker' # [worker EXCEPT !.pc = "begin"]
      <4>1. worker.ret = "idle"
        BY <1>0, <3>2 DEF RoundPlaces
      <4>2. worker' = [worker EXCEPT !.pc = "rec"] \/ worker' = Idle
        BY <1>1, <4>1 DEF Returned, Released
      <4>3. worker'.pc # "begin"
        BY <1>0, <4>2 DEF Idle, Worker
      <4>4. [worker EXCEPT !.pc = "begin"].pc = "begin"
        BY <1>0 DEF Worker
      <4>5. QED
        BY <4>3, <4>4
    <3>3. QED
      BY <3>1, <3>2
  <2>3. RoundPlaces' /\ ~Opened' /\ worker'.job # "down"
    <3>1. CASE worker' = Idle
      <4>1. worker'.job = "none" /\ worker'.pc = "idle" /\ worker'.ret = "idle"
        BY <3>1 DEF Idle
      <4>2. QED
        BY <4>1 DEF RoundPlaces, Opened
    <3>2. ASSUME NEW pc \in {"rec", "begin"}, worker' = [worker EXCEPT !.pc = pc],
                 pc = "begin" => worker.job = "round"
          PROVE  RoundPlaces' /\ ~Opened' /\ worker'.job # "down"
      <4>1. worker'.job = worker.job /\ worker'.pc = pc /\ worker'.ret = worker.ret
        BY <1>0, <3>2 DEF Worker
      <4>2. QED
        BY <1>0, <1>1, <1>2, <1>4, <3>2, <4>1 DEF RoundPlaces, Opened
    <3>3. QED
      BY <2>1, <2>2, <3>1, <3>2
  <2>4. RowsKept
    BY <1>0, <1>1, RowsTold, TableOfOps DEF ItemsKept
  <2>5. report'.open => startup'
    BY <1>0, <1>1, <2>2 DEF ReportOwned, ItemsKept
  <2>6. QED
    BY <1>0, <1>1, <2>3, <2>4, <2>5, OutsideRound
<1>5. QED
  BY <1>3, <1>4

\* A round opens its report over an operation table it has added nothing to,
\* and closes it when it ends.
LEMMA ReportOpensCloses ==
    ASSUME GateInv, TypeOK', ReportInv, RoundBegin \/ RoundClose
    PROVE  ReportInv'
<1> USE DEF control, schedule, facts, durable, memory
<1>0. TypeOK /\ RoundPlaces /\ ReportOwned /\ worker \in Worker
  BY DEF GateInv, ReportInv, TypeOK
<1>1. CASE RoundBegin
  <2>1. /\ ops' = ops /\ UNCHANGED <<revision, targets, catalog, startup>>
        /\ report'.first = Len(ops) + 1
        /\ \A p \in Project : report'.item[p] = IF p \in targets \cap Active THEN "not_checked" ELSE "absent"
    BY <1>1 DEF RoundBegin
  <2>2. /\ worker'.job = "round" /\ worker'.pc = "loop" /\ worker'.rev = revision
        /\ worker'.todo = Active
    BY <1>1 DEF RoundBegin, Idle
  <2>3. \A p \in Project : RoundOps(p)' = {}
    <3>1. \A i \in DOMAIN ops : ~(i >= Len(ops) + 1)
      BY <1>0, TableOfOps
    <3>2. QED
      BY <2>1, <3>1 DEF RoundOps
  <2>4. RoundPlaces' /\ Opened' /\ ~AtProject' /\ ~At("apply")'
    BY <2>2 DEF RoundPlaces, Opened, AtProject, At
  <2>5. RoundOpen'
    <3>1. revision' >= worker'.rev /\ Active' = Active /\ Active \subseteq Project
      BY <1>0, <2>1, <2>2 DEF TypeOK, Active
    <3>2. \A p \in worker'.todo : Untold(p)'
      BY <2>1, <2>2, <2>3, <3>1 DEF Untold
    <3>3. QED
      BY <2>1, <2>2, <2>4, <3>1, <3>2 DEF RoundOpen
  <2>6. ReportOwned'
    BY <1>0, <2>1, <2>2, <2>4, TableOfOps DEF ReportOwned
  <2>7. \A p \in Project : ItemHonest(p)'
    BY <2>1, <2>3 DEF ItemHonest, Terminal
  <2>8. QED
    BY <2>4, <2>5, <2>6, <2>7 DEF ReportInv
<1>2. CASE RoundClose
  <2>1. /\ UNCHANGED ops /\ report' = [report EXCEPT !.open = FALSE] /\ worker' = Idle
    BY <1>2 DEF RoundClose
  <2>2. worker'.job = "none" /\ worker'.pc = "idle" /\ worker'.ret = "idle"
    BY <2>1 DEF Idle
  <2>3. RoundPlaces' /\ ~Opened'
    BY <2>2 DEF RoundPlaces, Opened
  <2>4. ItemsKept /\ ~report'.open
    BY <1>0, <2>1 DEF ItemsKept, TypeOK
  <2>5. RowsKept
    BY <1>0, <2>1, <2>4, RowsTold, TableOfOps DEF ItemsKept
  <2>6. QED
    BY <1>0, <2>2, <2>3, <2>4, <2>5, OutsideRound
<1>3. QED
  BY <1>1, <1>2

\* A round dispatches for the project it is at, and for none else; an approved
\* plan is no part of any round.
LEMMA ReportClaimed ==
    ASSUME GateInv, TypeOK', ReportInv, Claim
    PROVE  ReportInv'
<1> USE DEF control, schedule, facts, durable, memory
<1>0. TypeOK /\ DownIsIdle /\ RoundPlaces /\ RoundOpen /\ ReportOwned /\ worker \in Worker
  BY DEF GateInv, ReportInv, TypeOK
<1> DEFINE n == Len(ops)
<1>1. PICK p \in Project : p = worker.project /\ MayDispatch(p)
  BY DEF Claim, MayDispatch, Active
<1>2. PICK o \in Operation : /\ ops' = Append(ops, o) /\ o.project = p
                             /\ o.actor = (IF Automatic THEN "schedule" ELSE "manual")
  BY <1>0, <1>1, ClaimAppends
<1>3. /\ n \in Nat /\ DOMAIN ops = 1 .. n /\ DOMAIN ops' = 1 .. n + 1 /\ Len(ops') = n + 1
      /\ ops'[n + 1] = o /\ \A i \in 1 .. n : ops'[i] = ops[i]
  BY <1>0, <1>2, TableOfOps, AppendProperties, LenProperties
<1>4. /\ UNCHANGED <<report, startup, catalog, revision, targets>>
      /\ worker.pc = "claim" /\ worker.job # "down"
  BY <1>0 DEF Claim, At, DownIsIdle
<1>5. /\ worker'.job = worker.job /\ worker'.pc = "apply" /\ worker'.ret = worker.ret
      /\ worker'.rev = worker.rev /\ worker'.todo = worker.todo /\ worker'.project = p
  BY <1>0, <1>1 DEF Claim, Worker
<1>6. RoundPlaces'
  BY <1>0, <1>4, <1>5 DEF RoundPlaces
<1>7. p \in Active
  BY <1>1 DEF MayDispatch
<1>8. \A q \in Project : RoundOps(q)' = IF q = p /\ Automatic THEN RoundOps(q) \cup {n + 1} ELSE RoundOps(q)
  <2>1. report.first <= n + 1 /\ report.first \in Nat
    BY <1>0 DEF ReportOwned, TypeOK
  <2>2. o.actor = "schedule" <=> Automatic
    BY <1>2
  <2>3. \A q \in Project : \A i \in 1 .. n : i \in RoundOps(q)' <=> i \in RoundOps(q)
    BY <1>3, <1>4 DEF RoundOps
  <2>4. \A q \in Project : n + 1 \in RoundOps(q)' <=> (q = p /\ Automatic)
    BY <1>2, <1>3, <1>4, <2>1, <2>2 DEF RoundOps
  <2>5. \A q \in Project : RoundOps(q) \subseteq 1 .. n /\ RoundOps(q)' \subseteq (1 .. n) \cup {n + 1}
    BY <1>3 DEF RoundOps
  <2>6. n + 1 \notin 1 .. n
    BY <1>3
  <2>7. QED
    BY <2>3, <2>4, <2>5, <2>6
<1>9. CASE worker.job # "round"
  <2>1. RowsKept /\ ItemsKept
    BY <1>3, <1>4, <1>8, <1>9 DEF RowsKept, ItemsKept, Automatic
  <2>2. ~Opened /\ ~Opened'
    BY <1>5, <1>9 DEF Opened
  <2>3. QED
    BY <1>0, <1>4, <1>5, <1>6, <2>1, <2>2, OutsideRound DEF ReportOwned
<1>10. CASE worker.job = "round"
  <2>1. Opened /\ Opened' /\ AtProject /\ ~At("apply") /\ At("apply")' /\ AtProject'
    BY <1>4, <1>5, <1>10 DEF Opened, AtProject, At
  <2>2. p \in worker.todo /\ Untold(p)
    BY <1>0, <1>1, <2>1 DEF RoundOpen
  <2>3. RoundOps(p) = {} /\ RoundOps(p)' = {n + 1} /\ Len(ops') = n + 1
    BY <1>3, <1>7, <1>8, <1>10, <2>2 DEF Untold, Automatic
  <2>4. revision = worker.rev /\ p \in targets
    BY <1>1, <1>10 DEF MayDispatch, Automatic
  <2>5. report.item[p] = "not_checked"
    BY <1>0, <1>7, <2>1, <2>2, <2>4 DEF RoundOpen, Untold
  <2>6. \A q \in Project \ {p} : RoundOps(q)' = RoundOps(q)
    BY <1>8
  <2>7. RoundOpen'
    <3>1. Active' = Active /\ worker.todo \subseteq Project
      BY <1>0, <1>4 DEF Active, Worker
    <3>2. \A q \in worker'.todo : Untold(q)' \/ q = worker'.project
      BY <1>0, <1>1, <1>4, <1>5, <2>1, <2>6, <3>1 DEF RoundOpen, Untold
    <3>3. (report.item[worker.project] = "not_checked" /\ RoundOps(worker.project) = {Len(ops)})'
      BY <1>4, <1>5, <2>3, <2>5
    <3>4. revision' = worker'.rev =>
              \A q \in worker'.todo \cap targets' \cap Active' : report'.item[q] # "absent"
      BY <1>0, <1>4, <1>5, <2>1, <3>1 DEF RoundOpen
    <3>5. worker'.rev <= revision' /\ worker'.project \in worker'.todo
      BY <1>0, <1>4, <1>5, <2>1, <2>2 DEF RoundOpen
    <3>6. QED
      BY <2>1, <3>2, <3>3, <3>4, <3>5 DEF RoundOpen
  <2>8. ReportOwned'
    BY <1>0, <1>3, <1>4, <1>5, <1>10, <2>1 DEF ReportOwned, TypeOK
  <2>9. \A q \in Project : ItemHonest(q)'
    <3>1. ItemHonest(p)'
      BY <1>4, <2>3, <2>5 DEF ItemHonest, Terminal
    <3>2. ASSUME NEW q \in Project \ {p}
          PROVE  ItemHonest(q)'
      <4>1. ItemHonest(q) /\ RoundOps(q)' = RoundOps(q) /\ \A i \in RoundOps(q) : ops'[i] = ops[i]
        BY <1>3, <2>6 DEF ReportInv, RoundOps
      <4>2. QED
        BY <1>4, <4>1 DEF ItemHonest
    <3>3. QED
      BY <3>1, <3>2
  <2>10. QED
    BY <1>6, <2>7, <2>8, <2>9 DEF ReportInv
<1>11. QED
  BY <1>9, <1>10

\* A refused claim ends the round, or leaves its retry to be reported.
LEMMA ReportRefused ==
    ASSUME GateInv, TypeOK', ReportInv, ClaimRefused
    PROVE  ReportInv'
<1> USE DEF control, schedule, facts, durable, memory
<1>0. TypeOK /\ DownIsIdle /\ RoundPlaces /\ RoundOpen /\ ReportOwned /\ worker \in Worker
  BY DEF GateInv, ReportInv, TypeOK
<1>1. UNCHANGED <<ops, report, startup, catalog, revision, targets>> /\ worker.pc = "claim"
  BY DEF ClaimRefused, At
<1>2. CASE worker.job = "round"
  <2>1. Opened /\ AtProject /\ ~At("apply")
    BY <1>1, <1>2 DEF Opened, AtProject, At
  <2>2. worker.project \in worker.todo
    BY <1>0, <2>1 DEF RoundOpen
  <2>3. worker' = EndRound \/ worker' = [worker EXCEPT !.pc = "retry_report"]
    BY <1>0, <1>2 DEF ClaimRefused, Worker
  <2>4. /\ worker'.job = "round" /\ worker'.pc \in {"tail", "retry_report"} /\ worker'.rev = worker.rev
        /\ worker'.todo \subseteq worker.todo
        /\ worker'.pc = "retry_report" => worker'.todo = worker.todo /\ worker'.project = worker.project
    <3>1. CASE worker' = EndRound
      BY <1>0, <1>2, <3>1, RoundLocals
    <3>2. CASE worker' = [worker EXCEPT !.pc = "retry_report"]
      BY <1>0, <1>2, <3>2 DEF Worker
    <3>3. QED
      BY <2>3, <3>1, <3>2
  <2>5. RoundPlaces' /\ Opened' /\ (AtProject' => worker'.project \in worker'.todo)
    BY <2>2, <2>4 DEF RoundPlaces, Opened, AtProject
  <2>6. QED
    BY <1>0, <1>1, <2>1, <2>4, <2>5, RoundMoves DEF ItemsKept
<1>3. CASE worker.job # "round"
  <2>1. worker' = Idle
    BY <1>0, <1>3 DEF ClaimRefused, RoundPlaces
  <2>2. worker'.job = "none" /\ worker'.pc = "idle" /\ worker'.ret = "idle"
    BY <2>1 DEF Idle
  <2>3. RoundPlaces' /\ ~Opened' /\ ~Opened
    BY <1>3, <2>2 DEF RoundPlaces, Opened
  <2>4. RowsKept
    BY <1>0, <1>1, RowsTold, TableOfOps
  <2>5. QED
    BY <1>0, <1>1, <2>2, <2>3, <2>4, OutsideRound DEF ItemsKept, ReportOwned
<1>4. QED
  BY <1>2, <1>3

\* The answer to a round's dispatch is the result of the operation it inserted.
LEMMA ReportAnswered ==
    ASSUME GateInv, TypeOK', ReportInv,
           NEW status \in Terminal \cup {"unknown"}, NEW scope \in {"project", "common"},
           ApplyReturns(status, scope)
    PROVE  ReportInv'
<1> USE DEF control, schedule, facts, durable, memory
<1>0. /\ TypeOK /\ DownIsIdle /\ AppliesLast /\ RunningIsApplied
      /\ RoundPlaces /\ RoundOpen /\ ReportOwned /\ worker \in Worker
  BY DEF GateInv, ReportInv, TypeOK
<1> DEFINE n == Len(ops)
<1>1. /\ Finish(n, status, scope) /\ At("apply") /\ worker' = Dispatched(status)
      /\ UNCHANGED <<startup, catalog, revision, targets>>
  BY DEF ApplyReturns
<1>2. n \in DOMAIN ops /\ ops[n].status = "running"
  BY <1>0, <1>1, TableOfOps, EmptySeq DEF AppliesLast, RunningIsApplied
<1>3. /\ DOMAIN ops' = DOMAIN ops /\ Len(ops') = n
      /\ \A i \in DOMAIN ops : /\ ops'[i].project = ops[i].project
                               /\ ops'[i].actor = ops[i].actor
                               /\ ops'[i].status = IF i = n THEN status ELSE ops[i].status
  BY <1>0, <1>1, <1>2, ToldOps
<1>4. ASSUME report'.first = report.first
      PROVE  RowsKept
  BY <1>0, <1>2, <1>3, <1>4, RowsTold DEF Terminal
<1>5. CASE worker.job = "round"
  <2>1. Opened /\ AtProject
    BY <1>1, <1>5 DEF Opened, AtProject, At
  <2>2. PICK p \in worker.todo : p = worker.project
    BY <1>0, <2>1 DEF RoundOpen
  <2>3. p \in Project /\ report.item[p] = "not_checked" /\ RoundOps(p) = {n}
    BY <1>0, <1>1, <2>1, <2>2 DEF RoundOpen, Worker
  <2>4. ReportItem(p, status)
    BY <1>5, <2>2 DEF ApplyReturns
  <2>5. report'.first = report.first /\ report'.item[p] = status
    BY <1>0, <2>3, <2>4 DEF ReportItem, TypeOK
  <2>6. RowsKept /\ RoundOps(p)' = {n} /\ ops'[n].status = status
    BY <1>2, <1>3, <1>4, <2>3, <2>5 DEF RowsKept
  <2>7. ItemHonest(p)'
    BY <2>5, <2>6 DEF ItemHonest
  <2>8. worker' = EndRound \/ worker' = After(p)
    BY <1>1, <1>5, <2>2 DEF Dispatched
  <2>9. /\ worker'.job = "round" /\ worker'.pc \in {"loop", "tail"}
        /\ worker'.rev = worker.rev /\ worker'.todo \subseteq worker.todo \ {p}
    BY <1>0, <1>5, <2>8, RoundLocals
  <2>10. QED
    BY <1>0, <1>1, <2>1, <2>2, <2>4, <2>6, <2>7, <2>9, RoundTells
<1>6. CASE worker.job # "round"
  <2>1. worker' = Idle /\ report' = report
    BY <1>0, <1>1, <1>6 DEF ApplyReturns, Dispatched, RoundPlaces
  <2>2. worker'.job = "none" /\ worker'.pc = "idle" /\ worker'.ret = "idle"
    BY <2>1 DEF Idle
  <2>3. RoundPlaces' /\ ~Opened' /\ ~Opened
    BY <1>6, <2>2 DEF RoundPlaces, Opened
  <2>4. RowsKept /\ ItemsKept
    BY <1>4, <2>1 DEF ItemsKept
  <2>5. QED
    BY <1>0, <1>1, <2>1, <2>2, <2>3, <2>4, OutsideRound DEF ReportOwned
<1>7. QED
  BY <1>5, <1>6

\* The steps of a round from project to project that dispatch nothing.
LEMMA ReportRounds ==
    ASSUME GateInv, TypeOK', ReportInv,
           \/ \E p \in Project : LoopProject(p)
           \/ LoopInterrupted
           \/ LoopDone
           \/ PlanFound
           \/ \E item \in {"no_update", "check_failed"} : PlanNone(item)
           \/ \E outage \in BOOLEAN : PlanBroken(outage)
           \/ ChecksStop
           \/ RetryClaim
           \/ RetryCheckFails
           \/ RetryNoUpdate
           \/ RetryPlanned
           \/ RetryReport
           \/ RoundTail
    PROVE  ReportInv'
<1> USE DEF control, schedule, facts, durable, memory
<1>0. /\ TypeOK /\ DownIsIdle /\ RoundPlaces /\ RoundOpen /\ worker \in Worker
  BY DEF GateInv, ReportInv, TypeOK
<1>1. /\ worker.pc \in {"loop", "plan", "broken", "retry_claim", "retry_check", "retry_report", "tail"}
      /\ UNCHANGED <<ops, revision, targets, catalog>>
  <2>1. CASE \/ \E p \in Project : LoopProject(p)
             \/ LoopInterrupted
             \/ LoopDone
    BY <2>1 DEF LoopProject, LoopInterrupted, LoopDone, At
  <2>2. CASE \/ PlanFound
             \/ \E item \in {"no_update", "check_failed"} : PlanNone(item)
             \/ \E outage \in BOOLEAN : PlanBroken(outage)
             \/ ChecksStop
    BY <2>2 DEF PlanFound, PlanNone, PlanBroken, ChecksStop, At
  <2>3. CASE RetryClaim \/ RetryCheckFails \/ RetryNoUpdate
    BY <2>3 DEF RetryClaim, RetryCheckFails, RetryNoUpdate, At
  <2>4. CASE RetryPlanned \/ RetryReport \/ RoundTail
    BY <2>4 DEF RetryPlanned, RetryReport, RoundTail, At
  <2>5. QED
    BY <2>1, <2>2, <2>3, <2>4
<1>2. worker.job = "round" /\ Opened /\ ~At("apply")
  BY <1>0, <1>1 DEF RoundPlaces, Opened, At
<1>3. worker.pc \notin {"loop", "broken", "tail"} => worker.project \in worker.todo
  BY <1>0, <1>1, <1>2 DEF RoundOpen, AtProject
<1>4. ASSUME NEW p \in worker.todo, NEW item \in Item \ (Terminal \cup {"unknown", "not_checked"}),
             ReportItem(p, item),
             worker'.job = "round", worker'.pc \in {"loop", "broken", "tail"},
             worker'.rev = worker.rev, worker'.todo \subseteq worker.todo \ {p}
      PROVE  ReportInv'
  BY <1>0, <1>1, <1>2, <1>4, RoundSkips
<1>5. ASSUME report' = report, worker'.job = "round",
             worker'.rev = worker.rev, worker'.todo \subseteq worker.todo,
             \/ worker'.pc \in {"loop", "tail"}
             \/ worker'.pc = "rec_start" /\ worker'.ret \in {"loop", "close"}
             \/ /\ worker'.pc \in {"plan", "claim", "retry_claim", "retry_check", "retry_report"}
                /\ worker'.project \in worker'.todo
      PROVE  ReportInv'
  <2>1. /\ RoundPlaces' /\ Opened' /\ worker'.pc # "apply" /\ ItemsKept
        /\ AtProject' => worker'.project \in worker'.todo
    BY <1>5 DEF RoundPlaces, Opened, AtProject, ItemsKept
  <2>2. QED
    BY <1>0, <1>1, <1>2, <1>5, <2>1, RoundMoves
<1>6. /\ \A p : /\ After(p).job = "round" /\ After(p).pc = "loop"
                /\ After(p).rev = worker.rev /\ After(p).todo = worker.todo \ {p}
      /\ EndRound.job = "round" /\ EndRound.pc = "tail"
      /\ EndRound.rev = worker.rev /\ EndRound.todo = {}
      /\ EndRound \in Worker /\ \A p \in Project : After(p) \in Worker
  BY <1>0, <1>2, RoundLocals, WorkerTypes
<1>7. worker.todo \subseteq Project
  BY <1>0 DEF Worker
<1>8. ASSUME NEW p \in worker.todo, NEW item \in Item \ (Terminal \cup {"unknown", "not_checked"}),
             ReportItem(p, item), worker' = After(p)
      PROVE  ReportInv'
  BY <1>4, <1>6, <1>8
<1>9. ASSUME report' = report, worker' = EndRound \/ (\E p : worker' = After(p))
      PROVE  ReportInv'
  BY <1>5, <1>6, <1>9
<1>10. ASSUME report' = report, worker.project \in worker.todo,
              NEW pc \in {"claim", "retry_check", "retry_report"}, NEW token,
              worker' = [worker EXCEPT !.pc = pc] \/ worker' = [worker EXCEPT !.pc = pc, !.token = token]
       PROVE  ReportInv'
  <2>1. /\ worker'.job = "round" /\ worker'.pc = pc /\ worker'.rev = worker.rev
        /\ worker'.todo = worker.todo /\ worker'.project = worker.project
    BY <1>0, <1>2, <1>10 DEF Worker
  <2>2. QED
    BY <1>5, <1>10, <2>1
<1>11. ASSUME NEW p \in Project, LoopProject(p)
       PROVE  ReportInv'
  <2>1. p \in worker.todo
    BY <1>11 DEF LoopProject
  <2>2. CASE report' = report /\ worker' = After(p)
    BY <1>9, <2>2
  <2>3. CASE worker' = After(p) /\ ReportItem(p, "paused")
    <3>1. "paused" \in Item \ (Terminal \cup {"unknown", "not_checked"})
      BY DEF Item, Terminal
    <3>2. QED
      BY <1>8, <2>1, <2>3, <3>1
  <2>4. ASSUME NEW pc \in {"plan", "retry_claim"}, NEW retry, report' = report,
               \/ worker' = [worker EXCEPT !.pc = pc, !.project = p, !.retry = retry]
               \/ worker' = [worker EXCEPT !.pc = pc, !.project = p]
        PROVE  ReportInv'
    <3>1. /\ worker'.job = "round" /\ worker'.pc = pc /\ worker'.rev = worker.rev
          /\ worker'.todo = worker.todo /\ worker'.project = p
      BY <1>0, <1>2, <2>4 DEF Worker
    <3>2. QED
      BY <1>5, <2>1, <2>4, <3>1
  <2>5. QED
    BY <1>11, <2>2, <2>3, <2>4 DEF LoopProject
<1>12. CASE LoopInterrupted \/ LoopDone
  <2>1. report' = report
    BY <1>12 DEF LoopInterrupted, LoopDone
  <2>2. CASE worker' = EndRound
    BY <1>9, <2>1, <2>2
  <2>3. CASE worker' = [worker EXCEPT !.pc = "rec_start", !.ret = "loop"]
    <3>1. /\ worker'.job = "round" /\ worker'.pc = "rec_start" /\ worker'.ret = "loop"
          /\ worker'.rev = worker.rev /\ worker'.todo = worker.todo
      BY <1>0, <1>2, <2>3 DEF Worker
    <3>2. QED
      BY <1>5, <2>1, <3>1
  <2>4. QED
    BY <1>12, <2>2, <2>3 DEF LoopInterrupted, LoopDone
<1>13. CASE PlanFound
  <2>1. worker.project \in worker.todo
    BY <1>3, <1>13 DEF PlanFound, At
  <2>2. CASE worker' = After(worker.project) /\ ReportItem(worker.project, "update_available")
    <3>1. "update_available" \in Item \ (Terminal \cup {"unknown", "not_checked"})
      BY DEF Item, Terminal
    <3>2. QED
      BY <1>8, <2>1, <2>2, <3>1
  <2>3. CASE worker' = [worker EXCEPT !.pc = "claim", !.token = issued + 1] /\ report' = report
    BY <1>10, <2>1, <2>3
  <2>4. QED
    BY <1>13, <2>2, <2>3 DEF PlanFound
<1>14. ASSUME NEW item \in {"no_update", "check_failed"}, PlanNone(item)
       PROVE  ReportInv'
  <2>1. worker.project \in worker.todo
    BY <1>3, <1>14 DEF PlanNone, At
  <2>2. item \in Item \ (Terminal \cup {"unknown", "not_checked"})
    BY DEF Item, Terminal
  <2>3. QED
    BY <1>8, <1>14, <2>1, <2>2 DEF PlanNone
<1>15. ASSUME NEW outage \in BOOLEAN, PlanBroken(outage)
       PROVE  ReportInv'
  <2>1. PICK p \in worker.todo : p = worker.project
    BY <1>3, <1>15 DEF PlanBroken, At
  <2>2. ReportItem(p, "check_failed") /\ "check_failed" \in Item \ (Terminal \cup {"unknown", "not_checked"})
    BY <1>15, <2>1 DEF PlanBroken, Item, Terminal
  <2>3. /\ worker'.job = "round" /\ worker'.pc = "broken"
        /\ worker'.rev = worker.rev /\ worker'.todo = worker.todo \ {p}
    <3>1. After(p) \in Worker
      BY <1>6, <1>7
    <3>2. QED
      BY <1>6, <1>15, <2>1, <3>1 DEF PlanBroken, Worker
  <2>4. QED
    BY <1>4, <2>2, <2>3
<1>16. CASE RetryClaim \/ RetryCheckFails \/ RetryNoUpdate \/ RetryPlanned
  <2>1. worker.project \in worker.todo
    BY <1>3, <1>16 DEF RetryClaim, RetryCheckFails, RetryNoUpdate, RetryPlanned, At
  <2>2. report' = report
    BY <1>16 DEF RetryClaim, RetryCheckFails, RetryNoUpdate, RetryPlanned
  <2>3. QED
    BY <1>10, <1>16, <2>1, <2>2 DEF RetryClaim, RetryCheckFails, RetryNoUpdate, RetryPlanned
<1>17. CASE RetryReport
  <2>1. worker.project \in worker.todo /\ worker' = After(worker.project)
    BY <1>3, <1>17 DEF RetryReport, At
  <2>2. \E item \in {"retry_failed", "recovered_no_update"} : ReportItem(worker.project, item)
    BY <1>17 DEF RetryReport
  <2>3. {"retry_failed", "recovered_no_update"} \subseteq Item \ (Terminal \cup {"unknown", "not_checked"})
    BY DEF Item, Terminal
  <2>4. QED
    BY <1>8, <2>1, <2>2, <2>3
<1>18. CASE RoundTail
  <2>1. /\ report' = report /\ worker'.job = "round" /\ worker'.pc = "rec_start" /\ worker'.ret = "close"
        /\ worker'.rev = worker.rev /\ worker'.todo = worker.todo
    BY <1>0, <1>2, <1>18 DEF RoundTail, Worker
  <2>2. QED
    BY <1>5, <2>1
<1>19. CASE ChecksStop
  <2>1. report' = report
    BY <1>19 DEF ChecksStop
  <2>2. CASE worker' = EndRound
    BY <1>9, <2>1, <2>2
  <2>3. CASE worker' = [worker EXCEPT !.pc = "loop"]
    <3>1. worker'.job = "round" /\ worker'.pc = "loop" /\ worker'.rev = worker.rev /\ worker'.todo = worker.todo
      BY <1>0, <1>2, <2>3 DEF Worker
    <3>2. QED
      BY <1>5, <2>1, <3>1
  <2>4. QED
    BY <1>19, <2>2, <2>3 DEF ChecksStop
<1>20. QED
  BY <1>11, <1>12, <1>13, <1>14, <1>15, <1>16, <1>17, <1>18, <1>19

\* A fresh database has no report and no operations.
LEMMA ReportInit == Init => ReportInv
<1> SUFFICES ASSUME Init
             PROVE  ReportInv
  OBVIOUS
<1>1. ops = <<>> /\ Len(ops) = 0 /\ \A p \in Project : RoundOps(p) = {}
  BY EmptySeq DEF Init, RoundOps
<1>2. /\ worker.job = "down" /\ worker.pc = "idle" /\ worker.ret = "idle"
      /\ startup /\ ~report.open /\ report.first = 1
      /\ \A p \in Project : report.item[p] = "absent"
  BY DEF Init, Idle, NoReport
<1>3. QED
  BY <1>1, <1>2 DEF ReportInv, RoundPlaces, RoundOpen, Opened, ReportOwned, ItemHonest, Terminal

\* Every step keeps what is known of the report.
LEMMA ReportStep ==
    ASSUME GateInv, TypeOK', ReportInv, [Next]_vars
    PROVE  ReportInv'
BY ReportBystanders, ReportOutsiders, ReportReconciled, ReportOpensCloses, ReportClaimed,
   ReportRefused, ReportAnswered, ReportRounds
DEF Next, Request, Manual, ReconcileStep, DispatchStep, RoundStep

\* What the report of the latest round says of a project is what that round did
\* to it, through any interleaving, crash and reconciliation.
THEOREM ReportsTellTheTruth == Spec => []ReportHonest
<1>1. ASSUME ReportInv
      PROVE  ReportHonest
  <2>1. ASSUME NEW p \in Project
        PROVE  Cardinality(RoundOps(p)) <= 1
    <3>1. CASE RoundOps(p) = {}
      BY <3>1, FS_EmptySet
    <3>2. CASE RoundOps(p) # {}
      <4>1. \A i, j \in RoundOps(p) : i = j
        BY <1>1 DEF ReportInv, ItemHonest
      <4>2. PICK i : i \in RoundOps(p)
        BY <3>2
      <4>3. RoundOps(p) = {i}
        BY <4>1, <4>2
      <4>4. QED
        BY <4>3, FS_Singleton
    <3>3. QED
      BY <3>1, <3>2
  <2>2. QED
    BY <1>1, <2>1 DEF ReportInv, ItemHonest, ReportHonest
<1>2. GateInv /\ GateInv' /\ ReportInv /\ [Next]_vars => ReportInv'
  BY ReportStep DEF GateInv
<1>3. QED
  BY <1>1, <1>2, ReportInit, GateInit, GateStep, PTL DEF Spec

\* A report that is still open belongs to the round in progress, or to a process
\* that died and has not yet reopened the gate.
THEOREM OpenReportsOwned == Spec => []OpenReportOwned
<1>1. ReportInv => OpenReportOwned
  BY DEF ReportInv, ReportOwned, Opened, OpenReportOwned
<1>2. GateInv /\ GateInv' /\ ReportInv /\ [Next]_vars => ReportInv'
  BY ReportStep DEF GateInv
<1>3. QED
  BY <1>1, <1>2, ReportInit, GateInit, GateStep, PTL DEF Spec

-----------------------------------------------------------------------------
(* What a round dispatches. A failure is retried once: by the claim of its  *)
(* retry no operation has retried it yet, and from then on it is spent.     *)

\* Only a round that is at a paused project has the retry of its failure.
RetryPlaces ==
    worker.retry # 0 =>
        /\ worker.job = "round"
        /\ worker.pc \in {"retry_claim", "retry_check", "retry_report", "claim", "apply"}

\* A retry claimed and not yet dispatched is that of no operation.
RetryFresh ==
    worker.pc \in {"retry_check", "claim"} /\ worker.retry # 0 =>
        \A i \in DOMAIN ops : ops[i].retryOf # worker.retry

\* A pause is that of an operation of its project, an operation retries an
\* earlier one, and a failure that was retried has its retry spent.
RetryLedger ==
    /\ \A i \in DOMAIN ops : ops[i].retryOf < i
    /\ \A p \in Project : Paused(p) => /\ pause[p].ref \in DOMAIN ops
                                       /\ ops[pause[p].ref].project = p
                                       /\ \A i \in DOMAIN ops : ops[i].retryOf = pause[p].ref => pause[p].used

OnceInv == RetryPlaces /\ RetryFresh /\ RetryLedger

\* Where the worker's retry goes in a step: nowhere, to no retry, to a place
\* that dispatches nothing, from its check to its dispatch, or it is claimed.
RetryMoves ==
    \/ worker' = worker
    \/ worker'.retry = 0
    \/ worker'.job = "round" /\ worker'.pc \in {"retry_claim", "retry_report", "apply"}
    \/ /\ worker.pc = "retry_check" /\ worker'.pc = "claim"
       /\ worker'.job = worker.job /\ worker'.retry = worker.retry
    \/ /\ worker.pc = "retry_claim" /\ worker'.pc = "retry_check"
       /\ worker'.job = worker.job /\ worker'.retry = worker.retry
       /\ MayRetry(worker.project)

LEMMA RetryWorker ==
    ASSUME TypeOK, RoundPlaces, RetryPlaces, [Next]_vars
    PROVE  RetryMoves
<1> USE DEF control, schedule, facts, durable, memory, RetryMoves
<1>0. worker \in Worker
  BY DEF TypeOK
<1>1. Idle.retry = 0 /\ \A p : After(p).retry = 0
  BY <1>0 DEF Idle, After, Worker
<1>2. ASSUME worker.retry = 0
      PROVE  /\ EndRound.retry = 0
             /\ \A pc : [worker EXCEPT !.pc = pc].retry = 0
  BY <1>0, <1>2 DEF EndRound, Worker
<1>3. CASE Request \/ Tick \/ Crash \/ Restart \/ RoundRecovers \/ UNCHANGED vars
  BY <1>3 DEF Request, Manual, Configure, Resume, Prepare, Prepared, Reject, Approve, Reconcile,
     Tick, Crash, Restart, RoundRecovers, Idle, vars
<1>4. CASE ReconcileStep
  <2>1. ASSUME NEW i, NEW s, ReconcileMatched(i, s)
        PROVE  RetryMoves
    BY <2>1 DEF ReconcileMatched
  <2>2. ASSUME NEW i, ReconcileStart \/ ReconcileUnmatched(i) \/ ReconcileDone
        PROVE  RetryMoves
    <3>1. worker.retry = 0
      BY <2>2 DEF ReconcileStart, ReconcileUnmatched, ReconcileDone, RetryPlaces, At
    <3>2. \A ok \in BOOLEAN : Returned(ok).retry = 0
      BY <1>1, <1>2, <3>1 DEF Returned, Released
    <3>3. QED
      BY <1>2, <2>2, <3>1, <3>2 DEF ReconcileStart, ReconcileUnmatched, ReconcileDone
  <2>3. QED
    BY <1>4, <2>1, <2>2 DEF ReconcileStep
<1>5. CASE Claim
  <2>1. worker'.pc = "apply" /\ worker'.job = worker.job /\ worker'.retry = worker.retry
    BY <1>0, <1>5 DEF Claim, Worker
  <2>2. QED
    BY <2>1 DEF RetryPlaces
<1>6. CASE ClaimRefused
  <2>1. CASE worker.retry = 0
    BY <1>1, <1>2, <1>6, <2>1 DEF ClaimRefused
  <2>2. CASE worker.retry # 0
    <3>1. worker.job = "round" /\ worker' = [worker EXCEPT !.pc = "retry_report"]
      BY <1>6, <2>2 DEF ClaimRefused, RetryPlaces
    <3>2. QED
      BY <1>0, <3>1 DEF Worker
  <2>3. QED
    BY <2>1, <2>2
<1>7. ASSUME NEW s, NEW c, ApplyReturns(s, c)
      PROVE  RetryMoves
  <2>1. worker' = Dispatched(s) /\ worker.pc = "apply" /\ (worker.retry # 0 => worker.job = "round")
    BY <1>7 DEF ApplyReturns, At, RetryPlaces
  <2>2. QED
    BY <1>1, <1>2, <2>1 DEF Dispatched
<1>8. ASSUME NEW p \in Project, LoopProject(p)
      PROVE  RetryMoves
  <2>1. worker.pc = "loop" /\ worker.job = "round" /\ worker.retry = 0
    BY <1>8 DEF LoopProject, At, RoundPlaces, RetryPlaces
  <2>2. CASE worker' = After(p)
    BY <1>1, <2>2
  <2>3. CASE worker' = [worker EXCEPT !.pc = "retry_claim", !.project = p, !.retry = pause[p].ref]
    BY <1>0, <2>1, <2>3 DEF Worker
  <2>4. CASE worker' = [worker EXCEPT !.pc = "plan", !.project = p]
    BY <1>0, <2>1, <2>4 DEF Worker
  <2>5. QED
    BY <1>8, <2>2, <2>3, <2>4 DEF LoopProject
<1>9. CASE RoundBegin \/ RoundDeclined \/ RoundClose
  <2>1. CASE RoundBegin
    <3>1. worker' = [Idle EXCEPT !.job = "round", !.pc = "loop", !.rev = revision, !.todo = Active]
      BY <2>1 DEF RoundBegin
    <3>2. QED
      BY <3>1 DEF Idle
  <2>2. CASE RoundDeclined \/ RoundClose
    BY <1>1, <2>2 DEF RoundDeclined, RoundClose
  <2>3. QED
    BY <1>9, <2>1, <2>2
<1>10. CASE LoopInterrupted \/ LoopDone \/ ChecksStop \/ RoundTail
  <2>1. worker.pc \in {"loop", "broken", "tail"}
    BY <1>10 DEF LoopInterrupted, LoopDone, ChecksStop, RoundTail, At
  <2>2. worker.retry = 0
    BY <2>1 DEF RetryPlaces
  <2>3. CASE LoopInterrupted \/ RoundTail
    <3>1. \/ worker' = EndRound
          \/ worker' = [worker EXCEPT !.pc = "rec_start", !.ret = "loop"]
          \/ worker' = [worker EXCEPT !.pc = "rec_start", !.ret = "close"]
      BY <2>3 DEF LoopInterrupted, RoundTail
    <3>2. QED
      BY <1>0, <1>2, <2>2, <3>1 DEF Worker
  <2>4. CASE LoopDone \/ ChecksStop
    BY <1>2, <2>2, <2>4 DEF LoopDone, ChecksStop
  <2>5. QED
    BY <1>10, <2>3, <2>4
<1>11. ASSUME NEW item, NEW outage, PlanFound \/ PlanNone(item) \/ PlanBroken(outage)
       PROVE  RetryMoves
  <2>1. worker.retry = 0
    BY <1>11 DEF PlanFound, PlanNone, PlanBroken, RetryPlaces, At
  <2>2. CASE PlanFound \/ PlanNone(item)
    <3>1. \/ worker' = After(worker.project)
          \/ worker' = [worker EXCEPT !.pc = "claim", !.token = issued + 1]
      BY <2>2 DEF PlanFound, PlanNone
    <3>2. QED
      BY <1>0, <1>1, <2>1, <3>1 DEF Worker
  <2>3. CASE PlanBroken(outage)
    BY <1>0, <2>3 DEF PlanBroken, After, Worker
  <2>4. QED
    BY <1>11, <2>2, <2>3
<1>12. CASE RetryReport
  BY <1>1, <1>12 DEF RetryReport
<1>13. CASE RetryCheckFails \/ RetryNoUpdate \/ RetryPlanned \/ RetryClaim
  <2>1. worker.job = "round" /\ worker.pc \in {"retry_check", "retry_claim"}
    BY <1>13 DEF RetryCheckFails, RetryNoUpdate, RetryPlanned, RetryClaim, At, RoundPlaces
  <2>2. CASE RetryCheckFails \/ RetryNoUpdate
    <3>1. worker' = [worker EXCEPT !.pc = "retry_report"]
      BY <2>2 DEF RetryCheckFails, RetryNoUpdate
    <3>2. QED
      BY <1>0, <2>1, <3>1 DEF Worker
  <2>3. CASE RetryPlanned
    <3>1. worker' = [worker EXCEPT !.pc = "claim", !.token = issued + 1] /\ worker.pc = "retry_check"
      BY <2>3 DEF RetryPlanned, At
    <3>2. QED
      BY <1>0, <2>1, <3>1 DEF Worker
  <2>4. CASE RetryClaim
    <3>1. /\ worker.pc = "retry_claim"
          /\ \/ worker' = [worker EXCEPT !.pc = "retry_report"]
             \/ worker' = [worker EXCEPT !.pc = "retry_check"] /\ MayRetry(worker.project)
      BY <2>4 DEF RetryClaim, At
    <3>2. QED
      BY <1>0, <2>1, <3>1 DEF Worker
  <2>5. QED
    BY <1>13, <2>2, <2>3, <2>4
<1>14. QED
  BY <1>3, <1>4, <1>5, <1>6, <1>7, <1>8, <1>9, <1>10, <1>11, <1>12, <1>13
  DEF Next, DispatchStep, RoundStep

\* Steps that add no operation keep what each operation retries.
RetriesKept ==
    /\ DOMAIN ops' = DOMAIN ops /\ Len(ops') = Len(ops)
    /\ \A i \in DOMAIN ops : /\ ops'[i].project = ops[i].project
                             /\ ops'[i].retryOf = ops[i].retryOf

LEMMA OnlyClaimsRetry ==
    ASSUME TypeOK, DownIsIdle, AppliesLast, [Next]_vars
    PROVE  RetriesKept \/ Claim
<1> USE DEF control, schedule, facts, durable, memory, RetriesKept
<1>1. CASE Bystander \/ WorkerMoves \/ Crash
  BY <1>1 DEF Bystander, WorkerMoves, Crash
<1>2. CASE Restart
  BY <1>2, InterruptedOps DEF Restart
<1>3. CASE \E i \in DOMAIN ops, s \in Terminal : ReconcileMatched(i, s)
  BY <1>3, ToldOps DEF ReconcileMatched
<1>4. ASSUME NEW s \in Terminal \cup {"unknown"}, NEW c \in {"project", "common"}, ApplyReturns(s, c)
      PROVE  RetriesKept
  <2>1. Finish(Len(ops), s, c) /\ Len(ops) \in DOMAIN ops
    BY <1>4, EmptySeq, LenProperties DEF ApplyReturns, AppliesLast, TypeOK
  <2>2. QED
    BY <2>1, ToldOps
<1>5. QED
  BY <1>1, <1>2, <1>3, <1>4, Footprint

\* A pause only moves to the operation that failed last, which nothing retries.
LEMMA FinishKeepsRetries ==
    ASSUME TypeOK, RetryInv, RetryLedger, RetriesKept, NEW i \in DOMAIN ops, i = Len(ops),
           NEW status \in Terminal \cup {"unknown"}, NEW scope \in {"project", "common"},
           Finish(i, status, scope)
    PROVE  RetryLedger'
<1>0. /\ pause \in [Project -> [ref: Nat, used: BOOLEAN]] /\ i \in Nat /\ i # 0
      /\ DOMAIN ops = 1 .. Len(ops) /\ ops[i].project \in Project
      /\ \A j \in DOMAIN ops : ops[j].retryOf \in Nat
  BY TableOfOps DEF TypeOK
<1> DEFINE p == ops[i].project
<1>1. \A j \in DOMAIN ops : ops[j].retryOf # i
  BY <1>0 DEF RetryLedger
<1>2. \/ pause' = pause
      \/ pause' = [pause EXCEPT ![p] = NotPaused]
      \/ \E used : pause' = [pause EXCEPT ![p] = [ref |-> i, used |-> used]]
  BY DEF Finish
<1>3. ASSUME NEW q \in Project, Paused(q)'
      PROVE  /\ pause'[q].ref \in DOMAIN ops
             /\ ops[pause'[q].ref].project = q
             /\ \A j \in DOMAIN ops : ops[j].retryOf = pause'[q].ref => pause'[q].used
  <2>1. CASE pause'[q] = pause[q]
    BY <1>3, <2>1 DEF RetryLedger, Paused
  <2>2. CASE q = p /\ \E used : pause'[q] = [ref |-> i, used |-> used]
    BY <1>1, <2>2
  <2>3. pause'[q] # NotPaused
    BY <1>3 DEF Paused, NotPaused
  <2>4. QED
    BY <1>0, <1>2, <2>1, <2>2, <2>3
<1>4. QED
  BY <1>3 DEF RetryLedger, RetriesKept, Paused

\* Pauses lifted and retries spent.
LEMMA LiftsKeepRetries ==
    ASSUME TypeOK, RetryLedger, RetriesKept,
           \/ pause' = pause
           \/ \E p \in Project : pause' = [pause EXCEPT ![p] = NotPaused]
           \/ \E p \in Project : pause' = [pause EXCEPT ![p].used = TRUE]
    PROVE  RetryLedger'
<1>0. pause \in [Project -> [ref: Nat, used: BOOLEAN]]
  BY DEF TypeOK
<1>1. ASSUME NEW q \in Project, Paused(q)'
      PROVE  pause'[q].ref = pause[q].ref /\ (pause[q].used => pause'[q].used)
  BY <1>0, <1>1 DEF Paused, NotPaused
<1>2. QED
  BY <1>1 DEF RetryLedger, RetriesKept, Paused

LEMMA OnceKept ==
    ASSUME GateInv, RetryInv, RoundPlaces, OnceInv, RetriesKept, ~Claim, [Next]_vars
    PROVE  OnceInv'
<1> USE DEF GateInv, OnceInv
<1>0. worker \in Worker /\ \A i \in DOMAIN ops : ops[i].retryOf \in Nat
  BY TableOfOps DEF TypeOK
<1>1. RetryMoves
  BY RetryWorker
<1>2. RetryPlaces'
  BY <1>1 DEF RetryMoves, RetryPlaces
<1>3. RetryFresh'
  <2>1. CASE worker.pc = "retry_claim" /\ worker'.retry = worker.retry /\ MayRetry(worker.project)
    <3>1. worker.retry # 0 /\ pause[worker.project].ref = worker.retry /\ ~pause[worker.project].used
      BY <2>1 DEF MayRetry, RetryInv, At
    <3>2. worker.project \in Project
      BY <2>1 DEF TypeOK, MayRetry
    <3>3. QED
      BY <2>1, <3>1, <3>2 DEF RetryLedger, RetryFresh, RetriesKept, Paused
  <2>2. CASE worker' = worker \/ (worker.pc = "retry_check" /\ worker'.retry = worker.retry)
    BY <2>2 DEF RetryFresh, RetriesKept
  <2>3. CASE worker'.retry = 0 \/ worker'.pc \in {"retry_claim", "retry_report", "apply"}
    BY <2>3 DEF RetryFresh
  <2>4. QED
    BY <1>1, <2>1, <2>2, <2>3 DEF RetryMoves
<1>4. RetryLedger'
  <2>1. CASE pause' = pause
    BY <2>1, LiftsKeepRetries
  <2>2. CASE \E p \in Project : Resume(p, pause[p].ref)
    BY <2>2, LiftsKeepRetries DEF Resume
  <2>3. ASSUME NEW i \in DOMAIN ops, NEW s \in Terminal, ReconcileMatched(i, s)
        PROVE  RetryLedger'
    BY <2>3, FinishKeepsRetries DEF ReconcileMatched, OnlyLastOpen
  <2>4. ASSUME NEW s \in Terminal \cup {"unknown"}, NEW c \in {"project", "common"}, ApplyReturns(s, c)
        PROVE  RetryLedger'
    <3>1. Finish(Len(ops), s, c) /\ Len(ops) \in DOMAIN ops
      BY <2>4, EmptySeq, LenProperties DEF ApplyReturns, AppliesLast, TypeOK
    <3>2. QED
      BY <3>1, FinishKeepsRetries
  <2>5. CASE RetryClaim
    <3>1. \/ pause' = pause
          \/ worker.project \in Project /\ pause' = [pause EXCEPT ![worker.project].used = TRUE]
      BY <2>5 DEF RetryClaim, MayRetry, Spent, TypeOK
    <3>2. QED
      BY <3>1, LiftsKeepRetries
  <2>6. CASE RetryNoUpdate
    <3>1. \/ pause' = pause
          \/ worker.project \in Project /\ pause' = [pause EXCEPT ![worker.project] = NotPaused]
          \/ worker.project \notin Project
      BY <2>6 DEF RetryNoUpdate
    <3>2. worker.project \notin Project => pause' = pause
      BY <2>6 DEF RetryNoUpdate, TypeOK
    <3>3. QED
      BY <3>1, <3>2, LiftsKeepRetries
  <2>7. ASSUME NEW p \in Project, LoopProject(p)
        PROVE  pause' = pause
    BY <2>7 DEF LoopProject, facts
  <2>8. QED
    BY <2>1, <2>2, <2>3, <2>4, <2>5, <2>6, <2>7, QuietSteps DEF Quiet
<1>5. QED
  BY <1>2, <1>3, <1>4

\* What a claim appends, and that it is the first retry of its failure.
LEMMA OnceClaimed ==
    ASSUME GateInv, RoundPlaces, OnceInv, Claim
    PROVE  /\ OnceInv'
           /\ Len(ops') = Len(ops) + 1 /\ ops'[Len(ops')].project = worker.project
           /\ ops'[Len(ops')].actor = "schedule" <=> Automatic
           /\ ops'[Len(ops')].retryOf = worker.retry
           /\ worker.retry # 0 => \A i \in DOMAIN ops : ops[i].retryOf # worker.retry
<1> USE DEF GateInv, OnceInv
<1> DEFINE n == Len(ops)
<1>0. worker \in Worker /\ worker.pc = "claim" /\ pause' = pause
  BY DEF TypeOK, Claim, At, facts
<1>1. PICK p \in Project : p = worker.project /\ MayDispatch(p)
  BY DEF Claim, MayDispatch, Active
<1>2. PICK o \in Operation : /\ ops' = Append(ops, o) /\ o.project = p /\ o.retryOf = worker.retry
                             /\ o.actor = (IF Automatic THEN "schedule" ELSE "manual")
  BY <1>1, ClaimAppends
<1>3. /\ n \in Nat /\ DOMAIN ops = 1 .. n /\ DOMAIN ops' = 1 .. n + 1 /\ Len(ops') = n + 1
      /\ ops'[n + 1] = o /\ \A i \in 1 .. n : ops'[i] = ops[i]
  BY <1>2, TableOfOps, AppendProperties, LenProperties
<1>4. worker.retry # 0 => \A i \in DOMAIN ops : ops[i].retryOf # worker.retry
  BY <1>0 DEF RetryFresh
<1>5. worker.retry # 0 => /\ pause[p].ref = worker.retry /\ pause[p].used
                          /\ worker.retry \in 1 .. n /\ ops[worker.retry].project = p
  <2>1. SUFFICES ASSUME worker.retry # 0
                 PROVE  /\ pause[p].ref = worker.retry /\ pause[p].used
                        /\ worker.retry \in 1 .. n /\ ops[worker.retry].project = p
    OBVIOUS
  <2>2. Automatic /\ pause[p].ref = worker.retry
    BY <1>1, <2>1 DEF RetryPlaces, Automatic, MayDispatch
  <2>3. Paused(p) /\ pause[p].used
    BY <1>1, <2>1, <2>2 DEF MayDispatch, Paused
  <2>4. QED
    BY <1>3, <2>2, <2>3 DEF RetryLedger
<1>6. worker'.pc = "apply" /\ worker'.job = worker.job /\ worker'.retry = worker.retry
  BY <1>0 DEF Claim, Worker
<1>7. RetryPlaces' /\ RetryFresh'
  BY <1>6 DEF RetryPlaces, RetryFresh
<1>8. RetryLedger'
  <2>1. worker.retry \in Nat
    BY <1>0 DEF Worker
  <2>2. \A i \in DOMAIN ops' : ops'[i].retryOf < i
    <3>1. worker.retry < n + 1
      BY <1>3, <1>5, <2>1
    <3>2. QED
      BY <1>2, <1>3, <3>1 DEF RetryLedger
  <2>3. ASSUME NEW q \in Project, Paused(q)'
        PROVE  /\ pause'[q].ref \in DOMAIN ops'
               /\ ops'[pause'[q].ref].project = q
               /\ \A i \in DOMAIN ops' : ops'[i].retryOf = pause'[q].ref => pause'[q].used
    <3>1. /\ Paused(q) /\ pause[q].ref \in 1 .. n /\ ops[pause[q].ref].project = q
          /\ \A i \in 1 .. n : ops[i].retryOf = pause[q].ref => pause[q].used
      BY <1>0, <1>3, <2>3 DEF RetryLedger, Paused
    <3>2. worker.retry = pause[q].ref => pause[q].used
      BY <1>5, <3>1 DEF Paused
    <3>3. \A i \in 1 .. n + 1 : ops'[i].retryOf = pause[q].ref => pause[q].used
      BY <1>2, <1>3, <3>1, <3>2
    <3>4. QED
      BY <1>0, <1>3, <3>1, <3>3
  <2>4. QED
    BY <2>2, <2>3 DEF RetryLedger
<1>9. QED
  BY <1>1, <1>2, <1>3, <1>4, <1>7, <1>8

\* An operation of the schedule is what the schedule in force asks for, for a
\* project this round has not yet dealt with.
LEMMA ClaimsObey ==
    ASSUME GateInv, ReportInv, OnceInv, Claim, Automatic
    PROVE  LET p == worker.project
           IN  /\ enabled /\ p \in targets \cap Active /\ Policy(p) = "auto"
               /\ report.item[p] = "not_checked"
               /\ worker.retry = pause[p].ref
<1> USE DEF GateInv, ReportInv
<1> DEFINE p == worker.project
<1>1. At("claim") /\ MayDispatch(p) /\ worker.job = "round" /\ worker \in Worker
  BY DEF Claim, Automatic, TypeOK
<1>2. enabled /\ p \in targets \cap Active /\ Policy(p) = "auto" /\ revision = worker.rev
  BY <1>1 DEF MayDispatch
<1>3. Opened /\ AtProject /\ ~At("apply")
  BY <1>1 DEF Opened, AtProject, At
<1>4. p \in worker.todo /\ Untold(p) /\ report.item[p] # "absent"
  BY <1>2, <1>3 DEF RoundOpen
<1>5. report.item[p] = "not_checked"
  BY <1>4 DEF Untold
<1>6. worker.retry = pause[p].ref
  BY <1>1 DEF MayDispatch, Paused
<1>7. QED
  BY <1>2, <1>5, <1>6

\* A round dispatches only what the schedule of that moment asks for, and the
\* retry of a failure only if nothing has retried that failure before, over
\* interleaved schedule changes, deaths and reconciliations.
THEOREM RoundsObey == Spec => ScheduleObeyed
<1>1. Init => OnceInv
  <2>1. ASSUME Init
        PROVE  OnceInv
    <3>1. ops = <<>> /\ Idle.retry = 0 /\ worker.retry = 0
      BY <2>1 DEF Init, Idle
    <3>2. DOMAIN ops = {}
      BY <3>1, EmptySeq
    <3>3. QED
      BY <2>1, <3>1, <3>2 DEF Init, OnceInv, RetryPlaces, RetryFresh, RetryLedger, Paused, NotPaused
  <2>2. QED
    BY <2>1
<1>2. GateInv /\ RetryInv /\ ReportInv /\ OnceInv /\ [Next]_vars => OnceInv'
  BY OnlyClaimsRetry, OnceKept, OnceClaimed DEF GateInv, ReportInv
<1>3. ASSUME GateInv, ReportInv, OnceInv, [Next]_vars
      PROVE  LET o == ops'[Len(ops')]
             IN  Len(ops') > Len(ops) /\ o.actor = "schedule" =>
                     /\ enabled /\ o.project \in targets \cap Active
                     /\ Policy(o.project) = "auto"
                     /\ report.item[o.project] = "not_checked"
                     /\ o.retryOf = pause[o.project].ref
                     /\ o.retryOf # 0 => \A i \in DOMAIN ops : ops[i].retryOf # o.retryOf
  <2>1. CASE Claim
    BY <1>3, <2>1, OnceClaimed, ClaimsObey DEF ReportInv
  <2>2. CASE RetriesKept
    <3>1. Len(ops) \in Nat /\ DOMAIN ops = 1 .. Len(ops)
      BY <1>3, TableOfOps DEF GateInv
    <3>2. QED
      BY <2>2, <3>1 DEF RetriesKept
  <2>3. QED
    BY <1>3, <2>1, <2>2, OnlyClaimsRetry DEF GateInv
<1>4. Init => RetryInv
  BY DEF Init, RetryInv, NotPaused, At, Idle, Paused
<1>5. GateInv /\ RetryInv /\ [Next]_vars => RetryInv'
  BY RetryStep DEF GateInv
<1>6. GateInv /\ GateInv' /\ ReportInv /\ [Next]_vars => ReportInv'
  BY ReportStep DEF GateInv
<1>7. QED
  BY <1>1, <1>2, <1>3, <1>4, <1>5, <1>6, ReportInit, GateInit, GateStep, PTL DEF Spec, ScheduleObeyed

=============================================================================
