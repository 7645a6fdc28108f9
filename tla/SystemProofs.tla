---------------------------- MODULE SystemProofs ----------------------------
(***************************************************************************)
(* Machine-checked proofs about the controller and the host together, for  *)
(* every set of projects and threads and every bound. What is proved of    *)
(* the controller alone carries over, because no step of the system is     *)
(* anything but a step of the controller or a stuttering one to it.        *)
(***************************************************************************)
EXTENDS SystemProperties, CoreProofs

-----------------------------------------------------------------------------
(* The inductive invariant. *)

HostTypeOK == /\ record \in [Project -> H!Record]
              /\ busy \subseteq Project
              /\ touched \subseteq receipts

\* A request is on its way, on record or declined, and has been sent by an
\* operation of the controller.
Traced ==
    /\ \A t \in inflight \cup receipts \cup declined : \E i \in DOMAIN ops : Token(i) = t
    /\ inflight \cap receipts = {} /\ inflight \cap declined = {} /\ receipts \cap declined = {}

\* The host's record of a project is about an operation of that project, and
\* says of its business what happened to it.
RecordsTrue ==
    \A p \in Project :
        /\ record[p].status # "idle" =>
               /\ record[p].ref \in receipts
               /\ \A i \in DOMAIN ops : Token(i) = record[p].ref => ops[i].project = p
        /\ record[p].status = "succeeded" => record[p].ref \in touched
        /\ record[p].status = "failed" /\ ~record[p].byHand => record[p].ref \notin touched

BusyIsUnknown == \A p \in busy : record[p].status = "unknown" /\ ~record[p].byHand

\* A final result is final at the host too: no request is left that might
\* still be carried out and no worker that might still touch the business.
FinalIsOver ==
    \A i \in DOMAIN ops : ops[i].status \in Terminal =>
        /\ Token(i) \notin inflight
        /\ \A p \in busy : record[p].ref # Token(i)
        /\ ops[i].status = "succeeded" => Token(i) \in touched

\* The dispatch whose answer is awaited is the last operation.
AwaitsLast == At("apply") => /\ ops[Len(ops)].token = worker.token
                             /\ ops[Len(ops)].project = worker.project

HostInvs == HostTypeOK /\ Traced /\ RecordsTrue /\ BusyIsUnknown /\ FinalIsOver

SysInv == GateInv /\ TokenInv /\ AwaitsLast /\ HostInvs
-----------------------------------------------------------------------------
(* What the steps of the system are to the controller. *)

LEMMA SysStepIsCore == [SysNext]_sysvars => [Next]_vars
BY DEF SysNext, sysvars, Elsewhere, SysClaim, SysReturns, SysReconcileMatched,
       HostNext, HostBegins, HostDeclines, HostWorks, HostSettles,
       Next, ReconcileStep, DispatchStep

\* Operations keep what they are about, and no result is told of them.
NothingTold ==
    /\ DOMAIN ops' = DOMAIN ops
    /\ \A i \in DOMAIN ops : /\ ops'[i].token = ops[i].token
                             /\ ops'[i].project = ops[i].project
                             /\ ops'[i].status \in Terminal => ops'[i].status = ops[i].status

\* The requests, the rounds and the ends of the process write no operation but
\* those a restart turns unknown.
LEMMA ElsewhereTellsNothing ==
    ASSUME TypeOK, Elsewhere \/ UNCHANGED sysvars
    PROVE  NothingTold /\ UNCHANGED <<host, wire>>
<1> USE DEF control, schedule, facts, durable, memory
<1>1. ASSUME ops' = ops
      PROVE  NothingTold
  BY <1>1 DEF NothingTold
<1>2. CASE UNCHANGED sysvars
  BY <1>1, <1>2 DEF sysvars, vars
<1>3. UNCHANGED <<host, wire>>
  BY DEF Elsewhere, sysvars
<1>4. CASE Restart
  BY <1>3, <1>4, InterruptedOps DEF NothingTold, Restart, Terminal
<1>5. ASSUME Crash \/ Tick \/ RoundRecovers \/ ReconcileStart \/ ReconcileDone \/ ClaimRefused
      PROVE  ops' = ops
  BY <1>5 DEF Crash, Tick, RoundRecovers, ReconcileStart, ReconcileDone, ClaimRefused
<1>6. ASSUME NEW i \in DOMAIN ops, ReconcileUnmatched(i)
      PROVE  ops' = ops
  BY <1>6 DEF ReconcileUnmatched
<1>7. ASSUME Request
      PROVE  ops' = ops
  BY <1>7 DEF Request, Manual, Configure, Resume, Prepare, Prepared, Reject, Approve, Reconcile
<1>8. ASSUME RoundStep
      PROVE  ops' = ops
  BY <1>8 DEF RoundStep, RoundBegin, RoundDeclined, LoopProject, LoopInterrupted, LoopDone,
     PlanFound, PlanNone, PlanBroken, ChecksStop, RetryClaim, RetryCheckFails, RetryNoUpdate,
     RetryPlanned, RetryReport, RoundTail, RoundClose
<1>9. QED
  BY <1>1, <1>2, <1>3, <1>4, <1>5, <1>6, <1>7, <1>8 DEF Elsewhere

\* Nothing but a dispatch starts to wait for an answer.
LEMMA AwaitsStep == GateInv /\ AwaitsLast /\ [Next]_vars => AwaitsLast'
<1> SUFFICES ASSUME GateInv, AwaitsLast, [Next]_vars
             PROVE  AwaitsLast'
  OBVIOUS
<1> USE DEF AwaitsLast, At
<1>1. TypeOK /\ DownIsIdle /\ worker \in Worker
  BY DEF GateInv, TypeOK
<1>2. CASE Bystander \/ WorkerMoves
  BY <1>2 DEF Bystander, WorkerMoves
<1>3. CASE Crash \/ Restart
  <2>1. worker'.pc \in {"idle", "rec_start"}
    BY <1>3 DEF Crash, Restart, Idle
  <2>2. QED
    BY <2>1
<1>4. CASE Claim
  <2>1. PICK o \in Operation : /\ ops' = Append(ops, o)
                               /\ o.token = worker.token /\ o.project = worker.project
    BY <1>1, <1>4, ClaimAppends
  <2>2. Len(ops') = Len(ops) + 1 /\ ops'[Len(ops) + 1] = o
    BY <1>1, <2>1, TableOfOps, AppendProperties
  <2>3. worker'.token = worker.token /\ worker'.project = worker.project
    BY <1>1, <1>4 DEF Claim, Worker
  <2>4. QED
    BY <2>1, <2>2, <2>3
<1>5. ASSUME NEW i \in DOMAIN ops, NEW s \in Terminal, ReconcileMatched(i, s)
      PROVE  AwaitsLast'
  BY <1>5 DEF ReconcileMatched
<1>6. ASSUME NEW s \in Terminal \cup {"unknown"}, NEW c \in {"project", "common"}, ApplyReturns(s, c)
      PROVE  AwaitsLast'
  <2>1. worker.job \notin {"none", "down"}
    BY <1>1, <1>6 DEF ApplyReturns, DownIsIdle
  <2>2. worker'.pc # "apply"
    BY <1>1, <1>6 DEF ApplyReturns, Dispatched, EndRound, After, Idle, Worker
  <2>3. QED
    BY <2>2
<1>7. QED
  BY <1>1, <1>2, <1>3, <1>4, <1>5, <1>6, Footprint
-----------------------------------------------------------------------------
(* Steps of the controller. *)

LEMMA NothingToldStep ==
    ASSUME TypeOK, HostInvs, NothingTold, UNCHANGED <<host, wire>>
    PROVE  HostInvs'
<1> USE DEF host, wire, Token
<1>0. /\ UNCHANGED <<record, busy, receipts, touched, inflight, declined>>
  OBVIOUS
<1>1. HostTypeOK' /\ BusyIsUnknown'
  BY <1>0 DEF HostInvs, HostTypeOK, BusyIsUnknown
<1>2. Traced'
  BY <1>0 DEF HostInvs, NothingTold, Traced
<1>3. RecordsTrue'
  BY <1>0 DEF HostInvs, NothingTold, RecordsTrue
<1>4. FinalIsOver'
  <2>1. ASSUME NEW i \in DOMAIN ops, ops'[i].status \in Terminal
        PROVE  ops[i].status \in Terminal /\ ops'[i].status = ops[i].status
    BY <2>1 DEF NothingTold
  <2>2. QED
    BY <1>0, <2>1 DEF HostInvs, NothingTold, FinalIsOver
<1>5. QED
  BY <1>1, <1>2, <1>3, <1>4 DEF HostInvs

\* A final result is told only of an operation that is over at the host.
LEMMA ToldStep ==
    ASSUME TypeOK, HostInvs, UNCHANGED <<host, wire>>,
           NEW i \in DOMAIN ops, NEW status \in Terminal \cup {"unknown"}, Finish(i, status, "project"),
           status # "unknown" => /\ Token(i) \notin inflight
                                 /\ \A p \in busy : record[p].ref # Token(i)
                                 /\ status = "succeeded" => Token(i) \in touched
    PROVE  HostInvs'
<1> USE DEF host, wire, Token
<1>1. /\ DOMAIN ops' = DOMAIN ops
      /\ \A j \in DOMAIN ops : /\ ops'[j].token = ops[j].token
                               /\ ops'[j].project = ops[j].project
                               /\ ops'[j].status = IF j = i THEN status ELSE ops[j].status
  BY ToldOps
<1>2. HostTypeOK' /\ BusyIsUnknown'
  BY DEF HostInvs, HostTypeOK, BusyIsUnknown
<1>3. Traced'
  BY <1>1 DEF HostInvs, Traced
<1>4. RecordsTrue'
  BY <1>1 DEF HostInvs, RecordsTrue
<1>5. FinalIsOver'
  <2>1. "unknown" \notin Terminal
    BY DEF Terminal
  <2>2. QED
    BY <1>1, <2>1 DEF HostInvs, FinalIsOver
<1>6. QED
  BY <1>2, <1>3, <1>4, <1>5 DEF HostInvs

\* What makes an answer final: a code that rules the execution out, or the
\* host's own final record.
LEMMA OnRecordIsOver ==
    ASSUME TypeOK, TokenInv, HostInvs, NEW p \in Project, NEW status \in Terminal,
           NEW i \in DOMAIN ops, record[p].ref = Token(i), record[p].status = status
    PROVE  /\ Token(i) \notin inflight
           /\ \A q \in busy : record[q].ref # Token(i)
           /\ status = "succeeded" => Token(i) \in touched
           /\ status = "failed" => Token(i) \notin touched \/ record[p].byHand
<1>1. record[p].status # "idle" /\ record[p].status # "unknown"
  BY DEF Terminal
<1>2. record[p].ref \in receipts /\ ops[i].project = p
  BY <1>1 DEF HostInvs, RecordsTrue
<1>3. ASSUME NEW q \in busy, record[q].ref = Token(i)
      PROVE  FALSE
  <2>1. q \in Project /\ record[q].status = "unknown"
    BY DEF HostInvs, HostTypeOK, BusyIsUnknown
  <2>2. ops[i].project = q
    BY <1>3, <2>1 DEF HostInvs, RecordsTrue
  <2>3. QED
    BY <1>1, <1>2, <2>1, <2>2
<1>4. QED
  BY <1>2, <1>3 DEF HostInvs, RecordsTrue, Traced

LEMMA RefusedIsOver ==
    ASSUME HostInvs, NEW t \in declined
    PROVE  /\ t \notin inflight /\ t \notin touched
           /\ \A q \in busy : record[q].ref # t
<1>1. t \notin inflight /\ t \notin receipts /\ t \notin touched
  BY DEF HostInvs, Traced, HostTypeOK
<1>2. \A q \in busy : record[q].ref \in receipts
  BY DEF HostInvs, HostTypeOK, BusyIsUnknown, RecordsTrue
<1>3. QED
  BY <1>1, <1>2

\* The result of a dispatch is about the last operation.
LEMMA ReturnsTruth ==
    ASSUME SysInv, NEW status \in Terminal \cup {"unknown"}, SysReturns(status)
    PROVE  /\ Len(ops) \in DOMAIN ops /\ Finish(Len(ops), status, "project")
           /\ UNCHANGED <<host, wire>>
           /\ status # "unknown" =>
                  /\ Token(Len(ops)) \notin inflight
                  /\ \A p \in busy : record[p].ref # Token(Len(ops))
                  /\ status = "succeeded" => Token(Len(ops)) \in touched
                  /\ status = "failed" => \/ Token(Len(ops)) \notin touched
                                          \/ \E p \in Project : /\ record[p].ref = Token(Len(ops))
                                                                /\ record[p].byHand
<1>1. /\ TypeOK /\ AppliesLast /\ TokenInv /\ HostInvs
      /\ ApplyReturns(status, "project") /\ At("apply")
  BY DEF SysInv, GateInv, SysReturns, ApplyReturns
<1>2. Len(ops) \in DOMAIN ops
  BY <1>1, TableOfOps, EmptySeq DEF AppliesLast
<1>3. worker.token = Token(Len(ops)) /\ worker.project \in Project
  BY <1>1, <1>2, TableOfOps DEF SysInv, AwaitsLast, Token
<1>4. CASE status = "unknown"
  BY <1>1, <1>2, <1>4 DEF SysReturns, ApplyReturns
<1>5. CASE status = "failed" /\ RuledOut(worker.token)
  <2>1. Token(Len(ops)) \in declined
    BY <1>3, <1>5 DEF RuledOut
  <2>2. QED
    BY <1>1, <1>2, <1>5, <2>1, RefusedIsOver DEF SysReturns, ApplyReturns
<1>6. CASE status \in Terminal /\ Answered(worker.project, worker.token, status)
  <2>1. record[worker.project].ref = Token(Len(ops)) /\ record[worker.project].status = status
    BY <1>3, <1>6 DEF Answered
  <2>2. QED
    BY <1>1, <1>2, <1>3, <1>6, <2>1, OnRecordIsOver DEF SysReturns, ApplyReturns
<1>7. QED
  BY <1>4, <1>5, <1>6 DEF SysReturns

\* So is that of a reconciliation about the operation it names.
LEMMA ReconciledTruth ==
    ASSUME SysInv, NEW i \in DOMAIN ops, NEW status \in Terminal, SysReconcileMatched(i, status)
    PROVE  /\ Finish(i, status, "project")
           /\ UNCHANGED <<host, wire>>
           /\ Token(i) \notin inflight
           /\ \A p \in busy : record[p].ref # Token(i)
           /\ status = "succeeded" => Token(i) \in touched
           /\ status = "failed" => \/ Token(i) \notin touched
                                   \/ \E p \in Project : record[p].ref = Token(i) /\ record[p].byHand
<1>1. TypeOK /\ TokenInv /\ HostInvs
  BY DEF SysInv, GateInv
<1>2. ops[i].project \in Project
  BY <1>1, TableOfOps
<1>3. record[ops[i].project].ref = Token(i) /\ record[ops[i].project].status = status
  BY DEF SysReconcileMatched, Matches, Token
<1>4. QED
  BY <1>1, <1>2, <1>3, OnRecordIsOver DEF SysReconcileMatched, ReconcileMatched

\* A dispatch sends a token nobody at the host has seen.
LEMMA ClaimStep ==
    ASSUME SysInv, SysClaim
    PROVE  HostInvs'
<1> USE DEF Token
<1>1. TypeOK /\ TokenOnce /\ HostInvs /\ worker \in Worker
  BY DEF SysInv, GateInv, TokenInv, TypeOK
<1>2. /\ Claim /\ inflight' = inflight \cup {worker.token}
      /\ UNCHANGED <<record, busy, receipts, touched, declined>>
  BY DEF SysClaim, host
<1>3. PICK o \in Operation : /\ ops' = Append(ops, o)
                             /\ o.token = worker.token /\ o.status = "running"
  BY <1>1, <1>2, ClaimAppends
<1>4. /\ DOMAIN ops' = 1 .. Len(ops) + 1 /\ ops'[Len(ops) + 1] = o
      /\ \A i \in DOMAIN ops : i \in DOMAIN ops' /\ ops'[i] = ops[i]
      /\ \A i \in DOMAIN ops' : i \in DOMAIN ops \/ i = Len(ops) + 1
  <2>1. ops' \in Seq(Operation) /\ Len(ops') = Len(ops) + 1
    BY <1>1, <1>3, TableOfOps, AppendProperties
  <2>2. QED
    BY <1>1, <1>3, <2>1, TableOfOps, AppendProperties, LenProperties
<1>5. \A i \in DOMAIN ops : ops[i].token # worker.token
  BY <1>1, <1>2 DEF TokenOnce, Claim
<1>6. worker.token \notin inflight \cup receipts \cup declined
  BY <1>1, <1>5 DEF HostInvs, Traced
<1>7. HostTypeOK' /\ BusyIsUnknown'
  BY <1>1, <1>2 DEF HostInvs, HostTypeOK, BusyIsUnknown
<1>8. Traced'
  <2>1. \A t \in inflight' \cup receipts' \cup declined' : \E i \in DOMAIN ops' : ops'[i].token = t
    <3>1. Len(ops) + 1 \in DOMAIN ops'
      BY <1>1, <1>4, TableOfOps
    <3>2. QED
      BY <1>1, <1>2, <1>3, <1>4, <3>1 DEF HostInvs, Traced
  <2>2. QED
    BY <1>1, <1>2, <1>6, <2>1 DEF HostInvs, Traced
<1>9. RecordsTrue'
  BY <1>1, <1>2, <1>3, <1>4, <1>6 DEF HostInvs, RecordsTrue
<1>10. FinalIsOver'
  <2>1. o.status \notin Terminal
    BY <1>3 DEF Terminal
  <2>2. QED
    BY <1>1, <1>2, <1>4, <1>5, <2>1 DEF HostInvs, FinalIsOver
<1>11. QED
  BY <1>7, <1>8, <1>9, <1>10 DEF HostInvs

-----------------------------------------------------------------------------
(* Steps of the host. *)

LEMMA BeginsStep ==
    ASSUME TypeOK, TokenInv, HostInvs, NEW t \in inflight, HostBegins(t)
    PROVE  HostInvs'
<1> USE DEF Token
<1> DEFINE p == ProjectOf(t)
<1>1. PICK i \in DOMAIN ops : ops[i].token = t
  BY DEF HostInvs, Traced
<1>2. ops[i].project \in Project /\ t \in Nat
  BY <1>1, TableOfOps
<1>3. \A j \in DOMAIN ops : ops[j].token = t => j = i
  BY <1>1 DEF TokenInv, TokenOnce
<1>4. p = ops[i].project
  BY <1>1, <1>2, <1>3 DEF ProjectOf
<1>5. /\ record' = [record EXCEPT ![p] = [status |-> "unknown", ref |-> t, byHand |-> FALSE]]
      /\ busy' = {p} /\ receipts' = receipts \cup {t} /\ touched' = touched
      /\ inflight' = inflight \ {t} /\ declined' = declined /\ ops' = ops
  BY DEF HostBegins, H!Begin, vars, durable, facts
<1> HIDE DEF p
<1>6. p \in Project
  BY <1>2, <1>4
<1>7. /\ record'[p].status = "unknown" /\ record'[p].ref = t /\ ~record'[p].byHand
      /\ \A q \in Project : q # p => record'[q] = record[q]
  BY <1>5, <1>6 DEF HostInvs, HostTypeOK
<1>8. HostTypeOK'
  BY <1>2, <1>5, <1>6 DEF HostInvs, HostTypeOK, H!Record
<1>9. Traced'
  BY <1>1, <1>5 DEF HostInvs, Traced
<1>10. t \notin touched
  BY DEF HostInvs, HostTypeOK, Traced
<1>11. RecordsTrue'
  BY <1>3, <1>4, <1>5, <1>7, <1>10 DEF HostInvs, RecordsTrue
<1>12. BusyIsUnknown'
  BY <1>5, <1>7 DEF BusyIsUnknown
<1>13. FinalIsOver'
  BY <1>5, <1>7 DEF HostInvs, FinalIsOver
<1>14. QED
  BY <1>8, <1>9, <1>11, <1>12, <1>13 DEF HostInvs

LEMMA DeclinesStep ==
    ASSUME HostInvs, NEW t \in inflight, NEW definite, HostDeclines(t, definite)
    PROVE  HostInvs'
<1> USE DEF Token
<1>1. /\ ops' = ops /\ UNCHANGED <<record, busy, receipts, touched>>
      /\ inflight' = inflight \ {t} /\ declined' \subseteq declined \cup {t}
  BY DEF HostDeclines, host, vars, durable, facts
<1>2. HostTypeOK' /\ BusyIsUnknown' /\ RecordsTrue'
  BY <1>1 DEF HostInvs, HostTypeOK, BusyIsUnknown, RecordsTrue
<1>3. Traced'
  BY <1>1 DEF HostInvs, Traced
<1>4. FinalIsOver'
  BY <1>1 DEF HostInvs, FinalIsOver
<1>5. QED
  BY <1>2, <1>3, <1>4 DEF HostInvs

\* The worker of an update that is not over, or the administrator.
LEMMA WorksStep ==
    ASSUME HostInvs, HostWorks \/ \E p \in Project : HostSettles(p)
    PROVE  HostInvs'
<1> USE DEF Token
<1>1. ops' = ops /\ inflight' = inflight /\ declined' = declined
  BY DEF HostWorks, HostSettles, wire, vars, durable, facts
<1>2. record \in [Project -> H!Record] /\ busy \subseteq Project /\ touched \subseteq receipts
  BY DEF HostInvs, HostTypeOK
<1>3. \A p \in busy : record[p].ref \in receipts /\ record[p].status = "unknown" /\ ~record[p].byHand
  BY DEF HostInvs, HostTypeOK, BusyIsUnknown, RecordsTrue
<1>4. ASSUME receipts' = receipts
      PROVE  Traced'
  BY <1>1, <1>4 DEF HostInvs, Traced
<1>5. ASSUME NEW p \in Project, H!Touch(p)
      PROVE  HostInvs'
  <2>1. /\ p \in busy /\ record[p].ref \in receipts /\ record[p].status = "unknown"
        /\ touched' = touched \cup {record[p].ref}
        /\ UNCHANGED <<record, busy, receipts>>
    BY <1>3, <1>5 DEF H!Touch
  <2>2. HostTypeOK' /\ BusyIsUnknown'
    BY <1>2, <2>1 DEF HostInvs, HostTypeOK, BusyIsUnknown
  <2>3. PICK i \in DOMAIN ops : ops[i].token = record[p].ref /\ ops[i].project = p
    BY <2>1 DEF HostInvs, Traced, RecordsTrue
  <2>4. \A q \in Project : record[q].status = "failed" => record[q].ref # record[p].ref
    BY <2>1, <2>3 DEF HostInvs, RecordsTrue
  <2>5. RecordsTrue'
    BY <1>1, <2>1, <2>4 DEF HostInvs, RecordsTrue
  <2>6. FinalIsOver'
    BY <1>1, <2>1 DEF HostInvs, FinalIsOver
  <2>7. QED
    BY <1>4, <2>1, <2>2, <2>5, <2>6 DEF HostInvs
<1>6. ASSUME NEW p \in Project, NEW s \in Terminal \cup {"unknown"}, H!End(p, s)
      PROVE  HostInvs'
  <2>1. /\ p \in busy /\ record' = [record EXCEPT ![p].status = s] /\ busy' = {}
        /\ UNCHANGED <<receipts, touched>>
        /\ s = "failed" => record[p].ref \notin touched
        /\ s = "succeeded" => record[p].ref \in touched
    BY <1>6 DEF H!End, H!Truthful
  <2>2. /\ record'[p].status = s /\ record'[p].ref = record[p].ref
        /\ record'[p].byHand = record[p].byHand
        /\ \A q \in Project : q # p => record'[q] = record[q]
    BY <1>2, <2>1 DEF H!Record
  <2>3. HostTypeOK'
    BY <1>2, <2>1 DEF HostTypeOK, H!Record, Terminal
  <2>4. BusyIsUnknown'
    BY <2>1 DEF BusyIsUnknown
  <2>5. RecordsTrue'
    BY <1>1, <1>3, <2>1, <2>2 DEF HostInvs, RecordsTrue
  <2>6. FinalIsOver'
    BY <1>1, <2>1 DEF HostInvs, FinalIsOver
  <2>7. QED
    BY <1>4, <2>1, <2>3, <2>4, <2>5, <2>6 DEF HostInvs
<1>7. CASE H!Die
  <2>1. busy' = {} /\ UNCHANGED <<record, receipts, touched>>
    BY <1>7 DEF H!Die
  <2>2. HostTypeOK' /\ BusyIsUnknown'
    BY <1>2, <2>1 DEF HostTypeOK, BusyIsUnknown
  <2>3. RecordsTrue' /\ FinalIsOver'
    BY <1>1, <2>1 DEF HostInvs, RecordsTrue, FinalIsOver
  <2>4. QED
    BY <1>4, <2>1, <2>2, <2>3 DEF HostInvs
<1>8. ASSUME NEW p \in Project, H!Settle(p)
      PROVE  HostInvs'
  <2>1. /\ busy = {} /\ record[p].status = "unknown"
        /\ record' = [record EXCEPT ![p] = [status |-> "failed", ref |-> record[p].ref, byHand |-> TRUE]]
        /\ UNCHANGED <<busy, receipts, touched>>
    BY <1>2, <1>8 DEF H!Settle, H!Unclear
  <2>2. /\ record'[p].status = "failed" /\ record'[p].ref = record[p].ref /\ record'[p].byHand
        /\ \A q \in Project : q # p => record'[q] = record[q]
    BY <1>2, <2>1
  <2>3. HostTypeOK'
    BY <1>2, <2>1 DEF HostTypeOK, H!Record
  <2>4. BusyIsUnknown'
    BY <2>1 DEF BusyIsUnknown
  <2>5. RecordsTrue'
    BY <1>1, <2>1, <2>2 DEF HostInvs, RecordsTrue
  <2>6. FinalIsOver'
    BY <1>1, <2>1 DEF HostInvs, FinalIsOver
  <2>7. QED
    BY <1>4, <2>1, <2>3, <2>4, <2>5, <2>6 DEF HostInvs
<1>9. QED
  BY <1>5, <1>6, <1>7, <1>8 DEF HostWorks, HostSettles

-----------------------------------------------------------------------------
(* The invariant is inductive. *)

LEMMA SysInitInv == SysInit => SysInv
<1> SUFFICES ASSUME SysInit
             PROVE  SysInv
  OBVIOUS
<1>0. Init /\ H!HInit /\ inflight = {} /\ declined = {}
  BY DEF SysInit
<1>1. Init /\ H!HInit /\ inflight = {} /\ declined = {} /\ ops = <<>> /\ DOMAIN ops = {}
  <2>1. ops = <<>>
    BY <1>0 DEF Init
  <2>2. QED
    BY <1>0, <2>1
<1>2. GateInv
  BY <1>1, GateInit
<1>3. TokenInv /\ AwaitsLast
  BY <1>1 DEF Init, TokenInv, TokenOnce, AwaitsLast, At, Idle
<1>4. /\ record = [p \in Project |-> H!NoRecord] /\ busy = {} /\ receipts = {} /\ touched = {}
      /\ H!NoRecord \in H!Record /\ H!NoRecord.status = "idle"
  BY <1>1 DEF H!HInit, H!NoRecord, H!Record
<1>5. HostInvs
  BY <1>1, <1>4
  DEF HostInvs, HostTypeOK, Traced, RecordsTrue, BusyIsUnknown, FinalIsOver
<1>6. QED
  BY <1>2, <1>3, <1>5 DEF SysInv

LEMMA SysStep == SysInv /\ [SysNext]_sysvars => SysInv'
<1> SUFFICES ASSUME SysInv, [SysNext]_sysvars
             PROVE  SysInv'
  OBVIOUS
<1>1. GateInv /\ TypeOK /\ AppliesLast /\ TokenInv /\ AwaitsLast /\ HostInvs /\ [Next]_vars
  BY SysStepIsCore DEF SysInv, GateInv
<1>2. GateInv' /\ TokenInv' /\ AwaitsLast'
  BY <1>1, GateStep, TokenStep, AwaitsStep
<1>3. CASE Elsewhere \/ UNCHANGED sysvars
  BY <1>1, <1>2, <1>3, ElsewhereTellsNothing, NothingToldStep DEF SysInv
<1>4. CASE SysClaim
  BY <1>2, <1>4, ClaimStep DEF SysInv
<1>5. ASSUME NEW s \in Terminal \cup {"unknown"}, SysReturns(s)
      PROVE  HostInvs'
  <2>1. /\ Len(ops) \in DOMAIN ops /\ Finish(Len(ops), s, "project")
        /\ UNCHANGED <<host, wire>>
        /\ s # "unknown" => /\ Token(Len(ops)) \notin inflight
                            /\ \A p \in busy : record[p].ref # Token(Len(ops))
                            /\ s = "succeeded" => Token(Len(ops)) \in touched
    BY <1>5, ReturnsTruth
  <2>2. QED
    BY <1>1, <2>1, ToldStep
<1>6. ASSUME NEW i \in DOMAIN ops, NEW s \in Terminal, SysReconcileMatched(i, s)
      PROVE  HostInvs'
  BY <1>1, <1>6, ReconciledTruth, ToldStep
<1>7. ASSUME NEW t \in inflight, HostBegins(t) \/ \E definite \in BOOLEAN : HostDeclines(t, definite)
      PROVE  HostInvs'
  BY <1>1, <1>7, BeginsStep, DeclinesStep
<1>8. CASE HostWorks \/ \E p \in Project : HostSettles(p)
  BY <1>1, <1>2, <1>8, WorksStep DEF SysInv
<1>9. QED
  BY <1>2, <1>3, <1>4, <1>5, <1>6, <1>7, <1>8 DEF SysNext, HostNext, SysInv

\* What the operations and the host look like after each kind of step.
LEMMA SysSteps ==
    ASSUME SysInv, [SysNext]_sysvars
    PROVE  \/ NothingTold /\ touched' = touched
           \/ SysClaim
           \/ \E s \in Terminal \cup {"unknown"} : SysReturns(s)
           \/ \E i \in DOMAIN ops, s \in Terminal : SysReconcileMatched(i, s)
           \/ NothingTold /\ \E p \in busy : touched' = touched \cup {record[p].ref}
<1> USE DEF host
<1>1. ASSUME ops' = ops
      PROVE  NothingTold
  BY <1>1 DEF NothingTold
<1>2. TypeOK
  BY DEF SysInv, GateInv
<1>3. CASE Elsewhere \/ UNCHANGED sysvars
  BY <1>2, <1>3, ElsewhereTellsNothing
<1>4. CASE HostNext
  <2>1. NothingTold
    BY <1>1, <1>4 DEF HostNext, HostBegins, HostDeclines, HostWorks, HostSettles, vars, durable, facts
  <2>2. touched' = touched \/ \E p \in busy : touched' = touched \cup {record[p].ref}
    BY <1>4 DEF HostNext, HostBegins, HostDeclines, HostWorks, HostSettles,
       H!Begin, H!Touch, H!End, H!Die, H!Settle
  <2>3. QED
    BY <2>1, <2>2
<1>5. QED
  BY <1>3, <1>4 DEF SysNext

-----------------------------------------------------------------------------
(* What the controller's results mean. *)

\* An operation is called succeeded only if the host touched the business for
\* it, however its answer was lost, late or reconciled.
THEOREM SuccessIsReal == SysSpec => []SucceededIsReal
<1>1. SysInv => SucceededIsReal
  BY DEF SysInv, HostInvs, FinalIsOver, SucceededIsReal, Terminal
<1>2. QED
  BY <1>1, SysInitInv, SysStep, PTL DEF SysSpec

\* An operation is called failed only if its business was left alone or the
\* administrator settled it at the host.
THEOREM FailureIsUntouched == SysSpec => FailedIsUntouched
<1> DEFINE Honest ==
      \A i \in DOMAIN ops :
          ops[i].status # "failed" /\ ops'[i].status = "failed" =>
              \/ Token(i) \notin touched
              \/ \E p \in Project : record[p].ref = Token(i) /\ record[p].byHand
<1>1. ASSUME SysInv, [SysNext]_sysvars
      PROVE  Honest
  <2>1. TypeOK /\ "failed" \in Terminal
    BY <1>1 DEF SysInv, GateInv, Terminal
  <2>2. CASE NothingTold
    BY <2>1, <2>2 DEF NothingTold
  <2>3. CASE SysClaim
    <3>1. PICK o \in Operation : ops' = Append(ops, o)
      BY <2>1, <2>3, ClaimAppends DEF SysClaim
    <3>2. \A i \in DOMAIN ops : ops'[i] = ops[i]
      BY <2>1, <3>1, TableOfOps, AppendProperties
    <3>3. QED
      BY <3>2
  <2>4. ASSUME NEW s \in Terminal \cup {"unknown"}, SysReturns(s)
        PROVE  Honest
    <3>1. /\ Len(ops) \in DOMAIN ops /\ Finish(Len(ops), s, "project")
          /\ s = "failed" => \/ Token(Len(ops)) \notin touched
                             \/ \E p \in Project : record[p].ref = Token(Len(ops)) /\ record[p].byHand
      BY <1>1, <2>4, ReturnsTruth
    <3>2. QED
      BY <2>1, <3>1, ToldOps
  <2>5. ASSUME NEW i \in DOMAIN ops, NEW s \in Terminal, SysReconcileMatched(i, s)
        PROVE  Honest
    <3>1. /\ Finish(i, s, "project")
          /\ s = "failed" => \/ Token(i) \notin touched
                             \/ \E p \in Project : record[p].ref = Token(i) /\ record[p].byHand
      BY <1>1, <2>5, ReconciledTruth
    <3>2. QED
      BY <2>1, <3>1, ToldOps
  <2>6. QED
    BY <1>1, <2>2, <2>3, <2>4, <2>5, SysSteps
<1>2. SysInv /\ [SysNext]_sysvars => [Honest]_sysvars
  BY <1>1
<1> HIDE DEF Honest
<1>3. SysSpec => [][Honest]_sysvars
  BY <1>2, SysInitInv, SysStep, PTL DEF SysSpec
<1>4. QED
  BY <1>3 DEF Honest, FailedIsUntouched

\* Once the controller has a final result nothing more is done to the business
\* for that operation: no late worker, no delayed request.
THEOREM ResultsAreFinal == SysSpec => NoLateMutation
<1> DEFINE Quiet ==
      \A i \in DOMAIN ops : ops[i].status \in Terminal =>
          (Token(i) \in touched' <=> Token(i) \in touched)
<1>1. ASSUME SysInv, [SysNext]_sysvars
      PROVE  Quiet
  <2>1. CASE touched' = touched
    BY <2>1
  <2>2. ASSUME NEW p \in busy, touched' = touched \cup {record[p].ref}
        PROVE  Quiet
    BY <1>1, <2>2 DEF SysInv, HostInvs, FinalIsOver
  <2>3. ASSUME NEW i, NEW s, SysClaim \/ SysReturns(s) \/ SysReconcileMatched(i, s)
        PROVE  touched' = touched
    BY <2>3 DEF SysClaim, SysReturns, SysReconcileMatched, host
  <2>4. QED
    BY <1>1, <2>1, <2>2, <2>3, SysSteps
<1>2. SysInv /\ [SysNext]_sysvars => [Quiet]_sysvars
  BY <1>1
<1> HIDE DEF Quiet
<1>3. SysSpec => [][Quiet]_sysvars
  BY <1>2, SysInitInv, SysStep, PTL DEF SysSpec
<1>4. QED
  BY <1>3 DEF Quiet, NoLateMutation

\* A new operation is dispatched only when nothing the controller ever sent is
\* still under way at the host, or may yet be.
THEOREM OneUpdateAtATime == SysSpec => NoOverlap
<1> DEFINE Alone == Len(ops') > Len(ops) => busy = {} /\ inflight = {}
<1>1. ASSUME SysInv, [SysNext]_sysvars, Len(ops') > Len(ops)
      PROVE  busy = {} /\ inflight = {}
  <2>1. TypeOK /\ GateInv /\ HostInvs /\ Len(ops) \in Nat /\ DOMAIN ops = 1 .. Len(ops)
    BY <1>1, TableOfOps DEF SysInv, GateInv
  <2>2. CASE SysClaim
    <3>1. Unresolved = {}
      BY <2>1, <2>2 DEF SysClaim, Claim, MayDispatch, GateInv, DownIsIdle, ReadyMeansResolved, At
    <3>2. \A i \in DOMAIN ops : ops[i].status \in Terminal
      <4>1. \A i \in DOMAIN ops : ops[i].status \in Terminal \cup Unfinished
        BY <2>1, TableOfOps DEF Operation
      <4>2. QED
        BY <3>1, <4>1 DEF Unresolved
    <3>3. inflight = {}
      BY <2>1, <3>2 DEF HostInvs, Traced, FinalIsOver
    <3>4. ASSUME NEW p \in busy
          PROVE  FALSE
      <4>1. p \in Project /\ record[p].status # "idle"
        BY <2>1 DEF HostInvs, HostTypeOK, BusyIsUnknown
      <4>2. PICK i \in DOMAIN ops : Token(i) = record[p].ref
        BY <2>1, <4>1 DEF HostInvs, RecordsTrue, Traced
      <4>3. QED
        BY <2>1, <3>2, <4>2 DEF HostInvs, FinalIsOver
    <3>5. QED
      BY <3>3, <3>4
  <2>3. ASSUME NothingTold
        PROVE  FALSE
    <3>1. TypeOK'
      BY <1>1, SysStep DEF SysInv, GateInv
    <3>2. DOMAIN ops' = 1 .. Len(ops') /\ Len(ops') \in Nat
      BY <3>1, LenProperties DEF TypeOK
    <3>3. QED
      BY <1>1, <2>1, <2>3, <3>2 DEF NothingTold
  <2>4. ASSUME NEW s \in Terminal \cup {"unknown"}, SysReturns(s)
        PROVE  FALSE
    <3>1. Len(ops) \in DOMAIN ops /\ Finish(Len(ops), s, "project")
      BY <1>1, <2>4, ReturnsTruth
    <3>2. QED
      BY <1>1, <2>1, <3>1, ToldOps
  <2>5. ASSUME NEW i \in DOMAIN ops, NEW s \in Terminal, SysReconcileMatched(i, s)
        PROVE  FALSE
    BY <1>1, <2>1, <2>5, ReconciledTruth, ToldOps
  <2>6. QED
    BY <1>1, <2>2, <2>3, <2>4, <2>5, SysSteps
<1>2. SysInv /\ [SysNext]_sysvars => [Alone]_sysvars
  BY <1>1
<1> HIDE DEF Alone
<1>3. SysSpec => [][Alone]_sysvars
  BY <1>2, SysInitInv, SysStep, PTL DEF SysSpec
<1>4. QED
  BY <1>3 DEF Alone, NoOverlap

=============================================================================
