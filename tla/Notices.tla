------------------------------- MODULE Notices -------------------------------
(***************************************************************************)
(* The notice outbox (maintenance_center/notices.py) between the           *)
(* controller's audit log and the administrator's chat, with the part of a *)
(* tick of telegram_runtime.py that fills and empties it.                  *)
(*                                                                         *)
(* The controller goes on writing while a tick is at work. It is reduced   *)
(* to the rows the outbox reads: operations, pauses, reports of rounds and *)
(* audit rows. A report is open from its round's start to its end, and     *)
(* stays open when the process dies in the round, until the first          *)
(* successful reconciliation of the next process.                          *)
(*                                                                         *)
(* Simplifications:                                                        *)
(*  - Failures of a project all carry one code: that is the case the       *)
(*    deduplication by signature is about.                                 *)
(*  - A day passes at once for everything that is stored.                  *)
(*  - Audit rows that make no notice are left out, and with them the       *)
(*    removal of consumed rows after 180 days and first checks that        *)
(*    dispatched nothing (they are told like those that did).              *)
(*  - Reports stay: the code deletes those a hundred rounds behind.        *)
(*  - `delivered' names a message once when it is sent again at once.      *)
(***************************************************************************)
EXTENDS Naturals, Sequences, FiniteSets, SequencesExt

CONSTANTS
    Project,
    NoProject,    \* the project column of a notice about the whole system
    ReportBatch,  \* reports taken by one collection (20)
    RowBatch,     \* audit rows taken by one collection (500)
    MaxOps, MaxRounds, MaxRows, MaxDays, MaxRestarts,   \* bounds
    MaxTrouble    \* bound on them and removed projects together

ASSUME NoticeAssumption ==
    /\ NoProject \notin Project
    /\ ReportBatch \in Nat \ {0} /\ RowBatch \in Nat \ {0} 
    /\ MaxOps \in Nat /\ MaxRounds \in Nat /\ MaxRows \in Nat /\ MaxDays \in Nat
    /\ MaxRestarts \in Nat /\ MaxTrouble \in Nat

VARIABLES
    ops,         \* operations: project, origin and status
    pause,       \* project_pause: event_ref, 0 for no row
    rounds,      \* schedule_reports: open or finished, and their items
    listed,      \* Core.projects: the projects enrolled, of the catalog in memory
    gate,        \* is control.gate "ready"?
    startup,     \* Core._startup (memory)
    log,         \* audit, in the order of its ids
    cursor,      \* cursor.value: audit rows consumed
    summarised,  \* latest of SYSTEM/summary: reports taken
    latest,      \* latest: signature of each topic, and whether it is a day old
    outbox,      \* outbox: the notice that waits under each id
    phase,       \* where the tick is (memory)
    view,        \* what the collection has read of the controller (memory)
    delivered,   \* history: messages that reached the chat
    days,        \* days passed, for the bound
    eve,         \* history: rows consumed before the last day passed
    restarts     \* restarts of the process, for the bound

controller == <<ops, pause, rounds, listed, gate, startup, log>>
store      == <<cursor, summarised, latest, outbox>>
memory     == <<phase, view>>
history    == <<delivered, days, eve, restarts>>
vars       == <<controller, store, memory, history>>

-----------------------------------------------------------------------------
Final    == {"succeeded", "failed"}
Origin   == {"schedule", "manual", "initial"}
Event    == {"result", "exhausted", "check", "gate", "reconciled"}
Gate     == <<NoProject, "gate">>
Summary  == <<NoProject, "summary">>
Topic    == (Project \X {"update", "retry", "initial_check"}) \cup {Gate}
Untold   == [status |-> "none", ref |-> 0, old |-> FALSE]

Status   == Final \cup {"unknown", "none"}

Row(event, op, scheduled, status, round) ==
    [event |-> event, op |-> op, scheduled |-> scheduled, status |-> status,
     round |-> round]
\* `at' is the audit row a notice is about, or the report of a summary.
Notice(topic, status, ref, at) ==
    [topic |-> topic, status |-> status, ref |-> ref, at |-> at, old |-> FALSE]

View == [ops |-> ops, pause |-> pause, rounds |-> rounds, log |-> log]
NoView == [ops |-> <<>>, pause |-> [p \in Project |-> 0], rounds |-> <<>>, log |-> <<>>]

OpenRound == IF rounds # <<>> /\ rounds[Len(rounds)].open THEN Len(rounds) ELSE 0
InRound   == OpenRound # 0 /\ ~startup
Running   == ops # <<>> /\ ops[Len(ops)].status = "running"
Uncertain == ops # <<>> /\ ops[Len(ops)].status = "unknown"

NTypeOK ==
    /\ ops \in Seq([project: Project, by: Origin, status: Final \cup {"running", "unknown"}])
    /\ pause \in [Project -> 0..Len(ops)]
    /\ rounds \in Seq([open: BOOLEAN, item: [Project -> {"quiet", "succeeded", "problem"}]])
    /\ listed \subseteq Project
    /\ gate \in BOOLEAN /\ startup \in BOOLEAN
    /\ log \in Seq([event: Event, op: 0..Len(ops), scheduled: BOOLEAN,
                    status: Status, round: 0..Len(rounds)])
    /\ cursor \in 0..Len(log)
    /\ summarised \in 0..Len(rounds)
    /\ latest \in [Topic -> [status: Status, ref: 0..Len(ops), old: BOOLEAN]]
    /\ DOMAIN outbox \subseteq Nat \ {0}
    /\ outbox \in [DOMAIN outbox -> [topic: Topic \cup {Summary}, status: Status,
                                     ref: 0..Len(ops), at: Nat \ {0}, old: BOOLEAN]]
    /\ phase \in {"idle", "read", "send", "sent"}
    /\ \A k \in DOMAIN view.log : view.log[k] = log[k]
    /\ days \in 0..MaxDays /\ restarts \in 0..MaxRestarts

NInit ==
    /\ ops = <<>> /\ pause = [p \in Project |-> 0] /\ rounds = <<>>
    /\ listed = Project /\ gate = TRUE /\ startup = FALSE /\ log = <<>>
    /\ cursor = 0 /\ summarised = 0 /\ latest = [t \in Topic |-> Untold] /\ outbox = <<>>
    /\ phase = "idle" /\ view = NoView
    /\ delivered = <<>> /\ days = 0 /\ eve = 0 /\ restarts = 0

-----------------------------------------------------------------------------
(* The controller: what it stores of rounds, operations and the gate. *)

\* Days passed, restarts, and projects that are removed for the moment.
Trouble == days + restarts + Cardinality(Project \ listed)

Writes(rows) ==
    /\ Len(log) + Len(rows) <= MaxRows
    /\ log' = log \o rows
    /\ UNCHANGED <<listed, store, memory, history>>

SetItem(p, item) ==
    rounds' = [rounds EXCEPT ![Len(rounds)].item[p] = item]
Unreported(p) == rounds[Len(rounds)].item[p] = "quiet"
Exhausted(i)  == \E k \in DOMAIN log : log[k].event = "exhausted" /\ log[k].op = i

\* A first check is at work until it has stored what its operation came to.
Checked(i) == SelectSeq(log, LAMBDA e : e.event = "check" /\ e.op = i)
CheckDue   == /\ ops # <<>> /\ ops[Len(ops)].by = "initial"
              /\ Checked(Len(ops)) # <<>>
                 => Last(Checked(Len(ops))).status # ops[Len(ops)].status

RoundBegins ==
    /\ gate /\ OpenRound = 0 /\ ~CheckDue /\ ~Running
    /\ Len(rounds) < MaxRounds
    /\ rounds' = Append(rounds, [open |-> TRUE, item |-> [p \in Project |-> "quiet"]])
    /\ Writes(<<>>)
    /\ UNCHANGED <<ops, pause, gate, startup>>

RoundEnds ==
    /\ InRound /\ ~Running
    /\ rounds' = [rounds EXCEPT ![Len(rounds)].open = FALSE]
    /\ Writes(<<>>)
    /\ UNCHANGED <<ops, pause, gate, startup>>

Dispatches(p, by) ==
    /\ gate /\ ~Running /\ ~CheckDue
    /\ p \in listed
    /\ Len(ops) < MaxOps
    /\ IF by = "schedule"
       THEN InRound /\ Unreported(p) /\ (pause[p] # 0 => ~Exhausted(pause[p]))
       ELSE OpenRound = 0
    /\ by = "initial" => pause[p] = 0
    /\ ops' = Append(ops, [project |-> p, by |-> by, status |-> "running"])
    /\ Writes(<<>>)
    /\ UNCHANGED <<pause, rounds, gate, startup>>

(* The record of a result (_finish). A failure that leaves no automatic    *)
(* retry is announced by a row of its own, before the result.              *)
Finish(status, spent) ==
    LET i == Len(ops)
        s == ops[i].by = "schedule"
        p == ops[i].project
    IN  /\ spent => status = "failed"
        /\ status = "failed" /\ pause[p] # 0 /\ (s \/ Exhausted(pause[p])) => spent
        /\ ops' = [ops EXCEPT ![i].status = status]
        /\ pause' = CASE status = "failed"    -> [pause EXCEPT ![p] = i]
                      [] status = "succeeded" -> [pause EXCEPT ![p] = 0]
                      [] OTHER                -> pause
        /\ Writes((IF spent THEN <<Row("exhausted", i, s, "failed", OpenRound)>> ELSE <<>>)
                  \o <<Row("result", i, s, status, OpenRound)>>)

Returns(status, spent) ==
    /\ Running
    /\ Finish(status, spent)
    /\ gate' = (gate /\ status # "unknown")
    /\ IF ops[Len(ops)].by = "schedule"
       THEN SetItem(ops[Len(ops)].project, IF status = "succeeded" THEN "succeeded" ELSE "problem")
       ELSE UNCHANGED rounds
    /\ UNCHANGED startup

\* A reconciliation learns the result of an operation that is unknown.
Settles(status, spent) ==
    /\ Uncertain /\ ~gate /\ ~InRound
    /\ status \in Final
    /\ Finish(status, spent)
    /\ UNCHANGED <<rounds, gate, startup>>

\* A project of the round that needs attention though nothing was dispatched.
Reported(p) ==
    /\ InRound /\ ~Running /\ p \in listed /\ Unreported(p)
    /\ SetItem(p, "problem")
    /\ Writes(<<>>)
    /\ UNCHANGED <<ops, pause, gate, startup>>

\* The one automatic retry of a paused project finds it still faulty.
RetryFails(p) ==
    /\ InRound /\ gate /\ ~Running /\ p \in listed /\ Unreported(p)
    /\ pause[p] # 0 /\ ~Exhausted(pause[p])
    /\ SetItem(p, "problem")
    /\ Writes(<<Row("exhausted", pause[p], TRUE, "failed", OpenRound)>>)
    /\ UNCHANGED <<ops, pause, gate, startup>>

\* The first check of an enrollment stores what its operation came to.
ChecksFirst ==
    /\ CheckDue /\ ~Running
    /\ ~startup
    /\ Writes(<<Row("check", Len(ops), FALSE, ops[Len(ops)].status, OpenRound)>>)
    /\ UNCHANGED <<ops, pause, rounds, gate, startup>>

Resumes(p) ==
    /\ gate /\ p \in listed /\ pause[p] # 0
    /\ pause' = [pause EXCEPT ![p] = 0]
    /\ Writes(<<>>)
    /\ UNCHANGED <<ops, rounds, gate, startup>>

(* A removal takes the project out of the catalog, and in a step of its    *)
(* own, perhaps after a restart, drops its pause; a later enrollment       *)
(* brings the project back.                                                *)
Delists(p) ==
    /\ ~Running /\ ~InRound /\ Trouble < MaxTrouble
    /\ listed' = listed \ {p}
    /\ UNCHANGED <<ops, pause, rounds, gate, startup, log, store, memory, history>>

Forgets(p) ==
    /\ p \notin listed
    /\ pause' = [pause EXCEPT ![p] = 0]
    /\ Writes(<<>>)
    /\ UNCHANGED <<ops, rounds, gate, startup>>

Relists(p) ==
    /\ ~Running /\ ~InRound
    /\ pause[p] = 0
    /\ listed' = listed \cup {p}
    /\ UNCHANGED <<ops, pause, rounds, gate, startup, log, store, memory, history>>

\* A failed check closes the gate; a registry change in doubt is announced
\* at every attempt to reconcile it, with the gate closed already.
GatePauses ==
    /\ ~Running
    /\ gate' = FALSE
    /\ Writes(<<Row("gate", 0, FALSE, "none", OpenRound)>>)
    /\ UNCHANGED <<ops, pause, rounds, startup>>

\* The gate reopens: retries cut short are announced, orphaned reports closed.
Reconciles(cut) ==
    /\ ~gate /\ ~Running /\ ~Uncertain
    /\ IsInjective(cut)
    /\ \A k \in DOMAIN cut : pause[cut[k]] # 0 /\ ~Exhausted(pause[cut[k]])
    /\ gate' = TRUE /\ startup' = FALSE
    /\ rounds' = IF startup /\ OpenRound # 0
                 THEN [rounds EXCEPT ![Len(rounds)].open = FALSE] ELSE rounds
    /\ Writes([k \in DOMAIN cut |->
                  Row("exhausted", pause[cut[k]], ops[pause[cut[k]]].by = "schedule",
                      "failed", OpenRound)]
              \o <<Row("reconciled", 0, FALSE, "none", 0)>>)
    /\ UNCHANGED <<ops, pause>>

\* The process, and with it the tick in progress, dies and starts again.
Restarts ==
    /\ restarts < MaxRestarts /\ Trouble < MaxTrouble
    /\ restarts' = restarts + 1
    /\ startup' = TRUE /\ gate' = FALSE
    /\ ops' = IF Running THEN [ops EXCEPT ![Len(ops)].status = "unknown"] ELSE ops
    /\ log' = IF Running
              THEN Append(log, Row("result", Len(ops), ops[Len(ops)].by = "schedule", "unknown", OpenRound))
              ELSE log
    /\ Len(log') <= MaxRows
    /\ phase' = "idle" /\ view' = NoView
    /\ UNCHANGED <<pause, rounds, listed, store, delivered, days, eve>>

-----------------------------------------------------------------------------
(* A collection, first half: reports, pauses and audit rows are read under *)
(* the controller's database lock.                                         *)
CollectReads ==
    /\ phase = "idle"
    /\ view' = View
    /\ phase' = "read"
    /\ UNCHANGED <<controller, store, history>>

NewReports == {r \in DOMAIN view.rounds : r > summarised /\ ~view.rounds[r].open}
Taken      == {r \in NewReports : Cardinality({q \in NewReports : q < r}) < ReportBatch}
Bug_Queued == IF Taken = {} THEN summarised ELSE Max(Taken) + 1
Queued     == IF Taken = {} THEN summarised ELSE Max(Taken)

\* Never consume an event of an unfinished or unannounced round.
Bug_Held(i) == FALSE
Bug_HeldAfter(i) == /\ view.log[i].event \in {"result", "exhausted"}
                    /\ view.log[i].scheduled
                    /\ view.log[i].round >= Queued
Held(i) == /\ view.log[i].event \in {"result", "exhausted"}
           /\ view.log[i].scheduled
           /\ view.log[i].round > Queued

Rows == {i \in cursor + 1 .. cursor + RowBatch :
            i <= Len(view.log) /\ \A j \in cursor + 1 .. i : ~Held(j)}

Consumed == IF Rows = {} THEN cursor ELSE Max(Rows)

\* A success is news for a day only.
Expired(n) == n.old /\ n.status = "succeeded"

\* A notice that asks to resume a project is void once the project was resumed.
Obsolete(n) == n.topic[2] = "retry" /\ view.pause[n.topic[1]] # n.ref

(* A new row gets the id after the largest in use, and an id is free for   *)
(* use again when its row was deleted.                                     *)
NewId(table) == IF DOMAIN table = {} THEN 1 ELSE Max(DOMAIN table) + 1
Inserted(table, n) ==
    [k \in DOMAIN table \cup {NewId(table)} |-> IF k = NewId(table) THEN n ELSE table[k]]

HasEffect(r) == \E p \in Project : view.rounds[r].item[p] # "quiet"
SummaryOf(r) == Notice(Summary,
                       IF \E p \in Project : view.rounds[r].item[p] = "problem"
                       THEN "failed" ELSE "succeeded", 0, r)

\* What one report does to the outbox: only a round with effects is told of.
TakeReport(s, r) ==
    IF r \in Taken /\ HasEffect(r)
    THEN [s EXCEPT !.outbox = Inserted(@, SummaryOf(r))]
    ELSE s

(* _enqueue: a failure already told within a day is not told again; any    *)
(* other news replaces the failures of its topic that still wait.          *)
Bug_Repeats(s, n) == /\ n.status # "succeeded"
                     /\ s.latest[n.topic].status = n.status /\ s.latest[n.topic].ref = n.ref
Repeats(s, n) == /\ n.status # "succeeded"
                 /\ s.latest[n.topic] = [status |-> n.status, ref |-> n.ref, old |-> FALSE]

Bug_Waiting(n, m) == m.topic[1] # n.topic[1] \/ m.status = "succeeded"
Waiting(n, m) == m.topic # n.topic \/ m.status = "succeeded"

Enqueue(s, n, notify) ==
    IF Repeats(s, n) THEN s
    ELSE [s EXCEPT !.latest[n.topic] = [status |-> n.status, ref |-> n.ref, old |-> FALSE],
                   !.outbox = LET others == Restrict(@, {k \in DOMAIN @ : Waiting(n, @[k])})
                              IN  IF notify THEN Inserted(others, n) ELSE others]

LatestRow(i) == \A j \in DOMAIN view.log :
                    j > i => view.log[j].event # view.log[i].event \/ view.log[j].op # view.log[i].op

(* What one audit row does to the outbox: the final results of operations  *)
(* other than first checks, which tell their own; spent retries still in   *)
(* force, of projects enrolled now; pauses of all writes and their end.    *)
ConsumeRow(s, i) ==
    LET e == view.log[i]
        o == view.ops[e.op]
    IN  CASE e.event = "result" /\ LatestRow(i) /\ o.by # "initial" ->
                Enqueue(s, Notice(<<o.project, "update">>, o.status, 0, i),
                        ~(o.by = "schedule" /\ e.round # 0 /\ o.status = "succeeded"))
          [] e.event = "exhausted" /\ o.project \in listed /\ view.pause[o.project] = e.op ->
                Enqueue(s, Notice(<<o.project, "retry">>, "failed", e.op, i), TRUE)
          [] e.event = "check" /\ LatestRow(i) ->
                Enqueue(s, Notice(<<o.project, "initial_check">>, e.status, e.op, i), TRUE)
          [] e.event = "gate" /\ e.round = 0 ->
                Enqueue(s, Notice(Gate, "failed", 0, i), TRUE)
          [] e.event = "reconciled" /\ s.latest[Gate].status = "failed" ->
                Enqueue(s, Notice(Gate, "succeeded", 0, i), TRUE)
          [] OTHER -> s

\* What a collection starts from: the rows that are not void.
Cleared ==
    [latest |-> latest,
     outbox |-> Restrict(outbox, {k \in DOMAIN outbox :
                                     ~Expired(outbox[k]) /\ ~Obsolete(outbox[k])})]

\* The outbox after each report, then after each audit row, in their order.
Summarised[r \in summarised .. Queued] ==
    IF r = summarised THEN Cleared ELSE TakeReport(Summarised[r - 1], r)

Collected[i \in cursor .. Consumed] ==
    IF i = cursor THEN Summarised[Queued] ELSE ConsumeRow(Collected[i - 1], i)

(* Second half, one transaction of notices.sqlite3: drop what is void, put *)
(* the summaries first, then consume the rows and move the cursor.         *)
CollectWrites ==
    /\ phase = "read"
    /\ phase' = "send"
    /\ view' = NoView
    /\ cursor' = Consumed
    /\ summarised' = Queued
    /\ LET end == Collected[Consumed]
       IN  latest' = end.latest /\ outbox' = end.outbox
    /\ UNCHANGED <<controller, history>>

(* Delivery: with a bound chat, what is pending is sent in its order, each *)
(* message before its row is deleted.                                      *)
Sendable == {k \in DOMAIN outbox : ~Expired(outbox[k])}
Bug_Next1 == CHOOSE k \in Sendable : \A j \in Sendable : k >= j
Next1    == CHOOSE k \in Sendable : \A j \in Sendable : k <= j

Message(n) == [topic |-> n.topic, status |-> n.status, ref |-> n.ref, at |-> n.at]

Sends ==
    /\ phase = "send" /\ Sendable # {}
    /\ LET n == Message(outbox[Next1])
       IN  delivered' = IF delivered # <<>> /\ Last(delivered) = n THEN delivered
                        ELSE Append(delivered, n)
    /\ phase' = "sent"
    /\ UNCHANGED <<controller, store, view, days, eve, restarts>>

Deletes ==
    /\ phase = "sent"
    /\ outbox' = Restrict(outbox, DOMAIN outbox \ {Next1})
    /\ phase' = "send"
    /\ UNCHANGED <<controller, cursor, summarised, latest, view, history>>

\* Nothing is left to send, no chat is bound, or Telegram is out of reach.
TickEnds ==
    /\ phase = "send"
    /\ phase' = "idle"
    /\ UNCHANGED <<controller, store, view, history>>

DayPasses ==
    /\ phase = "idle" /\ days < MaxDays /\ Trouble < MaxTrouble
    /\ \E t \in Topic : latest[t] # Untold
    /\ days' = days + 1
    /\ eve' = cursor
    /\ latest' = [t \in Topic |-> [latest[t] EXCEPT !.old = TRUE]]
    /\ outbox' = [k \in DOMAIN outbox |-> [outbox[k] EXCEPT !.old = TRUE]]
    /\ UNCHANGED <<controller, cursor, summarised, memory, delivered, restarts>>

-----------------------------------------------------------------------------
Controller ==
    \/ RoundBegins
    \/ RoundEnds
    \/ \E p \in Project, by \in Origin : Dispatches(p, by)
    \/ \E status \in Final \cup {"unknown"}, spent \in BOOLEAN : Returns(status, spent)
    \/ \E status \in Final, spent \in BOOLEAN : Settles(status, spent)
    \/ \E p \in Project : Reported(p) \/ RetryFails(p) \/ Resumes(p)
    \/ \E p \in Project : Delists(p) \/ Forgets(p) \/ Relists(p)
    \/ \E cut \in SeqOf(Project, Cardinality(Project)) : Reconciles(cut)
    \/ ChecksFirst
    \/ GatePauses

Collector == CollectReads \/ CollectWrites \/ Deletes \/ TickEnds

NNext == Controller \/ Restarts \/ Collector \/ Sends \/ DayPasses

NSpec == NInit /\ [][NNext]_vars

(* A tick follows every two seconds, and Telegram is in reach and the chat *)
(* bound again and again.                                                  *)
NFairness == WF_vars(Collector) /\ SF_vars(Sends)

NFairSpec == NSpec /\ NFairness

=============================================================================
