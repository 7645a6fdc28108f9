---------------------------- MODULE NoticesProofs ----------------------------
(***************************************************************************)
(* What the administrator is told, proved for every set of projects, every *)
(* batch size and any number of operations, rounds, rows, days and         *)
(* restarts.                                                               *)
(***************************************************************************)
EXTENDS NoticesProperties, WellFoundedInduction, NaturalsInduction, TLAPS

-----------------------------------------------------------------------------
(* The inductive invariant. *)

\* What the rows of the audit log say of the operations they name.
LedgerInv ==
    /\ \A k \in DOMAIN log : log[k].event \in {"result", "exhausted", "check"} => log[k].op # 0
    /\ \A k \in DOMAIN log : log[k].event \in {"result", "check"} => log[k].status # "none"
    /\ \A k \in DOMAIN log : log[k].event = "exhausted" => ops[log[k].op].status = "failed"
    /\ \A k \in DOMAIN log : log[k].event = "result" /\ ~Superseded(k)
                             => ops[log[k].op].status = log[k].status
    /\ \A p \in Project : pause[p] # 0 => /\ ops[pause[p]].status = "failed"
                                          /\ ops[pause[p]].project = p

SpentBy(op, c) == \E i \in 1 .. c : log[i].event = "exhausted" /\ log[i].op = op

\* What a collection has read is an earlier state of what it reads.
ViewInv ==
    phase = "read" =>
        /\ Len(view.log) \in Nat /\ DOMAIN view.log = 1 .. Len(view.log)
        /\ cursor <= Len(view.log) /\ Len(view.log) <= Len(log)
        /\ \A k \in DOMAIN view.log : view.log[k] = log[k] /\ log[k].op \in 0 .. Len(view.ops)
        /\ Len(view.ops) \in Nat /\ Len(view.ops) <= Len(ops)
        /\ \A i \in 1 .. Len(view.ops) : /\ view.ops[i].project = ops[i].project
                                         /\ view.ops[i].by = ops[i].by
        /\ \A k \in DOMAIN view.log : log[k].event = "result" /\ LatestRow(k)
                                      => view.ops[log[k].op].status = log[k].status
        /\ \A p \in Project : pause[p] # 0 /\ SpentBy(pause[p], Len(view.log))
                              => view.pause[p] = pause[p]
        /\ Len(view.rounds) \in Nat /\ DOMAIN view.rounds = 1 .. Len(view.rounds)
        /\ summarised <= Len(view.rounds) /\ Len(view.rounds) <= Len(rounds)

Sent    == [topic: Topic \cup {Summary}, status: Status, ref: 0 .. Len(ops), at: Nat \ {0}]
Waits   == [topic: Topic \cup {Summary}, status: Status, ref: 0 .. Len(ops), at: Nat \ {0},
            old: BOOLEAN]

\* A table with notices under positive ids, one of them the largest.
Table(t) == /\ DOMAIN t \subseteq Nat \ {0}
            /\ t \in [DOMAIN t -> Waits]
            /\ \E b \in DOMAIN t \cup {0} : \A k \in DOMAIN t : k <= b

OfRound(m) == m.topic[2] \in {"update", "retry"} /\ log[m.at].scheduled

\* A message when c rows and q reports are taken.
Within(m, c, q) == /\ m.topic = Summary => m.at <= q
                   /\ m.topic # Summary => m.at <= c
                   /\ OfRound(m) => log[m.at].round <= q

\* What holds of two messages told one after the other.
InOrder(m, n) ==
    /\ m.topic = n.topic => m.at < n.at
    /\ n.topic = Summary /\ OfRound(m) => log[m.at].round < n.at

Ordered(t) ==
    /\ \A i, j \in DOMAIN delivered : i < j => InOrder(delivered[i], delivered[j])
    /\ \A k, m \in DOMAIN t : k < m => InOrder(t[k], t[m])
    /\ \A i \in DOMAIN delivered, k \in DOMAIN t :
          \/ InOrder(delivered[i], t[k])
          \/ /\ i = Len(delivered) /\ delivered[i] = Message(t[k])
             /\ \A m \in DOMAIN t : k <= m

OutboxInv(t, c, q) ==
    /\ Table(t)
    /\ \A k \in DOMAIN t : Within(t[k], c, q)
    /\ \A i \in DOMAIN delivered : Within(delivered[i], c, q)
    /\ Ordered(t)

\* The last message about a topic, sent or waiting in the table.
LastIs(t, topic, status) ==
    \/ \E k \in DOMAIN t : /\ t[k].topic = topic /\ t[k].status = status
                           /\ \A m \in DOMAIN t : k < m => t[m].topic # topic
    \/ /\ \E i \in DOMAIN delivered :
             /\ delivered[i].topic = topic /\ delivered[i].status = status
             /\ \A j \in DOMAIN delivered : i < j => delivered[j].topic # topic
       /\ \A k \in DOMAIN t : t[k].topic # topic

\* A message about the spent retry of an operation.
Asked(t, p, op) ==
    \/ \E i \in DOMAIN delivered : delivered[i].topic = <<p, "retry">> /\ delivered[i].ref = op
    \/ \E k \in DOMAIN t : /\ t[k].topic = <<p, "retry">> /\ t[k].ref = op
                           /\ t[k].status # "succeeded"

\* Row i is an event of p that its topic tells of.
About(i, p, event) == /\ log[i].event = event
                      /\ ops[log[i].op].project = p
                      /\ event = "result" => ops[log[i].op].by # "initial"

\* The signature of a topic is that of the latest consumed row in force.
Known(l, c, p, event, topic) ==
    \A i \in 1 .. c :
        (/\ About(i, p, event) /\ \A j \in i + 1 .. c : ~About(j, p, event)
         /\ log[i].status # "succeeded" /\ ~Superseded(i))
        => l[<<p, topic>>].status = log[i].status

\* A failure that is the signature of a topic is its last message.
Backed(l, t, p, topic) == l[<<p, topic>>].status \notin {"none", "succeeded"}
                          => LastIs(t, <<p, topic>>, l[<<p, topic>>].status)

NewsInv(l, t, c) ==
    /\ l \in [Topic -> [status: Status, ref: 0 .. Len(ops), old: BOOLEAN]]
    /\ \A p \in Project :
          /\ Backed(l, t, p, "update") /\ Backed(l, t, p, "initial_check")
          /\ Known(l, c, p, "result", "update") /\ Known(l, c, p, "check", "initial_check")
          /\ l[<<p, "retry">>].ref # 0 => SpentBy(l[<<p, "retry">>].ref, c)
          /\ p \in listed /\ pause[p] # 0 /\ SpentBy(pause[p], c) => Asked(t, p, pause[p])

Fresh(t) == \A k \in DOMAIN t : ~Expired(t[k])

TickInv ==
    /\ phase \in {"send", "sent"} => Fresh(outbox)
    /\ phase = "sent" => /\ DOMAIN outbox # {} /\ delivered # <<>>
                         /\ Last(delivered) = Message(outbox[Next1])

StoreInv(l, t, c, q) == OutboxInv(t, c, q) /\ NewsInv(l, t, c)

NoticesInv ==
    /\ NTypeOK /\ LedgerInv /\ ViewInv
    /\ phase # "read" => view = NoView
    /\ delivered \in Seq(Sent)
    /\ StoreInv(latest, outbox, cursor, summarised)
    /\ TickInv

-----------------------------------------------------------------------------
(* Sets of numbers. *)

\* Induction over a set of numbers.
LEMMA SetInduction ==
    ASSUME NEW S, 0 \in S, \A n \in Nat : n \in S => n + 1 \in S
    PROVE  Nat \subseteq S
<1>1. SUFFICES ASSUME Nat \ S # {}
               PROVE  FALSE
  OBVIOUS
<1>2. \E x \in Nat \ S : \A y \in Nat \ S : ~(<<y, x>> \in OpToRel(<, Nat))
  BY <1>1, NatLessThanWellFounded, WFMin
<1>3. PICK x \in Nat \ S : \A y \in Nat \ S : ~(y < x)
  BY <1>2 DEF OpToRel
<1>4. x # 0 /\ x - 1 \in Nat /\ x - 1 < x
  BY <1>3
<1>5. x - 1 \in S
  BY <1>3, <1>4
<1>6. QED
  BY <1>3, <1>4, <1>5

\* A set of numbers that is not empty has a least one.
LEMMA LeastOf ==
    ASSUME NEW S \in SUBSET Nat, S # {}
    PROVE  \E x \in S : \A y \in S : x <= y
<1>1. \E x \in S : \A y \in S : ~(<<y, x>> \in OpToRel(<, Nat))
  BY NatLessThanWellFounded, WFMin
<1>2. PICK x \in S : \A y \in S : ~(y < x)
  BY <1>1 DEF OpToRel
<1>3. x \in S /\ \A y \in S : x <= y
  BY <1>2
<1>4. QED
  BY <1>3

\* A bounded one has a greatest one, which Max names.
LEMMA GreatestOf ==
    ASSUME NEW S \in SUBSET Nat, S # {}, NEW n \in Nat, \A i \in S : i <= n
    PROVE  Max(S) \in S /\ \A i \in S : i <= Max(S)
<1> DEFINE B == {m \in Nat : \A i \in S : i <= m}
<1>1. n \in B
  OBVIOUS
<1>2. B \in SUBSET Nat /\ B # {}
  BY <1>1
<1>3. PICK m \in B : \A k \in B : m <= k
  <2> HIDE DEF B
  <2>1. QED
    BY <1>2, LeastOf
<1>4. m \in S
  <2>1. SUFFICES ASSUME m \notin S
                 PROVE  FALSE
    OBVIOUS
  <2>2. PICK i \in S : TRUE
    OBVIOUS
  <2>3. \A j \in S : j < m
    BY <2>1
  <2>4. m - 1 \in B
    BY <2>2, <2>3
  <2>5. QED
    BY <1>3, <2>4
<1>5. \E x \in S : \A y \in S : x >= y
  BY <1>4
<1>6. QED
  BY <1>5 DEF Max

-----------------------------------------------------------------------------
(* The table. *)

\* No topic of a notice is that of the summaries.
LEMMA Topics ==
    /\ Summary \notin Topic /\ Gate \in Topic /\ Gate[2] = "gate" /\ Summary[2] = "summary"
    /\ \A p \in Project, a \in {"update", "retry", "initial_check"} :
          /\ <<p, a>> \in Topic /\ <<p, a>> # Gate /\ <<p, a>> # Summary
          /\ <<p, a>>[1] = p /\ <<p, a>>[2] = a
    /\ \A t \in Topic \cup {Summary} :
          t[2] \in {"update", "retry", "initial_check"}
          => t \in Topic /\ t[1] \in Project /\ t = <<t[1], t[2]>>
BY NoticeAssumption DEF Topic, Gate, Summary

\* An insertion adds one row, after all others.
LEMMA InsertedTable ==
    ASSUME NEW t, Table(t), NEW n \in Waits
    PROVE  /\ Table(Inserted(t, n))
           /\ NewId(t) \in Nat \ {0} /\ \A k \in DOMAIN t : k < NewId(t)
           /\ DOMAIN Inserted(t, n) = DOMAIN t \cup {NewId(t)}
           /\ Inserted(t, n)[NewId(t)] = n
           /\ \A k \in DOMAIN t : Inserted(t, n)[k] = t[k]
<1> DEFINE d == NewId(t)
<1>1. d \in Nat \ {0} /\ \A k \in DOMAIN t : k < d
  <2>1. CASE DOMAIN t = {}
    BY <2>1 DEF NewId
  <2>2. CASE DOMAIN t # {}
    <3>1. PICK b \in DOMAIN t \cup {0} : \A k \in DOMAIN t : k <= b
      BY DEF Table
    <3>2. b \in Nat /\ DOMAIN t \in SUBSET Nat
      BY <3>1 DEF Table
    <3>3. Max(DOMAIN t) \in DOMAIN t /\ \A k \in DOMAIN t : k <= Max(DOMAIN t)
      BY ONLY <2>2, <3>1, <3>2, GreatestOf
    <3>4. d = Max(DOMAIN t) + 1
      BY <2>2 DEF NewId
    <3>5. QED
      BY <3>2, <3>3, <3>4
  <2>3. QED
    BY <2>1, <2>2
<1> HIDE DEF d
<1>2. /\ DOMAIN Inserted(t, n) = DOMAIN t \cup {d} /\ Inserted(t, n)[d] = n
      /\ \A k \in DOMAIN t : Inserted(t, n)[k] = t[k]
  BY <1>1 DEF Inserted, d, Table
<1>3. Table(Inserted(t, n))
  <2>1. DOMAIN Inserted(t, n) \subseteq Nat \ {0}
    BY <1>1, <1>2 DEF Table
  <2>2. \A k \in DOMAIN Inserted(t, n) : Inserted(t, n)[k] \in Waits
    BY <1>2 DEF Table
  <2>3. Inserted(t, n) = [k \in DOMAIN Inserted(t, n) |-> Inserted(t, n)[k]]
    BY DEF Inserted
  <2>4. Inserted(t, n) \in [DOMAIN Inserted(t, n) -> Waits]
    BY ONLY <2>2, <2>3
  <2>5. \A k \in DOMAIN Inserted(t, n) : k <= d
    BY <1>1, <1>2 DEF Table
  <2>6. QED
    BY <1>2, <2>1, <2>4, <2>5 DEF Table
<1>4. QED
  BY <1>1, <1>2, <1>3 DEF d

\* What is left of a table is a table.
LEMMA RestrictedTable ==
    ASSUME NEW t, Table(t), NEW S \in SUBSET DOMAIN t
    PROVE  /\ Table(Restrict(t, S)) /\ DOMAIN Restrict(t, S) = S
           /\ \A k \in S : Restrict(t, S)[k] = t[k]
<1>1. DOMAIN Restrict(t, S) = S /\ \A k \in S : Restrict(t, S)[k] = t[k]
  BY DEF Restrict
<1>2. S \in SUBSET Nat /\ S \subseteq Nat \ {0}
  BY DEF Table
<1>3. \E b \in S \cup {0} : \A k \in S : k <= b
  <2>1. CASE S = {}
    BY <2>1
  <2>2. CASE S # {}
    <3>1. PICK b \in DOMAIN t \cup {0} : \A k \in DOMAIN t : k <= b
      BY DEF Table
    <3>2. b \in Nat /\ \A k \in S : k <= b
      BY <3>1 DEF Table
    <3>3. Max(S) \in S /\ \A k \in S : k <= Max(S)
      BY ONLY <1>2, <2>2, <3>2, GreatestOf
    <3>4. QED
      BY <3>3
  <2>3. QED
    BY <2>1, <2>2
<1>4. Restrict(t, S) \in [S -> Waits]
  BY DEF Restrict, Table
<1>5. QED
  BY <1>1, <1>2, <1>3, <1>4 DEF Table

-----------------------------------------------------------------------------
(* The controller: its log, operations and rounds only grow. *)

Operation == [project: Project, by: Origin, status: Final \cup {"running", "unknown"}]
Report    == [open: BOOLEAN, item: [Project -> {"quiet", "succeeded", "problem"}]]
Entry     == [event: Event, op: 0 .. Len(ops), scheduled: BOOLEAN, status: Status,
              round: 0 .. Len(rounds)]

CoreTypes ==
    /\ ops \in Seq(Operation) /\ pause \in [Project -> 0 .. Len(ops)]
    /\ rounds \in Seq(Report) /\ gate \in BOOLEAN /\ startup \in BOOLEAN

\* What a step of the controller or a restart does, by the rows it writes.
Records(rows) ==
    /\ CoreTypes'
    /\ rows \in Seq(Entry') /\ log' = log \o rows
    /\ \A k \in 1 .. Len(rows) :
          /\ rows[k].event \in {"result", "exhausted", "check"} => rows[k].op # 0
          /\ rows[k].event \in {"result", "check"} => rows[k].status # "none"
          /\ rows[k].event = "exhausted" => ops'[rows[k].op].status = "failed"
          /\ rows[k].event = "result" => ops'[rows[k].op].status = rows[k].status
    /\ Len(ops) <= Len(ops') /\ Len(rounds) <= Len(rounds')
    /\ \A i \in 1 .. Len(ops) :
          /\ ops'[i].project = ops[i].project /\ ops'[i].by = ops[i].by
          /\ ops[i].status = "failed" => ops'[i].status = "failed"
          /\ ops'[i].status # ops[i].status
             => \E k \in 1 .. Len(rows) : rows[k].event = "result" /\ rows[k].op = i
    /\ \A p \in Project : pause'[p] # 0 =>
          /\ ops'[pause'[p]].status = "failed" /\ ops'[pause'[p]].project = p
          /\ pause'[p] = pause[p] \/ ops[pause'[p]].status # "failed"

\* A project is enrolled without a pause.
Lists == listed' \subseteq Project /\ \A p \in listed' \ listed : pause'[p] = 0

\* What the outbox needs to know of such a step.
Grows ==
    /\ Lists
    /\ CoreTypes' /\ log' \in Seq(Entry')
    /\ Len(log) <= Len(log') /\ \A k \in 1 .. Len(log) : log'[k] = log[k]
    /\ Len(ops) <= Len(ops') /\ Len(rounds) <= Len(rounds')
    /\ \A i \in 1 .. Len(ops) : /\ ops'[i].project = ops[i].project
                                /\ ops'[i].by = ops[i].by
    /\ \A p \in Project : pause'[p] # 0 =>
          pause'[p] = pause[p] \/ ~SpentBy(pause'[p], Len(log))

\* The shape of a typed sequence.
LEMMA SeqShape ==
    ASSUME NEW S, NEW s \in Seq(S)
    PROVE  /\ Len(s) \in Nat /\ DOMAIN s = 1 .. Len(s)
           /\ \A i \in 1 .. Len(s) : s[i] \in S
           /\ s = [i \in 1 .. Len(s) |-> s[i]]
OBVIOUS

\* Rows put behind those of the log.
LEMMA Appended ==
    ASSUME NEW S, NEW s \in Seq(S), NEW t \in Seq(S)
    PROVE  /\ s \o t \in Seq(S) /\ Len(s \o t) = Len(s) + Len(t)
           /\ \A i \in 1 .. Len(s) : (s \o t)[i] = s[i]
           /\ \A i \in 1 .. Len(t) : (s \o t)[Len(s) + i] = t[i]
OBVIOUS

\* The log is typed by what has grown since.
LEMMA LogTyped ==
    ASSUME log \in Seq(Entry), Len(ops) \in Nat, Len(ops') \in Nat, Len(ops) <= Len(ops'),
           Len(rounds) \in Nat, Len(rounds') \in Nat, Len(rounds) <= Len(rounds')
    PROVE  log \in Seq(Entry')
<1>1. Entry \subseteq Entry'
  BY DEF Entry
<1>2. Seq(Entry) \subseteq Seq(Entry')
  <2> DEFINE A == Entry
             B == Entry'
  <2>1. A \subseteq B
    BY <1>1
  <2> HIDE DEF A, B
  <2>2. ASSUME NEW s \in Seq(A)
        PROVE  s \in Seq(B)
    <3>1. Len(s) \in Nat /\ s = [i \in 1 .. Len(s) |-> s[i]] /\ \A i \in 1 .. Len(s) : s[i] \in A
      BY <2>2, SeqShape
    <3>2. s \in [1 .. Len(s) -> B]
      BY ONLY <2>1, <3>1
    <3>3. QED
      BY <3>1, <3>2
  <2>3. QED
    BY <2>2 DEF A, B
<1>3. QED
  BY <1>2

LEMMA RecordsGrows ==
    ASSUME CoreTypes, log \in Seq(Entry), LedgerInv, NEW rows, Records(rows), Lists
    PROVE  Grows /\ LedgerInv'
<1>1. /\ Len(ops) \in Nat /\ Len(ops') \in Nat /\ Len(rounds) \in Nat /\ Len(rounds') \in Nat
      /\ Len(log) \in Nat /\ DOMAIN log = 1 .. Len(log) /\ Len(rows) \in Nat
  BY DEF CoreTypes, Records
<1>2. log \in Seq(Entry') /\ rows \in Seq(Entry')
  BY <1>1, LogTyped DEF Records
<1>3. /\ log' \in Seq(Entry') /\ Len(log') = Len(log) + Len(rows)
      /\ \A k \in 1 .. Len(log) : log'[k] = log[k]
      /\ \A k \in 1 .. Len(rows) : log'[Len(log) + k] = rows[k]
  BY <1>2, Appended DEF Records
<1>4. DOMAIN log' = 1 .. Len(log') /\ Len(log') \in Nat
  BY <1>3, SeqShape
<1>5. \A k \in DOMAIN log' : \/ k \in 1 .. Len(log) /\ log'[k] = log[k]
                             \/ k - Len(log) \in 1 .. Len(rows) /\ log'[k] = rows[k - Len(log)]
  BY <1>1, <1>3, <1>4
<1>6. \A k \in 1 .. Len(log) : log[k] \in Entry
  BY SeqShape
<1>7. Grows
  <2>1. ASSUME NEW p \in Project, pause'[p] # 0, pause'[p] # pause[p],
               SpentBy(pause'[p], Len(log))
        PROVE  FALSE
    <3>1. ops[pause'[p]].status # "failed"
      BY <2>1 DEF Records
    <3>2. PICK i \in 1 .. Len(log) : log[i].event = "exhausted" /\ log[i].op = pause'[p]
      BY <2>1 DEF SpentBy
    <3>3. QED
      BY <1>1, <3>1, <3>2 DEF LedgerInv
  <2>2. \A p \in Project : pause'[p] # 0 =>
           pause'[p] = pause[p] \/ ~SpentBy(pause'[p], Len(log))
    BY <2>1
  <2>3. Len(log) <= Len(log')
    BY <1>1, <1>3
  <2>4. QED
    BY <1>3, <2>2, <2>3 DEF Grows, Records
<1>8. LedgerInv'
  <2>1. \A k \in DOMAIN log' :
           /\ log'[k].event \in {"result", "exhausted", "check"} => log'[k].op # 0
           /\ log'[k].event \in {"result", "check"} => log'[k].status # "none"
    BY <1>1, <1>5 DEF LedgerInv, Records
  <2>2. ASSUME NEW k \in DOMAIN log', log'[k].event = "exhausted"
        PROVE  ops'[log'[k].op].status = "failed"
    <3>1. CASE k \in 1 .. Len(log) /\ log'[k] = log[k]
      <4>1. log[k].op \in 1 .. Len(ops) /\ ops[log[k].op].status = "failed"
        BY <1>1, <1>6, <2>2, <3>1 DEF LedgerInv, Entry
      <4>2. QED
        BY <3>1, <4>1 DEF Records
    <3>2. QED
      BY <1>5, <2>2, <3>1 DEF Records
  <2>3. ASSUME NEW k \in DOMAIN log', log'[k].event = "result",
               ~(\E j \in k + 1 .. Len(log') : log'[j].event = log'[k].event /\ log'[j].op = log'[k].op)
        PROVE  ops'[log'[k].op].status = log'[k].status
    <3>1. CASE k \in 1 .. Len(log) /\ log'[k] = log[k]
      <4>1. ~Superseded(k)
        BY <1>1, <1>3, <2>3, <3>1 DEF Superseded
      <4>2. log[k].op \in 1 .. Len(ops) /\ ops[log[k].op].status = log[k].status
        BY <1>1, <1>6, <2>3, <3>1, <4>1 DEF LedgerInv, Entry
      <4>3. ASSUME NEW j \in 1 .. Len(rows), rows[j].event = "result", rows[j].op = log[k].op
            PROVE  FALSE
        <5>1. Len(log) + j \in k + 1 .. Len(log') /\ log'[Len(log) + j] = rows[j]
          BY <1>1, <1>3, <3>1, <4>3
        <5>2. QED
          BY <2>3, <3>1, <4>3, <5>1
      <4>4. ops'[log[k].op].status = ops[log[k].op].status
        BY <4>2, <4>3 DEF Records
      <4>5. QED
        BY <3>1, <4>2, <4>4
    <3>2. QED
      BY <1>5, <2>3, <3>1 DEF Records
  <2>4. \A p \in Project : pause'[p] # 0 => /\ ops'[pause'[p]].status = "failed"
                                            /\ ops'[pause'[p]].project = p
    BY DEF Records
  <2>5. QED
    BY <2>1, <2>2, <2>3, <2>4 DEF LedgerInv, Superseded
<1>9. QED
  BY <1>7, <1>8

\* No row, the operations as they were, and at most some pauses ended.
LEMMA RecordsNothing ==
    ASSUME CoreTypes, LedgerInv, CoreTypes', log' = log \o <<>>, ops' = ops,
           Len(rounds) <= Len(rounds'),
           \A p \in Project : pause'[p] = pause[p] \/ pause'[p] = 0
    PROVE  Records(<<>>)
<1>1. Len(<<>>) = 0 /\ <<>> \in Seq(Entry')
  OBVIOUS
<1>2. Len(ops) \in Nat
  BY DEF CoreTypes
<1>3. \A p \in Project : pause'[p] # 0 => /\ ops'[pause'[p]].status = "failed"
                                          /\ ops'[pause'[p]].project = p
                                          /\ pause'[p] = pause[p]
  BY DEF LedgerInv
<1>4. QED
  BY <1>1, <1>2, <1>3 DEF Records

LEMMA OneRow ==
    ASSUME NEW S, NEW x \in S
    PROVE  /\ <<x>> \in Seq(S) /\ Len(<<x>>) = 1 /\ <<x>>[1] = x
           /\ <<>> \o <<x>> = <<x>>
OBVIOUS

LEMMA TwoRows ==
    ASSUME NEW S, NEW x \in S, NEW y \in S
    PROVE  /\ <<x>> \o <<y>> \in Seq(S) /\ Len(<<x>> \o <<y>>) = 2
           /\ (<<x>> \o <<y>>)[1] = x /\ (<<x>> \o <<y>>)[2] = y
<1>1. <<x>> \in Seq(S) /\ <<y>> \in Seq(S)
  OBVIOUS
<1>2. Len(<<x>>) = 1 /\ Len(<<y>>) = 1 /\ <<x>>[1] = x /\ <<y>>[1] = y
  OBVIOUS
<1> DEFINE s == <<x>>
           t == <<y>>
<1> HIDE DEF s, t
<1>3. s \o t \in Seq(S) /\ Len(s \o t) = Len(s) + Len(t)
      /\ (s \o t)[1] = s[1] /\ (s \o t)[Len(s) + 1] = t[1]
  <2>1. /\ s \in Seq(S) /\ t \in Seq(S) /\ 1 \in 1 .. Len(s) /\ 1 \in 1 .. Len(t)
    BY <1>1, <1>2 DEF s, t
  <2>2. QED
    BY ONLY <2>1, Appended
<1>4. QED
  BY <1>2, <1>3 DEF s, t

\* The round a row is written in.
LEMMA OpenRoundTyped ==
    ASSUME CoreTypes
    PROVE  OpenRound \in 0 .. Len(rounds)
<1>1. Len(rounds) \in Nat
  BY DEF CoreTypes
<1>2. QED
  BY <1>1 DEF OpenRound

\* A row that is no result: nothing else of the ledger changes.
LEMMA RecordsRow ==
    ASSUME CoreTypes, LedgerInv, CoreTypes', UNCHANGED <<ops, pause>>,
           Len(rounds) <= Len(rounds'),
           NEW e, e \in Entry', log' = log \o <<e>>, e.event # "result",
           e.event \in {"exhausted", "check"} => e.op # 0,
           e.event = "check" => e.status # "none",
           e.event = "exhausted" => ops[e.op].status = "failed"
    PROVE  Records(<<e>>)
<1>1. <<e>> \in Seq(Entry') /\ Len(<<e>>) = 1 /\ <<e>>[1] = e
  BY OneRow
<1>2. Len(ops) \in Nat /\ \A k \in 1 .. Len(<<e>>) : <<e>>[k] = e
  BY <1>1 DEF CoreTypes
<1>3. QED
  BY <1>1, <1>2 DEF Records, LedgerInv

\* A change of the last round only.
LEMMA LastRound ==
    ASSUME CoreTypes, rounds # <<>>
    PROVE  /\ Len(rounds) \in 1 .. Len(rounds)
           /\ [rounds EXCEPT ![Len(rounds)].open = FALSE] \in Seq(Report)
           /\ Len([rounds EXCEPT ![Len(rounds)].open = FALSE]) = Len(rounds)
           /\ \A p \in Project, item \in {"quiet", "succeeded", "problem"} :
                 /\ [rounds EXCEPT ![Len(rounds)].item[p] = item] \in Seq(Report)
                 /\ Len([rounds EXCEPT ![Len(rounds)].item[p] = item]) = Len(rounds)
<1>1. Len(rounds) \in Nat /\ rounds \in [1 .. Len(rounds) -> Report] /\ Len(rounds) # 0
  <2> DEFINE R == Report
  <2>1. rounds \in Seq(R)
    BY DEF CoreTypes
  <2> HIDE DEF R
  <2>2. QED
    BY <2>1 DEF R
<1>2. Len(rounds) \in 1 .. Len(rounds)
  BY <1>1
<1>3. rounds[Len(rounds)] \in Report
  BY <1>1, <1>2
<1>4. [rounds[Len(rounds)] EXCEPT !.open = FALSE] \in Report
  BY <1>3 DEF Report
<1>5. ASSUME NEW r \in Report
      PROVE  /\ [rounds EXCEPT ![Len(rounds)] = r] \in Seq(Report)
             /\ Len([rounds EXCEPT ![Len(rounds)] = r]) = Len(rounds)
  <2> DEFINE R == Report
             s == [rounds EXCEPT ![Len(rounds)] = r]
  <2>1. s \in [1 .. Len(rounds) -> R]
    BY <1>1, <1>5
  <2>2. r \in R
    BY <1>5
  <2> HIDE DEF R, s
  <2>3. s \in Seq(R) /\ Len(s) = Len(rounds)
    BY <1>1, <2>1
  <2>4. QED
    BY <2>3 DEF R, s
<1>6. ASSUME NEW p \in Project, NEW item \in {"quiet", "succeeded", "problem"}
      PROVE  [rounds[Len(rounds)] EXCEPT !.item[p] = item] \in Report
  BY <1>3 DEF Report
<1>7. QED
  BY <1>2, <1>4, <1>5, <1>6

\* The status of the last operation changes.
LEMMA LastOperation ==
    ASSUME CoreTypes, ops # <<>>, NEW status \in Final \cup {"running", "unknown"}
    PROVE  LET new == [ops EXCEPT ![Len(ops)].status = status]
           IN  /\ Len(ops) \in 1 .. Len(ops) /\ Len(ops) \in Nat
               /\ new \in Seq(Operation) /\ Len(new) = Len(ops)
               /\ new[Len(ops)].status = status
               /\ \A i \in 1 .. Len(ops) :
                     /\ new[i].project = ops[i].project /\ new[i].by = ops[i].by
                     /\ i # Len(ops) => new[i] = ops[i]
<1> DEFINE R == Operation
           new == [ops EXCEPT ![Len(ops)].status = status]
<1>1. ops \in Seq(R)
  BY DEF CoreTypes
<1>2. ops \in [1 .. Len(ops) -> R] /\ Len(ops) \in Nat /\ Len(ops) # 0
  <2> HIDE DEF R
  <2>1. QED
    BY <1>1
<1>3. Len(ops) \in 1 .. Len(ops)
  BY <1>2
<1>4. /\ [ops[Len(ops)] EXCEPT !.status = status] \in Operation
      /\ [ops[Len(ops)] EXCEPT !.status = status].project = ops[Len(ops)].project
      /\ [ops[Len(ops)] EXCEPT !.status = status].by = ops[Len(ops)].by
      /\ [ops[Len(ops)] EXCEPT !.status = status].status = status
  BY <1>2, <1>3 DEF Operation
<1>5. \A i \in 1 .. Len(ops) : new[i] = IF i = Len(ops) THEN [ops[Len(ops)] EXCEPT !.status = status]
                                        ELSE ops[i]
  BY <1>2
<1>6. new \in [1 .. Len(ops) -> R]
  BY <1>2, <1>4
<1>7. new \in Seq(R) /\ Len(new) = Len(ops)
  <2> HIDE DEF R, new
  <2>1. QED
    BY <1>2, <1>6
<1>8. QED
  BY <1>2, <1>3, <1>4, <1>5, <1>7

\* The record of a result.
LEMMA FinishStep ==
    ASSUME CoreTypes, LedgerInv, ops # <<>>, ops[Len(ops)].status \in {"running", "unknown"},
           NEW status \in Final \cup {"unknown"}, NEW spent \in BOOLEAN,
           Finish(status, spent), rounds' \in Seq(Report), Len(rounds') = Len(rounds),
           gate' \in BOOLEAN, startup' \in BOOLEAN
    PROVE  \E rows : Records(rows)
<1> DEFINE i == Len(ops)
           p == ops[i].project
           s == ops[i].by = "schedule"
           one == Row("exhausted", i, s, "failed", OpenRound)
           two == Row("result", i, s, status, OpenRound)
           rows == (IF spent THEN <<one>> ELSE <<>>) \o <<two>>
<1>1. /\ spent => status = "failed"
      /\ ops' = [ops EXCEPT ![i].status = status]
      /\ pause' = CASE status = "failed"    -> [pause EXCEPT ![p] = i]
                    [] status = "succeeded" -> [pause EXCEPT ![p] = 0]
                    [] OTHER                -> pause
      /\ log' = log \o rows
  BY DEF Finish, Writes
<1>2. /\ i \in 1 .. i /\ i \in Nat /\ ops' \in Seq(Operation) /\ Len(ops') = i
      /\ ops'[i].status = status
      /\ \A j \in 1 .. i : /\ ops'[j].project = ops[j].project /\ ops'[j].by = ops[j].by
                           /\ j # i => ops'[j] = ops[j]
  <2>1. status \in Final \cup {"running", "unknown"}
    OBVIOUS
  <2>2. LET new == [ops EXCEPT ![Len(ops)].status = status]
        IN  /\ Len(ops) \in 1 .. Len(ops) /\ Len(ops) \in Nat
            /\ new \in Seq(Operation) /\ Len(new) = Len(ops)
            /\ new[Len(ops)].status = status
            /\ \A j \in 1 .. Len(ops) :
                  /\ new[j].project = ops[j].project /\ new[j].by = ops[j].by
                  /\ j # Len(ops) => new[j] = ops[j]
    BY <2>1, LastOperation
  <2>3. QED
    BY <1>1, <2>2
<1>3. p \in Project /\ Len(rounds) \in Nat /\ OpenRound \in 0 .. Len(rounds)
  <2>1. ops[i] \in Operation
    BY <1>2, SeqShape DEF CoreTypes
  <2>2. Len(rounds) \in Nat
    BY SeqShape DEF CoreTypes
  <2>3. QED
    BY <2>1, <2>2, OpenRoundTyped DEF Operation
<1>4. /\ one \in Entry' /\ two \in Entry'
      /\ one.event = "exhausted" /\ one.op = i
      /\ two.event = "result" /\ two.op = i /\ two.status = status /\ status # "none"
  BY <1>2, <1>3 DEF Row, Entry, Event, Status, Final
<1>5. CoreTypes'
  <2>1. pause' \in [Project -> 0 .. i]
    BY <1>1, <1>2, <1>3 DEF CoreTypes
  <2>2. QED
    BY <1>2, <2>1 DEF CoreTypes
<1>6. /\ rows \in Seq(Entry')
      /\ \A k \in 1 .. Len(rows) : rows[k] = two \/ (spent /\ rows[k] = one)
      /\ \E k \in 1 .. Len(rows) : rows[k] = two
  <2> HIDE DEF one, two
  <2>1. CASE spent
    <3>1. rows = <<one>> \o <<two>>
      BY <2>1
    <3>2. /\ rows \in Seq(Entry') /\ Len(rows) = 2 /\ rows[1] = one /\ rows[2] = two
      BY <1>4, <3>1, TwoRows
    <3> HIDE DEF rows
    <3>3. QED
      BY <2>1, <3>2
  <2>2. CASE ~spent
    <3>1. rows = <<two>>
      BY <2>2, <1>4, OneRow
    <3>2. QED
      BY <1>4, <3>1, OneRow
  <2>3. QED
    BY <2>1, <2>2
<1>7. \A k \in 1 .. Len(rows) :
         /\ rows[k].event \in {"result", "exhausted", "check"} => rows[k].op # 0
         /\ rows[k].event \in {"result", "check"} => rows[k].status # "none"
         /\ rows[k].event = "exhausted" => ops'[rows[k].op].status = "failed"
         /\ rows[k].event = "result" => ops'[rows[k].op].status = rows[k].status
  <2> HIDE DEF one, two, rows, i
  <2>1. QED
    BY <1>1, <1>2, <1>4, <1>6
<1>8. \A j \in 1 .. i : /\ ops[j].status = "failed" => ops'[j].status = "failed"
                        /\ ops'[j].status # ops[j].status
                           => \E k \in 1 .. Len(rows) : rows[k].event = "result" /\ rows[k].op = j
  <2> HIDE DEF one, two, rows, i
  <2>1. QED
    BY <1>2, <1>4, <1>6 DEF i
<1>9. ASSUME NEW q \in Project, pause'[q] # 0
      PROVE  /\ ops'[pause'[q]].status = "failed" /\ ops'[pause'[q]].project = q
             /\ pause'[q] = pause[q] \/ ops[pause'[q]].status # "failed"
  <2>1. CASE pause'[q] = pause[q]
    <3>1. pause[q] \in 1 .. i /\ ops[pause[q]].status = "failed" /\ ops[pause[q]].project = q
      BY <1>2, <1>9, <2>1 DEF LedgerInv, CoreTypes
    <3>2. QED
      BY <1>2, <2>1, <3>1
  <2>2. CASE pause'[q] # pause[q]
    <3>1. status = "failed" /\ q = p /\ pause'[q] = i
      BY <1>1, <1>3, <1>9, <2>2 DEF CoreTypes, Final
    <3>2. QED
      BY <1>2, <3>1
  <2>3. QED
    BY <2>1, <2>2
<1>10. Records(rows)
  <2> HIDE DEF one, two, rows, p
  <2>1. QED
    BY <1>1, <1>2, <1>5, <1>6, <1>7, <1>8, <1>9 DEF Records
<1>11. QED
  BY <1>10

\* A list of projects is a sequence, of whatever length.
LEMMA ListOfProjects ==
    ASSUME NEW n, NEW cut \in SeqOf(Project, n)
    PROVE  \E m \in Nat : cut \in [1 .. m -> Project]
BY DEF SeqOf

\* The rows of a reconciliation.
LEMMA ReconcileStep ==
    ASSUME CoreTypes, LedgerInv, NEW n, NEW cut \in SeqOf(Project, n), Reconciles(cut)
    PROVE  \E rows : Records(rows)
<1> DEFINE f == [k \in DOMAIN cut |->
                    Row("exhausted", pause[cut[k]], ops[pause[cut[k]]].by = "schedule",
                        "failed", OpenRound)]
           e == Row("reconciled", 0, FALSE, "none", 0)
           E == Entry'
           rows == f \o <<e>>
<1>1. PICK m \in Nat : cut \in [1 .. m -> Project]
  BY ListOfProjects
<1>2. /\ \A k \in 1 .. m : pause[cut[k]] # 0
      /\ gate' = TRUE /\ startup' = FALSE /\ UNCHANGED <<ops, pause>>
      /\ log' = log \o rows
  BY <1>1 DEF Reconciles, Writes
<1>3. rounds' \in Seq(Report) /\ Len(rounds') = Len(rounds)
  <2>1. CASE rounds' = rounds
    BY <2>1 DEF CoreTypes
  <2>2. CASE rounds' # rounds
    <3>1. rounds # <<>> /\ rounds' = [rounds EXCEPT ![Len(rounds)].open = FALSE]
      BY <2>2 DEF Reconciles, OpenRound
    <3>2. QED
      BY <3>1, LastRound
  <2>3. QED
    BY <2>1, <2>2
<1>4. CoreTypes' /\ Len(rounds) \in Nat /\ Len(ops) \in Nat
  <2>1. gate' \in BOOLEAN /\ startup' \in BOOLEAN
    BY <1>2
  <2>2. ops' \in Seq(Operation) /\ pause' \in [Project -> 0 .. Len(ops')]
    BY <1>2 DEF CoreTypes
  <2>3. QED
    BY <1>3, <2>1, <2>2, SeqShape DEF CoreTypes
<1>5. ASSUME NEW k \in 1 .. m
      PROVE  /\ f[k] \in E /\ f[k].event = "exhausted" /\ f[k].op # 0
             /\ ops[f[k].op].status = "failed"
  <2> DEFINE p == cut[k]
             r == Row("exhausted", pause[p], ops[pause[p]].by = "schedule", "failed", OpenRound)
  <2>1. p \in Project /\ pause[p] # 0 /\ pause[p] \in 0 .. Len(ops) /\ f[k] = r
    BY <1>1, <1>2, <1>5 DEF CoreTypes
  <2>2. r.op = pause[p] /\ r.event = "exhausted"
    BY DEF Row
  <2>3. r \in E
    <3>1. OpenRound \in 0 .. Len(rounds')
      BY <1>3, OpenRoundTyped
    <3>2. pause[p] \in 0 .. Len(ops')
      BY <1>2, <2>1
    <3> HIDE DEF p
    <3>3. QED
      BY <3>1, <3>2 DEF Row, Entry, Event, Status, Final
  <2>4. ops[pause[p]].status = "failed"
    BY <2>1 DEF LedgerInv
  <2> HIDE DEF p, r
  <2>5. QED
    BY <2>1, <2>2, <2>3, <2>4
<1>6. e \in E /\ e.event = "reconciled"
  <2>1. 0 \in 0 .. Len(ops') /\ 0 \in 0 .. Len(rounds')
    BY <1>2, <1>3, <1>4
  <2>2. QED
    BY <2>1 DEF Row, Entry, Event, Status
<1>7. f \in Seq(E) /\ Len(f) = m
  <2>1. f = [k \in 1 .. m |-> f[k]]
    BY <1>1
  <2> HIDE DEF f, E
  <2>2. QED
    BY <1>5, <2>1
<1>8. <<e>> \in Seq(E) /\ Len(<<e>>) = 1 /\ <<e>>[1] = e
  BY <1>6, OneRow
<1>9. /\ rows \in Seq(E) /\ Len(rows) = m + 1
      /\ \A k \in 1 .. m : rows[k] = f[k]
      /\ rows[m + 1] = e
  <2> HIDE DEF f, e, E
  <2> DEFINE t == <<e>>
  <2>1. t \in Seq(E) /\ Len(t) = 1 /\ t[1] = e
    BY <1>8
  <2> HIDE DEF t
  <2>2. /\ f \o t \in Seq(E) /\ Len(f \o t) = Len(f) + Len(t)
        /\ \A k \in 1 .. Len(f) : (f \o t)[k] = f[k]
        /\ \A k \in 1 .. Len(t) : (f \o t)[Len(f) + k] = t[k]
    BY ONLY <1>7, <2>1, Appended
  <2>3. QED
    BY <1>7, <2>1, <2>2 DEF t
<1>10. \A k \in 1 .. Len(rows) :
          \/ rows[k].event = "reconciled"
          \/ rows[k].event = "exhausted" /\ rows[k].op # 0 /\ ops[rows[k].op].status = "failed"
  <2> HIDE DEF f, e, rows
  <2>1. \A k \in 1 .. Len(rows) : k \in 1 .. m \/ k = m + 1
    BY <1>9
  <2>2. QED
    BY <1>5, <1>6, <1>9, <2>1
<1>11. Records(rows)
  <2> HIDE DEF rows
  <2>1. \A p \in Project : pause'[p] # 0 => /\ ops'[pause'[p]].status = "failed"
                                            /\ ops'[pause'[p]].project = p
                                            /\ pause'[p] = pause[p]
    BY <1>2 DEF LedgerInv
  <2>2. rows \in Seq(Entry')
    BY <1>9
  <2>3. QED
    BY <1>2, <1>3, <1>4, <1>10, <2>1, <2>2 DEF Records
<1>12. QED
  BY <1>11

\* Only an enrollment lists a project, and what paused it was dropped before.
LEMMA ListsStep ==
    ASSUME NTypeOK, Controller \/ Restarts
    PROVE  Lists
<1>1. listed \subseteq Project
  BY DEF NTypeOK
<1>2. ASSUME listed' \subseteq listed
      PROVE  Lists
  BY <1>1, <1>2 DEF Lists
<1>3. ASSUME NEW rows, Writes(rows)
      PROVE  Lists
  BY <1>2, <1>3 DEF Writes
<1>4. ASSUME NEW p \in Project, Relists(p)
      PROVE  Lists
  BY <1>1, <1>4 DEF Relists, Lists
<1>5. ASSUME NEW p \in Project, Delists(p)
      PROVE  Lists
  BY <1>2, <1>5 DEF Delists
<1>6. CASE Restarts
  BY <1>2, <1>6 DEF Restarts
<1>7. CASE \E rows : Writes(rows)
  BY <1>3, <1>7
<1>8. Controller => \/ \E rows : Writes(rows)
                    \/ \E p \in Project : Delists(p) \/ Relists(p)
  BY DEF Controller, RoundBegins, RoundEnds, Dispatches, Returns, Settles, Finish, Reported,
         RetryFails, Resumes, Forgets, Reconciles, ChecksFirst, GatePauses
<1>9. QED
  BY <1>4, <1>5, <1>6, <1>7, <1>8

\* No step of the controller, nor a restart, takes back what the log says.
LEMMA ControllerStep ==
    ASSUME NTypeOK, LedgerInv, Controller \/ Restarts
    PROVE  Grows /\ LedgerInv'
<1>1. CoreTypes /\ log \in Seq(Entry)
  BY DEF NTypeOK, CoreTypes, Operation, Report, Entry
<1>2. SUFFICES \E rows : Records(rows)
  BY <1>1, ListsStep, RecordsGrows
<1>3. /\ Len(rounds) \in Nat /\ Len(ops) \in Nat /\ OpenRound \in 0 .. Len(rounds)
      /\ ops # <<>> => Len(ops) \in 1 .. Len(ops) /\ ops[Len(ops)] \in Operation
  <2>1. ops # <<>> => Len(ops) # 0
    BY <1>1, SeqShape DEF CoreTypes
  <2>2. QED
    BY <1>1, <2>1, OpenRoundTyped, SeqShape DEF CoreTypes
<1>4. InRound => rounds # <<>>
  BY DEF InRound, OpenRound
<1>5. CASE RoundBegins
  <2> DEFINE r == [open |-> TRUE, item |-> [p \in Project |-> "quiet"]]
             R == Report
  <2>1. r \in R /\ rounds \in Seq(R) /\ rounds' = Append(rounds, r)
    BY <1>1, <1>5 DEF RoundBegins, CoreTypes, Report
  <2>2. rounds' \in Seq(R) /\ Len(rounds') = Len(rounds) + 1
    <3> HIDE DEF r, R
    <3>1. QED
      BY <2>1
  <2>3. CoreTypes' /\ ops' = ops /\ pause' = pause /\ log' = log \o <<>>
    BY <1>1, <1>5, <2>2 DEF RoundBegins, Writes, CoreTypes
  <2>4. QED
    BY <1>1, <1>3, <2>2, <2>3, RecordsNothing
<1>6. CASE RoundEnds
  <2>1. rounds' \in Seq(Report) /\ Len(rounds') = Len(rounds)
    BY <1>1, <1>4, <1>6, LastRound DEF RoundEnds
  <2>2. CoreTypes' /\ ops' = ops /\ pause' = pause /\ log' = log \o <<>>
    BY <1>1, <1>6, <2>1 DEF RoundEnds, Writes, CoreTypes
  <2>3. QED
    BY <1>1, <1>3, <2>1, <2>2, RecordsNothing
<1>7. ASSUME NEW p \in Project, NEW by \in Origin, Dispatches(p, by)
      PROVE  \E rows : Records(rows)
  <2> DEFINE o == [project |-> p, by |-> by, status |-> "running"]
             R == Operation
  <2>1. o \in R /\ ops \in Seq(R) /\ ops' = Append(ops, o)
    BY <1>1, <1>7 DEF Dispatches, CoreTypes, Operation
  <2>2. ops' \in Seq(R) /\ Len(ops') = Len(ops) + 1 /\ \A i \in 1 .. Len(ops) : ops'[i] = ops[i]
    <3> HIDE DEF o, R
    <3>1. QED
      BY <2>1
  <2>3. UNCHANGED <<pause, rounds, gate, startup>> /\ log' = log \o <<>>
    BY <1>7 DEF Dispatches, Writes
  <2>4. CoreTypes'
    <3>1. pause \in [Project -> 0 .. Len(ops')]
      BY <1>1, <1>3, <2>2 DEF CoreTypes
    <3>2. QED
      BY <1>1, <2>2, <2>3, <3>1 DEF CoreTypes
  <2>5. <<>> \in Seq(Entry') /\ Len(<<>>) = 0
    OBVIOUS
  <2>6. ASSUME NEW q \in Project, pause'[q] # 0
        PROVE  /\ ops'[pause'[q]].status = "failed" /\ ops'[pause'[q]].project = q
               /\ pause'[q] = pause[q]
    <3>1. pause[q] \in 1 .. Len(ops) /\ pause'[q] = pause[q]
      BY <1>1, <1>3, <2>3, <2>6 DEF CoreTypes
    <3>2. QED
      BY <2>2, <2>6, <3>1 DEF LedgerInv
  <2>7. Records(<<>>)
    BY <1>3, <2>2, <2>3, <2>4, <2>5, <2>6 DEF Records
  <2>8. QED
    BY <2>7
<1>8. ASSUME NEW status \in Final \cup {"unknown"}, NEW spent \in BOOLEAN, Returns(status, spent)
      PROVE  \E rows : Records(rows)
  <2>1. ops # <<>> /\ ops[Len(ops)].status = "running" /\ Finish(status, spent)
    BY <1>8 DEF Returns, Running
  <2>2. gate' \in BOOLEAN /\ startup' \in BOOLEAN
    BY <1>1, <1>8 DEF Returns, CoreTypes
  <2>3. rounds' \in Seq(Report) /\ Len(rounds') = Len(rounds)
    <3>1. CASE ops[Len(ops)].by = "schedule"
      <4>1. ops[Len(ops)].project \in Project
        BY <1>3, <2>1 DEF Operation
      <4>2. PICK item \in {"quiet", "succeeded", "problem"} :
               SetItem(ops[Len(ops)].project, item)
        BY <1>8, <3>1 DEF Returns
      <4>3. CASE rounds # <<>>
        BY <1>1, <4>1, <4>2, <4>3, LastRound DEF SetItem
      <4>4. CASE rounds = <<>>
        <5>1. rounds' = [i \in DOMAIN rounds |-> rounds'[i]] /\ DOMAIN rounds' = DOMAIN rounds
          BY <4>2 DEF SetItem
        <5>2. DOMAIN rounds = {}
          BY <4>4
        <5>3. rounds' = rounds
          BY <4>4, <5>1, <5>2
        <5>4. QED
          BY <1>1, <5>3 DEF CoreTypes
      <4>5. QED
        BY <4>3, <4>4
    <3>2. CASE ops[Len(ops)].by # "schedule"
      BY <1>1, <1>8, <3>2 DEF Returns, CoreTypes
    <3>3. QED
      BY <3>1, <3>2
  <2>4. QED
    BY <1>1, <2>1, <2>2, <2>3, FinishStep
<1>9. ASSUME NEW status \in Final, NEW spent \in BOOLEAN, Settles(status, spent)
      PROVE  \E rows : Records(rows)
  <2>1. ops # <<>> /\ ops[Len(ops)].status = "unknown" /\ Finish(status, spent)
    BY <1>9 DEF Settles, Uncertain
  <2>2. UNCHANGED <<rounds, gate, startup>>
    BY <1>9 DEF Settles
  <2>3. rounds' \in Seq(Report) /\ Len(rounds') = Len(rounds) /\ gate' \in BOOLEAN /\ startup' \in BOOLEAN
    BY <1>1, <2>2 DEF CoreTypes
  <2>4. QED
    BY <1>1, <2>1, <2>3, FinishStep
<1>10. ASSUME NEW p \in Project, Reported(p)
       PROVE  \E rows : Records(rows)
  <2>1. rounds' \in Seq(Report) /\ Len(rounds') = Len(rounds)
    BY <1>1, <1>4, <1>10, LastRound DEF Reported, SetItem
  <2>2. CoreTypes' /\ ops' = ops /\ pause' = pause /\ log' = log \o <<>>
    BY <1>1, <1>10, <2>1 DEF Reported, Writes, CoreTypes
  <2>3. QED
    BY <1>1, <1>3, <2>1, <2>2, RecordsNothing
<1>11. ASSUME NEW p \in Project, RetryFails(p)
       PROVE  \E rows : Records(rows)
  <2> DEFINE e == Row("exhausted", pause[p], TRUE, "failed", OpenRound)
  <2>1. rounds' \in Seq(Report) /\ Len(rounds') = Len(rounds)
    BY <1>1, <1>4, <1>11, LastRound DEF RetryFails, SetItem
  <2>2. /\ CoreTypes' /\ ops' = ops /\ pause' = pause /\ log' = log \o <<e>>
        /\ pause[p] \in 0 .. Len(ops) /\ pause[p] # 0 /\ ops[pause[p]].status = "failed"
    BY <1>1, <1>11, <2>1 DEF RetryFails, Writes, CoreTypes, LedgerInv
  <2>3. e \in Entry' /\ e.event = "exhausted" /\ e.op = pause[p]
    BY <1>3, <2>1, <2>2 DEF Row, Entry, Event, Status, Final
  <2>4. Len(rounds) <= Len(rounds') /\ UNCHANGED <<ops, pause>>
    BY <1>1, <1>3, <1>11, <2>1 DEF RetryFails, Writes, CoreTypes
  <2> HIDE DEF e
  <2>5. e.event # "result" /\ e.event # "check" /\ e.op # 0 /\ ops[e.op].status = "failed"
    BY ONLY <2>2, <2>3
  <2>6. Records(<<e>>)
    BY <1>1, <2>2, <2>3, <2>4, <2>5, RecordsRow
  <2>7. QED
    BY <2>6
<1>12. ASSUME NEW p \in Project, Resumes(p) \/ Forgets(p)
       PROVE  \E rows : Records(rows)
  <2>1. /\ ops' = ops /\ log' = log \o <<>> /\ pause' = [pause EXCEPT ![p] = 0]
        /\ UNCHANGED <<rounds, gate, startup>>
    BY <1>12 DEF Resumes, Forgets, Writes
  <2>2. CoreTypes'
    BY <1>1, <1>3, <2>1 DEF CoreTypes
  <2>3. \A q \in Project : pause'[q] = pause[q] \/ pause'[q] = 0
    BY <1>1, <2>1 DEF CoreTypes
  <2>4. QED
    BY <1>1, <1>3, <2>1, <2>2, <2>3, RecordsNothing
<1>0. ASSUME NEW p \in Project, Delists(p) \/ Relists(p)
      PROVE  \E rows : Records(rows)
  <2>1. UNCHANGED <<ops, pause, rounds, gate, startup>> /\ log' = log \o <<>>
    BY <1>0, <1>1 DEF Delists, Relists
  <2>2. CoreTypes'
    BY <1>1, <2>1 DEF CoreTypes
  <2>3. QED
    BY <1>1, <1>3, <2>1, <2>2, RecordsNothing
<1>13. ASSUME NEW n, NEW cut \in SeqOf(Project, n), Reconciles(cut)
       PROVE  \E rows : Records(rows)
  BY <1>1, <1>13, ReconcileStep
<1>14. CASE ChecksFirst
  <2> DEFINE e == Row("check", Len(ops), FALSE, ops[Len(ops)].status, OpenRound)
  <2>1. UNCHANGED <<ops, pause, rounds, gate, startup>> /\ log' = log \o <<e>>
    BY <1>14 DEF ChecksFirst, Writes
  <2>2. ops # <<>> /\ ops[Len(ops)].status # "running"
    BY <1>14 DEF ChecksFirst, CheckDue, Running
  <2>3. Len(ops) \in 1 .. Len(ops) /\ ops[Len(ops)].status \in Final \cup {"unknown"}
    BY <1>3, <2>2 DEF Operation
  <2>4. CoreTypes'
    BY <1>1, <2>1 DEF CoreTypes
  <2>5. e \in Entry' /\ e.event = "check" /\ e.op # 0 /\ e.status # "none"
    BY <1>3, <2>1, <2>3 DEF Row, Entry, Event, Status, Final
  <2> HIDE DEF e
  <2>6. Records(<<e>>)
    BY <1>1, <1>3, <2>1, <2>4, <2>5, RecordsRow
  <2>7. QED
    BY <2>6
<1>15. CASE GatePauses
  <2> DEFINE e == Row("gate", 0, FALSE, "none", OpenRound)
  <2>1. UNCHANGED <<ops, pause, rounds, startup>> /\ gate' = FALSE /\ log' = log \o <<e>>
    BY <1>15 DEF GatePauses, Writes
  <2>2. CoreTypes'
    BY <1>1, <2>1 DEF CoreTypes
  <2>3. e \in Entry' /\ e.event = "gate"
    BY <1>3, <2>1 DEF Row, Entry, Event, Status
  <2> HIDE DEF e
  <2>4. Records(<<e>>)
    BY <1>1, <1>3, <2>1, <2>2, <2>3, RecordsRow
  <2>5. QED
    BY <2>4
<1>16. CASE Restarts
  <2>1. UNCHANGED <<pause, rounds>> /\ startup' = TRUE /\ gate' = FALSE
    BY <1>16 DEF Restarts
  <2>2. CASE ~Running
    <3>1. ops' = ops /\ log' = log \o <<>>
      BY <1>1, <1>16, <2>2 DEF Restarts
    <3>2. CoreTypes'
      BY <1>1, <2>1, <3>1 DEF CoreTypes
    <3>3. QED
      BY <1>1, <1>3, <2>1, <3>1, <3>2, RecordsNothing
  <2>3. CASE Running
    <3> DEFINE e == Row("result", Len(ops), ops[Len(ops)].by = "schedule", "unknown", OpenRound)
    <3>1. /\ ops' = [ops EXCEPT ![Len(ops)].status = "unknown"] /\ log' = Append(log, e)
          /\ ops # <<>> /\ ops[Len(ops)].status = "running"
      BY <1>16, <2>3 DEF Restarts, Running
    <3>2. LET new == [ops EXCEPT ![Len(ops)].status = "unknown"]
          IN  /\ Len(ops) \in 1 .. Len(ops) /\ Len(ops) \in Nat
              /\ new \in Seq(Operation) /\ Len(new) = Len(ops)
              /\ new[Len(ops)].status = "unknown"
              /\ \A j \in 1 .. Len(ops) :
                    /\ new[j].project = ops[j].project /\ new[j].by = ops[j].by
                    /\ j # Len(ops) => new[j] = ops[j]
      BY <1>1, <3>1, LastOperation
    <3>3. /\ Len(ops) \in 1 .. Len(ops) /\ ops' \in Seq(Operation) /\ Len(ops') = Len(ops)
          /\ ops'[Len(ops)].status = "unknown"
          /\ \A j \in 1 .. Len(ops) :
                /\ ops'[j].project = ops[j].project /\ ops'[j].by = ops[j].by
                /\ j # Len(ops) => ops'[j] = ops[j]
      BY <3>1, <3>2
    <3>4. CoreTypes'
      BY <1>1, <2>1, <3>3 DEF CoreTypes
    <3>5. /\ e \in Entry' /\ e.event = "result" /\ e.op = Len(ops) /\ e.op # 0
          /\ e.status = "unknown"
      BY <1>3, <2>1, <3>3 DEF Row, Entry, Event, Status
    <3> HIDE DEF e
    <3>6. log' = log \o <<e>>
      <4> DEFINE E == Entry
      <4>1. log \in Seq(E)
        BY <1>1
      <4> HIDE DEF E
      <4>2. Append(log, e) = log \o <<e>>
        BY <4>1
      <4>3. QED
        BY <3>1, <4>2
    <3>7. <<e>> \in Seq(Entry') /\ Len(<<e>>) = 1 /\ <<e>>[1] = e /\ 1 \in 1 .. 1
      BY <3>5, OneRow
    <3>8. \A k \in 1 .. Len(<<e>>) : <<e>>[k] = e
      BY <3>7
    <3>9. ASSUME NEW q \in Project, pause'[q] # 0
          PROVE  /\ ops'[pause'[q]].status = "failed" /\ ops'[pause'[q]].project = q
                 /\ pause'[q] = pause[q]
      <4>1. pause[q] \in 1 .. Len(ops) /\ pause[q] # Len(ops) /\ pause'[q] = pause[q]
        BY <1>1, <1>3, <2>1, <3>1, <3>9 DEF CoreTypes, LedgerInv
      <4>2. QED
        BY <3>3, <3>9, <4>1 DEF LedgerInv
    <3>10. \A i \in 1 .. Len(ops) :
              /\ ops[i].status = "failed" => ops'[i].status = "failed"
              /\ ops'[i].status # ops[i].status => i = Len(ops)
      BY <3>1, <3>3
    <3>11. Records(<<e>>)
      BY <1>3, <2>1, <3>3, <3>4, <3>5, <3>6, <3>7, <3>8, <3>9, <3>10 DEF Records
    <3>12. QED
      BY <3>11
  <2>4. QED
    BY <2>2, <2>3
<1>17. QED
  BY <1>0, <1>5, <1>6, <1>7, <1>8, <1>9, <1>10, <1>11, <1>12, <1>13, <1>14, <1>15, <1>16
  DEF Controller

-----------------------------------------------------------------------------
(* The store beside a controller that goes on writing. *)

\* What was consumed of the log stays what it was.
LEMMA ConsumedKept ==
    ASSUME NTypeOK, LedgerInv, Grows
    PROVE  /\ \A i \in 1 .. cursor : i \in DOMAIN log /\ log'[i] = log[i]
           /\ \A i \in 1 .. cursor, p \in Project, event \in {"result", "check"} :
                 About(i, p, event)' <=> About(i, p, event)
           /\ \A i \in 1 .. cursor : Superseded(i) => Superseded(i)'
           /\ \A op : (\E i \in 1 .. cursor : log'[i].event = "exhausted" /\ log'[i].op = op)
                      <=> SpentBy(op, cursor)
<1>1. /\ Len(log) \in Nat /\ Len(log') \in Nat /\ Len(log) <= Len(log')
      /\ DOMAIN log = 1 .. Len(log) /\ cursor \in 0 .. Len(log)
      /\ \A k \in 1 .. Len(log) : log'[k] = log[k] /\ log[k].op \in 0 .. Len(ops)
      /\ Len(ops) \in Nat
  <2>1. log \in Seq(Entry) /\ log' \in Seq(Entry') /\ Len(log) <= Len(log')
        /\ ops \in Seq(Operation) /\ cursor \in 0 .. Len(log)
    BY DEF NTypeOK, Grows, Entry, Operation
  <2>2. \A k \in 1 .. Len(log) : log[k] \in Entry
    BY <2>1, SeqShape
  <2>3. Len(log) \in Nat /\ Len(log') \in Nat /\ DOMAIN log = 1 .. Len(log) /\ Len(ops) \in Nat
    BY <2>1, SeqShape
  <2>4. QED
    BY <2>1, <2>2, <2>3 DEF Grows, Entry
<1>2. \A i \in 1 .. cursor : i \in DOMAIN log /\ log'[i] = log[i]
  BY <1>1
<1>3. ASSUME NEW i \in 1 .. cursor, NEW p \in Project, NEW event \in {"result", "check"}
      PROVE  About(i, p, event)' <=> About(i, p, event)
  <2>1. CASE log[i].event = event
    <3>1. log[i].op \in 1 .. Len(ops)
      BY <1>1, <1>2, <2>1 DEF LedgerInv
    <3>2. /\ ops'[log[i].op].project = ops[log[i].op].project
          /\ ops'[log[i].op].by = ops[log[i].op].by
      BY <3>1 DEF Grows
    <3>3. QED
      BY <1>2, <3>2 DEF About
  <2>2. CASE log[i].event # event
    BY <1>2, <2>2 DEF About
  <2>3. QED
    BY <2>1, <2>2
<1>4. ASSUME NEW i \in 1 .. cursor, Superseded(i)
      PROVE  Superseded(i)'
  <2>1. PICK j \in i + 1 .. Len(log) : log[j].event = log[i].event /\ log[j].op = log[i].op
    BY <1>4 DEF Superseded
  <2>2. j \in i + 1 .. Len(log') /\ log'[j] = log[j] /\ log'[i] = log[i]
    BY <1>1, <1>2, <2>1
  <2>3. QED
    BY <2>1, <2>2 DEF Superseded
<1>5. \A op : (\E i \in 1 .. cursor : log'[i].event = "exhausted" /\ log'[i].op = op)
              <=> SpentBy(op, cursor)
  BY <1>2 DEF SpentBy
<1>6. QED
  BY <1>2, <1>3, <1>4, <1>5

\* So does what a message within the cursor is about.
LEMMA RowKept ==
    ASSUME NTypeOK, LedgerInv, Grows, NEW m, NEW q,
           m.topic \in Topic \cup {Summary}, m.at \in Nat \ {0}, Within(m, cursor, q)
    PROVE  m.topic[2] \in {"update", "retry"} => log'[m.at] = log[m.at]
<1>1. m.topic[2] \in {"update", "retry"} => m.at <= cursor
  BY Topics DEF Within
<1>2. cursor \in Nat
  BY SeqShape DEF NTypeOK
<1>3. m.topic[2] \in {"update", "retry"} => m.at \in 1 .. cursor
  BY <1>1, <1>2
<1>4. QED
  BY <1>3, ConsumedKept

LEMMA OutboxGrows ==
    ASSUME NTypeOK, LedgerInv, Grows, delivered \in Seq(Sent),
           OutboxInv(outbox, cursor, summarised),
           UNCHANGED <<outbox, cursor, summarised, delivered>>
    PROVE  OutboxInv(outbox, cursor, summarised)' /\ delivered' \in Seq(Sent')
<1>1. Len(ops) \in Nat /\ Len(ops') \in Nat /\ Len(ops) <= Len(ops')
  BY SeqShape DEF Grows, CoreTypes, NTypeOK
<1>2. Sent \subseteq Sent' /\ Waits \subseteq Waits'
  BY <1>1 DEF Sent, Waits
<1>3. Table(outbox)'
  <2>1. DOMAIN outbox \subseteq Nat \ {0} /\ outbox \in [DOMAIN outbox -> Waits]
        /\ \E b \in DOMAIN outbox \cup {0} : \A k \in DOMAIN outbox : k <= b
    BY DEF OutboxInv, Table
  <2>2. outbox \in [DOMAIN outbox -> Waits']
    BY <1>2, <2>1
  <2>3. QED
    BY <2>1, <2>2 DEF Table
<1>4. delivered' \in Seq(Sent') /\ \A i \in DOMAIN delivered : delivered[i] \in Sent
  <2> DEFINE A == Sent
             B == Sent'
  <2>1. delivered \in Seq(A) /\ A \subseteq B
    BY <1>2
  <2> HIDE DEF A, B
  <2>2. /\ Len(delivered) \in Nat /\ delivered = [i \in 1 .. Len(delivered) |-> delivered[i]]
        /\ DOMAIN delivered = 1 .. Len(delivered) /\ \A i \in 1 .. Len(delivered) : delivered[i] \in A
    BY <2>1, SeqShape
  <2>3. delivered \in [1 .. Len(delivered) -> B]
    BY ONLY <2>1, <2>2
  <2>4. delivered \in Seq(B)
    BY <2>2, <2>3
  <2>5. QED
    BY <2>2, <2>4 DEF A, B
<1>5. /\ \A k \in DOMAIN outbox : outbox[k].topic[2] \in {"update", "retry"}
                                  => log'[outbox[k].at] = log[outbox[k].at]
      /\ \A i \in DOMAIN delivered : delivered[i].topic[2] \in {"update", "retry"}
                                     => log'[delivered[i].at] = log[delivered[i].at]
  <2>1. ASSUME NEW k \in DOMAIN outbox
        PROVE  outbox[k].topic[2] \in {"update", "retry"}
               => log'[outbox[k].at] = log[outbox[k].at]
    <3>1. /\ outbox[k].topic \in Topic \cup {Summary} /\ outbox[k].at \in Nat \ {0}
          /\ Within(outbox[k], cursor, summarised)
      BY DEF OutboxInv, Table, Waits
    <3>2. QED
      BY <3>1, RowKept
  <2>2. ASSUME NEW i \in DOMAIN delivered
        PROVE  delivered[i].topic[2] \in {"update", "retry"}
               => log'[delivered[i].at] = log[delivered[i].at]
    <3>1. /\ delivered[i].topic \in Topic \cup {Summary} /\ delivered[i].at \in Nat \ {0}
          /\ Within(delivered[i], cursor, summarised)
      BY <1>4 DEF OutboxInv, Sent
    <3>2. QED
      BY <3>1, RowKept
  <2>3. QED
    BY <2>1, <2>2
<1>6. /\ \A k \in DOMAIN outbox' : Within(outbox[k], cursor, summarised)'
      /\ \A i \in DOMAIN delivered' : Within(delivered[i], cursor, summarised)'
  BY <1>5 DEF OutboxInv, Within, OfRound
<1>7. Ordered(outbox)'
  <2>1. \A i, j \in DOMAIN delivered : i < j => InOrder(delivered[i], delivered[j])'
    BY <1>5 DEF OutboxInv, Ordered, InOrder, OfRound
  <2>2. \A k, m \in DOMAIN outbox : k < m => InOrder(outbox[k], outbox[m])'
    BY <1>5 DEF OutboxInv, Ordered, InOrder, OfRound
  <2>3. \A i \in DOMAIN delivered, k \in DOMAIN outbox :
           \/ InOrder(delivered[i], outbox[k])'
           \/ /\ i = Len(delivered) /\ delivered[i] = Message(outbox[k])
              /\ \A m \in DOMAIN outbox : k <= m
    BY <1>5 DEF OutboxInv, Ordered, InOrder, OfRound
  <2>4. QED
    BY <2>1, <2>2, <2>3 DEF Ordered, Message
<1>8. QED
  BY <1>3, <1>4, <1>6, <1>7 DEF OutboxInv

LEMMA NewsGrows ==
    ASSUME NTypeOK, LedgerInv, Grows, NewsInv(latest, outbox, cursor),
           UNCHANGED <<outbox, cursor, latest, delivered>>
    PROVE  NewsInv(latest, outbox, cursor)'
<1>1. Len(ops) \in Nat /\ Len(ops') \in Nat /\ Len(ops) <= Len(ops') /\ Len(log) \in Nat
      /\ cursor \in 0 .. Len(log)
  BY SeqShape DEF Grows, CoreTypes, NTypeOK
<1>2. latest \in [Topic -> [status: Status, ref: 0 .. Len(ops'), old: BOOLEAN]]
  <2>1. latest \in [Topic -> [status: Status, ref: 0 .. Len(ops), old: BOOLEAN]]
    BY DEF NewsInv
  <2>2. [status: Status, ref: 0 .. Len(ops), old: BOOLEAN]
        \subseteq [status: Status, ref: 0 .. Len(ops'), old: BOOLEAN]
    BY <1>1
  <2>3. QED
    BY <2>1, <2>2
<1>3. ASSUME NEW p \in Project
      PROVE  /\ Backed(latest, outbox, p, "update")' /\ Backed(latest, outbox, p, "initial_check")'
             /\ latest'[<<p, "retry">>].ref # 0 => SpentBy(latest[<<p, "retry">>].ref, cursor)'
  <2>1. Backed(latest, outbox, p, "update") /\ Backed(latest, outbox, p, "initial_check")
    BY DEF NewsInv
  <2>2. Backed(latest, outbox, p, "update")' /\ Backed(latest, outbox, p, "initial_check")'
    BY <2>1 DEF Backed, LastIs
  <2>3. ASSUME latest[<<p, "retry">>].ref # 0
        PROVE  SpentBy(latest[<<p, "retry">>].ref, cursor)'
    <3>1. SpentBy(latest[<<p, "retry">>].ref, cursor)
      BY <2>3 DEF NewsInv
    <3>2. \E i \in 1 .. cursor : /\ log'[i].event = "exhausted"
                                 /\ log'[i].op = latest[<<p, "retry">>].ref
      BY <3>1, ConsumedKept
    <3>3. QED
      BY <3>2 DEF SpentBy
  <2>4. QED
    BY <2>2, <2>3
<1>4. ASSUME NEW p \in Project, NEW event \in {"result", "check"}, NEW topic,
             Known(latest, cursor, p, event, topic)
      PROVE  Known(latest, cursor, p, event, topic)'
  <2>1. ASSUME NEW i \in 1 .. cursor, About(i, p, event)',
               \A j \in i + 1 .. cursor : ~About(j, p, event)',
               log'[i].status # "succeeded", ~Superseded(i)'
        PROVE  latest[<<p, topic>>].status = log'[i].status
    <3>1. \A j \in i + 1 .. cursor : j \in 1 .. cursor
      BY <1>1
    <3>2. About(i, p, event) /\ \A j \in i + 1 .. cursor : ~About(j, p, event)
      BY <2>1, <3>1, ConsumedKept
    <3>3. log'[i] = log[i] /\ ~Superseded(i)
      BY <2>1, ConsumedKept
    <3>4. QED
      BY <1>4, <2>1, <3>2, <3>3 DEF Known
  <2>2. QED
    BY <2>1 DEF Known
<1>5. ASSUME NEW p \in Project, p \in listed', pause'[p] # 0, SpentBy(pause[p], cursor)'
      PROVE  Asked(outbox, p, pause[p])'
  <2>1. SpentBy(pause'[p], cursor) /\ p \in listed
    BY <1>5, ConsumedKept DEF SpentBy, Grows, Lists
  <2>2. SpentBy(pause'[p], Len(log))
    BY <1>1, <2>1 DEF SpentBy
  <2>3. pause'[p] = pause[p]
    BY <1>5, <2>2 DEF Grows
  <2>4. QED
    BY <1>5, <2>1, <2>3 DEF NewsInv, Asked
<1>6. QED
  BY <1>2, <1>3, <1>4, <1>5 DEF NewsInv

\* What a collection has read stays an earlier state.
LEMMA ViewGrows ==
    ASSUME NTypeOK, LedgerInv, Grows, ViewInv,
           UNCHANGED <<cursor, summarised, phase, view>>
    PROVE  ViewInv'
<1>1. SUFFICES ASSUME phase = "read"
               PROVE  ViewInv'
  BY DEF ViewInv
<1>2. /\ Len(ops) \in Nat /\ Len(ops') \in Nat /\ Len(log) \in Nat /\ Len(log') \in Nat
      /\ Len(rounds) \in Nat /\ Len(rounds') \in Nat
      /\ cursor \in Nat /\ summarised \in Nat
  BY SeqShape DEF Grows, CoreTypes, NTypeOK
<1>3. /\ Len(view.log) \in Nat /\ DOMAIN view.log = 1 .. Len(view.log)
      /\ cursor <= Len(view.log) /\ Len(view.log) <= Len(log')
      /\ Len(view.ops) \in Nat /\ Len(view.ops) <= Len(ops')
      /\ Len(view.rounds) \in Nat /\ DOMAIN view.rounds = 1 .. Len(view.rounds)
      /\ summarised <= Len(view.rounds) /\ Len(view.rounds) <= Len(rounds')
  BY <1>1, <1>2 DEF ViewInv, Grows
<1>4. \A k \in DOMAIN view.log : k \in 1 .. Len(log) /\ log'[k] = log[k]
  <2>1. Len(view.log) <= Len(log) /\ \A k \in 1 .. Len(log) : log'[k] = log[k]
    BY <1>1 DEF ViewInv, Grows
  <2>2. \A k \in 1 .. Len(view.log) : k \in 1 .. Len(log)
    BY ONLY <1>2, <1>3, <2>1
  <2>3. QED
    BY ONLY <1>3, <2>1, <2>2
<1>5. \A i \in 1 .. Len(view.ops) : i \in 1 .. Len(ops)
  BY <1>1, <1>2 DEF ViewInv
<1>6. /\ \A k \in DOMAIN view.log : view.log[k] = log'[k] /\ log'[k].op \in 0 .. Len(view.ops)
      /\ \A i \in 1 .. Len(view.ops) : /\ view.ops[i].project = ops'[i].project
                                       /\ view.ops[i].by = ops'[i].by
      /\ \A k \in DOMAIN view.log : log'[k].event = "result" /\ LatestRow(k)
                                    => view.ops[log'[k].op].status = log'[k].status
  BY <1>1, <1>4, <1>5 DEF ViewInv, Grows
<1>7. ASSUME NEW p \in Project, pause'[p] # 0,
             \E i \in 1 .. Len(view.log) : log'[i].event = "exhausted" /\ log'[i].op = pause'[p]
      PROVE  view.pause[p] = pause'[p]
  <2>1. SpentBy(pause'[p], Len(view.log)) /\ SpentBy(pause'[p], Len(log))
    BY <1>3, <1>4, <1>7 DEF SpentBy
  <2>2. pause'[p] = pause[p]
    BY <1>7, <2>1 DEF Grows
  <2>3. QED
    BY <1>1, <1>7, <2>1, <2>2 DEF ViewInv
<1>8. QED
  BY <1>3, <1>6, <1>7 DEF ViewInv, LatestRow, SpentBy

-----------------------------------------------------------------------------
(* What a row more or less means for the order of the messages. *)

\* Rows and reports are numbers.
LEMMA Numbered ==
    ASSUME NTypeOK
    PROVE  /\ Len(log) \in Nat /\ DOMAIN log = 1 .. Len(log) /\ Len(ops) \in Nat
           /\ Len(rounds) \in Nat /\ cursor \in 0 .. Len(log) /\ summarised \in 0 .. Len(rounds)
           /\ \A i \in 1 .. Len(log) :
                 /\ log[i].round \in 0 .. Len(rounds) /\ log[i].op \in 0 .. Len(ops)
                 /\ log[i].status \in Status /\ log[i].event \in Event
           /\ DOMAIN ops = 1 .. Len(ops) /\ \A i \in 1 .. Len(ops) : ops[i] \in Operation
<1>1. log \in Seq(Entry) /\ ops \in Seq(Operation) /\ rounds \in Seq(Report)
  BY DEF NTypeOK, Entry, Operation, Report
<1>2. \A i \in 1 .. Len(log) : log[i] \in Entry
  BY <1>1, SeqShape
<1>3. \A i \in 1 .. Len(ops) : ops[i] \in Operation
  BY <1>1, SeqShape
<1>4. /\ Len(log) \in Nat /\ Len(ops) \in Nat /\ Len(rounds) \in Nat
      /\ DOMAIN log = 1 .. Len(log) /\ DOMAIN ops = 1 .. Len(ops)
  BY <1>1, SeqShape
<1>5. \A i \in 1 .. Len(log) :
         /\ log[i].round \in 0 .. Len(rounds) /\ log[i].op \in 0 .. Len(ops)
         /\ log[i].status \in Status /\ log[i].event \in Event
  BY <1>2 DEF Entry
<1>6. cursor \in 0 .. Len(log) /\ summarised \in 0 .. Len(rounds)
  BY DEF NTypeOK
<1>7. QED
  BY <1>3, <1>4, <1>5, <1>6

\* A message of a round is a message about a row.
LEMMA WithinRow ==
    ASSUME NTypeOK, NEW m, NEW c \in 0 .. Len(log), NEW q \in Nat,
           m.topic \in Topic \cup {Summary}, m.at \in Nat \ {0}, Within(m, c, q)
    PROVE  /\ OfRound(m) => m.topic # Summary /\ log[m.at].round \in Nat
           /\ \A c2, q2 \in Nat : c <= c2 /\ q <= q2 => Within(m, c2, q2)
<1>1. OfRound(m) => m.topic # Summary
  BY Topics DEF OfRound
<1>2. OfRound(m) => log[m.at].round \in Nat
  <2>1. SUFFICES ASSUME OfRound(m)
                 PROVE  log[m.at].round \in Nat
    OBVIOUS
  <2>2. m.at \in 1 .. Len(log)
    BY <1>1, <2>1, Numbered DEF Within
  <2>3. QED
    BY <2>2, Numbered
<1>3. c \in Nat
  BY Numbered
<1>4. QED
  BY <1>1, <1>2, <1>3 DEF Within

LEMMA MessagesTyped ==
    ASSUME delivered \in Seq(Sent), NEW t, NEW c, NEW q, OutboxInv(t, c, q)
    PROVE  /\ \A k \in DOMAIN t : /\ t[k] \in Waits /\ t[k].topic \in Topic \cup {Summary}
                                  /\ t[k].at \in Nat \ {0}
           /\ \A i \in DOMAIN delivered : /\ delivered[i].topic \in Topic \cup {Summary}
                                          /\ delivered[i].at \in Nat \ {0}
           /\ Len(delivered) \in Nat /\ DOMAIN delivered = 1 .. Len(delivered)
<1>1. \A i \in 1 .. Len(delivered) : delivered[i] \in Sent
  BY SeqShape
<1>2. Len(delivered) \in Nat /\ DOMAIN delivered = 1 .. Len(delivered)
  BY SeqShape
<1>3. QED
  BY <1>1, <1>2 DEF OutboxInv, Table, Waits, Sent

\* Rows and reports taken later change nothing for the messages there are.
LEMMA OutboxLater ==
    ASSUME NTypeOK, delivered \in Seq(Sent), NEW t, NEW c \in 0 .. Len(log), NEW q \in Nat,
           OutboxInv(t, c, q), NEW c2 \in Nat, NEW q2 \in Nat, c <= c2, q <= q2
    PROVE  OutboxInv(t, c2, q2)
<1>1. \A k \in DOMAIN t : Within(t[k], c2, q2)
  BY MessagesTyped, WithinRow DEF OutboxInv
<1>2. \A i \in DOMAIN delivered : Within(delivered[i], c2, q2)
  BY MessagesTyped, WithinRow DEF OutboxInv
<1>3. QED
  BY <1>1, <1>2 DEF OutboxInv

\* Fewer rows stay in their order.
LEMMA OutboxFewer ==
    ASSUME NEW t, NEW c, NEW q, OutboxInv(t, c, q), NEW S \in SUBSET DOMAIN t
    PROVE  OutboxInv(Restrict(t, S), c, q)
<1> DEFINE u == Restrict(t, S)
<1>1. Table(u) /\ DOMAIN u = S /\ \A k \in S : u[k] = t[k]
  BY RestrictedTable DEF OutboxInv
<1> HIDE DEF u
<1>2. \A k \in DOMAIN u : k \in DOMAIN t /\ u[k] = t[k]
  BY <1>1
<1>3. Ordered(u)
  <2>1. \A k, m \in DOMAIN u : k < m => InOrder(u[k], u[m])
    BY <1>2 DEF OutboxInv, Ordered
  <2>2. ASSUME NEW i \in DOMAIN delivered, NEW k \in DOMAIN u
        PROVE  \/ InOrder(delivered[i], u[k])
               \/ /\ i = Len(delivered) /\ delivered[i] = Message(u[k])
                  /\ \A m \in DOMAIN u : k <= m
    <3>1. k \in DOMAIN t /\ u[k] = t[k]
      BY <1>2
    <3>2. \/ InOrder(delivered[i], t[k])
          \/ /\ i = Len(delivered) /\ delivered[i] = Message(t[k])
             /\ \A m \in DOMAIN t : k <= m
      BY <3>1 DEF OutboxInv, Ordered
    <3>3. QED
      BY <1>2, <3>1, <3>2
  <2>3. QED
    BY <2>1, <2>2 DEF OutboxInv, Ordered
<1>4. QED
  BY <1>1, <1>2, <1>3 DEF OutboxInv, u

\* News of a later row or report is told after everything else.
LEMMA OutboxMore ==
    ASSUME NTypeOK, delivered \in Seq(Sent), NEW t, NEW c \in 0 .. Len(log), NEW q \in Nat,
           OutboxInv(t, c, q), NEW c2 \in Nat, NEW q2 \in Nat, c <= c2, q <= q2,
           NEW n \in Waits, Within(n, c2, q2),
           IF n.topic = Summary THEN q < n.at ELSE c < n.at
    PROVE  OutboxInv(Inserted(t, n), c2, q2)
<1> DEFINE u == Inserted(t, n)
           d == NewId(t)
<1>1. /\ Table(u) /\ d \in Nat \ {0} /\ \A k \in DOMAIN t : k < d
      /\ DOMAIN u = DOMAIN t \cup {d} /\ u[d] = n /\ \A k \in DOMAIN t : u[k] = t[k]
  BY InsertedTable DEF OutboxInv
<1>2. OutboxInv(t, c2, q2)
  BY OutboxLater
<1>3. c \in Nat /\ n.at \in Nat
  BY Numbered DEF Waits
<1>4. ASSUME NEW m, m.topic \in Topic \cup {Summary}, m.at \in Nat \ {0}, Within(m, c, q)
      PROVE  InOrder(m, n)
  <2>1. m.topic = n.topic => m.at < n.at
    BY <1>3, <1>4 DEF Within
  <2>2. n.topic = Summary /\ OfRound(m) => log[m.at].round < n.at
    <3>1. OfRound(m) => log[m.at].round \in Nat /\ log[m.at].round <= q
      BY <1>4, WithinRow DEF Within
    <3>2. QED
      BY <1>3, <3>1
  <2>3. QED
    BY <2>1, <2>2 DEF InOrder
<1>5. /\ \A k \in DOMAIN t : InOrder(t[k], n)
      /\ \A i \in DOMAIN delivered : InOrder(delivered[i], n)
  BY <1>4, MessagesTyped DEF OutboxInv
<1> HIDE DEF u, d
<1>6. Ordered(u)
  <2>1. \A i, j \in DOMAIN delivered : i < j => InOrder(delivered[i], delivered[j])
    BY DEF OutboxInv, Ordered
  <2>2. ASSUME NEW k \in DOMAIN u, NEW m \in DOMAIN u, k < m
        PROVE  InOrder(u[k], u[m])
    <3>1. k \in DOMAIN t
      BY <1>1, <2>2 DEF OutboxInv, Table
    <3>2. CASE m \in DOMAIN t
      BY <1>1, <2>2, <3>1, <3>2 DEF OutboxInv, Ordered
    <3>3. CASE m = d
      BY <1>1, <1>5, <3>1, <3>3
    <3>4. QED
      BY <1>1, <3>2, <3>3
  <2>3. ASSUME NEW i \in DOMAIN delivered, NEW k \in DOMAIN u
        PROVE  \/ InOrder(delivered[i], u[k])
               \/ /\ i = Len(delivered) /\ delivered[i] = Message(u[k])
                  /\ \A m \in DOMAIN u : k <= m
    <3>1. CASE k = d
      BY <1>1, <1>5, <3>1
    <3>2. CASE k \in DOMAIN t
      <4>1. \/ InOrder(delivered[i], t[k])
            \/ /\ i = Len(delivered) /\ delivered[i] = Message(t[k])
               /\ \A m \in DOMAIN t : k <= m
        BY <3>2 DEF OutboxInv, Ordered
      <4>2. k <= d
        BY <1>1, <3>2 DEF OutboxInv, Table
      <4>3. QED
        BY <1>1, <3>2, <4>1, <4>2
    <3>3. QED
      BY <1>1, <3>1, <3>2
  <2>4. QED
    BY <2>1, <2>2, <2>3 DEF Ordered
<1>7. QED
  BY <1>1, <1>2, <1>6 DEF OutboxInv, u

-----------------------------------------------------------------------------
(* What a row more or less means for the last message about a topic. *)

\* The last message stays: it is still there, and none about its topic is new.
LEMMA LastKept ==
    ASSUME NEW t, NEW u, NEW topic, NEW status,
           \A k \in DOMAIN u : u[k].topic = topic => k \in DOMAIN t /\ t[k].topic = topic,
           \A k \in DOMAIN t : t[k].topic = topic /\ t[k].status = status
                               => k \in DOMAIN u /\ u[k].topic = topic /\ u[k].status = status,
           LastIs(t, topic, status)
    PROVE  LastIs(u, topic, status)
<1>1. CASE \E k \in DOMAIN t : /\ t[k].topic = topic /\ t[k].status = status
                               /\ \A m \in DOMAIN t : k < m => t[m].topic # topic
  <2>1. PICK k \in DOMAIN t : /\ t[k].topic = topic /\ t[k].status = status
                              /\ \A m \in DOMAIN t : k < m => t[m].topic # topic
    BY <1>1
  <2>2. k \in DOMAIN u /\ u[k].topic = topic /\ u[k].status = status
    BY <2>1
  <2>3. \A m \in DOMAIN u : k < m => u[m].topic # topic
    BY <2>1
  <2>4. QED
    BY <2>2, <2>3 DEF LastIs
<1>2. CASE \A k \in DOMAIN t : t[k].topic # topic
  BY <1>2 DEF LastIs
<1>3. QED
  BY <1>1, <1>2 DEF LastIs

\* A row put last is the last message about its topic.
LEMMA LastInserted ==
    ASSUME NEW t, Table(t), NEW n \in Waits
    PROVE  LastIs(Inserted(t, n), n.topic, n.status)
<1>1. /\ NewId(t) \in DOMAIN Inserted(t, n) /\ Inserted(t, n)[NewId(t)] = n
      /\ NewId(t) \in Nat
      /\ \A k \in DOMAIN Inserted(t, n) : k = NewId(t) \/ (k \in Nat /\ k < NewId(t))
  <2>1. DOMAIN t \subseteq Nat
    BY DEF Table
  <2>2. /\ NewId(t) \in Nat \ {0} /\ \A k \in DOMAIN t : k < NewId(t)
        /\ DOMAIN Inserted(t, n) = DOMAIN t \cup {NewId(t)}
        /\ Inserted(t, n)[NewId(t)] = n
    BY InsertedTable
  <2>3. QED
    BY <2>1, <2>2
<1>2. \A k \in DOMAIN Inserted(t, n) : ~(NewId(t) < k)
  BY <1>1
<1>3. QED
  BY <1>1, <1>2 DEF LastIs

\* The other topics do not see an insertion.
LEMMA OthersSame ==
    ASSUME NEW t, Table(t), NEW n \in Waits, NEW topic, topic # n.topic
    PROVE  /\ \A k \in DOMAIN Inserted(t, n) : Inserted(t, n)[k].topic = topic
                                               => k \in DOMAIN t /\ t[k].topic = topic
           /\ \A k \in DOMAIN t : k \in DOMAIN Inserted(t, n) /\ Inserted(t, n)[k] = t[k]
<1>1. /\ DOMAIN Inserted(t, n) = DOMAIN t \cup {NewId(t)}
      /\ Inserted(t, n)[NewId(t)] = n
      /\ \A k \in DOMAIN t : Inserted(t, n)[k] = t[k]
  BY InsertedTable
<1>2. QED
  BY <1>1

\* The step of Known: what one more row changes.
LEMMA KnownNext ==
    ASSUME NTypeOK, NEW l, NEW u, NEW c \in Nat, c + 1 <= Len(log), NEW p, NEW event, NEW topic,
           Known(l, c, p, event, topic),
           About(c + 1, p, event) /\ log[c + 1].status # "succeeded" /\ ~Superseded(c + 1)
           => u[<<p, topic>>].status = log[c + 1].status,
           ~About(c + 1, p, event) => u[<<p, topic>>].status = l[<<p, topic>>].status
    PROVE  Known(u, c + 1, p, event, topic)
<1>1. SUFFICES ASSUME NEW i \in 1 .. c + 1, About(i, p, event),
                      \A j \in i + 1 .. c + 1 : ~About(j, p, event),
                      log[i].status # "succeeded", ~Superseded(i)
               PROVE  u[<<p, topic>>].status = log[i].status
  BY DEF Known
<1>2. CASE i = c + 1
  BY <1>1, <1>2
<1>3. CASE i # c + 1
  <2>1. i \in 1 .. c /\ c + 1 \in i + 1 .. c + 1
    BY <1>3
  <2>2. \A j \in i + 1 .. c : j \in i + 1 .. c + 1
    OBVIOUS
  <2>3. l[<<p, topic>>].status = log[i].status
    BY <1>1, <2>1, <2>2 DEF Known
  <2>4. QED
    BY <1>1, <2>1, <2>3
<1>4. QED
  BY <1>2, <1>3

LEMMA SpentNext ==
    ASSUME NEW c \in Nat, NEW op
    PROVE  SpentBy(op, c + 1) <=> \/ SpentBy(op, c)
                                  \/ log[c + 1].event = "exhausted" /\ log[c + 1].op = op
<1>1. \A i : i \in 1 .. c + 1 <=> i \in 1 .. c \/ i = c + 1
  OBVIOUS
<1>2. QED
  BY <1>1 DEF SpentBy

\* A store is a record of its two tables.
LEMMA StoreShape ==
    ASSUME NEW s, s = [latest |-> s.latest, outbox |-> s.outbox], NEW u
    PROVE  [s EXCEPT !.outbox = u] = [latest |-> s.latest, outbox |-> u]
<1> DEFINE a == s.latest
           b == s.outbox
<1>1. s = [latest |-> a, outbox |-> b]
  OBVIOUS
<1> HIDE DEF a, b
<1>2. [[latest |-> a, outbox |-> b] EXCEPT !.outbox = u] = [latest |-> a, outbox |-> u]
  OBVIOUS
<1>3. QED
  BY <1>1, <1>2 DEF a

\* What _enqueue does, one way or the other.
LEMMA Enqueued ==
    ASSUME NEW s, s = [latest |-> s.latest, outbox |-> s.outbox], NEW n, NEW notify \in BOOLEAN
    PROVE  LET e == Enqueue(s, n, notify)
               others == Restrict(s.outbox, {k \in DOMAIN s.outbox : Waiting(n, s.outbox[k])})
               x == [status |-> n.status, ref |-> n.ref, old |-> FALSE]
           IN  /\ e = [latest |-> e.latest, outbox |-> e.outbox]
               /\ Repeats(s, n) => e = s
               /\ ~Repeats(s, n) => /\ e.latest = [s.latest EXCEPT ![n.topic] = x]
                                    /\ e.outbox = IF notify THEN Inserted(others, n) ELSE others
<1> DEFINE others == Restrict(s.outbox, {k \in DOMAIN s.outbox : Waiting(n, s.outbox[k])})
           x == [status |-> n.status, ref |-> n.ref, old |-> FALSE]
           u == IF notify THEN Inserted(others, n) ELSE others
<1>1. Enqueue(s, n, notify) = IF Repeats(s, n) THEN s
                              ELSE [s EXCEPT !.latest[n.topic] = x, !.outbox = u]
  BY DEF Enqueue
<1> HIDE DEF others, x, u
<1>2. [s EXCEPT !.latest[n.topic] = x, !.outbox = u]
      = [latest |-> [s.latest EXCEPT ![n.topic] = x], outbox |-> u]
  <2> DEFINE a == s.latest
             b == s.outbox
             t == n.topic
  <2>1. s = [latest |-> a, outbox |-> b]
    OBVIOUS
  <2> HIDE DEF a, b, t
  <2>2. [[latest |-> a, outbox |-> b] EXCEPT !.latest[t] = x]
        = [latest |-> [a EXCEPT ![t] = x], outbox |-> b]
    OBVIOUS
  <2>3. [s EXCEPT !.latest[t] = x, !.outbox = u]
        = [[[latest |-> a, outbox |-> b] EXCEPT !.latest[t] = x] EXCEPT !.outbox = u]
    BY <2>1
  <2>4. [[latest |-> [a EXCEPT ![t] = x], outbox |-> b] EXCEPT !.outbox = u]
        = [latest |-> [a EXCEPT ![t] = x], outbox |-> u]
    OBVIOUS
  <2>5. [s EXCEPT !.latest[t] = x, !.outbox = u] = [latest |-> [a EXCEPT ![t] = x], outbox |-> u]
    BY ONLY <2>2, <2>3, <2>4
  <2>6. QED
    BY <2>5 DEF a, t
<1>3. CASE Repeats(s, n)
  BY <1>1, <1>3
<1>4. CASE ~Repeats(s, n)
  BY <1>1, <1>2, <1>4 DEF u, others, x
<1>5. QED
  BY <1>3, <1>4

\* What still waits when a notice replaces the failures of its topic.
LEMMA OthersKept ==
    ASSUME NEW t, Table(t), NEW n
    PROVE  LET S == {k \in DOMAIN t : Waiting(n, t[k])}
               u == Restrict(t, S)
           IN  /\ Table(u) /\ S \in SUBSET DOMAIN t
               /\ \A k \in DOMAIN u : k \in DOMAIN t /\ u[k] = t[k]
               /\ \A k \in DOMAIN t : t[k].topic # n.topic => k \in DOMAIN u /\ u[k] = t[k]
<1> DEFINE S == {k \in DOMAIN t : Waiting(n, t[k])}
<1>1. S \in SUBSET DOMAIN t
  OBVIOUS
<1>2. \A k \in DOMAIN t : t[k].topic # n.topic => k \in S
  BY DEF Waiting
<1> HIDE DEF S
<1>3. /\ Table(Restrict(t, S)) /\ DOMAIN Restrict(t, S) = S
      /\ \A k \in S : Restrict(t, S)[k] = t[k]
  BY <1>1, RestrictedTable
<1>4. QED
  BY <1>1, <1>2, <1>3 DEF S

\* What e, the store s after a notice, has kept and gained when c rows and q
\* reports are taken.
EnqueueEffect(s, n, notify, e, c, q) ==
    /\ e = [latest |-> e.latest, outbox |-> e.outbox]
    /\ OutboxInv(e.outbox, c, q) /\ Fresh(e.outbox)
    /\ e.latest \in [Topic -> [status: Status, ref: 0 .. Len(ops), old: BOOLEAN]]
    /\ \A x \in Topic : x # n.topic => e.latest[x] = s.latest[x]
    /\ e.latest[n.topic].status = n.status /\ e.latest[n.topic].ref = n.ref
    /\ \A p \in Project, a \in {"update", "initial_check"} :
          Backed(e.latest, e.outbox, p, a)
    /\ \A p \in Project : \A op :
          Asked(s.outbox, p, op) /\ (n.topic = <<p, "retry">> => op = n.ref /\ notify
                                                                 /\ n.status # "succeeded")
          => Asked(e.outbox, p, op)
    /\ \A p \in Project :
          /\ n.topic = <<p, "retry">> /\ notify /\ n.status # "succeeded"
          /\ s.latest[n.topic].ref = n.ref => Asked(s.outbox, p, n.ref)
          => Asked(e.outbox, p, n.ref)

\* A notice put into a store that has taken everything before it.
LEMMA EnqueueStep ==
    ASSUME NTypeOK, delivered \in Seq(Sent),
           NEW s, s = [latest |-> s.latest, outbox |-> s.outbox],
           NEW c \in Nat, c + 1 <= Len(log), NEW q \in Nat,
           StoreInv(s.latest, s.outbox, c, q), Fresh(s.outbox),
           NEW n \in Waits, n.topic \in Topic, n.at = c + 1, n.old = FALSE,
           Within(n, c + 1, q), NEW notify \in BOOLEAN, n.status # "succeeded" => notify
    PROVE  EnqueueEffect(s, n, notify, Enqueue(s, n, notify), c + 1, q)
<1> DEFINE e == Enqueue(s, n, notify)
           others == Restrict(s.outbox, {k \in DOMAIN s.outbox : Waiting(n, s.outbox[k])})
           x == [status |-> n.status, ref |-> n.ref, old |-> FALSE]
<1>1. /\ e = [latest |-> e.latest, outbox |-> e.outbox]
      /\ Repeats(s, n) => e = s
      /\ ~Repeats(s, n) => /\ e.latest = [s.latest EXCEPT ![n.topic] = x]
                           /\ e.outbox = IF notify THEN Inserted(others, n) ELSE others
  <2> HIDE DEF e, others, x
  <2>1. s = [latest |-> s.latest, outbox |-> s.outbox] /\ notify \in BOOLEAN
    OBVIOUS
  <2>2. QED
    BY ONLY <2>1, Enqueued DEF e, others, x
<1>2. /\ Table(s.outbox) /\ OutboxInv(s.outbox, c, q)
      /\ s.latest \in [Topic -> [status: Status, ref: 0 .. Len(ops), old: BOOLEAN]]
  BY DEF StoreInv, OutboxInv, NewsInv
<1>3. /\ Table(others) /\ OutboxInv(others, c, q)
      /\ \A k \in DOMAIN others : k \in DOMAIN s.outbox /\ others[k] = s.outbox[k]
      /\ \A k \in DOMAIN s.outbox : s.outbox[k].topic # n.topic
                                    => k \in DOMAIN others /\ others[k] = s.outbox[k]
  <2>1. LET S == {k \in DOMAIN s.outbox : Waiting(n, s.outbox[k])}
            u == Restrict(s.outbox, S)
        IN  /\ Table(u) /\ S \in SUBSET DOMAIN s.outbox
            /\ \A k \in DOMAIN u : k \in DOMAIN s.outbox /\ u[k] = s.outbox[k]
            /\ \A k \in DOMAIN s.outbox : s.outbox[k].topic # n.topic
                                          => k \in DOMAIN u /\ u[k] = s.outbox[k]
    BY <1>2, OthersKept
  <2>2. OutboxInv(others, c, q)
    BY <1>2, <2>1, OutboxFewer
  <2>3. QED
    BY <2>1, <2>2
<1>4. x \in [status: Status, ref: 0 .. Len(ops), old: BOOLEAN] /\ n.topic # Summary
      /\ x.status = n.status /\ x.ref = n.ref
  BY Topics DEF Waits
<1>5. c \in 0 .. Len(log) /\ c + 1 \in Nat /\ c <= c + 1 /\ q <= q /\ c < n.at
  BY Numbered
<1> HIDE DEF e, others, x
<1>6. CASE Repeats(s, n)
  <2>1. e = s /\ s.latest[n.topic].status = n.status /\ s.latest[n.topic].ref = n.ref
    BY <1>1, <1>6 DEF Repeats
  <2>2. OutboxInv(e.outbox, c + 1, q)
    BY <1>2, <1>5, <2>1, OutboxLater
  <2>3. \A p \in Project, a \in {"update", "initial_check"} : Backed(e.latest, e.outbox, p, a)
    BY <2>1 DEF StoreInv, NewsInv
  <2>4. QED
    BY <1>1, <1>2, <2>1, <2>2, <2>3 DEF e, EnqueueEffect
<1>7. CASE ~Repeats(s, n)
  <2>1. /\ e.latest = [s.latest EXCEPT ![n.topic] = x]
        /\ e.outbox = IF notify THEN Inserted(others, n) ELSE others
    BY <1>1, <1>7
  <2>2. /\ e.latest \in [Topic -> [status: Status, ref: 0 .. Len(ops), old: BOOLEAN]]
        /\ \A y \in Topic : y # n.topic => e.latest[y] = s.latest[y]
        /\ e.latest[n.topic].status = n.status /\ e.latest[n.topic].ref = n.ref
    BY <1>2, <1>4, <2>1
  <2>3. OutboxInv(e.outbox, c + 1, q)
    <3>1. OutboxInv(others, c + 1, q)
      BY <1>3, <1>5, OutboxLater
    <3>2. OutboxInv(Inserted(others, n), c + 1, q)
      BY <1>3, <1>4, <1>5, OutboxMore
    <3>3. QED
      BY <2>1, <3>1, <3>2
  <2>4. /\ \A k \in DOMAIN e.outbox : e.outbox[k] = n \/ (k \in DOMAIN others /\ e.outbox[k] = others[k])
        /\ \A k \in DOMAIN others : k \in DOMAIN e.outbox /\ e.outbox[k] = others[k]
        /\ notify => /\ NewId(others) \in DOMAIN e.outbox
                     /\ e.outbox[NewId(others)] = n
    <3>1. /\ DOMAIN Inserted(others, n) = DOMAIN others \cup {NewId(others)}
          /\ Inserted(others, n)[NewId(others)] = n
          /\ \A k \in DOMAIN others : Inserted(others, n)[k] = others[k]
      BY <1>3, InsertedTable
    <3>2. QED
      BY <2>1, <3>1
  <2>5. Fresh(e.outbox)
    BY <1>3, <2>4 DEF Fresh, Expired
  <2>6. ASSUME NEW p \in Project, NEW a \in {"update", "initial_check"}
        PROVE  Backed(e.latest, e.outbox, p, a)
    <3>1. SUFFICES ASSUME e.latest[<<p, a>>].status \notin {"none", "succeeded"}
                   PROVE  LastIs(e.outbox, <<p, a>>, e.latest[<<p, a>>].status)
      BY DEF Backed
    <3>2. <<p, a>> \in Topic
      BY Topics
    <3>3. CASE n.topic = <<p, a>>
      <4>1. notify /\ e.latest[<<p, a>>].status = n.status
        BY <2>2, <3>1, <3>3
      <4>2. e.outbox = Inserted(others, n)
        BY <2>1, <4>1
      <4>3. LastIs(Inserted(others, n), n.topic, n.status)
        BY <1>3, LastInserted
      <4>4. QED
        BY <3>3, <4>1, <4>2, <4>3
    <3>4. CASE n.topic # <<p, a>>
      <4>1. e.latest[<<p, a>>] = s.latest[<<p, a>>]
        BY <2>2, <3>2, <3>4
      <4>2. LastIs(s.outbox, <<p, a>>, s.latest[<<p, a>>].status)
        BY <3>1, <4>1 DEF StoreInv, NewsInv, Backed
      <4>3. \A k \in DOMAIN e.outbox : e.outbox[k].topic = <<p, a>>
               => k \in DOMAIN s.outbox /\ s.outbox[k].topic = <<p, a>>
        BY <1>3, <2>4, <3>4
      <4>4. \A k \in DOMAIN s.outbox : s.outbox[k].topic = <<p, a>>
               => k \in DOMAIN e.outbox /\ e.outbox[k] = s.outbox[k]
        BY <1>3, <2>4, <3>4
      <4> DEFINE topic == <<p, a>>
                 status == s.latest[<<p, a>>].status
                 t == s.outbox
                 u == e.outbox
      <4>5. /\ \A k \in DOMAIN u : u[k].topic = topic => k \in DOMAIN t /\ t[k].topic = topic
            /\ \A k \in DOMAIN t : t[k].topic = topic /\ t[k].status = status
                                   => k \in DOMAIN u /\ u[k].topic = topic /\ u[k].status = status
            /\ LastIs(t, topic, status)
        BY <4>2, <4>3, <4>4
      <4> HIDE DEF topic, status, t, u
      <4>6. LastIs(u, topic, status)
        BY <4>5, LastKept
      <4>7. QED
        BY <4>1, <4>6 DEF topic, status, u
    <3>5. QED
      BY <3>3, <3>4
  <2>7. ASSUME NEW p \in Project, n.topic = <<p, "retry">>, notify, n.status # "succeeded"
        PROVE  Asked(e.outbox, p, n.ref)
    BY <2>4, <2>7 DEF Asked
  <2>8. ASSUME NEW p \in Project, NEW op, Asked(s.outbox, p, op), n.topic # <<p, "retry">>
        PROVE  Asked(e.outbox, p, op)
    <3>1. \A k \in DOMAIN s.outbox : s.outbox[k].topic = <<p, "retry">>
             => k \in DOMAIN e.outbox /\ e.outbox[k] = s.outbox[k]
      BY <1>3, <2>4, <2>8
    <3>2. QED
      BY <2>8, <3>1 DEF Asked
  <2>9. QED
    BY <1>1, <2>2, <2>3, <2>5, <2>6, <2>7, <2>8 DEF e, EnqueueEffect
<1>8. QED
  BY <1>6, <1>7

\* The step of NewsInv, from what one more row changes.
LEMMA NewsNext ==
    ASSUME NTypeOK, NEW l, NEW t, NEW u, NEW v, NEW c \in Nat, c + 1 <= Len(log),
           NewsInv(l, t, c),
           u \in [Topic -> [status: Status, ref: 0 .. Len(ops), old: BOOLEAN]],
           \A p \in Project : Backed(u, v, p, "update") /\ Backed(u, v, p, "initial_check"),
           \A p \in Project :
              /\ About(c + 1, p, "result") /\ log[c + 1].status # "succeeded" /\ ~Superseded(c + 1)
                 => u[<<p, "update">>].status = log[c + 1].status
              /\ ~About(c + 1, p, "result") => u[<<p, "update">>].status = l[<<p, "update">>].status
              /\ About(c + 1, p, "check") /\ log[c + 1].status # "succeeded" /\ ~Superseded(c + 1)
                 => u[<<p, "initial_check">>].status = log[c + 1].status
              /\ ~About(c + 1, p, "check")
                 => u[<<p, "initial_check">>].status = l[<<p, "initial_check">>].status
              /\ \/ u[<<p, "retry">>].ref = l[<<p, "retry">>].ref
                 \/ /\ log[c + 1].event = "exhausted"
                    /\ log[c + 1].op = u[<<p, "retry">>].ref
              /\ p \in listed /\ pause[p] # 0 /\ SpentBy(pause[p], c) => Asked(v, p, pause[p])
              /\ p \in listed /\ pause[p] # 0 /\ log[c + 1].event = "exhausted" /\ log[c + 1].op = pause[p]
                 => Asked(v, p, pause[p])
    PROVE  NewsInv(u, v, c + 1)
<1>1. ASSUME NEW p \in Project
      PROVE  /\ Known(u, c + 1, p, "result", "update")
             /\ Known(u, c + 1, p, "check", "initial_check")
  BY KnownNext DEF NewsInv
<1>2. ASSUME NEW p \in Project, u[<<p, "retry">>].ref # 0
      PROVE  SpentBy(u[<<p, "retry">>].ref, c + 1)
  BY <1>2, SpentNext DEF NewsInv
<1>3. ASSUME NEW p \in Project, p \in listed, pause[p] # 0, SpentBy(pause[p], c + 1)
      PROVE  Asked(v, p, pause[p])
  BY <1>3, SpentNext
<1>4. QED
  BY <1>1, <1>2, <1>3 DEF NewsInv

-----------------------------------------------------------------------------
(* A collection: report after report, then row after row. *)

\* Where a collection ends, and what it passes over.
LEMMA BatchEnds ==
    ASSUME NTypeOK, ViewInv, phase = "read"
    PROVE  /\ Queued \in Nat /\ summarised <= Queued /\ Queued <= Len(view.rounds)
           /\ Consumed \in Nat /\ cursor <= Consumed /\ Consumed <= Len(view.log)
           /\ \A i \in cursor + 1 .. Consumed : ~Held(i)
<1>1. /\ cursor \in Nat /\ summarised \in Nat /\ Len(view.log) \in Nat /\ Len(view.rounds) \in Nat
      /\ cursor <= Len(view.log) /\ summarised <= Len(view.rounds)
      /\ DOMAIN view.rounds = 1 .. Len(view.rounds)
  BY Numbered DEF ViewInv
<1>2. Queued \in Nat /\ summarised <= Queued /\ Queued <= Len(view.rounds)
  <2>1. CASE Taken = {}
    BY <1>1, <2>1 DEF Queued
  <2>2. CASE Taken # {}
    <3>1. Taken \in SUBSET Nat /\ \A r \in Taken : summarised < r /\ r <= Len(view.rounds)
      BY <1>1 DEF Taken, NewReports
    <3>2. Max(Taken) \in Taken
      BY <1>1, <2>2, <3>1, GreatestOf
    <3>3. Queued = Max(Taken)
      BY <2>2 DEF Queued
    <3>4. Queued \in Nat /\ summarised < Queued /\ Queued <= Len(view.rounds)
      BY ONLY <3>1, <3>2, <3>3
    <3>5. QED
      BY <1>1, <3>4
  <2>3. QED
    BY <2>1, <2>2
<1>3. CASE Rows = {}
  BY <1>1, <1>2, <1>3 DEF Consumed
<1>4. CASE Rows # {}
  <2>1. /\ Rows \in SUBSET Nat /\ \A i \in Rows : cursor < i /\ i <= Len(view.log)
        /\ \A i \in Rows : \A j \in cursor + 1 .. i : ~Held(j)
    BY <1>1, NoticeAssumption DEF Rows
  <2>2. Max(Rows) \in Rows
    BY <1>1, <1>4, <2>1, GreatestOf
  <2>3. Consumed = Max(Rows)
    BY <1>4 DEF Consumed
  <2>4. /\ Consumed \in Nat /\ cursor < Consumed /\ Consumed <= Len(view.log)
        /\ \A j \in cursor + 1 .. Consumed : ~Held(j)
    BY ONLY <2>1, <2>2, <2>3
  <2>5. QED
    BY <1>1, <1>2, <2>4
<1>5. QED
  BY <1>3, <1>4

\* The store of a collection that has taken q reports and c rows.
ChainInv(s, c, q) == /\ s = [latest |-> s.latest, outbox |-> s.outbox]
                     /\ StoreInv(s.latest, s.outbox, c, q) /\ Fresh(s.outbox)

\* What is void holds nothing that must still be told.
LEMMA ClearedStep ==
    ASSUME NTypeOK, ViewInv, phase = "read", delivered \in Seq(Sent),
           StoreInv(latest, outbox, cursor, summarised)
    PROVE  ChainInv(Cleared, cursor, summarised)
<1> DEFINE S == {k \in DOMAIN outbox : ~Expired(outbox[k]) /\ ~Obsolete(outbox[k])}
           u == Restrict(outbox, S)
<1>1. Cleared = [latest |-> latest, outbox |-> u]
  BY DEF Cleared
<1>2. S \in SUBSET DOMAIN outbox /\ Table(outbox)
  BY DEF StoreInv, OutboxInv
<1>3. /\ \A k \in DOMAIN outbox : k \in S <=> ~Expired(outbox[k]) /\ ~Obsolete(outbox[k])
  OBVIOUS
<1> HIDE DEF S
<1>4. OutboxInv(u, cursor, summarised) /\ DOMAIN u = S /\ \A k \in S : u[k] = outbox[k]
  BY <1>2, OutboxFewer, RestrictedTable DEF StoreInv
<1> HIDE DEF u
<1>5. Fresh(u)
  BY <1>2, <1>3, <1>4 DEF Fresh
<1>6. ASSUME NEW p \in Project, NEW a \in {"update", "initial_check"}, Backed(latest, outbox, p, a)
      PROVE  Backed(latest, u, p, a)
  <2> DEFINE topic == <<p, a>>
             status == latest[<<p, a>>].status
  <2>1. SUFFICES ASSUME status \notin {"none", "succeeded"}
                 PROVE  LastIs(u, topic, status)
    BY DEF Backed
  <2>2. topic[2] # "retry"
    BY Topics
  <2>3. LastIs(outbox, topic, status)
    BY <1>6, <2>1 DEF Backed
  <2> HIDE DEF topic, status
  <2>4. \A k \in DOMAIN u : u[k].topic = topic => k \in DOMAIN outbox /\ outbox[k].topic = topic
    BY <1>2, <1>4
  <2>5. ASSUME NEW k \in DOMAIN outbox, outbox[k].topic = topic, outbox[k].status = status
        PROVE  k \in DOMAIN u /\ u[k].topic = topic /\ u[k].status = status
    <3>1. ~Expired(outbox[k]) /\ ~Obsolete(outbox[k])
      BY <2>1, <2>2, <2>5 DEF Expired, Obsolete
    <3>2. QED
      BY <1>3, <1>4, <2>5, <3>1
  <2>6. QED
    BY <2>3, <2>4, <2>5, LastKept
<1>7. ASSUME NEW p \in Project, p \in listed, pause[p] # 0, SpentBy(pause[p], cursor)
      PROVE  Asked(u, p, pause[p])
  <2>1. Asked(outbox, p, pause[p])
    BY <1>7 DEF StoreInv, NewsInv
  <2>2. view.pause[p] = pause[p]
    <3>1. cursor \in Nat /\ Len(view.log) \in Nat /\ cursor <= Len(view.log)
      BY Numbered DEF ViewInv
    <3>2. SpentBy(pause[p], Len(view.log))
      BY <1>7, <3>1 DEF SpentBy
    <3>3. QED
      BY <1>7, <3>2 DEF ViewInv
  <2>3. ASSUME NEW k \in DOMAIN outbox, outbox[k].topic = <<p, "retry">>, outbox[k].ref = pause[p],
               outbox[k].status # "succeeded"
        PROVE  k \in DOMAIN u /\ u[k] = outbox[k]
    <3>1. <<p, "retry">>[1] = p
      OBVIOUS
    <3>2. ~Expired(outbox[k]) /\ ~Obsolete(outbox[k])
      BY <2>2, <2>3, <3>1 DEF Expired, Obsolete
    <3>3. QED
      BY <1>3, <1>4, <2>3, <3>2
  <2>4. QED
    BY <2>1, <2>3 DEF Asked
<1>8. NewsInv(latest, u, cursor)
  BY <1>6, <1>7 DEF StoreInv, NewsInv
<1>9. QED
  BY <1>1, <1>4, <1>5, <1>8 DEF ChainInv, StoreInv

\* A report, told of or not.
LEMMA ReportStep ==
    ASSUME NTypeOK, ViewInv, phase = "read", delivered \in Seq(Sent),
           NEW s, NEW r \in Nat, summarised <= r, r + 1 <= Len(view.rounds),
           ChainInv(s, cursor, r)
    PROVE  ChainInv(TakeReport(s, r + 1), cursor, r + 1)
<1> DEFINE n == SummaryOf(r + 1)
           u == Inserted(s.outbox, n)
           e == TakeReport(s, r + 1)
<1>1. /\ cursor \in 0 .. Len(log) /\ cursor \in Nat /\ r \in Nat /\ r + 1 \in Nat /\ r <= r + 1
      /\ cursor <= cursor
  BY Numbered
<1>2. /\ OutboxInv(s.outbox, cursor, r) /\ Table(s.outbox) /\ NewsInv(s.latest, s.outbox, cursor)
      /\ Fresh(s.outbox)
  BY DEF ChainInv, StoreInv, OutboxInv
<1>3. CASE e = s
  <2>1. OutboxInv(s.outbox, cursor, r + 1)
    BY <1>1, <1>2, OutboxLater
  <2>2. QED
    BY <1>3, <2>1 DEF ChainInv, StoreInv
<1>4. CASE e = [s EXCEPT !.outbox = u]
  <2>1. e = [latest |-> s.latest, outbox |-> u]
    <3> HIDE DEF u, n, e
    <3>1. QED
      BY <1>4, StoreShape DEF ChainInv
  <2>2. /\ n \in Waits /\ n.topic = Summary /\ n.at = r + 1 /\ n.old = FALSE
    <3>1. Len(ops) \in Nat /\ r + 1 \in Nat \ {0}
      BY Numbered
    <3>2. QED
      BY <3>1 DEF SummaryOf, Notice, Waits, Status, Final
  <2>3. Within(n, cursor, r + 1)
    <3>1. n.topic[2] = "summary" /\ n.at <= r + 1
      BY <1>1, <2>2, Topics
    <3>2. QED
      BY <2>2, <3>1 DEF Within, OfRound
  <2> HIDE DEF n
  <2>4. OutboxInv(u, cursor, r + 1)
    BY <1>1, <1>2, <2>2, <2>3, OutboxMore
  <2>5. /\ DOMAIN u = DOMAIN s.outbox \cup {NewId(s.outbox)} /\ u[NewId(s.outbox)] = n
        /\ \A k \in DOMAIN s.outbox : u[k] = s.outbox[k]
    BY <1>2, <2>2, InsertedTable
  <2>6. Fresh(u)
    BY <1>2, <2>2, <2>5 DEF Fresh, Expired
  <2>7. ASSUME NEW p \in Project, NEW a \in {"update", "initial_check"},
               Backed(s.latest, s.outbox, p, a)
        PROVE  Backed(s.latest, u, p, a)
    <3> DEFINE topic == <<p, a>>
               status == s.latest[<<p, a>>].status
    <3>1. SUFFICES ASSUME status \notin {"none", "succeeded"}
                   PROVE  LastIs(u, topic, status)
      BY DEF Backed
    <3>2. LastIs(s.outbox, topic, status)
      BY <2>7, <3>1 DEF Backed
    <3>3. topic # n.topic
      BY <2>2, Topics
    <3> DEFINE t == s.outbox
    <3> HIDE DEF topic, status
    <3>4. /\ \A k \in DOMAIN u : u[k].topic = topic => k \in DOMAIN t /\ t[k].topic = topic
          /\ \A k \in DOMAIN t : k \in DOMAIN u /\ u[k] = t[k]
      <4>1. Table(t) /\ n \in Waits /\ topic # n.topic
        BY <1>2, <2>2, <3>3
      <4> HIDE DEF t
      <4>2. /\ \A k \in DOMAIN Inserted(t, n) : Inserted(t, n)[k].topic = topic
                                                => k \in DOMAIN t /\ t[k].topic = topic
            /\ \A k \in DOMAIN t : k \in DOMAIN Inserted(t, n) /\ Inserted(t, n)[k] = t[k]
        BY ONLY <4>1, OthersSame
      <4>3. QED
        BY <4>2 DEF t
    <3> HIDE DEF t, u
    <3>5. LastIs(t, topic, status)
      BY <3>2 DEF t
    <3>6. QED
      BY <3>4, <3>5, LastKept
  <2>8. ASSUME NEW p \in Project, NEW op, Asked(s.outbox, p, op)
        PROVE  Asked(u, p, op)
    BY <2>5, <2>8 DEF Asked
  <2>9. NewsInv(s.latest, u, cursor)
    BY <1>2, <2>7, <2>8 DEF NewsInv
  <2>10. QED
    BY <2>1, <2>4, <2>6, <2>9 DEF ChainInv, StoreInv
<1>5. QED
  BY <1>3, <1>4 DEF TakeReport

\* A pause in force when its row was read is in force in what was read.
LEMMA PauseRead ==
    ASSUME NTypeOK, ViewInv, phase = "read", NEW c \in Nat, c <= Len(view.log),
           NEW p \in Project, p \in listed, pause[p] # 0, SpentBy(pause[p], c)
    PROVE  view.pause[p] = pause[p]
<1>1. Len(view.log) \in Nat
  BY DEF ViewInv
<1>2. SpentBy(pause[p], Len(view.log))
  BY <1>1 DEF SpentBy
<1>3. QED
  BY <1>2 DEF ViewInv

\* Notice n tells what row i means to the topics of a project.
Tells(n, i) ==
    \A p \in Project :
       /\ n.topic = <<p, "update">> => About(i, p, "result") /\ n.status = log[i].status
       /\ About(i, p, "result") /\ ~Superseded(i) => n.topic = <<p, "update">>
       /\ n.topic = <<p, "initial_check">> => About(i, p, "check") /\ n.status = log[i].status
       /\ About(i, p, "check") /\ ~Superseded(i) => n.topic = <<p, "initial_check">>
       /\ n.topic = <<p, "retry">>
          => /\ log[i].event = "exhausted" /\ log[i].op = n.ref /\ n.ref # 0
             /\ view.pause[p] = n.ref /\ n.status # "succeeded"
       /\ p \in listed /\ pause[p] # 0 /\ log[i].event = "exhausted" /\ log[i].op = pause[p]
          => n.topic = <<p, "retry">>

\* A row that makes a notice.
LEMMA RowEnqueued ==
    ASSUME NTypeOK, ViewInv, phase = "read", delivered \in Seq(Sent),
           NEW s, NEW c \in Nat, c + 1 <= Len(view.log), NEW q \in Nat, ChainInv(s, c, q),
           NEW n \in Waits, n.topic \in Topic, n.at = c + 1, n.old = FALSE,
           Within(n, c + 1, q), NEW notify \in BOOLEAN, n.status # "succeeded" => notify,
           Tells(n, c + 1)
    PROVE  ChainInv(Enqueue(s, n, notify), c + 1, q)
<1> DEFINE e == Enqueue(s, n, notify)
<1>1. c + 1 <= Len(log) /\ Len(log) \in Nat /\ Len(view.log) \in Nat /\ c <= Len(view.log)
      /\ c + 1 \in Nat
  BY Numbered DEF ViewInv
<1>2. /\ s = [latest |-> s.latest, outbox |-> s.outbox] /\ Fresh(s.outbox)
      /\ StoreInv(s.latest, s.outbox, c, q) /\ NewsInv(s.latest, s.outbox, c)
  BY DEF ChainInv, StoreInv
<1>3. EnqueueEffect(s, n, notify, e, c + 1, q)
  BY <1>1, <1>2, EnqueueStep
<1> HIDE DEF e
<1>4. ASSUME NEW p \in Project
      PROVE  /\ About(c + 1, p, "result") /\ log[c + 1].status # "succeeded" /\ ~Superseded(c + 1)
                => e.latest[<<p, "update">>].status = log[c + 1].status
             /\ ~About(c + 1, p, "result")
                => e.latest[<<p, "update">>].status = s.latest[<<p, "update">>].status
             /\ About(c + 1, p, "check") /\ log[c + 1].status # "succeeded" /\ ~Superseded(c + 1)
                => e.latest[<<p, "initial_check">>].status = log[c + 1].status
             /\ ~About(c + 1, p, "check")
                => e.latest[<<p, "initial_check">>].status = s.latest[<<p, "initial_check">>].status
  <2>1. <<p, "update">> \in Topic /\ <<p, "initial_check">> \in Topic
    BY Topics
  <2>2. QED
    BY <1>3, <2>1 DEF EnqueueEffect, Tells
<1>5. ASSUME NEW p \in Project
      PROVE  \/ e.latest[<<p, "retry">>].ref = s.latest[<<p, "retry">>].ref
             \/ /\ log[c + 1].event = "exhausted"
                /\ log[c + 1].op = e.latest[<<p, "retry">>].ref
  <2>1. <<p, "retry">> \in Topic
    BY Topics
  <2>2. QED
    BY <1>3, <2>1 DEF EnqueueEffect, Tells
<1>6. ASSUME NEW p \in Project, p \in listed, pause[p] # 0, SpentBy(pause[p], c)
      PROVE  Asked(e.outbox, p, pause[p])
  <2>1. Asked(s.outbox, p, pause[p])
    BY <1>2, <1>6 DEF NewsInv
  <2>2. view.pause[p] = pause[p]
    BY <1>1, <1>6, PauseRead
  <2>3. n.topic = <<p, "retry">> => pause[p] = n.ref /\ notify /\ n.status # "succeeded"
    BY <2>2 DEF Tells
  <2>4. QED
    BY <1>3, <2>1, <2>3 DEF EnqueueEffect
<1>7. ASSUME NEW p \in Project, p \in listed, pause[p] # 0, log[c + 1].event = "exhausted",
             log[c + 1].op = pause[p]
      PROVE  Asked(e.outbox, p, pause[p])
  <2>1. n.topic = <<p, "retry">> /\ n.ref = pause[p] /\ n.status # "succeeded" /\ notify
    BY <1>7 DEF Tells
  <2>2. s.latest[n.topic].ref = n.ref => Asked(s.outbox, p, n.ref)
    BY <1>2, <1>7, <2>1 DEF NewsInv
  <2>3. QED
    BY <1>3, <2>1, <2>2 DEF EnqueueEffect
<1>8. NewsInv(e.latest, e.outbox, c + 1)
  <2> DEFINE l == s.latest
             t == s.outbox
             u == e.latest
             v == e.outbox
  <2>1. /\ NewsInv(l, t, c)
        /\ u \in [Topic -> [status: Status, ref: 0 .. Len(ops), old: BOOLEAN]]
        /\ \A p \in Project : Backed(u, v, p, "update") /\ Backed(u, v, p, "initial_check")
    BY <1>2, <1>3 DEF EnqueueEffect
  <2>2. \A p \in Project :
           /\ About(c + 1, p, "result") /\ log[c + 1].status # "succeeded" /\ ~Superseded(c + 1)
              => u[<<p, "update">>].status = log[c + 1].status
           /\ ~About(c + 1, p, "result") => u[<<p, "update">>].status = l[<<p, "update">>].status
           /\ About(c + 1, p, "check") /\ log[c + 1].status # "succeeded" /\ ~Superseded(c + 1)
              => u[<<p, "initial_check">>].status = log[c + 1].status
           /\ ~About(c + 1, p, "check")
              => u[<<p, "initial_check">>].status = l[<<p, "initial_check">>].status
           /\ \/ u[<<p, "retry">>].ref = l[<<p, "retry">>].ref
              \/ /\ log[c + 1].event = "exhausted"
                 /\ log[c + 1].op = u[<<p, "retry">>].ref
           /\ p \in listed /\ pause[p] # 0 /\ SpentBy(pause[p], c) => Asked(v, p, pause[p])
           /\ p \in listed /\ pause[p] # 0 /\ log[c + 1].event = "exhausted" /\ log[c + 1].op = pause[p]
              => Asked(v, p, pause[p])
    BY <1>4, <1>5, <1>6, <1>7
  <2> HIDE DEF l, t, u, v
  <2>3. NewsInv(u, v, c + 1)
    BY <1>1, <2>1, <2>2, NewsNext
  <2>4. QED
    BY <2>3 DEF u, v
<1>9. QED
  BY <1>3, <1>8 DEF ChainInv, StoreInv, e, EnqueueEffect

\* One audit row, whatever it makes of it.
LEMMA RowStep ==
    ASSUME NTypeOK, LedgerInv, ViewInv, phase = "read", delivered \in Seq(Sent),
           NEW s, NEW c \in Nat, cursor <= c, c + 1 <= Consumed, ChainInv(s, c, Queued)
    PROVE  ChainInv(ConsumeRow(s, c + 1), c + 1, Queued)
<1> DEFINE k == c + 1
           e == view.log[k]
           o == view.ops[e.op]
           q == Queued
           notify == ~(o.by = "schedule" /\ e.round # 0 /\ o.status = "succeeded")
           n1 == Notice(<<o.project, "update">>, o.status, 0, k)
           n2 == Notice(<<o.project, "retry">>, "failed", e.op, k)
           n3 == Notice(<<o.project, "initial_check">>, e.status, e.op, k)
           n4 == Notice(Gate, "failed", 0, k)
           n5 == Notice(Gate, "succeeded", 0, k)
           one   == e.event = "result" /\ LatestRow(k) /\ o.by # "initial"
           two   == e.event = "exhausted" /\ o.project \in listed /\ view.pause[o.project] = e.op
           three == e.event = "check" /\ LatestRow(k)
           four  == e.event = "gate" /\ e.round = 0
           five  == e.event = "reconciled" /\ s.latest[Gate].status = "failed"
<1>1. /\ one => ConsumeRow(s, k) = Enqueue(s, n1, notify)
      /\ two => ConsumeRow(s, k) = Enqueue(s, n2, TRUE)
      /\ three => ConsumeRow(s, k) = Enqueue(s, n3, TRUE)
      /\ four => ConsumeRow(s, k) = Enqueue(s, n4, TRUE)
      /\ five => ConsumeRow(s, k) = Enqueue(s, n5, TRUE)
      /\ ~one /\ ~two /\ ~three /\ ~four /\ ~five => ConsumeRow(s, k) = s
  BY DEF ConsumeRow
<1>2. /\ k \in Nat \ {0} /\ k \in 1 .. Len(view.log) /\ k \in 1 .. Len(log) /\ k <= Len(view.log)
      /\ q \in Nat /\ ~Held(k) /\ cursor \in Nat /\ Len(log) \in Nat /\ Len(ops) \in Nat
      /\ Len(view.ops) \in Nat /\ Len(view.ops) <= Len(ops) /\ DOMAIN view.log = 1 .. Len(view.log)
      /\ c \in 0 .. Len(log) /\ Len(view.log) \in Nat /\ Len(view.log) <= Len(log)
  BY BatchEnds, Numbered DEF ViewInv
<1>3. /\ e = log[k] /\ e.op \in 0 .. Len(view.ops) /\ e.round \in Nat /\ e.status \in Status
      /\ e.op \in 0 .. Len(ops)
  <2>1. view.log[k] = log[k] /\ log[k].op \in 0 .. Len(view.ops)
    BY <1>2 DEF ViewInv
  <2>2. log[k].round \in Nat /\ log[k].status \in Status /\ log[k].op \in 0 .. Len(ops)
    BY <1>2, Numbered
  <2>3. QED
    BY <2>1, <2>2
<1>4. ASSUME e.event \in {"result", "exhausted", "check"}
      PROVE  /\ e.op # 0 /\ o.project = ops[e.op].project /\ o.by = ops[e.op].by
             /\ o.project \in Project
  <2>1. e.op # 0
    BY <1>2, <1>3, <1>4, Numbered DEF LedgerInv
  <2>2. e.op \in 1 .. Len(view.ops) /\ e.op \in 1 .. Len(ops)
    BY <1>2, <1>3, <2>1
  <2>3. o.project = ops[e.op].project /\ o.by = ops[e.op].by
    BY <2>2 DEF ViewInv
  <2>4. QED
    BY <2>1, <2>2, <2>3, Numbered DEF Operation
<1>5. ~Superseded(k) => LatestRow(k)
  <2>1. SUFFICES ASSUME ~Superseded(k), NEW j \in DOMAIN view.log, j > k
                 PROVE  view.log[j].event # view.log[k].event \/ view.log[j].op # view.log[k].op
    BY DEF LatestRow
  <2>2. view.log[j] = log[j] /\ view.log[k] = log[k]
    BY <1>2, <2>1 DEF ViewInv
  <2>3. j \in k + 1 .. Len(log)
    <3>1. j \in 1 .. Len(view.log)
      BY <1>2, <2>1
    <3>2. QED
      BY ONLY <1>2, <2>1, <3>1
  <2>4. QED
    BY <2>1, <2>2, <2>3 DEF Superseded
<1>6. /\ e.event = "result" => e.status # "none"
      /\ e.event = "check" => e.status # "none"
      /\ e.event \in {"result", "exhausted"} /\ e.scheduled => e.round <= q
      /\ one => o.status = e.status
  <2>1. /\ e.event = "result" => e.status # "none"
        /\ e.event = "check" => e.status # "none"
    BY <1>2, <1>3, Numbered DEF LedgerInv
  <2>2. e.event \in {"result", "exhausted"} /\ e.scheduled => e.round <= q
    BY <1>2, <1>3 DEF Held
  <2>3. one => o.status = e.status
    BY <1>2, <1>3 DEF ViewInv
  <2>4. QED
    BY <2>1, <2>2, <2>3
<1>7. \A p \in Project : About(k, p, "result") <=> e.event = "result" /\ o.project = p /\ o.by # "initial"
  BY <1>3, <1>4 DEF About
<1>8. \A p \in Project : About(k, p, "check") <=> e.event = "check" /\ o.project = p
  BY <1>3, <1>4 DEF About
<1>9. ASSUME NEW p \in Project, p \in listed, pause[p] # 0, e.event = "exhausted", e.op = pause[p]
      PROVE  o.project = p /\ view.pause[p] = e.op
  <2>1. o.project = p
    BY <1>4, <1>9 DEF LedgerInv
  <2>2. SpentBy(pause[p], k)
    BY <1>2, <1>3, <1>9 DEF SpentBy
  <2>3. view.pause[p] = pause[p]
    BY <1>2, <1>9, <2>2, PauseRead
  <2>4. QED
    BY <1>9, <2>1, <2>3
<1>10. /\ log[k] = e /\ c + 1 = k /\ ChainInv(s, c, q)
  BY <1>3
<1>11. \A topic, status, ref :
          LET n == Notice(topic, status, ref, k)
          IN  /\ n.topic = topic /\ n.status = status /\ n.ref = ref /\ n.at = k /\ n.old = FALSE
              /\ topic \in Topic /\ status \in Status /\ ref \in 0 .. Len(ops) => n \in Waits
  BY <1>2 DEF Notice, Waits
<1>12. ASSUME NEW topic \in Topic, NEW status, NEW ref,
              topic[2] \in {"update", "retry"} /\ e.scheduled => e.round <= q
       PROVE  Within(Notice(topic, status, ref, k), k, q)
  <2>1. topic # Summary /\ k <= k
    BY <1>2, Topics
  <2>2. QED
    BY <1>3, <1>11, <1>12, <2>1 DEF Within, OfRound
<1> HIDE DEF k, e, o, q, n1, n2, n3, n4, n5, notify
<1>13. CASE one
  <2>1. /\ o.project \in Project /\ <<o.project, "update">> \in Topic /\ 0 \in 0 .. Len(ops)
        /\ o.status \in Status /\ o.status = e.status
    <3>1. o.status = e.status /\ e.status \in Status
      BY <1>3, <1>6, <1>13
    <3>2. o.project \in Project /\ 0 \in 0 .. Len(ops)
      BY <1>2, <1>4, <1>13
    <3>3. QED
      BY <3>1, <3>2, Topics
  <2>2. /\ n1.topic = <<o.project, "update">> /\ n1.status = o.status /\ n1.at = k
        /\ n1.old = FALSE /\ n1 \in Waits /\ Within(n1, k, q)
    BY <1>6, <1>11, <1>12, <1>13, <2>1 DEF n1
  <2>3. notify \in BOOLEAN /\ (n1.status # "succeeded" => notify)
    BY <2>2 DEF notify
  <2>4. \A p \in Project :
           /\ n1.topic = <<p, "update">> => About(k, p, "result") /\ n1.status = log[k].status
           /\ About(k, p, "result") => n1.topic = <<p, "update">>
           /\ n1.topic # <<p, "initial_check">> /\ ~About(k, p, "check")
           /\ n1.topic # <<p, "retry">> /\ log[k].event # "exhausted"
    BY <1>7, <1>8, <1>10, <1>13, <2>1, <2>2
  <2>5. ChainInv(Enqueue(s, n1, notify), k, q)
    <3>1. Tells(n1, c + 1) /\ n1.topic \in Topic
      BY <1>10, <2>1, <2>2, <2>4 DEF Tells
    <3>2. QED
      BY <1>2, <1>10, <2>2, <2>3, <3>1, RowEnqueued
  <2>6. QED
    BY <1>1, <1>13, <2>5 DEF k, q
<1>14. CASE two
  <2>1. /\ o.project \in Project /\ <<o.project, "retry">> \in Topic /\ e.op # 0
    BY <1>4, <1>14, Topics
  <2>2. /\ n2.topic = <<o.project, "retry">> /\ n2.status = "failed" /\ n2.ref = e.op /\ n2.at = k
        /\ n2.old = FALSE /\ n2 \in Waits /\ Within(n2, k, q)
    BY <1>3, <1>6, <1>11, <1>12, <1>14, <2>1 DEF n2, Status, Final
  <2>3. \A p \in Project :
           /\ n2.topic # <<p, "update">> /\ ~About(k, p, "result")
           /\ n2.topic # <<p, "initial_check">> /\ ~About(k, p, "check")
           /\ n2.topic = <<p, "retry">>
              => /\ log[k].event = "exhausted" /\ log[k].op = n2.ref /\ n2.ref # 0
                 /\ view.pause[p] = n2.ref /\ n2.status # "succeeded"
           /\ p \in listed /\ pause[p] # 0 /\ log[k].event = "exhausted" /\ log[k].op = pause[p]
              => n2.topic = <<p, "retry">>
    BY <1>7, <1>8, <1>9, <1>10, <1>14, <2>1, <2>2
  <2>4. ChainInv(Enqueue(s, n2, TRUE), k, q)
    <3>1. Tells(n2, c + 1) /\ n2.topic \in Topic
      BY <1>10, <2>1, <2>2, <2>3 DEF Tells
    <3>2. QED
      BY <1>2, <1>10, <2>2, <3>1, RowEnqueued
  <2>5. QED
    BY <1>1, <1>14, <2>4 DEF k, q
<1>15. CASE three
  <2>1. o.project \in Project /\ <<o.project, "initial_check">> \in Topic
        /\ <<o.project, "initial_check">>[2] = "initial_check"
    BY <1>4, <1>15, Topics
  <2>2. /\ n3.topic = <<o.project, "initial_check">> /\ n3.status = e.status /\ n3.at = k
        /\ n3.old = FALSE /\ n3 \in Waits /\ Within(n3, k, q)
    BY <1>3, <1>11, <1>12, <2>1 DEF n3
  <2>3. \A p \in Project :
           /\ n3.topic # <<p, "update">> /\ ~About(k, p, "result")
           /\ n3.topic = <<p, "initial_check">> => About(k, p, "check") /\ n3.status = log[k].status
           /\ About(k, p, "check") => n3.topic = <<p, "initial_check">>
           /\ n3.topic # <<p, "retry">> /\ log[k].event # "exhausted"
    BY <1>7, <1>8, <1>10, <1>15, <2>1, <2>2
  <2>4. ChainInv(Enqueue(s, n3, TRUE), k, q)
    <3>1. Tells(n3, c + 1) /\ n3.topic \in Topic
      BY <1>10, <2>1, <2>2, <2>3 DEF Tells
    <3>2. QED
      BY <1>2, <1>10, <2>2, <3>1, RowEnqueued
  <2>5. QED
    BY <1>1, <1>15, <2>4 DEF k, q
<1>16. ASSUME NEW n, n \in {n4, n5}, four \/ five
       PROVE  ChainInv(Enqueue(s, n, TRUE), k, q)
  <2>1. 0 \in 0 .. Len(ops) /\ Gate \in Topic /\ Gate[2] = "gate"
    BY <1>2, Topics
  <2>2. /\ n.topic = Gate /\ n.at = k /\ n.old = FALSE /\ n \in Waits /\ Within(n, k, q)
    BY <1>11, <1>12, <1>16, <2>1 DEF n4, n5, Status, Final
  <2>3. \A p \in Project :
           /\ n.topic # <<p, "update">> /\ ~About(k, p, "result")
           /\ n.topic # <<p, "initial_check">> /\ ~About(k, p, "check")
           /\ n.topic # <<p, "retry">> /\ log[k].event # "exhausted"
    BY <1>7, <1>8, <1>10, <1>16, <2>2, Topics
  <2>4. QED
    <3>1. Tells(n, c + 1) /\ n.topic \in Topic
      BY <1>10, <2>1, <2>2, <2>3 DEF Tells
    <3>2. QED
      BY <1>2, <1>10, <2>2, <3>1, RowEnqueued
<1>17. CASE four \/ five
  BY <1>1, <1>16, <1>17 DEF k, q
<1>18. CASE ~one /\ ~two /\ ~three /\ ~four /\ ~five
  <2> DEFINE l == s.latest
             t == s.outbox
  <2>1. ConsumeRow(s, k) = s
    BY <1>1, <1>18
  <2>2. OutboxInv(t, c, q) /\ NewsInv(l, t, c) /\ Fresh(t) /\ s = [latest |-> l, outbox |-> t]
    BY <1>10 DEF ChainInv, StoreInv
  <2> HIDE DEF l, t
  <2>3. OutboxInv(t, k, q)
    <3>1. c <= k /\ k \in Nat /\ q <= q
      BY <1>2, <1>10
    <3>2. QED
      BY <1>2, <2>2, <3>1, OutboxLater
  <2>4. ASSUME NEW p \in Project
        PROVE  /\ ~(About(k, p, "result") /\ ~Superseded(k))
               /\ ~(About(k, p, "check") /\ ~Superseded(k))
               /\ ~(p \in listed /\ pause[p] # 0 /\ log[k].event = "exhausted" /\ log[k].op = pause[p])
    BY <1>5, <1>7, <1>8, <1>9, <1>10, <1>18
  <2>5. /\ l \in [Topic -> [status: Status, ref: 0 .. Len(ops), old: BOOLEAN]]
        /\ \A p \in Project : /\ Backed(l, t, p, "update") /\ Backed(l, t, p, "initial_check")
                              /\ p \in listed /\ pause[p] # 0 /\ SpentBy(pause[p], c) => Asked(t, p, pause[p])
    BY <2>2 DEF NewsInv
  <2>6. k <= Len(log) /\ k = c + 1
    BY <1>2, <1>10
  <2>7. NewsInv(l, t, k)
    BY <2>2, <2>4, <2>5, <2>6, NewsNext
  <2>8. QED
    BY <2>1, <2>2, <2>3, <2>7 DEF ChainInv, StoreInv, l, t, k, q
<1>19. QED
  BY <1>13, <1>14, <1>15, <1>17, <1>18

\* The outbox after each report is what its definition says.
LEMMA SummarisedIs ==
    ASSUME summarised \in Nat, Queued \in Nat, summarised <= Queued
    PROVE  /\ Summarised[summarised] = Cleared
           /\ \A i \in summarised + 1 .. Queued : Summarised[i] = TakeReport(Summarised[i - 1], i)
<1> DEFINE D(n) == summarised .. summarised + n
           Is(f, n) == f = [i \in D(n) |-> IF i = summarised THEN Cleared ELSE TakeReport(f[i - 1], i)]
           S == {n \in Nat : \E f : Is(f, n)}
<1>1. 0 \in S
  <2> DEFINE f == [i \in D(0) |-> Cleared]
  <2>1. \A i \in D(0) : i = summarised
    OBVIOUS
  <2> HIDE DEF D
  <2>2. Is(f, 0)
    BY <2>1
  <2>3. QED
    BY <2>2
<1>2. ASSUME NEW n \in Nat, n \in S
      PROVE  n + 1 \in S
  <2> DEFINE end == summarised + (n + 1)
  <2>1. PICK f : Is(f, n)
    BY <1>2
  <2> DEFINE g == [i \in D(n + 1) |-> IF i = end THEN TakeReport(f[i - 1], i) ELSE f[i]]
  <2>2. \A i \in D(n + 1) : i \in D(n) \/ i = end
    OBVIOUS
  <2>3. \A i \in D(n) : i \in D(n + 1) /\ i # end /\ (i # summarised => i - 1 \in D(n))
    OBVIOUS
  <2>4. end - 1 \in D(n) /\ end # summarised
    OBVIOUS
  <2> HIDE DEF D, end
  <2>5. \A i \in D(n) : g[i] = f[i]
    BY <2>3
  <2>6. ASSUME NEW i \in D(n + 1)
        PROVE  g[i] = IF i = summarised THEN Cleared ELSE TakeReport(g[i - 1], i)
    <3>1. CASE i = end
      BY <2>4, <2>5, <3>1
    <3>2. CASE i # end
      <4>1. i \in D(n) /\ g[i] = f[i]
        BY <2>2, <2>5, <3>2
      <4>2. f[i] = IF i = summarised THEN Cleared ELSE TakeReport(f[i - 1], i)
        BY <2>1, <4>1
      <4>3. i # summarised => g[i - 1] = f[i - 1]
        BY <2>3, <2>5, <4>1
      <4>4. QED
        BY <4>1, <4>2, <4>3
    <3>3. QED
      BY <3>1, <3>2
  <2>7. g = [i \in D(n + 1) |-> g[i]]
    OBVIOUS
  <2> HIDE DEF g
  <2>8. Is(g, n + 1)
    BY <2>6, <2>7
  <2>9. QED
    BY <2>8
<1>3. Queued - summarised \in S
  <2> HIDE DEF S
  <2>1. Nat \subseteq S
    BY <1>1, <1>2, SetInduction
  <2>2. QED
    BY <2>1
<1> DEFINE R(f) == f = [i \in summarised .. Queued |-> IF i = summarised THEN Cleared ELSE TakeReport(f[i - 1], i)]
<1>4. \E f : R(f)
  <2>1. D(Queued - summarised) = summarised .. Queued
    OBVIOUS
  <2>2. PICK f : Is(f, Queued - summarised)
    BY <1>3
  <2> HIDE DEF D
  <2>3. QED
    BY <2>1, <2>2
<1>5. Summarised = CHOOSE f : R(f)
  BY DEF Summarised
<1>6. R(Summarised)
  <2> HIDE DEF R
  <2>1. QED
    BY <1>4, <1>5
<1>7. summarised \in summarised .. Queued /\ \A i \in summarised + 1 .. Queued : i \in summarised .. Queued /\ i # summarised
  OBVIOUS
<1>8. QED
  BY <1>6, <1>7

\* And after each row.
LEMMA CollectedIs ==
    ASSUME cursor \in Nat, Consumed \in Nat, cursor <= Consumed
    PROVE  /\ Collected[cursor] = Summarised[Queued]
           /\ \A i \in cursor + 1 .. Consumed : Collected[i] = ConsumeRow(Collected[i - 1], i)
<1> DEFINE D(n) == cursor .. cursor + n
           Is(f, n) == f = [i \in D(n) |-> IF i = cursor THEN Summarised[Queued] ELSE ConsumeRow(f[i - 1], i)]
           S == {n \in Nat : \E f : Is(f, n)}
<1>1. 0 \in S
  <2> DEFINE f == [i \in D(0) |-> Summarised[Queued]]
  <2>1. \A i \in D(0) : i = cursor
    OBVIOUS
  <2> HIDE DEF D
  <2>2. Is(f, 0)
    BY <2>1
  <2>3. QED
    BY <2>2
<1>2. ASSUME NEW n \in Nat, n \in S
      PROVE  n + 1 \in S
  <2> DEFINE end == cursor + (n + 1)
  <2>1. PICK f : Is(f, n)
    BY <1>2
  <2> DEFINE g == [i \in D(n + 1) |-> IF i = end THEN ConsumeRow(f[i - 1], i) ELSE f[i]]
  <2>2. \A i \in D(n + 1) : i \in D(n) \/ i = end
    OBVIOUS
  <2>3. \A i \in D(n) : i \in D(n + 1) /\ i # end /\ (i # cursor => i - 1 \in D(n))
    OBVIOUS
  <2>4. end - 1 \in D(n) /\ end # cursor
    OBVIOUS
  <2> HIDE DEF D, end
  <2>5. \A i \in D(n) : g[i] = f[i]
    BY <2>3
  <2>6. ASSUME NEW i \in D(n + 1)
        PROVE  g[i] = IF i = cursor THEN Summarised[Queued] ELSE ConsumeRow(g[i - 1], i)
    <3>1. CASE i = end
      BY <2>4, <2>5, <3>1
    <3>2. CASE i # end
      <4>1. i \in D(n) /\ g[i] = f[i]
        BY <2>2, <2>5, <3>2
      <4>2. f[i] = IF i = cursor THEN Summarised[Queued] ELSE ConsumeRow(f[i - 1], i)
        BY <2>1, <4>1
      <4>3. i # cursor => g[i - 1] = f[i - 1]
        BY <2>3, <2>5, <4>1
      <4>4. QED
        BY <4>1, <4>2, <4>3
    <3>3. QED
      BY <3>1, <3>2
  <2>7. g = [i \in D(n + 1) |-> g[i]]
    OBVIOUS
  <2> HIDE DEF g
  <2>8. Is(g, n + 1)
    BY <2>6, <2>7
  <2>9. QED
    BY <2>8
<1>3. Consumed - cursor \in S
  <2> HIDE DEF S
  <2>1. Nat \subseteq S
    BY <1>1, <1>2, SetInduction
  <2>2. QED
    BY <2>1
<1> DEFINE R(f) == f = [i \in cursor .. Consumed |-> IF i = cursor THEN Summarised[Queued] ELSE ConsumeRow(f[i - 1], i)]
<1>4. \E f : R(f)
  <2>1. D(Consumed - cursor) = cursor .. Consumed
    OBVIOUS
  <2>2. PICK f : Is(f, Consumed - cursor)
    BY <1>3
  <2> HIDE DEF D
  <2>3. QED
    BY <2>1, <2>2
<1>5. Collected = CHOOSE f : R(f)
  BY DEF Collected
<1>6. R(Collected)
  <2> HIDE DEF R
  <2>1. QED
    BY <1>4, <1>5
<1>7. cursor \in cursor .. Consumed /\ \A i \in cursor + 1 .. Consumed : i \in cursor .. Consumed /\ i # cursor
  OBVIOUS
<1>8. QED
  BY <1>6, <1>7

\* All reports, one after the other.
LEMMA ReportsTaken ==
    ASSUME NTypeOK, ViewInv, phase = "read", delivered \in Seq(Sent),
           StoreInv(latest, outbox, cursor, summarised)
    PROVE  ChainInv(Summarised[Queued], cursor, Queued)
<1>1. /\ Queued \in Nat /\ summarised \in Nat /\ summarised <= Queued
      /\ Queued <= Len(view.rounds) /\ Len(view.rounds) \in Nat
  BY BatchEnds, Numbered DEF ViewInv
<1>2. /\ Summarised[summarised] = Cleared
      /\ \A r \in summarised + 1 .. Queued : Summarised[r] = TakeReport(Summarised[r - 1], r)
  BY <1>1, SummarisedIs
<1> DEFINE Good(n) == summarised + n <= Queued
                      => ChainInv(Summarised[summarised + n], cursor, summarised + n)
           S == {n \in Nat : Good(n)}
<1>3. 0 \in S
  <2>1. ChainInv(Cleared, cursor, summarised)
    BY ClearedStep
  <2>2. summarised + 0 = summarised
    BY <1>1
  <2>3. QED
    BY <1>2, <2>1, <2>2
<1>4. ASSUME NEW n \in Nat, n \in S
      PROVE  n + 1 \in S
  <2> DEFINE r == summarised + n
  <2>1. SUFFICES ASSUME summarised + (n + 1) <= Queued
                 PROVE  ChainInv(Summarised[summarised + (n + 1)], cursor, summarised + (n + 1))
    OBVIOUS
  <2>2. /\ r \in Nat /\ summarised <= r /\ r + 1 <= Len(view.rounds) /\ r <= Queued
        /\ summarised + (n + 1) = r + 1 /\ r + 1 \in summarised + 1 .. Queued /\ (r + 1) - 1 = r
    BY ONLY <1>1, <2>1, n \in Nat
  <2>3. ChainInv(Summarised[r], cursor, r)
    BY <1>4, <2>2
  <2> HIDE DEF r
  <2>4. ChainInv(TakeReport(Summarised[r], r + 1), cursor, r + 1)
    BY <2>2, <2>3, ReportStep
  <2>5. Summarised[r + 1] = TakeReport(Summarised[r], r + 1)
    BY <1>2, <2>2
  <2>6. QED
    BY <2>2, <2>4, <2>5
<1> HIDE DEF S
<1>5. Nat \subseteq S
  BY <1>3, <1>4, SetInduction
<1>6. Queued - summarised \in S
  BY <1>1, <1>5
<1>7. summarised + (Queued - summarised) = Queued
  BY <1>1
<1>8. QED
  BY <1>1, <1>6, <1>7 DEF S

\* All rows, one after the other.
LEMMA RowsTaken ==
    ASSUME NTypeOK, LedgerInv, ViewInv, phase = "read", delivered \in Seq(Sent),
           StoreInv(latest, outbox, cursor, summarised)
    PROVE  ChainInv(Collected[Consumed], Consumed, Queued)
<1>1. Consumed \in Nat /\ cursor \in Nat /\ cursor <= Consumed
  BY BatchEnds, Numbered
<1>2. /\ Collected[cursor] = Summarised[Queued]
      /\ \A i \in cursor + 1 .. Consumed : Collected[i] = ConsumeRow(Collected[i - 1], i)
  BY <1>1, CollectedIs
<1> DEFINE Good(n) == cursor + n <= Consumed
                      => ChainInv(Collected[cursor + n], cursor + n, Queued)
           S == {n \in Nat : Good(n)}
<1>3. 0 \in S
  <2>1. ChainInv(Summarised[Queued], cursor, Queued)
    BY ReportsTaken
  <2>2. cursor + 0 = cursor
    BY <1>1
  <2>3. QED
    BY <1>2, <2>1, <2>2
<1>4. ASSUME NEW n \in Nat, n \in S
      PROVE  n + 1 \in S
  <2> DEFINE c == cursor + n
  <2>1. SUFFICES ASSUME cursor + (n + 1) <= Consumed
                 PROVE  ChainInv(Collected[cursor + (n + 1)], cursor + (n + 1), Queued)
    OBVIOUS
  <2>2. /\ c \in Nat /\ cursor <= c /\ c + 1 <= Consumed /\ c <= Consumed
        /\ cursor + (n + 1) = c + 1 /\ c + 1 \in cursor + 1 .. Consumed /\ (c + 1) - 1 = c
    BY ONLY <1>1, <2>1, n \in Nat
  <2>3. ChainInv(Collected[c], c, Queued)
    BY <1>4, <2>2
  <2> HIDE DEF c
  <2>4. ChainInv(ConsumeRow(Collected[c], c + 1), c + 1, Queued)
    BY <2>2, <2>3, RowStep
  <2>5. Collected[c + 1] = ConsumeRow(Collected[c], c + 1)
    BY <1>2, <2>2
  <2>6. QED
    BY <2>2, <2>4, <2>5
<1> HIDE DEF S
<1>5. Nat \subseteq S
  BY <1>3, <1>4, SetInduction
<1>6. Consumed - cursor \in S
  BY <1>1, <1>5
<1>7. cursor + (Consumed - cursor) = Consumed
  BY <1>1
<1>8. QED
  BY <1>1, <1>6, <1>7 DEF S

-----------------------------------------------------------------------------
(* The steps. *)

\* The type invariant after a step, from its parts.
LEMMA TypesNext ==
    ASSUME CoreTypes', log' \in Seq(Entry'), cursor' \in 0 .. Len(log'),
           summarised' \in 0 .. Len(rounds'), Table(outbox)',
           (latest \in [Topic -> [status: Status, ref: 0 .. Len(ops), old: BOOLEAN]])',
           phase' \in {"idle", "read", "send", "sent"},
           \A k \in DOMAIN view'.log : view'.log[k] = log'[k],
           days' \in 0 .. MaxDays, restarts' \in 0 .. MaxRestarts, listed' \subseteq Project
    PROVE  NTypeOK'
<1>1. /\ (DOMAIN outbox \subseteq Nat \ {0})'
      /\ (outbox \in [DOMAIN outbox -> [topic: Topic \cup {Summary}, status: Status,
                                        ref: 0 .. Len(ops), at: Nat \ {0}, old: BOOLEAN]])'
  BY DEF Table, Waits
<1>2. /\ ops' \in Seq([project: Project, by: Origin, status: Final \cup {"running", "unknown"}])
      /\ pause' \in [Project -> 0 .. Len(ops')]
      /\ rounds' \in Seq([open: BOOLEAN, item: [Project -> {"quiet", "succeeded", "problem"}]])
      /\ gate' \in BOOLEAN /\ startup' \in BOOLEAN
  BY DEF CoreTypes, Operation, Report
<1>3. (log \in Seq([event: Event, op: 0 .. Len(ops), scheduled: BOOLEAN,
                    status: Status, round: 0 .. Len(rounds)]))'
  BY DEF Entry
<1>4. QED
  BY <1>1, <1>2, <1>3 DEF NTypeOK

\* The controller and a restart do not touch the store.
LEMMA GrowsInv ==
    ASSUME NoticesInv, Grows, LedgerInv',
           UNCHANGED <<cursor, summarised, latest, outbox, delivered, days>>,
           \/ UNCHANGED <<phase, view, restarts>>
           \/ phase' = "idle" /\ view' = NoView /\ restarts' \in 0 .. MaxRestarts
    PROVE  NoticesInv'
<1> /\ NTypeOK /\ LedgerInv /\ ViewInv /\ delivered \in Seq(Sent)
    /\ StoreInv(latest, outbox, cursor, summarised) /\ TickInv
    /\ phase # "read" => view = NoView
  BY DEF NoticesInv
<1>1. OutboxInv(outbox, cursor, summarised)' /\ delivered' \in Seq(Sent')
  BY OutboxGrows DEF StoreInv
<1>2. NewsInv(latest, outbox, cursor)'
  BY NewsGrows DEF StoreInv
<1>3. ViewInv'
  <2>1. CASE UNCHANGED <<phase, view>>
    BY <2>1, ViewGrows
  <2>2. CASE phase' = "idle"
    BY <2>2 DEF ViewInv
  <2>3. QED
    BY <2>1, <2>2
<1>4. TickInv'
  <2>1. CASE UNCHANGED <<phase, view>>
    BY <2>1 DEF TickInv, Fresh, Expired, Next1, Sendable, Message
  <2>2. CASE phase' = "idle"
    BY <2>2 DEF TickInv
  <2>3. QED
    BY <2>1, <2>2
<1>5. NTypeOK'
  <2>1. /\ Len(log) \in Nat /\ Len(log') \in Nat /\ Len(log) <= Len(log')
        /\ Len(rounds) \in Nat /\ Len(rounds') \in Nat /\ Len(rounds) <= Len(rounds')
        /\ cursor \in 0 .. Len(log) /\ summarised \in 0 .. Len(rounds)
    BY Numbered, SeqShape DEF Grows, CoreTypes
  <2>2. cursor' \in 0 .. Len(log') /\ summarised' \in 0 .. Len(rounds')
    BY <2>1
  <2>3. Table(outbox)' /\ (latest \in [Topic -> [status: Status, ref: 0 .. Len(ops), old: BOOLEAN]])'
    BY <1>1, <1>2 DEF OutboxInv, NewsInv
  <2>4. phase' \in {"idle", "read", "send", "sent"} /\ days' \in 0 .. MaxDays
        /\ restarts' \in 0 .. MaxRestarts
    BY DEF NTypeOK
  <2>5. \A k \in DOMAIN view'.log : view'.log[k] = log'[k]
    <3>1. CASE UNCHANGED <<phase, view>>
      <4>1. \A k \in DOMAIN view.log : view.log[k] = log[k]
        BY DEF NTypeOK
      <4>2. CASE phase = "read"
        <5>1. DOMAIN view.log = 1 .. Len(view.log) /\ Len(view.log) \in Nat /\ Len(view.log) <= Len(log)
          BY <4>2 DEF ViewInv
        <5>2. \A k \in DOMAIN view.log : k \in 1 .. Len(log)
          BY <2>1, <5>1
        <5>3. QED
          BY <3>1, <4>1, <5>2 DEF Grows
      <4>3. CASE phase # "read"
        BY <3>1, <4>3 DEF NoView
      <4>4. QED
        BY <4>2, <4>3
    <3>2. CASE view' = NoView
      BY <3>2 DEF NoView
    <3>3. QED
      BY <3>1, <3>2
  <2>6. CoreTypes' /\ log' \in Seq(Entry') /\ listed' \subseteq Project
    BY DEF Grows, Lists
  <2>7. QED
    BY <2>2, <2>3, <2>4, <2>5, <2>6, TypesNext
<1>6. phase' # "read" => view' = NoView'
  BY DEF NoView
<1>7. QED
  BY <1>1, <1>2, <1>3, <1>4, <1>5, <1>6 DEF NoticesInv, StoreInv

\* The store after a step of the tick, from what it is put to.
LEMMA StoreNext ==
    ASSUME UNCHANGED <<ops, pause, listed, log, delivered>>, NEW l, NEW t, NEW c, NEW q,
           StoreInv(l, t, c, q), latest' = l, outbox' = t, cursor' = c, summarised' = q
    PROVE  StoreInv(latest, outbox, cursor, summarised)'
<1>1. OutboxInv(outbox, cursor, summarised)'
  <2>1. Table(outbox)'
    BY DEF StoreInv, OutboxInv, Table, Waits
  <2>2. /\ \A k \in DOMAIN outbox' : Within(outbox'[k], c, q)
        /\ \A i \in DOMAIN delivered : Within(delivered[i], c, q)
    BY DEF StoreInv, OutboxInv
  <2>3. /\ (\A k \in DOMAIN outbox : Within(outbox[k], cursor, summarised))'
        /\ (\A i \in DOMAIN delivered : Within(delivered[i], cursor, summarised))'
    BY <2>2 DEF Within, OfRound
  <2>4. Ordered(outbox)'
    <3>1. Ordered(t)
      BY DEF StoreInv, OutboxInv
    <3>2. QED
      BY <3>1 DEF Ordered, InOrder, OfRound, Message
  <2>5. QED
    BY <2>1, <2>3, <2>4 DEF OutboxInv
<1>2. NewsInv(latest, outbox, cursor)'
  <2>1. NewsInv(l, t, c)
    BY DEF StoreInv
  <2>2. ASSUME NEW p \in Project
        PROVE  /\ Backed(latest, outbox, p, "update")'
               /\ Backed(latest, outbox, p, "initial_check")'
    <3>1. Backed(l, t, p, "update") /\ Backed(l, t, p, "initial_check")
      BY <2>1 DEF NewsInv
    <3>2. QED
      BY <3>1 DEF Backed, LastIs
  <2>3. ASSUME NEW p \in Project
        PROVE  /\ Known(latest, cursor, p, "result", "update")'
               /\ Known(latest, cursor, p, "check", "initial_check")'
    <3>1. Known(l, c, p, "result", "update") /\ Known(l, c, p, "check", "initial_check")
      BY <2>1 DEF NewsInv
    <3>2. QED
      BY <3>1 DEF Known, About, Superseded
  <2>4. ASSUME NEW p \in Project
        PROVE  /\ latest'[<<p, "retry">>].ref # 0 => SpentBy(latest[<<p, "retry">>].ref, cursor)'
               /\ p \in listed' /\ pause'[p] # 0 /\ SpentBy(pause[p], cursor)' => Asked(outbox, p, pause[p])'
    <3>1. /\ l[<<p, "retry">>].ref # 0 => SpentBy(l[<<p, "retry">>].ref, c)
          /\ p \in listed /\ pause[p] # 0 /\ SpentBy(pause[p], c) => Asked(t, p, pause[p])
      BY <2>1 DEF NewsInv
    <3>2. QED
      BY <3>1 DEF SpentBy, Asked
  <2>5. (latest \in [Topic -> [status: Status, ref: 0 .. Len(ops), old: BOOLEAN]])'
    BY <2>1 DEF NewsInv
  <2>6. QED
    BY <2>2, <2>3, <2>4, <2>5 DEF NewsInv
<1>3. QED
  BY <1>1, <1>2 DEF StoreInv

\* A step that leaves the controller alone is one of those that let it grow.
LEMMA NothingGrows ==
    ASSUME NTypeOK, LedgerInv, UNCHANGED controller
    PROVE  Grows /\ LedgerInv'
<1>1. CoreTypes /\ log \in Seq(Entry)
  BY DEF NTypeOK, CoreTypes, Operation, Report, Entry
<1>2. /\ ops' = ops /\ pause' = pause /\ rounds' = rounds /\ gate' = gate /\ startup' = startup
      /\ log' = log /\ listed' = listed
  BY DEF controller
<1>3. CoreTypes'
  BY <1>1, <1>2 DEF CoreTypes
<1>4. log = log \o <<>> /\ Len(rounds) \in Nat
  BY <1>1 DEF CoreTypes
<1>5. Records(<<>>)
  BY <1>1, <1>2, <1>3, <1>4, RecordsNothing
<1>6. QED
  BY <1>1, <1>2, <1>5, RecordsGrows DEF NTypeOK, Lists

\* A step that leaves the controller alone, and the types it must keep.
LEMMA TickNext ==
    ASSUME NoticesInv, UNCHANGED controller,
           StoreInv(latest, outbox, cursor, summarised)', delivered' \in Seq(Sent'),
           cursor' \in 0 .. Len(log), summarised' \in 0 .. Len(rounds),
           phase' \in {"idle", "read", "send", "sent"}, ViewInv', TickInv',
           phase' # "read" => view' = NoView, phase' = "read" => view' = View,
           days' \in 0 .. MaxDays, UNCHANGED restarts
    PROVE  NoticesInv'
<1>1. Grows /\ LedgerInv'
  BY NothingGrows DEF NoticesInv
<1>2. Table(outbox)' /\ (latest \in [Topic -> [status: Status, ref: 0 .. Len(ops), old: BOOLEAN]])'
  BY DEF StoreInv, OutboxInv, NewsInv
<1>3. \A k \in DOMAIN view'.log : view'.log[k] = log'[k]
  BY DEF NoView, View, controller
<1>4. restarts' \in 0 .. MaxRestarts /\ cursor' \in 0 .. Len(log') /\ summarised' \in 0 .. Len(rounds')
  BY DEF NoticesInv, NTypeOK, controller
<1>5. NTypeOK'
  BY <1>1, <1>2, <1>3, <1>4, TypesNext DEF Grows, Lists
<1>6. phase' # "read" => view' = NoView'
  BY DEF NoView
<1>7. QED
  BY <1>1, <1>5, <1>6 DEF NoticesInv

\* A collection reads the controller as it is.
LEMMA ReadsStep ==
    ASSUME NoticesInv, CollectReads
    PROVE  NoticesInv'
<1>1. /\ phase = "idle" /\ phase' = "read" /\ view' = View /\ UNCHANGED controller
      /\ UNCHANGED <<cursor, summarised, latest, outbox, delivered, days, restarts>>
  BY DEF CollectReads, store, history
<1>2. /\ NTypeOK /\ LedgerInv /\ delivered \in Seq(Sent)
      /\ StoreInv(latest, outbox, cursor, summarised)
  BY DEF NoticesInv
<1>3. UNCHANGED <<ops, pause, listed, rounds, log>>
  BY <1>1 DEF controller
<1>4. StoreInv(latest, outbox, cursor, summarised)'
  BY <1>1, <1>2, <1>3, StoreNext
<1>5. delivered' \in Seq(Sent')
  BY <1>1, <1>2, <1>3 DEF Sent
<1>6. ViewInv'
  <2>1. /\ view'.log = log /\ view'.ops = ops /\ view'.pause = pause /\ view'.rounds = rounds
    BY <1>1 DEF View
  <2>2. /\ Len(log) \in Nat /\ DOMAIN log = 1 .. Len(log) /\ Len(ops) \in Nat
        /\ Len(rounds) \in Nat /\ DOMAIN rounds = 1 .. Len(rounds)
        /\ cursor <= Len(log) /\ summarised <= Len(rounds)
        /\ \A k \in DOMAIN log : log[k].op \in 0 .. Len(ops)
    <3>1. rounds \in Seq(Report)
      BY <1>2 DEF NTypeOK, Report
    <3>2. DOMAIN rounds = 1 .. Len(rounds)
      BY <3>1
    <3>3. QED
      BY <1>2, <3>2, Numbered
  <2>3. ASSUME NEW k \in DOMAIN log, log[k].event = "result",
               \A j \in DOMAIN log : j > k => log[j].event # log[k].event \/ log[j].op # log[k].op
        PROVE  ops[log[k].op].status = log[k].status
    <3>1. ~Superseded(k)
      BY <2>2, <2>3 DEF Superseded
    <3>2. QED
      BY <1>2, <2>3, <3>1 DEF LedgerInv
  <2>4. ASSUME NEW k \in DOMAIN log, log'[k].event = "result", LatestRow(k)'
        PROVE  ops[log[k].op].status = log[k].status
    BY <1>3, <2>1, <2>3, <2>4 DEF LatestRow
  <2>5. QED
    BY <1>1, <1>3, <2>1, <2>2, <2>4 DEF ViewInv
<1>7. TickInv'
  BY <1>1 DEF TickInv
<1>8. /\ cursor' \in 0 .. Len(log) /\ summarised' \in 0 .. Len(rounds) /\ days' \in 0 .. MaxDays
  BY <1>1, <1>2 DEF NTypeOK
<1>9. QED
  BY <1>1, <1>4, <1>5, <1>6, <1>7, <1>8, TickNext

\* Its transaction puts the store to what the recursion ends with.
LEMMA WritesStep ==
    ASSUME NoticesInv, CollectWrites
    PROVE  NoticesInv'
<1> DEFINE end == Collected[Consumed]
<1>1. /\ phase = "read" /\ phase' = "send" /\ view' = NoView /\ UNCHANGED controller
      /\ cursor' = Consumed /\ summarised' = Queued
      /\ latest' = end.latest /\ outbox' = end.outbox
      /\ UNCHANGED <<delivered, days, restarts>>
  BY DEF CollectWrites, history
<1>2. /\ NTypeOK /\ LedgerInv /\ ViewInv /\ delivered \in Seq(Sent)
      /\ StoreInv(latest, outbox, cursor, summarised)
  BY DEF NoticesInv
<1>3. UNCHANGED <<ops, pause, listed, rounds, log>>
  BY <1>1 DEF controller
<1>4. ChainInv(end, Consumed, Queued)
  BY <1>1, <1>2, RowsTaken
<1>5. Consumed \in 0 .. Len(log) /\ Queued \in 0 .. Len(rounds)
  <2>1. /\ Queued \in Nat /\ Queued <= Len(view.rounds)
        /\ Consumed \in Nat /\ Consumed <= Len(view.log)
    BY <1>1, <1>2, BatchEnds
  <2>2. /\ Len(view.log) \in Nat /\ Len(view.log) <= Len(log) /\ Len(log) \in Nat
        /\ Len(view.rounds) \in Nat /\ Len(view.rounds) <= Len(rounds) /\ Len(rounds) \in Nat
    BY <1>1, <1>2, Numbered DEF ViewInv
  <2>3. QED
    BY ONLY <2>1, <2>2
<1> HIDE DEF end
<1>6. StoreInv(end.latest, end.outbox, Consumed, Queued) /\ Fresh(end.outbox)
  BY <1>4 DEF ChainInv
<1>7. StoreInv(latest, outbox, cursor, summarised)'
  BY <1>1, <1>3, <1>6, StoreNext
<1>8. delivered' \in Seq(Sent')
  BY <1>1, <1>2, <1>3 DEF Sent
<1>9. ViewInv' /\ TickInv'
  BY <1>1, <1>6 DEF ViewInv, TickInv, Fresh, Expired
<1>10. days' \in 0 .. MaxDays /\ cursor' \in 0 .. Len(log) /\ summarised' \in 0 .. Len(rounds)
  BY <1>1, <1>2, <1>5 DEF NTypeOK
<1>11. QED
  BY <1>1, <1>7, <1>8, <1>9, <1>10, TickNext

\* What is sent next is the first row of the table.
LEMMA NextIsFirst ==
    ASSUME NEW q, NEW c, OutboxInv(outbox, c, q), Fresh(outbox), DOMAIN outbox # {}
    PROVE  /\ Sendable = DOMAIN outbox /\ Next1 \in DOMAIN outbox
           /\ \A k \in DOMAIN outbox : Next1 <= k
<1>1. Sendable = DOMAIN outbox
  BY DEF Sendable, Fresh
<1>2. DOMAIN outbox \in SUBSET Nat
  BY DEF OutboxInv, Table
<1>3. \E k \in DOMAIN outbox : \A j \in DOMAIN outbox : k <= j
  BY <1>2, LeastOf
<1>4. QED
  BY <1>1, <1>3 DEF Next1

\* The tick ends: nothing changes but its phase.
LEMMA TickEndsStep ==
    ASSUME NoticesInv, TickEnds
    PROVE  NoticesInv'
<1>1. /\ phase = "send" /\ phase' = "idle" /\ view' = view /\ UNCHANGED controller
      /\ UNCHANGED <<cursor, summarised, latest, outbox, delivered, days, restarts>>
  BY DEF TickEnds, store, history
<1>2. /\ NTypeOK /\ delivered \in Seq(Sent) /\ StoreInv(latest, outbox, cursor, summarised)
      /\ (phase # "read" => view = NoView)
  BY DEF NoticesInv
<1>3. UNCHANGED <<ops, pause, listed, rounds, log>>
  BY <1>1 DEF controller
<1>4. StoreInv(latest, outbox, cursor, summarised)' /\ delivered' \in Seq(Sent')
  BY <1>1, <1>2, <1>3, StoreNext DEF Sent
<1>5. ViewInv' /\ TickInv'
  BY <1>1 DEF ViewInv, TickInv
<1>6. /\ days' \in 0 .. MaxDays /\ cursor' \in 0 .. Len(log) /\ summarised' \in 0 .. Len(rounds)
  BY <1>1, <1>2 DEF NTypeOK
<1>7. QED
  BY <1>1, <1>2, <1>4, <1>5, <1>6, TickNext

\* The order of the messages when the first that waits is told.
LEMMA OrderSent ==
    ASSUME delivered \in Seq(Sent), Table(outbox), Ordered(outbox), UNCHANGED <<outbox, log>>,
           NEW k \in DOMAIN outbox, \A m \in DOMAIN outbox : k <= m,
           delivered # <<>> => Last(delivered) # Message(outbox[k]),
           delivered' = Append(delivered, Message(outbox[k]))
    PROVE  Ordered(outbox)'
<1> DEFINE n == Message(outbox[k])
           d == Len(delivered)
<1>1. /\ d \in Nat /\ DOMAIN delivered = 1 .. d /\ Len(delivered') = d + 1
      /\ DOMAIN delivered' = 1 .. d + 1 /\ delivered'[d + 1] = n
      /\ \A i \in 1 .. d : delivered'[i] = delivered[i]
  OBVIOUS
<1>2. \A i \in 1 .. d + 1 : i \in 1 .. d \/ i = d + 1
  BY <1>1
<1>3. d # 0 => delivered[d] # n
  BY <1>1 DEF Last
<1>4. DOMAIN outbox \subseteq Nat
  BY DEF Table
<1>5. \A x : /\ InOrder(x, outbox[k]) => InOrder(x, n)
             /\ InOrder(outbox[k], x) => InOrder(n, x)
  BY DEF InOrder, OfRound, Message
<1> HIDE DEF n, d
<1>6. ASSUME NEW i \in 1 .. d
      PROVE  InOrder(delivered[i], n)
  <2>1. \/ InOrder(delivered[i], outbox[k])
        \/ i = d /\ delivered[i] = n
    BY <1>1 DEF Ordered, n, d
  <2>2. ~(i = d /\ delivered[i] = n)
    BY <1>1, <1>3
  <2>3. QED
    BY <1>5, <2>1, <2>2
<1>7. ASSUME NEW i \in 1 .. d, NEW m \in DOMAIN outbox
      PROVE  InOrder(delivered[i], outbox[m])
  <2>1. CASE InOrder(delivered[i], outbox[m])
    BY <2>1
  <2>2. CASE i = d /\ delivered[i] = Message(outbox[m]) /\ \A j \in DOMAIN outbox : m <= j
    <3>1. m = k
      BY <1>4, <2>2
    <3>2. QED
      BY <1>1, <1>3, <2>2, <3>1 DEF n
  <2>3. QED
    BY <1>1, <2>1, <2>2 DEF Ordered, d
<1>8. ASSUME NEW m \in DOMAIN outbox, m # k
      PROVE  InOrder(n, outbox[m])
  <2>1. k < m
    BY <1>4, <1>8
  <2>2. QED
    BY <1>5, <2>1 DEF Ordered
<1>9. ASSUME NEW i \in 1 .. d + 1, NEW j \in 1 .. d + 1, i < j
      PROVE  InOrder(delivered'[i], delivered'[j])
  <2>1. i \in 1 .. d
    BY <1>1, <1>9
  <2>2. CASE j \in 1 .. d
    BY <1>1, <1>9, <2>1, <2>2 DEF Ordered
  <2>3. CASE j = d + 1
    BY <1>1, <1>6, <2>1, <2>3
  <2>4. QED
    BY <1>2, <2>2, <2>3
<1>10. ASSUME NEW i \in 1 .. d + 1, NEW m \in DOMAIN outbox
       PROVE  \/ InOrder(delivered'[i], outbox[m])
              \/ /\ i = d + 1 /\ delivered'[i] = Message(outbox[m])
                 /\ \A j \in DOMAIN outbox : m <= j
  <2>1. CASE i \in 1 .. d
    BY <1>1, <1>7, <2>1
  <2>2. CASE i = d + 1 /\ m # k
    BY <1>1, <1>8, <2>2
  <2>3. CASE i = d + 1 /\ m = k
    BY <1>1, <2>3 DEF n
  <2>4. QED
    BY <1>2, <2>1, <2>2, <2>3
<1>11. \A i, j \in DOMAIN delivered' : i < j => InOrder(delivered[i], delivered[j])'
  BY <1>1, <1>9 DEF InOrder, OfRound
<1>12. \A i, j \in DOMAIN outbox' : i < j => InOrder(outbox[i], outbox[j])'
  BY DEF Ordered, InOrder, OfRound
<1>13. \A i \in DOMAIN delivered', m \in DOMAIN outbox' :
          \/ InOrder(delivered[i], outbox[m])'
          \/ /\ i = Len(delivered') /\ delivered'[i] = Message(outbox'[m])
             /\ \A j \in DOMAIN outbox' : m <= j
  BY <1>1, <1>10 DEF InOrder, OfRound, Message
<1>14. QED
  BY <1>11, <1>12, <1>13 DEF Ordered

\* The last message about a topic when the first that waits is told.
LEMMA LastSent ==
    ASSUME delivered \in Seq(Sent), UNCHANGED outbox, NEW k \in DOMAIN outbox,
           delivered' = Append(delivered, Message(outbox[k])),
           NEW topic, NEW status, LastIs(outbox, topic, status)
    PROVE  LastIs(outbox, topic, status)'
<1>1. CASE \E m \in DOMAIN outbox : /\ outbox[m].topic = topic /\ outbox[m].status = status
                                    /\ \A j \in DOMAIN outbox : m < j => outbox[j].topic # topic
  BY <1>1 DEF LastIs
<1>2. CASE /\ \E i \in DOMAIN delivered :
                 /\ delivered[i].topic = topic /\ delivered[i].status = status
                 /\ \A j \in DOMAIN delivered : i < j => delivered[j].topic # topic
           /\ \A m \in DOMAIN outbox : outbox[m].topic # topic
  <2> DEFINE d == Len(delivered)
  <2>1. /\ d \in Nat /\ DOMAIN delivered = 1 .. d /\ DOMAIN delivered' = 1 .. d + 1
        /\ delivered'[d + 1] = Message(outbox[k])
        /\ \A i \in 1 .. d : delivered'[i] = delivered[i]
    OBVIOUS
  <2>2. \A i \in 1 .. d + 1 : i \in 1 .. d \/ i = d + 1
    BY <2>1
  <2>3. Message(outbox[k]).topic # topic
    BY <1>2 DEF Message
  <2> HIDE DEF d
  <2>4. PICK i \in 1 .. d : /\ delivered[i].topic = topic /\ delivered[i].status = status
                            /\ \A j \in 1 .. d : i < j => delivered[j].topic # topic
    BY <1>2, <2>1
  <2>5. i \in 1 .. d + 1
    BY <2>1
  <2>6. \A j \in 1 .. d + 1 : i < j => delivered'[j].topic # topic
    BY <2>1, <2>2, <2>3, <2>4
  <2>7. QED
    BY <1>2, <2>1, <2>4, <2>5, <2>6 DEF LastIs
<1>3. QED
  BY <1>1, <1>2 DEF LastIs

\* The outbox is as it was; the chat has one message more, or the same again.
LEMMA SendsStep ==
    ASSUME NoticesInv, Sends
    PROVE  NoticesInv'
<1> DEFINE n == Message(outbox[Next1])
<1>1. /\ phase = "send" /\ phase' = "sent" /\ view' = view /\ UNCHANGED controller
      /\ UNCHANGED <<cursor, summarised, latest, outbox, days, restarts>>
      /\ Sendable # {}
      /\ delivered' = IF delivered # <<>> /\ Last(delivered) = n THEN delivered
                      ELSE Append(delivered, n)
  BY DEF Sends, store
<1>2. /\ NTypeOK /\ delivered \in Seq(Sent) /\ StoreInv(latest, outbox, cursor, summarised)
      /\ (phase # "read" => view = NoView) /\ Fresh(outbox)
  BY <1>1 DEF NoticesInv, TickInv
<1>3. UNCHANGED <<ops, pause, listed, rounds, log>>
  BY <1>1 DEF controller
<1>4. /\ OutboxInv(outbox, cursor, summarised) /\ NewsInv(latest, outbox, cursor)
      /\ Table(outbox) /\ Ordered(outbox)
  BY <1>2 DEF StoreInv, OutboxInv
<1>5. /\ DOMAIN outbox # {} /\ Next1 \in DOMAIN outbox /\ \A k \in DOMAIN outbox : Next1 <= k
  <2>1. DOMAIN outbox # {}
    BY <1>1 DEF Sendable
  <2>2. QED
    BY <1>2, <1>4, <2>1, NextIsFirst
<1>6. n \in Sent
  BY <1>4, <1>5 DEF Table, Waits, Sent, Message
<1>7. Next1' = Next1
  BY <1>1 DEF Next1, Sendable, Expired
<1> HIDE DEF n
<1>8. /\ delivered' \in Seq(Sent) /\ delivered' # <<>> /\ Last(delivered') = n
  BY <1>1, <1>2, <1>6 DEF Last
<1>9. TickInv'
  BY <1>1, <1>2, <1>5, <1>7, <1>8 DEF TickInv, Fresh, Expired, n, Message
<1>10. StoreInv(latest, outbox, cursor, summarised)'
  <2>1. CASE delivered # <<>> /\ Last(delivered) = n
    <3>1. delivered' = delivered
      BY <1>1, <2>1
    <3>2. QED
      BY <1>1, <1>2, <1>3, <3>1, StoreNext
  <2>2. CASE ~(delivered # <<>> /\ Last(delivered) = n)
    <3> DEFINE k == Next1
    <3>1. /\ delivered' = Append(delivered, Message(outbox[k])) /\ k \in DOMAIN outbox
          /\ \A m \in DOMAIN outbox : k <= m
          /\ delivered # <<>> => Last(delivered) # Message(outbox[k])
      BY <1>1, <1>5, <2>2 DEF n
    <3> HIDE DEF k
    <3>2. Ordered(outbox)'
      BY <1>1, <1>2, <1>3, <1>4, <3>1, OrderSent
    <3>3. \A i \in DOMAIN delivered' : Within(delivered[i], cursor, summarised)'
      <4>1. \A i \in DOMAIN delivered' : \/ i \in DOMAIN delivered /\ delivered'[i] = delivered[i]
                                         \/ delivered'[i] = Message(outbox[k])
        BY <1>2, <3>1
      <4>2. /\ \A i \in DOMAIN delivered : Within(delivered[i], cursor, summarised)
            /\ Within(Message(outbox[k]), cursor, summarised)
        BY <1>4, <3>1 DEF OutboxInv, Within, OfRound, Message
      <4>3. QED
        BY <1>1, <1>3, <4>1, <4>2 DEF Within, OfRound
    <3>4. \A m \in DOMAIN outbox' : Within(outbox[m], cursor, summarised)'
      BY <1>1, <1>3, <1>4 DEF OutboxInv, Within, OfRound
    <3>5. OutboxInv(outbox, cursor, summarised)'
      BY <1>1, <1>3, <1>4, <3>2, <3>3, <3>4 DEF OutboxInv, Table, Waits
    <3>6. ASSUME NEW p \in Project, NEW a, Backed(latest, outbox, p, a)
          PROVE  Backed(latest, outbox, p, a)'
      <4>1. CASE latest[<<p, a>>].status \in {"none", "succeeded"}
        BY <1>1, <4>1 DEF Backed
      <4>2. CASE latest[<<p, a>>].status \notin {"none", "succeeded"}
        <5>1. PICK status : status = latest[<<p, a>>].status
          OBVIOUS
        <5>2. LastIs(outbox, <<p, a>>, status) /\ UNCHANGED outbox
          BY <1>1, <3>6, <4>2, <5>1 DEF Backed
        <5>3. LastIs(outbox, <<p, a>>, status)'
          BY <1>2, <3>1, <5>2, LastSent
        <5>4. latest'[<<p, a>>].status = status
          BY <1>1, <5>1
        <5>5. QED
          BY <5>3, <5>4 DEF Backed, LastIs
      <4>3. QED
        BY <4>1, <4>2
    <3>7. ASSUME NEW p \in Project, NEW op, Asked(outbox, p, op)
          PROVE  Asked(outbox, p, op)'
      <4>1. \A i \in DOMAIN delivered : i \in DOMAIN delivered' /\ delivered'[i] = delivered[i]
        BY <1>2, <3>1
      <4>2. QED
        BY <1>1, <3>7, <4>1 DEF Asked
    <3>8. NewsInv(latest, outbox, cursor)'
      <4>1. \A p \in Project : Backed(latest, outbox, p, "update")' /\ Backed(latest, outbox, p, "initial_check")'
        BY <1>4, <3>6 DEF NewsInv
      <4>2. \A p \in Project : /\ Known(latest, cursor, p, "result", "update")'
                               /\ Known(latest, cursor, p, "check", "initial_check")'
        <5>1. \A p \in Project : /\ Known(latest, cursor, p, "result", "update")
                                 /\ Known(latest, cursor, p, "check", "initial_check")
          BY <1>4 DEF NewsInv
        <5>2. log' = log /\ ops' = ops /\ cursor' = cursor /\ latest' = latest
          BY <1>1, <1>3
        <5>3. \A i, p, event : About(i, p, event)' <=> About(i, p, event)
          BY <5>2 DEF About
        <5>4. \A i : Superseded(i)' <=> Superseded(i)
          BY <5>2 DEF Superseded
        <5>5. \A p, event, topic : Known(latest, cursor, p, event, topic)
                                   => Known(latest, cursor, p, event, topic)'
          BY <5>2, <5>3, <5>4 DEF Known
        <5>6. QED
          BY <5>1, <5>5
      <4>3. ASSUME NEW p \in Project
            PROVE  /\ latest'[<<p, "retry">>].ref # 0 => SpentBy(latest[<<p, "retry">>].ref, cursor)'
                   /\ p \in listed' /\ pause'[p] # 0 /\ SpentBy(pause[p], cursor)' => Asked(outbox, p, pause[p])'
        <5>1. /\ latest[<<p, "retry">>].ref # 0 => SpentBy(latest[<<p, "retry">>].ref, cursor)
              /\ p \in listed /\ pause[p] # 0 /\ SpentBy(pause[p], cursor) => Asked(outbox, p, pause[p])
          BY <1>4 DEF NewsInv
        <5>2. Asked(outbox, p, pause[p]) => Asked(outbox, p, pause[p])'
          BY <1>1, <1>3, <3>7
        <5>3. QED
          BY <1>1, <1>3, <5>1, <5>2 DEF SpentBy
      <4>4. (latest \in [Topic -> [status: Status, ref: 0 .. Len(ops), old: BOOLEAN]])'
        BY <1>1, <1>3, <1>4 DEF NewsInv
      <4>5. QED
        BY <4>1, <4>2, <4>3, <4>4 DEF NewsInv
    <3>9. QED
      BY <3>5, <3>8 DEF StoreInv
  <2>3. QED
    BY <2>1, <2>2
<1>11. delivered' \in Seq(Sent')
  BY <1>3, <1>8 DEF Sent
<1>12. ViewInv'
  BY <1>1 DEF ViewInv
<1>13. /\ days' \in 0 .. MaxDays /\ cursor' \in 0 .. Len(log) /\ summarised' \in 0 .. Len(rounds)
  BY <1>1, <1>2 DEF NTypeOK
<1>14. QED
  BY <1>1, <1>2, <1>9, <1>10, <1>11, <1>12, <1>13, TickNext

\* The row that goes is that of the last message of the chat.
LEMMA DeletesStep ==
    ASSUME NoticesInv, Deletes
    PROVE  NoticesInv'
<1> DEFINE S == DOMAIN outbox \ {Next1}
           u == Restrict(outbox, S)
           d == Len(delivered)
<1>1. /\ phase = "sent" /\ phase' = "send" /\ outbox' = u /\ UNCHANGED controller
      /\ UNCHANGED <<cursor, summarised, latest, view, delivered, days, restarts>>
  BY DEF Deletes, history
<1>2. /\ NTypeOK /\ delivered \in Seq(Sent) /\ StoreInv(latest, outbox, cursor, summarised)
      /\ (phase # "read" => view = NoView) /\ Fresh(outbox)
      /\ DOMAIN outbox # {} /\ delivered # <<>> /\ Last(delivered) = Message(outbox[Next1])
  BY <1>1 DEF NoticesInv, TickInv
<1>3. UNCHANGED <<ops, pause, listed, rounds, log>>
  BY <1>1 DEF controller
<1>4. /\ OutboxInv(outbox, cursor, summarised) /\ NewsInv(latest, outbox, cursor)
      /\ Table(outbox)
  BY <1>2 DEF StoreInv, OutboxInv
<1>5. Next1 \in DOMAIN outbox /\ \A k \in DOMAIN outbox : Next1 <= k
  BY <1>2, <1>4, NextIsFirst
<1>6. /\ DOMAIN outbox \subseteq Nat /\ S \in SUBSET DOMAIN outbox
      /\ \A k \in DOMAIN outbox : k \in S \/ k = Next1
  BY <1>4 DEF Table
<1>7. /\ d \in Nat /\ d # 0 /\ DOMAIN delivered = 1 .. d /\ delivered[d] = Message(outbox[Next1])
  BY <1>2 DEF Last
<1> HIDE DEF S, d
<1>8. OutboxInv(u, cursor, summarised) /\ DOMAIN u = S /\ \A k \in S : u[k] = outbox[k]
  BY <1>4, <1>6, OutboxFewer, RestrictedTable
<1> HIDE DEF u
<1>9. ASSUME NEW topic, NEW status, LastIs(outbox, topic, status)
      PROVE  LastIs(u, topic, status)
  <2>1. CASE outbox[Next1].topic = topic /\ outbox[Next1].status = status
             /\ \A m \in DOMAIN outbox : Next1 < m => outbox[m].topic # topic
    <3>1. d \in 1 .. d /\ \A j \in 1 .. d : ~(d < j)
      BY <1>7
    <3>2. delivered[d].topic = topic /\ delivered[d].status = status
      BY <1>7, <2>1 DEF Message
    <3>3. ASSUME NEW m \in DOMAIN u
          PROVE  u[m].topic # topic
      <4>1. m \in DOMAIN outbox /\ u[m] = outbox[m] /\ m # Next1
        BY <1>6, <1>8 DEF S
      <4>2. Next1 < m
        BY <1>5, <1>6, <4>1
      <4>3. QED
        BY <2>1, <4>1, <4>2
    <3>4. QED
      BY <1>7, <3>1, <3>2, <3>3 DEF LastIs
  <2>2. ASSUME NEW k \in DOMAIN outbox, k # Next1, outbox[k].topic = topic, outbox[k].status = status,
               \A m \in DOMAIN outbox : k < m => outbox[m].topic # topic
        PROVE  LastIs(u, topic, status)
    BY <1>6, <1>8, <2>2 DEF LastIs
  <2>3. CASE \E k \in DOMAIN outbox : /\ outbox[k].topic = topic /\ outbox[k].status = status
                                      /\ \A m \in DOMAIN outbox : k < m => outbox[m].topic # topic
    BY <2>1, <2>2, <2>3
  <2>4. CASE /\ \E i \in DOMAIN delivered :
                   /\ delivered[i].topic = topic /\ delivered[i].status = status
                   /\ \A j \in DOMAIN delivered : i < j => delivered[j].topic # topic
             /\ \A k \in DOMAIN outbox : outbox[k].topic # topic
    BY <1>6, <1>8, <2>4 DEF LastIs
  <2>5. QED
    BY <1>9, <2>3, <2>4 DEF LastIs
<1>10. ASSUME NEW p, NEW op, Asked(outbox, p, op)
       PROVE  Asked(u, p, op)
  <2>1. CASE \E i \in DOMAIN delivered : delivered[i].topic = <<p, "retry">> /\ delivered[i].ref = op
    BY <2>1 DEF Asked
  <2>2. ASSUME NEW k \in DOMAIN outbox, outbox[k].topic = <<p, "retry">>, outbox[k].ref = op,
               outbox[k].status # "succeeded"
        PROVE  Asked(u, p, op)
    <3>1. CASE k = Next1
      <4>1. d \in DOMAIN delivered
        BY <1>7
      <4>2. delivered[d].topic = <<p, "retry">> /\ delivered[d].ref = op
        BY <1>7, <2>2, <3>1 DEF Message
      <4>3. QED
        BY <4>1, <4>2 DEF Asked
    <3>2. CASE k # Next1
      BY <1>6, <1>8, <2>2, <3>2 DEF Asked
    <3>3. QED
      BY <3>1, <3>2
  <2>3. QED
    BY <1>10, <2>1, <2>2 DEF Asked
<1>11. NewsInv(latest, u, cursor)
  <2>1. ASSUME NEW p \in Project
        PROVE  /\ Backed(latest, u, p, "update") /\ Backed(latest, u, p, "initial_check")
               /\ p \in listed /\ pause[p] # 0 /\ SpentBy(pause[p], cursor) => Asked(u, p, pause[p])
    <3>1. /\ Backed(latest, outbox, p, "update") /\ Backed(latest, outbox, p, "initial_check")
          /\ p \in listed /\ pause[p] # 0 /\ SpentBy(pause[p], cursor) => Asked(outbox, p, pause[p])
      BY <1>4 DEF NewsInv
    <3>2. QED
      BY <1>9, <1>10, <3>1 DEF Backed
  <2>2. QED
    BY <1>4, <2>1 DEF NewsInv
<1>12. StoreInv(latest, u, cursor, summarised)
  BY <1>8, <1>11 DEF StoreInv
<1>13. StoreInv(latest, outbox, cursor, summarised)' /\ delivered' \in Seq(Sent')
  BY <1>1, <1>2, <1>3, <1>12, StoreNext DEF Sent
<1>14. Fresh(u)
  BY <1>2, <1>6, <1>8 DEF Fresh
<1>15. ViewInv' /\ TickInv'
  BY <1>1, <1>14 DEF ViewInv, TickInv, Fresh, Expired
<1>16. /\ days' \in 0 .. MaxDays /\ cursor' \in 0 .. Len(log) /\ summarised' \in 0 .. Len(rounds)
  BY <1>1, <1>2 DEF NTypeOK
<1>17. QED
  BY <1>1, <1>2, <1>13, <1>15, <1>16, TickNext

\* A day makes what is stored old, and nothing else of it.
LEMMA DayStep ==
    ASSUME NoticesInv, DayPasses
    PROVE  NoticesInv'
<1> DEFINE l == [t \in Topic |-> [latest[t] EXCEPT !.old = TRUE]]
           u == [k \in DOMAIN outbox |-> [outbox[k] EXCEPT !.old = TRUE]]
<1>1. /\ phase = "idle" /\ phase' = "idle" /\ days < MaxDays /\ days' = days + 1
      /\ latest' = l /\ outbox' = u /\ UNCHANGED controller
      /\ UNCHANGED <<cursor, summarised, view, delivered, restarts>>
  BY DEF DayPasses, memory
<1>2. /\ NTypeOK /\ delivered \in Seq(Sent) /\ StoreInv(latest, outbox, cursor, summarised)
      /\ (phase # "read" => view = NoView)
  BY DEF NoticesInv
<1>3. UNCHANGED <<ops, pause, listed, rounds, log>>
  BY <1>1 DEF controller
<1>4. /\ OutboxInv(outbox, cursor, summarised) /\ NewsInv(latest, outbox, cursor)
      /\ Table(outbox) /\ Ordered(outbox)
  BY <1>2 DEF StoreInv, OutboxInv
<1>5. /\ l \in [Topic -> [status: Status, ref: 0 .. Len(ops), old: BOOLEAN]]
      /\ \A t \in Topic : l[t].status = latest[t].status /\ l[t].ref = latest[t].ref
  BY <1>4 DEF NewsInv
<1>6. /\ DOMAIN u = DOMAIN outbox
      /\ \A k \in DOMAIN outbox :
            /\ u[k] \in Waits /\ u[k].topic = outbox[k].topic /\ u[k].status = outbox[k].status
            /\ u[k].ref = outbox[k].ref /\ u[k].at = outbox[k].at
  BY <1>4 DEF Table, Waits
<1>7. u = [k \in DOMAIN u |-> u[k]]
  OBVIOUS
<1> HIDE DEF l, u
<1>8. Table(u)
  <2>1. u \in [DOMAIN u -> Waits]
    BY <1>6, <1>7
  <2>2. QED
    BY <1>4, <1>6, <2>1 DEF Table
<1>9. OutboxInv(u, cursor, summarised)
  <2>1. \A k \in DOMAIN u : Within(u[k], cursor, summarised)
    BY <1>4, <1>6 DEF OutboxInv, Within, OfRound
  <2>2. \A k, m \in DOMAIN u : k < m => InOrder(u[k], u[m])
    BY <1>4, <1>6 DEF Ordered, InOrder, OfRound
  <2>3. \A i \in DOMAIN delivered, k \in DOMAIN u :
           \/ InOrder(delivered[i], u[k])
           \/ /\ i = Len(delivered) /\ delivered[i] = Message(u[k])
              /\ \A m \in DOMAIN u : k <= m
    BY <1>4, <1>6 DEF Ordered, InOrder, OfRound, Message
  <2>4. QED
    BY <1>4, <1>8, <2>1, <2>2, <2>3 DEF OutboxInv, Ordered
<1>10. ASSUME NEW p \in Project
       PROVE  /\ Backed(l, u, p, "update") /\ Backed(l, u, p, "initial_check")
              /\ Known(l, cursor, p, "result", "update")
              /\ Known(l, cursor, p, "check", "initial_check")
              /\ l[<<p, "retry">>].ref # 0 => SpentBy(l[<<p, "retry">>].ref, cursor)
              /\ p \in listed /\ pause[p] # 0 /\ SpentBy(pause[p], cursor) => Asked(u, p, pause[p])
  <2>1. ASSUME NEW a \in {"update", "initial_check"}, Backed(latest, outbox, p, a)
        PROVE  Backed(l, u, p, a)
    <3>1. l[<<p, a>>].status = latest[<<p, a>>].status
      BY <1>5, Topics
    <3>2. CASE latest[<<p, a>>].status \in {"none", "succeeded"}
      BY <3>1, <3>2 DEF Backed
    <3>3. CASE latest[<<p, a>>].status \notin {"none", "succeeded"}
      <4> DEFINE topic == <<p, a>>
                 status == latest[<<p, a>>].status
                 t == outbox
      <4>1. LastIs(t, topic, status)
        BY <2>1, <3>3 DEF Backed
      <4>2. /\ \A k \in DOMAIN u : u[k].topic = topic => k \in DOMAIN t /\ t[k].topic = topic
            /\ \A k \in DOMAIN t : t[k].topic = topic /\ t[k].status = status
                                   => k \in DOMAIN u /\ u[k].topic = topic /\ u[k].status = status
        BY <1>6
      <4> HIDE DEF topic, status, t
      <4>3. LastIs(u, topic, status)
        BY <4>1, <4>2, LastKept
      <4>4. QED
        BY <3>1, <4>3 DEF Backed, topic, status
    <3>4. QED
      BY <3>2, <3>3
  <2>2. Asked(outbox, p, pause[p]) => Asked(u, p, pause[p])
    BY <1>6 DEF Asked
  <2>3. /\ l[<<p, "update">>].status = latest[<<p, "update">>].status
        /\ l[<<p, "initial_check">>].status = latest[<<p, "initial_check">>].status
        /\ l[<<p, "retry">>].ref = latest[<<p, "retry">>].ref
    BY <1>5, Topics
  <2>4. /\ Known(l, cursor, p, "result", "update")
        /\ Known(l, cursor, p, "check", "initial_check")
    BY <1>4, <2>3 DEF NewsInv, Known
  <2>5. /\ Backed(latest, outbox, p, "update") /\ Backed(latest, outbox, p, "initial_check")
        /\ latest[<<p, "retry">>].ref # 0 => SpentBy(latest[<<p, "retry">>].ref, cursor)
        /\ p \in listed /\ pause[p] # 0 /\ SpentBy(pause[p], cursor) => Asked(outbox, p, pause[p])
    BY <1>4 DEF NewsInv
  <2>6. QED
    BY <2>1, <2>2, <2>3, <2>4, <2>5
<1>11. StoreInv(l, u, cursor, summarised)
  BY <1>5, <1>9, <1>10 DEF StoreInv, NewsInv
<1>12. StoreInv(latest, outbox, cursor, summarised)' /\ delivered' \in Seq(Sent')
  BY <1>1, <1>2, <1>3, <1>11, StoreNext DEF Sent
<1>13. ViewInv' /\ TickInv'
  BY <1>1 DEF ViewInv, TickInv
<1>14. /\ days' \in 0 .. MaxDays /\ cursor' \in 0 .. Len(log) /\ summarised' \in 0 .. Len(rounds)
  BY <1>1, <1>2, NoticeAssumption DEF NTypeOK
<1>15. QED
  BY <1>1, <1>2, <1>12, <1>13, <1>14, TickNext

\* The controller keeps to its own variables.
LEMMA ControllerFrame ==
    ASSUME Controller
    PROVE  UNCHANGED <<cursor, summarised, latest, outbox, delivered, days, phase, view, restarts>>
<1>1. ASSUME NEW rows, Writes(rows)
      PROVE  UNCHANGED <<cursor, summarised, latest, outbox, delivered, days, phase, view, restarts>>
  BY <1>1 DEF Writes, store, memory, history
<1>2. CASE \E p \in Project : Delists(p) \/ Relists(p)
  BY <1>2 DEF Delists, Relists, store, memory, history
<1>3. CASE \E rows : Writes(rows)
  BY <1>1, <1>3
<1>4. QED
  BY <1>2, <1>3 DEF Controller, RoundBegins, RoundEnds, Dispatches, Returns, Settles, Finish, Reported,
                    RetryFails, Resumes, Reconciles, ChecksFirst, GatePauses, Forgets

LEMMA InitInv ==
    ASSUME NInit
    PROVE  NoticesInv
<1>1. /\ ops = <<>> /\ pause = [p \in Project |-> 0] /\ rounds = <<>> /\ listed = Project
      /\ gate = TRUE /\ startup = FALSE /\ log = <<>>
      /\ cursor = 0 /\ summarised = 0 /\ latest = [t \in Topic |-> Untold] /\ outbox = <<>>
      /\ phase = "idle" /\ view = NoView
      /\ delivered = <<>> /\ days = 0 /\ restarts = 0
  BY DEF NInit
<1>2. /\ Len(ops) = 0 /\ Len(log) = 0 /\ Len(rounds) = 0 /\ DOMAIN outbox = {} /\ DOMAIN log = {}
      /\ DOMAIN delivered = {} /\ Len(delivered) = 0
  BY <1>1
<1>3. latest \in [Topic -> [status: Status, ref: 0 .. Len(ops), old: BOOLEAN]]
  BY <1>1, <1>2 DEF Untold, Status
<1>4. Table(outbox)
  BY <1>2, <1>1 DEF Table
<1>5. NTypeOK
  <2>1. /\ ops \in Seq([project: Project, by: Origin, status: Final \cup {"running", "unknown"}])
        /\ rounds \in Seq([open: BOOLEAN, item: [Project -> {"quiet", "succeeded", "problem"}]])
        /\ log \in Seq([event: Event, op: 0 .. Len(ops), scheduled: BOOLEAN,
                        status: Status, round: 0 .. Len(rounds)])
    BY <1>1
  <2>2. pause \in [Project -> 0 .. Len(ops)]
    BY <1>1, <1>2
  <2>3. /\ DOMAIN outbox \subseteq Nat \ {0}
        /\ outbox \in [DOMAIN outbox -> [topic: Topic \cup {Summary}, status: Status,
                                         ref: 0 .. Len(ops), at: Nat \ {0}, old: BOOLEAN]]
    BY <1>4 DEF Table, Waits
  <2>4. \A k \in DOMAIN view.log : view.log[k] = log[k]
    BY <1>1 DEF NoView
  <2>5. /\ cursor \in 0 .. Len(log) /\ summarised \in 0 .. Len(rounds)
        /\ days \in 0 .. MaxDays /\ restarts \in 0 .. MaxRestarts
    BY <1>1, <1>2, NoticeAssumption
  <2>6. QED
    BY <1>1, <1>3, <2>1, <2>2, <2>3, <2>4, <2>5 DEF NTypeOK
<1>6. LedgerInv
  BY <1>1, <1>2 DEF LedgerInv
<1>7. OutboxInv(outbox, cursor, summarised)
  BY <1>2, <1>4 DEF OutboxInv, Ordered
<1>8. NewsInv(latest, outbox, cursor)
  <2>1. ASSUME NEW p \in Project
        PROVE  /\ Backed(latest, outbox, p, "update") /\ Backed(latest, outbox, p, "initial_check")
               /\ latest[<<p, "retry">>].ref = 0 /\ pause[p] = 0
    BY <1>1, Topics DEF Backed, Untold
  <2>2. ASSUME NEW p \in Project, NEW event, NEW topic
        PROVE  Known(latest, cursor, p, event, topic)
    BY <1>1 DEF Known
  <2>3. QED
    BY <1>3, <2>1, <2>2 DEF NewsInv
<1>9. ViewInv /\ TickInv
  BY <1>1 DEF ViewInv, TickInv
<1>10. delivered \in Seq(Sent)
  BY <1>1
<1>11. QED
  BY <1>1, <1>5, <1>6, <1>7, <1>8, <1>9, <1>10 DEF NoticesInv, StoreInv

\* Every step keeps the inductive invariant.
LEMMA StepInv ==
    ASSUME NoticesInv, [NNext]_vars
    PROVE  NoticesInv'
<1>1. NTypeOK /\ LedgerInv /\ restarts \in 0 .. MaxRestarts
  BY DEF NoticesInv, NTypeOK
<1>2. CASE Controller
  BY <1>1, <1>2, ControllerStep, ControllerFrame, GrowsInv
<1>3. CASE Restarts
  <2>1. /\ UNCHANGED <<cursor, summarised, latest, outbox, delivered, days>>
        /\ phase' = "idle" /\ view' = NoView /\ restarts < MaxRestarts /\ restarts' = restarts + 1
    BY <1>3 DEF Restarts, store
  <2>2. restarts' \in 0 .. MaxRestarts
    BY <1>1, <2>1, NoticeAssumption
  <2>3. QED
    BY <1>1, <1>3, <2>1, <2>2, ControllerStep, GrowsInv
<1>4. CASE CollectReads
  BY <1>4, ReadsStep
<1>5. CASE CollectWrites
  BY <1>5, WritesStep
<1>6. CASE Deletes
  BY <1>6, DeletesStep
<1>7. CASE TickEnds
  BY <1>7, TickEndsStep
<1>8. CASE Sends
  BY <1>8, SendsStep
<1>9. CASE DayPasses
  BY <1>9, DayStep
<1>10. CASE UNCHANGED vars
  <2>1. UNCHANGED <<controller, store, memory, history>>
    BY <1>10 DEF vars
  <2>2. /\ UNCHANGED controller /\ UNCHANGED <<cursor, summarised, latest, outbox, phase, view>>
        /\ UNCHANGED <<delivered, days, restarts>>
    BY <2>1 DEF store, memory, history
  <2>3. Grows /\ LedgerInv'
    BY <1>1, <2>2, NothingGrows
  <2>4. QED
    BY <2>2, <2>3, GrowsInv
<1>11. QED
  BY <1>2, <1>3, <1>4, <1>5, <1>6, <1>7, <1>8, <1>9, <1>10 DEF NNext, Collector

\* The inductive invariant holds, whatever the sizes and the bounds.
THEOREM NoticesInvariant == NSpec => []NoticesInv
<1>1. NInit => NoticesInv
  BY InitInv
<1>2. NoticesInv /\ [NNext]_vars => NoticesInv'
  BY StepInv
<1>3. QED
  BY <1>1, <1>2, PTL DEF NSpec

-----------------------------------------------------------------------------
(* What the invariant says of the messages. *)

\* A message that is told is in the chat or waits, in this order.
LEMMA ToldIs ==
    ASSUME NoticesInv
    PROVE  LET d == Len(delivered)
           IN  /\ d \in Nat /\ DOMAIN delivered = 1 .. d /\ DOMAIN outbox \subseteq Nat \ {0}
               /\ \A i \in DOMAIN Told :
                     \/ i \in 1 .. d /\ Told[i] = delivered[i]
                     \/ \E k \in DOMAIN outbox : i = d + k /\ Told[i] = Message(outbox[k])
               /\ \A i \in 1 .. d : i \in DOMAIN Told /\ Told[i] = delivered[i]
               /\ \A k \in DOMAIN outbox : d + k \in DOMAIN Told /\ Told[d + k] = Message(outbox[k])
<1> DEFINE d == Len(delivered)
<1>1. d \in Nat /\ DOMAIN delivered = 1 .. d /\ DOMAIN outbox \subseteq Nat \ {0}
  BY DEF NoticesInv, NTypeOK
<1>2. \A k \in DOMAIN outbox : d + k \notin 1 .. d /\ (d + k) - d = k
  BY <1>1
<1> HIDE DEF d
<1>3. /\ DOMAIN Told = 1 .. d \cup {d + k : k \in DOMAIN outbox}
      /\ \A i \in DOMAIN Told : Told[i] = IF i \in 1 .. d THEN delivered[i]
                                        ELSE Message(outbox[i - d])
  BY <1>1 DEF Told, d
<1>4. \A i \in DOMAIN Told : \/ i \in 1 .. d /\ Told[i] = delivered[i]
                            \/ \E k \in DOMAIN outbox : i = d + k /\ Told[i] = Message(outbox[k])
  BY <1>2, <1>3
<1>5. \A k \in DOMAIN outbox : d + k \in DOMAIN Told /\ Told[d + k] = Message(outbox[k])
  BY <1>2, <1>3
<1>6. \A i \in 1 .. d : i \in DOMAIN Told /\ Told[i] = delivered[i]
  BY <1>3
<1>7. QED
  BY <1>1, <1>4, <1>5, <1>6 DEF d

\* Every two messages are in order, and each is about what was taken.
LEMMA ToldOrdered ==
    ASSUME NoticesInv
    PROVE  /\ DOMAIN Told \subseteq Nat
           /\ \A i \in DOMAIN Told : Within(Told[i], cursor, summarised)
           /\ \A i, j \in DOMAIN Told :
                 i < j => \/ InOrder(Told[i], Told[j])
                          \/ i = Len(delivered) /\ Told[i] = Told[j]
<1> DEFINE d == Len(delivered)
<1>1. /\ d \in Nat /\ DOMAIN delivered = 1 .. d /\ DOMAIN outbox \subseteq Nat \ {0}
      /\ \A i \in DOMAIN Told :
            \/ i \in 1 .. d /\ Told[i] = delivered[i]
            \/ \E k \in DOMAIN outbox : i = d + k /\ Told[i] = Message(outbox[k])
  BY ToldIs
<1>2. /\ \A k \in DOMAIN outbox : Within(outbox[k], cursor, summarised)
      /\ \A i \in DOMAIN delivered : Within(delivered[i], cursor, summarised)
      /\ Ordered(outbox)
  BY DEF NoticesInv, StoreInv, OutboxInv
<1>3. \A k \in DOMAIN outbox : d + k \in Nat
  BY <1>1
<1>4. \A k \in DOMAIN outbox : /\ \A x : InOrder(x, outbox[k]) => InOrder(x, Message(outbox[k]))
                              /\ \A x : InOrder(outbox[k], x) => InOrder(Message(outbox[k]), x)
  BY DEF InOrder, OfRound, Message
<1> HIDE DEF d
<1>5. ASSUME NEW i \in DOMAIN Told, NEW j \in DOMAIN Told, i < j
      PROVE  \/ InOrder(Told[i], Told[j])
             \/ i = d /\ Told[i] = Told[j]
  <2>1. CASE i \in 1 .. d /\ Told[i] = delivered[i] /\ j \in 1 .. d /\ Told[j] = delivered[j]
    BY <1>1, <1>2, <1>5, <2>1 DEF Ordered
  <2>2. ASSUME NEW k \in DOMAIN outbox, j = d + k, Told[j] = Message(outbox[k]),
               i \in 1 .. d, Told[i] = delivered[i]
        PROVE  \/ InOrder(Told[i], Told[j])
               \/ i = d /\ Told[i] = Told[j]
    <3>1. \/ InOrder(delivered[i], outbox[k])
          \/ i = d /\ delivered[i] = Message(outbox[k])
      BY <1>1, <1>2, <2>2 DEF Ordered, d
    <3>2. QED
      BY <1>4, <2>2, <3>1
  <2>3. ASSUME NEW k \in DOMAIN outbox, j = d + k, Told[j] = Message(outbox[k]),
               NEW m \in DOMAIN outbox, i = d + m, Told[i] = Message(outbox[m])
        PROVE  InOrder(Told[i], Told[j])
    <3>1. m < k
      BY <1>1, <1>5, <2>3
    <3>2. InOrder(outbox[m], outbox[k])
      BY <1>2, <3>1 DEF Ordered
    <3>3. QED
      BY <1>4, <2>3, <3>2
  <2>4. ASSUME NEW m \in DOMAIN outbox, i = d + m, j \in 1 .. d
        PROVE  FALSE
    BY <1>1, <1>5, <2>4
  <2>5. QED
    BY <1>1, <2>1, <2>2, <2>3, <2>4
<1>6. ASSUME NEW i \in DOMAIN Told
      PROVE  i \in Nat /\ Within(Told[i], cursor, summarised)
  <2>1. CASE i \in 1 .. d /\ Told[i] = delivered[i]
    BY <1>1, <1>2, <2>1
  <2>2. ASSUME NEW k \in DOMAIN outbox, i = d + k, Told[i] = Message(outbox[k])
        PROVE  i \in Nat /\ Within(Told[i], cursor, summarised)
    <3>1. d + k \in Nat
      BY <1>3
    <3>2. Within(Message(outbox[k]), cursor, summarised)
      BY <1>2 DEF Within, OfRound, Message
    <3>3. QED
      BY <2>2, <3>1, <3>2
  <2>3. QED
    BY <1>1, <2>1, <2>2
<1>7. QED
  BY <1>5, <1>6 DEF d

LEMMA OrderHolds ==
    ASSUME NoticesInv
    PROVE  ToldInOrder
BY ToldOrdered DEF ToldInOrder, InOrder

LEMMA SummaryHolds ==
    ASSUME NoticesInv
    PROVE  SummaryFirst
<1>1. SUFFICES ASSUME NEW i \in DOMAIN Told, Told[i].topic[2] \in {"update", "retry"},
                      log[Told[i].at].scheduled, log[Told[i].at].round # 0
               PROVE  /\ log[Told[i].at].round <= summarised
                      /\ \A j \in DOMAIN Told : j > i /\ Told[j].topic = Summary
                                                => Told[j].at # log[Told[i].at].round
  BY DEF SummaryFirst
<1>2. OfRound(Told[i])
  BY <1>1 DEF OfRound
<1>3. log[Told[i].at].round <= summarised
  BY <1>2, ToldOrdered DEF Within
<1>4. NTypeOK /\ summarised \in Nat
  BY Numbered DEF NoticesInv
<1>5. log[Told[i].at].round \in Nat
  <2>1. Told[i].topic # Summary
    BY <1>1, Topics
  <2>2. Told[i].at <= cursor
    BY <2>1, ToldOrdered DEF Within
  <2>3. Told[i].at \in Nat \ {0}
    <3>1. CASE i \in DOMAIN delivered /\ Told[i] = delivered[i]
      <4>1. delivered \in Seq(Sent)
        BY DEF NoticesInv
      <4>2. delivered[i] \in Sent
        BY <3>1, <4>1
      <4>3. QED
        BY <3>1, <4>2 DEF Sent
    <3>2. ASSUME NEW k \in DOMAIN outbox, Told[i] = Message(outbox[k])
          PROVE  Told[i].at \in Nat \ {0}
      BY <1>4, <3>2 DEF NTypeOK, Message
    <3>3. QED
      BY <3>1, <3>2, ToldIs
  <2>4. Told[i].at \in 1 .. Len(log)
    BY <1>4, <2>2, <2>3, Numbered
  <2>5. QED
    BY <1>4, <2>4, Numbered
<1>6. ASSUME NEW j \in DOMAIN Told, j > i, Told[j].topic = Summary
      PROVE  Told[j].at # log[Told[i].at].round
  <2>1. i < j /\ Told[i] # Told[j]
    BY <1>1, <1>6, ToldOrdered, Topics
  <2>2. InOrder(Told[i], Told[j])
    BY <2>1, ToldOrdered
  <2>3. log[Told[i].at].round < Told[j].at
    BY <1>2, <1>6, <2>2 DEF InOrder
  <2>4. QED
    BY <1>5, <2>3
<1>7. QED
  BY <1>3, <1>6

\* The last message of the invariant is the last that is told.
LEMMA LastTold ==
    ASSUME NoticesInv, NEW topic, NEW status, LastIs(outbox, topic, status)
    PROVE  LastOf(topic, status)
<1> DEFINE d == Len(delivered)
<1>1. /\ d \in Nat /\ DOMAIN delivered = 1 .. d /\ DOMAIN outbox \subseteq Nat \ {0}
      /\ \A i \in DOMAIN Told :
            \/ i \in 1 .. d /\ Told[i] = delivered[i]
            \/ \E k \in DOMAIN outbox : i = d + k /\ Told[i] = Message(outbox[k])
      /\ \A i \in 1 .. d : i \in DOMAIN Told /\ Told[i] = delivered[i]
      /\ \A k \in DOMAIN outbox : d + k \in DOMAIN Told /\ Told[d + k] = Message(outbox[k])
  BY ToldIs
<1> HIDE DEF d
<1>2. ASSUME NEW k \in DOMAIN outbox, outbox[k].topic = topic, outbox[k].status = status,
             \A m \in DOMAIN outbox : k < m => outbox[m].topic # topic
      PROVE  LastOf(topic, status)
  <2>1. /\ d + k \in DOMAIN Told /\ Told[d + k].topic = topic /\ Told[d + k].status = status
    <3>1. d + k \in DOMAIN Told /\ Told[d + k] = Message(outbox[k])
      BY <1>1, <1>2
    <3>2. QED
      BY <1>2, <3>1 DEF Message
  <2>2. ASSUME NEW j \in DOMAIN Told, j > d + k
        PROVE  Told[j].topic # topic
    <3>1. k \in Nat /\ d + k \in Nat
      BY <1>1
    <3>2. j \notin 1 .. d
      BY <1>1, <2>2, <3>1
    <3>3. PICK m \in DOMAIN outbox : j = d + m /\ Told[j] = Message(outbox[m])
      BY <1>1, <3>2
    <3>4. k < m
      BY <1>1, <2>2, <3>3
    <3>5. QED
      BY <1>2, <3>3, <3>4 DEF Message
  <2>3. QED
    BY <2>1, <2>2 DEF LastOf
<1>3. ASSUME NEW i \in 1 .. d, delivered[i].topic = topic, delivered[i].status = status,
             \A j \in 1 .. d : i < j => delivered[j].topic # topic,
             \A k \in DOMAIN outbox : outbox[k].topic # topic
      PROVE  LastOf(topic, status)
  <2>1. i \in DOMAIN Told /\ Told[i].topic = topic /\ Told[i].status = status
    BY <1>1, <1>3
  <2>2. ASSUME NEW j \in DOMAIN Told, j > i
        PROVE  Told[j].topic # topic
    <3>1. CASE j \in 1 .. d /\ Told[j] = delivered[j]
      BY <1>1, <1>3, <2>2, <3>1
    <3>2. CASE \E k \in DOMAIN outbox : j = d + k /\ Told[j] = Message(outbox[k])
      BY <1>3, <3>2 DEF Message
    <3>3. QED
      BY <1>1, <3>1, <3>2
  <2>3. QED
    BY <2>1, <2>2 DEF LastOf
<1>4. QED
  BY <1>1, <1>2, <1>3 DEF LastIs

LEMMA FailureHolds ==
    ASSUME NoticesInv
    PROVE  FailureTold
<1>1. /\ NTypeOK /\ LedgerInv /\ NewsInv(latest, outbox, cursor)
  BY DEF NoticesInv, StoreInv
<1>2. cursor \in Nat /\ cursor <= Len(log) /\ DOMAIN log = 1 .. Len(log) /\ Len(log) \in Nat
  BY <1>1, Numbered
<1>3. ASSUME NEW p \in Project, NEW event \in {"result", "check"}, NEW topic,
             Backed(latest, outbox, p, topic), Known(latest, cursor, p, event, topic)
      PROVE  FailureIsLast(p, event, topic)
  <2> DEFINE rows == Results(p, event)
             i == Max(rows)
  <2>1. SUFFICES ASSUME rows # {}, log[i].status # "succeeded", ~Superseded(i)
                 PROVE  LastOf(<<p, topic>>, log[i].status)
    BY DEF FailureIsLast
  <2>2. rows \in SUBSET Nat /\ \A j \in rows : j <= cursor
    BY <1>2 DEF Results
  <2> HIDE DEF rows
  <2>3. i \in rows /\ \A j \in rows : j <= i
    BY <1>2, <2>1, <2>2, GreatestOf
  <2> HIDE DEF i
  <2>4. \A j : j \in rows <=> j \in 1 .. cursor /\ About(j, p, event)
    BY DEF rows, Results, About
  <2>5. i \in 1 .. cursor /\ About(i, p, event)
    BY <2>3, <2>4
  <2>6. \A j \in i + 1 .. cursor : j \in 1 .. cursor /\ ~(j <= i)
    BY <1>2, <2>5
  <2>7. \A j \in i + 1 .. cursor : ~About(j, p, event)
    BY <2>3, <2>4, <2>6
  <2>8. latest[<<p, topic>>].status = log[i].status
    BY <1>3, <2>1, <2>5, <2>7 DEF Known, i
  <2>9. log[i].status # "none"
    <3>1. i \in DOMAIN log
      BY <1>2, <2>5
    <3>2. QED
      BY <1>1, <2>5, <3>1 DEF LedgerInv, About
  <2>10. LastIs(outbox, <<p, topic>>, log[i].status)
    BY <1>3, <2>1, <2>8, <2>9 DEF Backed, i
  <2>11. QED
    BY <2>10, LastTold DEF i
<1>4. ASSUME NEW p \in Project
      PROVE  PauseIsTold(p)
  <2>1. SUFFICES ASSUME p \in listed, pause[p] # 0, SpentBy(pause[p], cursor)
                 PROVE  \E k \in DOMAIN Told : Told[k].topic = <<p, "retry">> /\ Told[k].ref = pause[p]
    BY DEF PauseIsTold, SpentBy
  <2>2. Asked(outbox, p, pause[p])
    BY <1>1, <2>1 DEF NewsInv
  <2>3. CASE \E i \in DOMAIN delivered : /\ delivered[i].topic = <<p, "retry">>
                                         /\ delivered[i].ref = pause[p]
    BY <2>3, ToldIs
  <2>4. ASSUME NEW k \in DOMAIN outbox, outbox[k].topic = <<p, "retry">>, outbox[k].ref = pause[p]
        PROVE  \E j \in DOMAIN Told : Told[j].topic = <<p, "retry">> /\ Told[j].ref = pause[p]
    <3>1. Len(delivered) + k \in DOMAIN Told /\ Told[Len(delivered) + k] = Message(outbox[k])
      BY ToldIs
    <3>2. QED
      BY <2>4, <3>1 DEF Message
  <2>5. QED
    BY <2>2, <2>3, <2>4 DEF Asked
<1>5. QED
  BY <1>1, <1>3, <1>4 DEF NewsInv, FailureTold

-----------------------------------------------------------------------------
(* The theorems. *)

\* The tables, the log and what a collection has read keep their types: no
\* notice waits about a row, an operation or a report that does not exist.
THEOREM NoticesTyped == NSpec => []NTypeOK
<1>1. NoticesInv => NTypeOK
  BY DEF NoticesInv
<1>2. QED
  BY <1>1, NoticesInvariant, PTL

\* A notice about a scheduled round never comes before the round's summary,
\* wherever the collections are cut and whenever the process dies.
THEOREM SummariesFirst == NSpec => []SummaryFirst
<1>1. NoticesInv => SummaryFirst
  BY SummaryHolds
<1>2. QED
  BY <1>1, NoticesInvariant, PTL

\* No failure that was consumed is lost to deduplication, replacement, expiry
\* or a crash, and a pause whose retry is spent has its notice.
THEOREM FailuresTold == NSpec => []FailureTold
<1>1. NoticesInv => FailureTold
  BY FailureHolds
<1>2. QED
  BY <1>1, NoticesInvariant, PTL

\* The messages about one topic come in the order of the log and none comes
\* twice, but for the one that was on its way when the process died.
THEOREM NoticesInOrder == NSpec => []ToldInOrder
<1>1. NoticesInv => ToldInOrder
  BY OrderHolds
<1>2. QED
  BY <1>1, NoticesInvariant, PTL

=============================================================================
