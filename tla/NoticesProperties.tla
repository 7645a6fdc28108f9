------------------------- MODULE NoticesProperties -------------------------
(***************************************************************************)
(* What the administrator may rely on of the messages of Notices.tla, each *)
(* stated over the controller's own log and state, not over what the       *)
(* outbox remembers of them.                                               *)
(***************************************************************************)
EXTENDS Notices

(* Every message that was sent or waits, in the order it is told: first    *)
(* those of the chat, then those of the outbox by id.                      *)
Told == [i \in DOMAIN delivered \cup {Len(delivered) + k : k \in DOMAIN outbox} |->
            IF i \in DOMAIN delivered THEN delivered[i]
            ELSE Message(outbox[i - Len(delivered)])]

LastOf(topic, status) ==
    \E i \in DOMAIN Told :
        /\ Told[i].topic = topic /\ Told[i].status = status
        /\ \A j \in DOMAIN Told : j > i => Told[j].topic # topic

Superseded(i) == \E j \in i + 1 .. Len(log) : log[j].event = log[i].event /\ log[j].op = log[i].op

\* The consumed rows that say what became of an operation of p.
Results(p, event) ==
    {i \in 1 .. cursor : /\ log[i].event = event
                         /\ ops[log[i].op].project = p
                         /\ event = "result" => ops[log[i].op].by # "initial"}

(* A notice about something that happened in a scheduled round never comes *)
(* before the summary of that round (the order collect documents: "never   *)
(* consume an event from an unfinished/unannounced round").                *)
SummaryFirst ==
    \A i \in DOMAIN Told :
        LET m == Told[i]
        IN  (/\ m.topic[2] \in {"update", "retry"}
             /\ log[m.at].scheduled /\ log[m.at].round # 0)
            => /\ log[m.at].round <= summarised
               /\ \A j \in DOMAIN Told :
                      j > i /\ Told[j].topic = Summary => Told[j].at # log[m.at].round

\* The latest consumed row of an event, if it tells of a failure.
FailureIsLast(p, event, topic) ==
    LET rows == Results(p, event)
    IN  (rows # {} /\ log[Max(rows)].status # "succeeded" /\ ~Superseded(Max(rows)))
        => LastOf(<<p, topic>>, log[Max(rows)].status)

\* A pause in force of an enrolled project whose retry is spent, once the row
\* that says so is consumed.
PauseIsTold(p) ==
    (p \in listed /\ pause[p] # 0 /\ \E i \in 1 .. cursor : log[i].event = "exhausted" /\ log[i].op = pause[p])
    => \E k \in DOMAIN Told : Told[k].topic = <<p, "retry">> /\ Told[k].ref = pause[p]

(* When the latest result of a project, or of its first check, that the    *)
(* outbox consumed is a failure or an unknown outcome, the last word on    *)
(* it, sent or waiting, is that failure; and an enrolled project that      *)
(* stays paused with its retry spent has a notice that asks to resume it.  *)
(* Neither deduplication, replacement and expiry, nor a crash between the  *)
(* send and the delete, lose one.                                          *)
FailureTold ==
    \A p \in Project :
        /\ FailureIsLast(p, "result", "update")
        /\ FailureIsLast(p, "check", "initial_check")
        /\ PauseIsTold(p)

(* No row and no report is told twice, and the messages about one topic    *)
(* come in the order of the log: but for a message on its way when the     *)
(* process died, which is still in the outbox.                             *)
ToldInOrder ==
    \A i, j \in DOMAIN Told :
        (i < j /\ Told[i].topic = Told[j].topic)
        => Told[i].at < Told[j].at \/ (i = Len(delivered) /\ Told[i] = Told[j])

(* While updates of a project go on failing, the last word the chat gets   *)
(* on them is a failure of theirs: not one from before a success or an     *)
(* unknown outcome, nor one the outbox took in before the day passed if    *)
(* there was a failure since (_enqueue tells a failure again after a day); *)
(* provided that no scheduled round stays open for ever.                   *)
News(p) == {i \in DOMAIN log : /\ log[i].event = "result" /\ ~Superseded(i)
                               /\ ops[log[i].op].project = p
                               /\ ops[log[i].op].by # "initial"}

\* The failures since the project's last other result.
Failing(p) == {i \in News(p) : \A j \in News(p) : j >= i => log[j].status = "failed"}

Chat(p) == {k \in DOMAIN delivered : delivered[k].topic = <<p, "update">>}

Reached(p) ==
    /\ Chat(p) # {}
    /\ LET m == delivered[Max(Chat(p))]
       IN  /\ m.status = "failed" /\ m.at \in Failing(p)
           /\ Max(Failing(p)) > eve => m.at > eve

AllTold == []<>(OpenRound = 0) => \A p \in Project : []<>(Failing(p) # {} => Reached(p))

=============================================================================
