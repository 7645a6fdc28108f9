-------------------------- MODULE OperationLedger --------------------------
(***************************************************************************)
(* What the controller promises about business operations, independent of  *)
(* gates, locks, schedules and retries: operations are only ever appended, *)
(* one at a time; a result is final; an operation whose result was lost is *)
(* unknown until it is settled, and blocks every later one until then.     *)
(***************************************************************************)
EXTENDS Naturals, Sequences

CONSTANT Project
VARIABLE ledger   \* a sequence of [project, status]

Open == {i \in DOMAIN ledger : ledger[i].status \in {"running", "unknown"}}

Init == ledger = <<>>

Dispatch(p) ==
    /\ Open = {}
    /\ ledger' = Append(ledger, [project |-> p, status |-> "running"])

\* The only open operation is the last one.
Becomes(from, to) ==
    /\ ledger # <<>>
    /\ ledger[Len(ledger)].status = from
    /\ ledger' = [ledger EXCEPT ![Len(ledger)].status = to]

Next ==
    \/ \E p \in Project : Dispatch(p)
    \/ \E to \in {"succeeded", "failed", "unknown"} : Becomes("running", to)
    \/ \E to \in {"succeeded", "failed"} : Becomes("unknown", to)

Spec == Init /\ [][Next]_ledger

=============================================================================
