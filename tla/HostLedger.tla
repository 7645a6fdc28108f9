----------------------------- MODULE HostLedger -----------------------------
(***************************************************************************)
(* What the maintenance host promises about updates, whatever plans, locks *)
(* and registry changes surround them: an update is put on record before   *)
(* the business is touched and at most once; its result says whether the   *)
(* business was touched; a result that cannot be told stays unknown and    *)
(* stops every other update until an administrator settles it by hand.     *)
(***************************************************************************)
EXTENDS Naturals

CONSTANTS Project, Ref   \* projects, and references of updates
VARIABLES
    record,   \* the operation record of each project
    busy,     \* the projects being updated: at most one
    receipts, \* references of all updates put on record
    touched   \* references of the updates that reached the business

hvars == <<record, busy, receipts, touched>>

NoRecord == [status |-> "idle", ref |-> 0, byHand |-> FALSE]
Record   == [status: {"idle", "unknown", "succeeded", "failed"}, ref: Nat, byHand: BOOLEAN]
Unclear  == {p \in Project : record[p].status = "unknown"}

HInit ==
    /\ record = [p \in Project |-> NoRecord]
    /\ busy = {} /\ receipts = {} /\ touched = {}

Begin(p, ref) ==
    /\ busy = {} /\ Unclear = {}
    /\ ref \notin receipts
    /\ record' = [record EXCEPT ![p] = [status |-> "unknown", ref |-> ref, byHand |-> FALSE]]
    /\ busy' = {p} /\ receipts' = receipts \cup {ref}
    /\ touched' = touched

Touch(p) ==
    /\ p \in busy
    /\ touched' = touched \cup {record[p].ref}
    /\ UNCHANGED <<record, busy, receipts>>

\* "failed" is said of an untouched business only, "succeeded" of a touched one.
Truthful(p, status) ==
    /\ status = "failed"    => record[p].ref \notin touched
    /\ status = "succeeded" => record[p].ref \in touched

End(p, status) ==
    /\ p \in busy
    /\ status \in {"succeeded", "failed", "unknown"}
    /\ Truthful(p, status)
    /\ record' = [record EXCEPT ![p].status = status]
    /\ busy' = {}
    /\ UNCHANGED <<receipts, touched>>

Die ==
    /\ busy # {} /\ busy' = {}
    /\ UNCHANGED <<record, receipts, touched>>

Settle(p) ==
    /\ busy = {} /\ p \in Unclear
    /\ record' = [record EXCEPT ![p] = [status |-> "failed", ref |-> @.ref, byHand |-> TRUE]]
    /\ UNCHANGED <<busy, receipts, touched>>

HNext ==
    \/ \E p \in Project, ref \in Ref : Begin(p, ref)
    \/ \E p \in Project : Touch(p) \/ Settle(p)
    \/ \E p \in Project, s \in {"succeeded", "failed", "unknown"} : End(p, s)
    \/ Die

HSpec == HInit /\ [][HNext]_hvars

=============================================================================
