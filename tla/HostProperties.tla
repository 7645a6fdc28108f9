--------------------------- MODULE HostProperties ---------------------------
(* What must hold of the maintenance host. *)
EXTENDS HostRegistry

\* The update in progress: its worker or the compose command it left behind.
Underway ==
    {t \in DOMAIN tokens : \/ t = child
                           \/ t = worker.token /\ worker.pc \in {"prepare", "up", "compose", "verify"}}
Working == {tokens[t].project : t \in Underway}

\* An update in progress stays on record as unknown under its own reference
\* until its worker ends it, or is dead and so are its commands: no other
\* request and no review gets in between (project_registry.py locked, recover.py main).
OnRecordWhileWorking ==
    \A t \in Underway : record[tokens[t].project] = [status |-> "unknown", ref |-> t, byHand |-> FALSE]

\* An operation left unknown by a dead worker freezes the whole host until an
\* administrator settles it: no registration changes, no plan, no business is
\* touched and no other record moves (project_registry.py clear_to_change).
UnclearFreezes ==
    [][\A p \in Project :
           record[p].status = "unknown" /\ Working = {} =>
               /\ UNCHANGED <<registry, touched, receipts>>
               /\ \A t \in DOMAIN tokens' \ DOMAIN tokens : tokens'[t].kind = "preview"
               /\ record' # record => \E q \in Project : record'[q].byHand /\ ~record[q].byHand]_hostvars

\* No business is recreated from a plan its deployment has moved away from,
\* by an edit of the owner or another update, at any moment before its
\* execution was frozen: between plan and apply, or while images were pulled
\* (project_registry.py generic_apply, plan_stale).
StaleUntouched == touched \cap stale = {}

(* What the host promises about updates: HostLedger. *)
Ledger     == INSTANCE HostLedger WITH busy <- Working, Ref <- 1..MaxTokens
HostLedgerSpec == Ledger!HSpec

=============================================================================
