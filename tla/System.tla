------------------------------- MODULE System -------------------------------
(***************************************************************************)
(* The controller of Core in front of a host that keeps the promises of    *)
(* HostLedger, joined by the apply and operation-status requests of        *)
(* managed_gateway.py. Ending the local ssh does not end the remote worker *)
(* (gateway.py, active_dispatch.py): a request may be lost, declined, or   *)
(* carried out long after the controller gave up its answer, while the     *)
(* controller crashes, restarts and reconciles.                            *)
(*                                                                         *)
(* The operation_ref of an operation is the token of its plan, which names *)
(* it on both sides. Which requests the host declines is left open: its    *)
(* lock is also held, without waiting, by read-only requests.              *)
(***************************************************************************)
EXTENDS Core

VARIABLES
    record, busy, receipts, touched,   \* the host: see HostLedger
    inflight,  \* tokens of apply requests the host has not answered to yet
    declined   \* tokens refused with a code that rules an execution out

H     == INSTANCE HostLedger WITH Ref <- 1..MaxPlans
host  == <<record, busy, receipts, touched>>
wire  == <<inflight, declined>>
sysvars == <<vars, host, wire>>

SysInit ==
    /\ Init
    /\ H!HInit
    /\ inflight = {} /\ declined = {}

-----------------------------------------------------------------------------
(* The request of a dispatch (apply_plan). *)

SysClaim ==
    /\ Claim
    /\ inflight' = inflight \cup {worker.token}
    /\ UNCHANGED <<host, declined>>

\* A refusal means "failed" only if its code is raised before the operation
\* goes on record; any other one, and every lost answer, leaves it unknown.
Bug_RuledOut(t) == t \notin inflight
RuledOut(t)     == t \in declined

Answered(p, t, status) == record[p].ref = t /\ record[p].status = status /\ p \notin busy

SysReturns(status) ==
    LET p == worker.project
        t == worker.token
    IN  /\ ApplyReturns(status, "project")
        /\ \/ status = "unknown"
           \/ status = "failed" /\ RuledOut(t)
           \/ status \in Terminal /\ Answered(p, t, status)
        /\ UNCHANGED <<host, wire>>

-----------------------------------------------------------------------------
(* The host takes up a request, early or late, or declines it. *)

ProjectOf(t) == CHOOSE p \in Project : \E i \in DOMAIN ops : ops[i].token = t /\ ops[i].project = p

HostBegins(t) ==
    /\ t \in inflight
    /\ H!Begin(ProjectOf(t), t)
    /\ inflight' = inflight \ {t}
    /\ UNCHANGED <<vars, declined>>

HostDeclines(t, definite) ==
    /\ t \in inflight
    /\ inflight' = inflight \ {t}
    /\ declined' = IF definite THEN declined \cup {t} ELSE declined
    /\ UNCHANGED <<vars, host>>

HostWorks ==
    /\ \/ \E p \in Project : H!Touch(p)
       \/ \E p \in Project, s \in Terminal \cup {"unknown"} : H!End(p, s)
       \/ H!Die
    /\ UNCHANGED <<vars, wire>>

\* The administrator settles an unknown operation at the host (recover.py).
HostSettles(p) == H!Settle(p) /\ UNCHANGED <<vars, wire>>

-----------------------------------------------------------------------------
(* The answer to a reconciliation: the last operation of the project. It   *)
(* counts only for the operation it names.                                 *)
Bug_Matches(i, status) == record[ops[i].project].status = status
Matches(i, status) ==
    /\ record[ops[i].project].ref = ops[i].token
    /\ record[ops[i].project].status = status

SysReconcileMatched(i, status) ==
    /\ ReconcileMatched(i, status)
    /\ Matches(i, status)
    /\ UNCHANGED <<host, wire>>

\* The part of the controller that does not speak of operations to the host.
Elsewhere ==
    /\ \/ Crash
       \/ Restart
       \/ Request
       \/ Tick
       \/ RoundRecovers
       \/ ReconcileStart
       \/ \E i \in DOMAIN ops : ReconcileUnmatched(i)
       \/ ReconcileDone
       \/ ClaimRefused
       \/ RoundStep
    /\ UNCHANGED <<host, wire>>

HostNext ==
    \/ \E t \in inflight : HostBegins(t) \/ \E definite \in BOOLEAN : HostDeclines(t, definite)
    \/ HostWorks
    \/ \E p \in Project : HostSettles(p)

SysNext ==
    \/ Elsewhere
    \/ SysClaim
    \/ \E s \in Terminal \cup {"unknown"} : SysReturns(s)
    \/ \E i \in DOMAIN ops, s \in Terminal : SysReconcileMatched(i, s)
    \/ HostNext

SysSpec == SysInit /\ [][SysNext]_sysvars

=============================================================================
