-------------------------- MODULE SystemProperties --------------------------
(* What must hold of the controller and the host together. *)
EXTENDS System

Token(i) == ops[i].token

\* The controller calls an operation succeeded only if the host touched the
\* business for it, however the answer was lost, late or reconciled.
SucceededIsReal ==
    \A i \in DOMAIN ops : ops[i].status = "succeeded" => Token(i) \in touched

\* The controller calls an operation failed only if the business was left alone
\* or the administrator settled it by hand at the host.
FailedIsUntouched ==
    [][\A i \in DOMAIN ops :
           ops[i].status # "failed" /\ ops'[i].status = "failed" =>
               \/ Token(i) \notin touched
               \/ \E p \in Project : record[p].ref = Token(i) /\ record[p].byHand]_sysvars

\* Once the controller has a final result nothing more is done to the business
\* for that operation: no late worker, no delayed request.
NoLateMutation ==
    [][\A i \in DOMAIN ops : ops[i].status \in Terminal =>
           (Token(i) \in touched' <=> Token(i) \in touched)]_sysvars

\* A new operation is dispatched only when nothing the controller ever sent is
\* still under way at the host, or may yet be.
NoOverlap == [][Len(ops') > Len(ops) => busy = {} /\ inflight = {}]_sysvars

\* README.md, "Failure and recovery": an operation that stays unknown can be
\* reviewed and settled at the host, after which the web reconciles it. That
\* takes a record of it at the host, unless its request is still on its way.
UnknownIsReviewable ==
    \A i \in DOMAIN ops :
        ops[i].status = "unknown" =>
            Token(i) \in inflight \/ \E p \in Project : record[p].ref = Token(i)

=============================================================================
