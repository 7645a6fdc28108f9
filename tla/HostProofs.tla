----------------------------- MODULE HostProofs -----------------------------
(***************************************************************************)
(* Machine-checked proofs about the maintenance host, for every set of     *)
(* projects and policies and every bound: its record of an update, the     *)
(* freeze after an unclear one, and that it implements HostLedger.         *)
(***************************************************************************)
EXTENDS HostProperties, SequenceTheorems, TLAPS

-----------------------------------------------------------------------------
(* The inductive invariant. *)

\* The bounds, and the revision of a definition lags behind the registry's.
HostBounded == /\ Len(tokens) <= MaxTokens
               /\ \A p \in Project : projects[p].rev <= revision

\* A worker works on a consumed token; only between ApplyRecreate and
\* ComposeEnds has it a command, which nobody else has meanwhile.
LockHeld ==
    /\ At("idle") \/ (worker.token \in DOMAIN tokens /\ tokens[worker.token].consumed)
    /\ At("compose") => child = worker.token
    /\ child # 0 => child \in touched /\ (At("idle") \/ At("compose"))

\* Where an update stands is what its receipt and its touch say.
Progress ==
    /\ \A t \in receipts : tokens[t].consumed
    /\ At("consumed") => /\ worker.token \notin receipts
                         /\ \A p \in Project : record[p].status # "unknown"
    /\ At("prepare") \/ At("up") => worker.token \in receipts \ touched
    /\ At("compose") \/ At("verify") => worker.token \in touched

\* What the administrator settled is not unknown any more.
SettledIsClear == \A p \in Project : record[p].status = "unknown" => ~record[p].byHand

HostInv == /\ HTypeOK
           /\ HostBounded
           /\ LockHeld
           /\ Progress
           /\ SettledIsClear
           /\ OnRecordWhileWorking

-----------------------------------------------------------------------------
(* Previews and plans: tokens are added and spent, never taken back. *)

Token == [kind: {"preview", "plan"}, project: Project, rev: 0..MaxRevision,
          material: 0..MaxDrift, consumed: BOOLEAN]

Definition == [active: BOOLEAN, policy: Policies, rev: 0..MaxRevision]

Locals == [pc: {"idle", "consumed", "prepare", "up", "compose", "verify"},
           token: 0..MaxTokens, seen: 0..MaxDrift]

Record == [status: {"idle", "unknown", "succeeded", "failed"}, ref: 0..MaxTokens, byHand: BOOLEAN]

Grown == /\ DOMAIN tokens \subseteq DOMAIN tokens'
         /\ \A t \in DOMAIN tokens : /\ tokens'[t].project = tokens[t].project
                                     /\ tokens'[t].kind = tokens[t].kind
                                     /\ tokens'[t].material = tokens[t].material
                                     /\ tokens[t].consumed => tokens'[t].consumed

LEMMA TokenTable ==
    ASSUME HTypeOK
    PROVE  /\ tokens \in Seq(Token) /\ Len(tokens) \in Nat
           /\ DOMAIN tokens = 1 .. Len(tokens)
           /\ \A t \in DOMAIN tokens : tokens[t] \in Token /\ t # 0
           /\ tokens \in [1 .. Len(tokens) -> Token]
<1>1. tokens \in Seq(Token)
  BY DEF HTypeOK, Token
<1>2. QED
  BY <1>1, LenProperties

LEMMA IssueGrows ==
    ASSUME HTypeOK, NEW kind \in {"preview", "plan"}, NEW p \in Project, Issue(kind, p)
    PROVE  /\ tokens' \in Seq(Token) /\ Len(tokens') <= MaxTokens
           /\ Grown
           /\ \A t \in DOMAIN tokens' \ DOMAIN tokens :
                  /\ tokens'[t].kind = kind /\ tokens'[t].project = p
                  /\ tokens'[t].material = deployed[p]
<1> DEFINE token == [kind |-> kind, project |-> p, rev |-> projects[p].rev,
                     material |-> deployed[p], consumed |-> FALSE]
<1>1. token \in Token /\ token.kind = kind /\ token.project = p /\ token.material = deployed[p]
  BY DEF HTypeOK, Token
<1>2. tokens' = Append(tokens, token) /\ Len(tokens) < MaxTokens /\ MaxTokens \in Nat
  BY BoundAssumption DEF Issue
<1> HIDE DEF token
<1>3. tokens' \in Seq(Token) /\ Len(tokens') = Len(tokens) + 1
  BY <1>1, <1>2, TokenTable, AppendProperties
<1>4. /\ DOMAIN tokens' = 1 .. Len(tokens) + 1 /\ tokens'[Len(tokens) + 1] = token
      /\ \A t \in 1 .. Len(tokens) : tokens'[t] = tokens[t]
  BY <1>1, <1>2, <1>3, TokenTable, AppendProperties, LenProperties
<1>5. QED
  BY <1>1, <1>2, <1>3, <1>4, TokenTable DEF Grown

LEMMA ConsumedGrows ==
    ASSUME HTypeOK, NEW t \in DOMAIN tokens, tokens' = Consumed(t)
    PROVE  /\ tokens' \in Seq(Token) /\ Len(tokens') = Len(tokens)
           /\ DOMAIN tokens' = DOMAIN tokens
           /\ Grown /\ tokens'[t].consumed
<1>1. [tokens[t] EXCEPT !.consumed = TRUE] \in Token
  BY TokenTable DEF Token
<1>2. /\ tokens' \in Seq(Token) /\ Len(tokens') = Len(tokens)
      /\ \A u \in DOMAIN tokens : tokens'[u] = IF u = t THEN [tokens[t] EXCEPT !.consumed = TRUE]
                                                        ELSE tokens[u]
  BY <1>1, TokenTable, ExceptSeq DEF Consumed
<1>3. DOMAIN tokens' = DOMAIN tokens
  BY <1>2, TokenTable, LenProperties
<1>4. QED
  BY <1>2, <1>3, TokenTable DEF Grown, Token

LEMMA SpentExist == SpentPlans \subseteq DOMAIN tokens
BY DEF SpentPlans

LEMMA SpentStay == ASSUME Grown PROVE SpentPlans \subseteq SpentPlans'
BY DEF Grown, SpentPlans

-----------------------------------------------------------------------------
(* What the steps change. *)

\* Requests that end in one write, and the owner's changes of the deployment.
Quiet == Grown /\ UNCHANGED <<operations, commands, worker>>

LEMMA HostFootprint ==
    ASSUME HTypeOK, [Next]_hostvars
    PROVE  \/ Quiet
           \/ \E t \in DOMAIN tokens : ApplyStart(t)
           \/ ApplyRecord \/ ApplyRefuse \/ ApplyPrepare \/ ApplyAbort \/ ApplyRecreate
           \/ ComposeEnds
           \/ \E ok \in BOOLEAN : ApplyFinish(ok)
           \/ \E p \in Project : Resolve(p)
           \/ WorkerDies
<1> USE DEF registry, operations, deployment, commands
<1>1. ASSUME tokens' = tokens
      PROVE  Grown
  BY <1>1 DEF Grown
<1>2. ASSUME NEW p \in Project, Drift(p) \/ Health(p) \/ Review(p)
      PROVE  Quiet
  BY <1>1, <1>2 DEF Drift, Health, Review, Quiet
<1>3. ASSUME NEW p \in Project, Preview(p) \/ Plan(p)
      PROVE  Quiet
  BY <1>3, IssueGrows DEF Preview, Plan, Issue, Quiet
<1>4. ASSUME NEW t \in DOMAIN tokens, NEW policy \in Policies, Enroll(t, policy)
      PROVE  Quiet
  BY <1>4, ConsumedGrows DEF Enroll, Quiet
<1>5. ASSUME NEW p \in Project, NEW active \in BOOLEAN, NEW policy \in Policies,
             Reconfigure(p, active, policy)
      PROVE  Quiet
  BY <1>1, <1>5 DEF Reconfigure, Quiet
<1>6. CASE UNCHANGED hostvars
  BY <1>1, <1>6 DEF hostvars, Quiet
<1>7. QED
  BY <1>2, <1>3, <1>4, <1>5, <1>6 DEF Next, ApplyStep
-----------------------------------------------------------------------------
(* Type correctness, action by action. *)

LEMMA MovesType ==
    ASSUME HTypeOK, NEW p \in Project, Moves(p)
    PROVE  deployed' \in [Project -> 0..MaxDrift] /\ stale' \subseteq DOMAIN tokens
<1>1. /\ deployed[p] < MaxDrift
      /\ deployed' = [deployed EXCEPT ![p] = @ + 1]
      /\ deployed \in [Project -> 0..MaxDrift]
  BY DEF Moves, HTypeOK
<1>2. deployed' \in [Project -> 0..MaxDrift]
  BY <1>1, BoundAssumption
<1>3. Outdated(p) \subseteq DOMAIN tokens
  BY DEF Outdated
<1>4. QED
  BY <1>2, <1>3 DEF Moves, HTypeOK

LEMMA HostTypeStep ==
    ASSUME HTypeOK, HostBounded, LockHeld, Progress, [Next]_hostvars
    PROVE  HTypeOK' /\ HostBounded'
<1> USE BoundAssumption DEF registry, operations, deployment, commands, Definition, Locals, At
<1>0. /\ tokens \in Seq(Token) /\ Len(tokens) \in Nat /\ Len(tokens) <= MaxTokens
      /\ \A t \in DOMAIN tokens : t \in 1 .. MaxTokens /\ tokens[t] \in Token
      /\ revision \in Nat
  <2>1. Len(tokens) <= MaxTokens
    BY DEF HostBounded
  <2>2. revision \in 0..MaxRevision
    BY DEF HTypeOK
  <2>3. QED
    BY <2>1, <2>2, TokenTable
<1>1. ASSUME tokens' = tokens, registry' = registry
      PROVE  HostBounded' /\ tokens' \in Seq(Token) /\ SpentPlans' = SpentPlans
  BY <1>0, <1>1 DEF HostBounded, SpentPlans
<1>2. ASSUME Grown
      PROVE  /\ receipts \subseteq SpentPlans' /\ stale \subseteq DOMAIN tokens'
             /\ ~At("idle") => worker.token \in SpentPlans'
  BY <1>2, SpentStay DEF HTypeOK, Grown
<1>3. ASSUME NEW p \in Project, Drift(p) \/ Health(p)
      PROVE  HTypeOK' /\ HostBounded'
  <2>1. CASE Drift(p)
    <3>1. deployed' \in [Project -> 0..MaxDrift] /\ stale' \subseteq DOMAIN tokens
      BY <2>1, MovesType DEF Drift
    <3>2. QED
      BY <1>1, <2>1, <3>1 DEF Drift, HTypeOK, Token
  <2>2. CASE Health(p)
    <3>1. healthy' \in [Project -> BOOLEAN]
      BY <2>2 DEF Health, HTypeOK
    <3>2. QED
      BY <1>1, <2>2, <3>1 DEF Health, HTypeOK, Token
  <2>3. QED
    BY <1>3, <2>1, <2>2
<1>4. ASSUME NEW p \in Project, Review(p) \/ Resolve(p)
      PROVE  HTypeOK' /\ HostBounded'
  <2>1. CASE Review(p)
    BY <1>1, <2>1 DEF Review, HTypeOK, Token
  <2>2. CASE Resolve(p)
    <3>1. record' = [record EXCEPT ![p] = [record[p] EXCEPT !.status = "failed", !.byHand = TRUE]]
      BY <2>2 DEF Resolve
    <3>2. record \in [Project -> Record]
      BY DEF HTypeOK, Record
    <3>3. [record[p] EXCEPT !.status = "failed", !.byHand = TRUE] \in Record
      BY <3>2 DEF Record
    <3>4. record' \in [Project -> Record]
      BY <3>1, <3>2, <3>3
    <3>5. QED
      BY <1>1, <2>2, <3>4 DEF Resolve, HTypeOK, Token, Record
  <2>3. QED
    BY <1>4, <2>1, <2>2
<1>5. ASSUME NEW p \in Project, Preview(p) \/ Plan(p)
      PROVE  HTypeOK' /\ HostBounded'
  <2>1. PICK kind \in {"preview", "plan"} : Issue(kind, p)
    BY <1>5 DEF Preview, Plan
  <2>2. tokens' \in Seq(Token) /\ Len(tokens') <= MaxTokens /\ Grown
    BY <2>1, IssueGrows
  <2>3. QED
    BY <1>2, <2>1, <2>2 DEF Issue, HTypeOK, HostBounded, At, Token
<1>6. ASSUME NEW p \in Project, NEW active \in BOOLEAN, NEW policy \in Policies,
             revision < MaxRevision, Commit(p, active, policy), revision' = revision + 1
      PROVE  /\ projects' \in [Project -> Definition]
             /\ revision' \in 0..MaxRevision
             /\ \A q \in Project : projects'[q].rev <= revision'
  <2>1. /\ \A q \in Project : projects[q] \in Definition
        /\ \A q \in Project : projects[q].rev \in Nat /\ projects[q].rev <= revision
    BY DEF HTypeOK, HostBounded
  <2>2. projects[p].rev + 1 \in 0..MaxRevision /\ projects[p].rev + 1 <= revision'
    BY <1>0, <1>6, <2>1
  <2>3. QED
    BY <1>0, <1>6, <2>1, <2>2 DEF Commit, HTypeOK
<1>7. ASSUME NEW t \in DOMAIN tokens, NEW policy \in Policies, Enroll(t, policy)
      PROVE  HTypeOK' /\ HostBounded'
  <2>1. tokens[t].project \in Project
    BY <1>0 DEF Token
  <2>2. tokens' \in Seq(Token) /\ Len(tokens') <= MaxTokens /\ Grown
    BY <1>0, <1>7, ConsumedGrows DEF Enroll
  <2>3. QED
    BY <1>2, <1>6, <1>7, <2>1, <2>2 DEF Enroll, HTypeOK, HostBounded, At, Token
<1>8. ASSUME NEW p \in Project, NEW active \in BOOLEAN, NEW policy \in Policies,
             Reconfigure(p, active, policy)
      PROVE  HTypeOK' /\ HostBounded'
  <2>1. SpentPlans' = SpentPlans
    BY <1>8 DEF Reconfigure, SpentPlans
  <2>2. QED
    BY <1>0, <1>6, <1>8, <2>1 DEF Reconfigure, HTypeOK, HostBounded, Token
<1>9. ASSUME NEW t \in DOMAIN tokens, ApplyStart(t)
      PROVE  HTypeOK' /\ HostBounded'
  <2>1. tokens[t].project \in Project
    BY <1>0 DEF Token
  <2>2. tokens' \in Seq(Token) /\ Len(tokens') <= MaxTokens /\ Grown /\ t \in SpentPlans'
    <3>1. tokens' = Consumed(t) /\ tokens[t].kind = "plan"
      BY <1>9 DEF ApplyStart, Spend
    <3>2. QED
      BY <1>0, <3>1, ConsumedGrows DEF Grown, SpentPlans
  <2>3. t \in 0..MaxTokens /\ deployed[tokens[t].project] \in 0..MaxDrift
    BY SMTT(30), <1>0, <2>1 DEF HTypeOK
  <2>4. worker' \in Locals
    BY <1>9, <2>3 DEF ApplyStart
  <2>5. QED
    BY <1>2, <1>9, <2>2, <2>4 DEF ApplyStart, HTypeOK, HostBounded, Token
<1>10. ~At("idle") => worker.token \in DOMAIN tokens /\ worker.token \in 0..MaxTokens /\ Mine \in Project
  BY <1>0 DEF LockHeld, Mine, Token
<1>11. Free \in Locals /\ Free.pc = "idle"
  BY DEF Free
<1>12. CASE ApplyRecord
  BY <1>1, <1>10, <1>12 DEF ApplyRecord, Recorded, Receipted, At, HTypeOK, Token
<1>13. CASE ApplyRefuse \/ ApplyPrepare \/ ApplyAbort \/ WorkerDies
  <2>1. CASE ApplyRefuse
    BY <1>1, <1>11, <2>1 DEF ApplyRefuse, HTypeOK, Token
  <2>2. CASE ApplyPrepare
    BY <1>1, <2>2 DEF ApplyPrepare, HTypeOK, Token
  <2>3. CASE ApplyAbort
    BY <1>1, <1>10, <1>11, <2>3 DEF ApplyAbort, At, HTypeOK, Token
  <2>4. CASE WorkerDies
    BY <1>1, <1>11, <2>4 DEF WorkerDies, HTypeOK, Token
  <2>5. QED
    BY <1>13, <2>1, <2>2, <2>3, <2>4
<1>14. CASE ApplyRecreate
  <2>1. worker.token \in receipts
    BY <1>14 DEF ApplyRecreate, Progress
  <2>2. QED
    BY <1>1, <1>10, <1>14, <2>1 DEF ApplyRecreate, At, HTypeOK, Token
<1>15. CASE ComposeEnds
  <2>1. deployed' \in [Project -> 0..MaxDrift] /\ stale' \subseteq DOMAIN tokens
    <3>1. child \in DOMAIN tokens
      BY <1>15, SpentExist DEF ComposeEnds, LockHeld, HTypeOK
    <3>2. tokens[child].project \in Project
      BY <1>0, <3>1 DEF Token
    <3>3. QED
      BY <1>15, <3>2, MovesType DEF ComposeEnds
  <2>2. worker' \in Locals /\ worker'.token = worker.token /\ (At("idle") => At("idle")')
    BY <1>15 DEF ComposeEnds, HTypeOK
  <2>3. /\ child' = 0 /\ registry' = registry /\ tokens' = tokens /\ operations' = operations
        /\ healthy' = healthy /\ touched' = touched
    BY <1>15 DEF ComposeEnds
  <2>4. QED
    BY <1>1, <2>1, <2>2, <2>3 DEF HTypeOK, Token
<1>16. ASSUME NEW ok \in BOOLEAN, ApplyFinish(ok)
       PROVE  HTypeOK' /\ HostBounded'
  <2>1. Mine \in Project /\ Result(ok) \in {"succeeded", "unknown"}
    BY <1>10, <1>16 DEF ApplyFinish, Result, At
  <2>2. record' = [record EXCEPT ![Mine].status = Result(ok)]
    BY <1>16 DEF ApplyFinish
  <2>3. record' \in [Project -> Record]
    BY <2>1, <2>2 DEF HTypeOK, Record
  <2>4. QED
    BY <1>1, <1>11, <1>16, <2>3 DEF ApplyFinish, HTypeOK, Token, Record
<1>17. CASE UNCHANGED hostvars
  BY <1>1, <1>17 DEF hostvars, HTypeOK, Token
<1>18. QED
  BY <1>3, <1>4, <1>5, <1>7, <1>8, <1>9, <1>12, <1>13, <1>14, <1>15, <1>16, <1>17
  DEF Next, ApplyStep
-----------------------------------------------------------------------------
(* The update in progress: there is at most one. *)

LEMMA UnderwayIs ==
    ASSUME HostInv
    PROVE  Underway = IF child # 0 THEN {child}
                      ELSE IF At("prepare") \/ At("up") \/ At("verify") THEN {worker.token} ELSE {}
<1>1. DOMAIN tokens = 1 .. Len(tokens) /\ \A t \in DOMAIN tokens : t # 0
  BY TokenTable DEF HostInv
<1>2. child # 0 => child \in DOMAIN tokens
  BY SpentExist DEF HostInv, LockHeld, HTypeOK
<1>3. ~At("idle") => worker.token \in DOMAIN tokens
  BY DEF HostInv, LockHeld
<1>4. CASE child # 0
  <2>1. ~At("idle") => worker.pc = "compose" /\ worker.token = child
    BY <1>4 DEF HostInv, LockHeld, At
  <2>2. QED
    BY <1>2, <1>4, <2>1 DEF Underway, At
<1>5. CASE child = 0
  <2>1. ~At("compose")
    BY <1>1, <1>3, <1>5 DEF HostInv, LockHeld, At
  <2>2. QED
    BY <1>1, <1>3, <1>5, <2>1 DEF Underway, At
<1>6. QED
  BY <1>4, <1>5

\* How each step of the host moves it.
LEMMA UnderwaySteps ==
    ASSUME HostInv, [Next]_hostvars
    PROVE  /\ Quiet => Underway' = Underway
           /\ \A t \in DOMAIN tokens : ApplyStart(t) => Underway = {} /\ Underway' = {}
           /\ ApplyRecord => Underway = {} /\ Underway' = {worker.token}
           /\ ApplyRefuse => Underway = {} /\ Underway' = {}
           /\ ApplyPrepare \/ ApplyRecreate =>
                  Underway = {worker.token} /\ Underway' = {worker.token}
           /\ ApplyAbort \/ (\E ok \in BOOLEAN : ApplyFinish(ok)) =>
                  Underway = {worker.token} /\ Underway' = {}
           /\ ComposeEnds => /\ Underway = {child}
                             /\ Underway' = IF At("compose") THEN {child} ELSE {}
           /\ \A p \in Project : Resolve(p) => Underway = {} /\ Underway' = {}
           /\ WorkerDies => Underway' = IF At("compose") THEN {child} ELSE {}
<1> USE DEF registry, operations, deployment, commands
<1>1. /\ \A t \in DOMAIN tokens : t # 0
      /\ child # 0 => child \in DOMAIN tokens
      /\ ~At("idle") => worker.token \in DOMAIN tokens
      /\ worker \in Locals
  BY TokenTable, SpentExist DEF HostInv, LockHeld, HTypeOK, Locals
<1>2. \A t \in DOMAIN tokens' : t # 0
  <2>1. tokens' \in Seq(Token)
    BY HostTypeStep DEF HostInv, HTypeOK, Token
  <2>2. DOMAIN tokens' = 1 .. Len(tokens')
    BY <2>1, LenProperties
  <2>3. QED
    BY <2>2
<1>3. At("compose") <=> child # 0 /\ ~At("idle")
  BY <1>1 DEF HostInv, LockHeld, At
<1>4. ASSUME Quiet
      PROVE  Underway' = Underway
  <2>1. child' = child /\ worker' = worker /\ DOMAIN tokens \subseteq DOMAIN tokens'
    BY <1>4 DEF Quiet, Grown
  <2>2. worker.pc \in {"prepare", "up", "compose", "verify"} => worker.token \in DOMAIN tokens
    BY <1>1 DEF At
  <2>3. QED
    BY <1>1, <1>2, <2>1, <2>2 DEF Underway
<1>5. ASSUME NEW t \in DOMAIN tokens, ApplyStart(t)
      PROVE  Underway = {} /\ Underway' = {}
  <2>1. child = 0 /\ At("idle") /\ child' = 0 /\ worker'.pc = "consumed"
    BY <1>5 DEF ApplyStart, Locked, At
  <2>2. QED
    BY <1>1, <1>2, <2>1 DEF Underway, At
<1>6. ASSUME ApplyRecord
      PROVE  Underway = {} /\ Underway' = {worker.token}
  <2>1. /\ At("consumed") /\ child = 0 /\ child' = 0 /\ tokens' = tokens
        /\ worker'.pc = "prepare" /\ worker'.token = worker.token
    BY <1>1, <1>3, <1>6 DEF ApplyRecord, At, Locals
  <2>2. QED
    BY <1>1, <2>1 DEF Underway, At
<1>7. ASSUME ApplyRefuse
      PROVE  Underway = {} /\ Underway' = {}
  <2>1. /\ At("consumed") /\ child = 0 /\ child' = 0 /\ tokens' = tokens
        /\ worker'.pc = "idle"
    BY <1>1, <1>3, <1>7 DEF ApplyRefuse, At, Free
  <2>2. QED
    BY <1>1, <2>1 DEF Underway, At
<1>8. ASSUME ApplyPrepare \/ ApplyRecreate
      PROVE  Underway = {worker.token} /\ Underway' = {worker.token}
  <2>1. /\ worker.pc \in {"prepare", "up"} /\ child = 0 /\ tokens' = tokens
        /\ worker'.token = worker.token
        /\ \/ worker'.pc = "up" /\ child' = 0
           \/ worker'.pc = "compose" /\ child' = worker.token
    BY <1>1, <1>3, <1>8 DEF ApplyPrepare, ApplyRecreate, At, Locals
  <2>2. QED
    BY <1>1, <2>1 DEF Underway, At
<1>9. ASSUME ApplyAbort \/ (\E ok \in BOOLEAN : ApplyFinish(ok))
      PROVE  Underway = {worker.token} /\ Underway' = {}
  <2>1. /\ worker.pc \in {"prepare", "verify"} /\ child = 0 /\ child' = 0 /\ tokens' = tokens
        /\ worker'.pc = "idle"
    BY <1>1, <1>3, <1>9 DEF ApplyAbort, ApplyFinish, At, Free
  <2>2. QED
    BY <1>1, <2>1 DEF Underway, At
<1>10. ASSUME ComposeEnds
       PROVE  Underway = {child} /\ Underway' = IF At("compose") THEN {child} ELSE {}
  <2>1. child # 0 /\ child' = 0 /\ tokens' = tokens
    BY <1>10 DEF ComposeEnds
  <2>2. Underway = {child}
    BY <2>1, UnderwayIs
  <2>3. CASE At("compose")
    <3>1. worker'.pc = "verify" /\ worker'.token = child
      BY <1>1, <1>10, <2>3 DEF ComposeEnds, HostInv, LockHeld, At, Locals
    <3>2. QED
      BY <1>1, <2>1, <2>2, <2>3, <3>1 DEF Underway
  <2>4. CASE ~At("compose")
    <3>1. worker'.pc = "idle"
      BY <1>3, <1>10, <2>1, <2>4 DEF ComposeEnds, At
    <3>2. QED
      BY <1>1, <2>1, <2>2, <2>4, <3>1 DEF Underway
  <2>5. QED
    BY <2>3, <2>4
<1>11. ASSUME NEW p \in Project, Resolve(p)
       PROVE  Underway = {} /\ Underway' = {}
  <2>1. child = 0 /\ At("idle") /\ child' = 0 /\ worker' = worker /\ tokens' = tokens
    BY <1>11 DEF Resolve, Locked, At
  <2>2. QED
    BY <1>1, <2>1 DEF Underway, At
<1>12. ASSUME WorkerDies
       PROVE  Underway' = IF At("compose") THEN {child} ELSE {}
  <2>1. worker'.pc = "idle" /\ child' = child /\ tokens' = tokens /\ ~At("idle")
    BY <1>12 DEF WorkerDies, Free
  <2>2. QED
    BY <1>1, <1>3, <2>1 DEF Underway
<1>13. QED
  BY <1>4, <1>5, <1>6, <1>7, <1>8, <1>9, <1>10, <1>11, <1>12
-----------------------------------------------------------------------------
(* The invariant is inductive. *)

LEMMA HostInit == Init => HostInv
<1> SUFFICES ASSUME Init
             PROVE  HostInv
  OBVIOUS
<1> USE BoundAssumption
<1>1. /\ tokens = <<>> /\ receipts = {} /\ touched = {} /\ stale = {} /\ child = 0 /\ worker = Free
      /\ revision = 0 /\ record = [p \in Project |-> NoRecord]
      /\ projects \in [Project -> [active: BOOLEAN, policy: Policies, rev: {0}]]
      /\ deployed = [p \in Project |-> 0] /\ healthy = [p \in Project |-> TRUE]
  BY DEF Init
<1>2. Len(tokens) = 0 /\ DOMAIN tokens = {} /\ tokens \in Seq(Token)
  BY <1>1, EmptySeq
<1>3. NoRecord \in [status: {"idle", "unknown", "succeeded", "failed"},
                    ref: 0..MaxTokens, byHand: BOOLEAN] /\ NoRecord.status # "unknown"
  BY DEF NoRecord
<1>4. Free \in Locals /\ Free.pc = "idle"
  BY DEF Free, Locals
<1>5. projects \in [Project -> Definition] /\ \A p \in Project : projects[p].rev = 0
  BY <1>1 DEF Definition
<1>6. HTypeOK
  BY <1>1, <1>2, <1>3, <1>4, <1>5 DEF HTypeOK, Token, Definition, Locals, At
<1>7. HostBounded
  BY <1>1, <1>2, <1>5 DEF HostBounded
<1>8. QED
  BY <1>1, <1>2, <1>3, <1>4, <1>6, <1>7
  DEF HostInv, LockHeld, Progress, SettledIsClear, OnRecordWhileWorking, Underway, At

LEMMA HostStep == HostInv /\ [Next]_hostvars => HostInv'
<1> SUFFICES ASSUME HostInv, [Next]_hostvars
             PROVE  HostInv'
  OBVIOUS
<1> USE DEF registry, operations, deployment, commands
<1>1. HTypeOK' /\ HostBounded'
  BY HostTypeStep DEF HostInv
<1>2. /\ \A t \in DOMAIN tokens : tokens[t].project \in Project /\ t # 0
      /\ \A t \in DOMAIN tokens : tokens[t].consumed \in BOOLEAN
      /\ worker \in Locals
      /\ ~At("idle") => /\ worker.token \in DOMAIN tokens /\ Mine \in Project
                        /\ tokens[worker.token].consumed
      /\ touched \subseteq receipts /\ receipts \subseteq DOMAIN tokens
  BY TokenTable, SpentExist DEF HostInv, HTypeOK, LockHeld, Mine, Token, Locals
<1>3. record \in [Project -> [status: {"idle", "unknown", "succeeded", "failed"},
                             ref: 0..MaxTokens, byHand: BOOLEAN]]
  BY DEF HostInv, HTypeOK
<1>4. At("compose") <=> child # 0 /\ ~At("idle")
  BY <1>2 DEF HostInv, LockHeld, At
<1>5. SUFFICES LockHeld' /\ Progress' /\ SettledIsClear' /\ OnRecordWhileWorking'
  BY <1>1 DEF HostInv
<1>6. ASSUME tokens' = tokens, receipts' = receipts, record' = record, worker'.pc = "idle"
      PROVE  Progress' /\ SettledIsClear'
  BY <1>6 DEF HostInv, Progress, SettledIsClear, At
<1>7. CASE Quiet
  <2>1. /\ record' = record /\ receipts' = receipts /\ touched' = touched
        /\ child' = child /\ worker' = worker
    BY <1>7 DEF Quiet
  <2>2. Grown /\ Underway' = Underway
    BY <1>7, UnderwaySteps DEF Quiet
  <2>3. LockHeld'
    BY <2>1, <2>2 DEF HostInv, LockHeld, Grown, At
  <2>4. Progress'
    BY <1>2, <2>1, <2>2 DEF HostInv, Progress, Grown, At
  <2>5. OnRecordWhileWorking'
    BY <2>1, <2>2 DEF HostInv, OnRecordWhileWorking, Grown, Underway
  <2>6. QED
    BY <2>1, <2>3, <2>4, <2>5 DEF HostInv, SettledIsClear
<1>8. ASSUME NEW t \in DOMAIN tokens, ApplyStart(t)
      PROVE  LockHeld' /\ Progress' /\ SettledIsClear' /\ OnRecordWhileWorking'
  <2>1. /\ At("idle") /\ child = 0 /\ ClearToChange(tokens[t].project) /\ ~tokens[t].consumed
        /\ record' = record /\ receipts' = receipts /\ child' = child /\ touched' = touched
        /\ tokens' = Consumed(t)
        /\ worker'.pc = "consumed" /\ worker'.token = t
    BY <1>8 DEF ApplyStart, Spend, Locked, At
  <2>2. Grown /\ DOMAIN tokens' = DOMAIN tokens /\ tokens'[t].consumed
    BY <2>1, ConsumedGrows DEF HostInv
  <2>3. t \notin receipts
    BY <2>1 DEF HostInv, Progress
  <2>4. LockHeld'
    BY <2>1, <2>2 DEF LockHeld, At
  <2>5. Progress'
    BY <1>2, <2>1, <2>2, <2>3 DEF HostInv, Progress, Grown, ClearToChange, At
  <2>6. OnRecordWhileWorking'
    BY <1>8, UnderwaySteps DEF OnRecordWhileWorking
  <2>7. QED
    BY <2>1, <2>4, <2>5, <2>6 DEF HostInv, SettledIsClear
<1>9. CASE ApplyRecord
  <2>1. /\ At("consumed") /\ child = 0
        /\ record' = Recorded /\ receipts' = receipts \cup {worker.token}
        /\ tokens' = tokens /\ child' = child /\ touched' = touched
        /\ worker'.pc = "prepare" /\ worker'.token = worker.token
    BY <1>2, <1>4, <1>9 DEF ApplyRecord, Receipted, At, Locals
  <2>2. /\ worker.token \notin receipts /\ worker.token \in DOMAIN tokens /\ Mine \in Project
        /\ tokens[worker.token].consumed
    BY <1>2, <2>1 DEF HostInv, Progress, At
  <2>3. LockHeld'
    BY <2>1, <2>2 DEF LockHeld, At
  <2>4. Progress'
    BY <1>2, <2>1, <2>2 DEF HostInv, Progress, At
  <2>5. /\ record'[Mine] = [status |-> "unknown", ref |-> worker.token, byHand |-> FALSE]
        /\ \A p \in Project : p # Mine => record'[p] = record[p]
    BY <1>3, <2>1, <2>2 DEF Recorded
  <2>6. OnRecordWhileWorking'
    BY <1>9, <2>1, <2>5, UnderwaySteps DEF OnRecordWhileWorking, Mine
  <2>7. QED
    BY <2>3, <2>4, <2>5, <2>6 DEF HostInv, SettledIsClear
<1>10. CASE ApplyRefuse
  <2>1. /\ worker'.pc = "idle" /\ child = 0 /\ child' = child /\ touched' = touched
        /\ tokens' = tokens /\ receipts' = receipts /\ record' = record
    BY <1>4, <1>10 DEF ApplyRefuse, Free, At
  <2>2. OnRecordWhileWorking'
    BY <1>10, UnderwaySteps DEF OnRecordWhileWorking
  <2>3. QED
    BY <1>6, <2>1, <2>2 DEF LockHeld, At
<1>11. CASE ApplyPrepare \/ ApplyRecreate
  <2>1. /\ record' = record /\ receipts' = receipts /\ tokens' = tokens
        /\ worker'.token = worker.token /\ child = 0
    BY <1>2, <1>4, <1>11 DEF ApplyPrepare, ApplyRecreate, At, Locals
  <2>2. worker.token \in receipts \ touched
    BY <1>11 DEF ApplyPrepare, ApplyRecreate, HostInv, Progress
  <2>3. \/ worker'.pc = "up" /\ child' = 0 /\ touched' = touched
        \/ /\ worker'.pc = "compose" /\ child' = worker.token
           /\ touched' = touched \cup {worker.token}
    BY <1>2, <2>1, <1>11 DEF ApplyPrepare, ApplyRecreate, Locals
  <2>4. worker.token \in DOMAIN tokens /\ tokens[worker.token].consumed
    BY <1>2, <2>2 DEF HostInv, Progress
  <2>5. LockHeld'
    BY <2>1, <2>3, <2>4 DEF LockHeld, At
  <2>6. Progress'
    BY <2>1, <2>2, <2>3 DEF HostInv, Progress, At
  <2>7. OnRecordWhileWorking'
    BY <1>11, <2>1, UnderwaySteps DEF HostInv, OnRecordWhileWorking
  <2>8. QED
    BY <2>1, <2>5, <2>6, <2>7 DEF HostInv, SettledIsClear
<1>12. CASE ApplyAbort \/ (\E ok \in BOOLEAN : ApplyFinish(ok))
  <2>1. PICK status \in {"succeeded", "failed", "unknown"} :
            record' = [record EXCEPT ![Mine].status = status]
    BY <1>12 DEF ApplyAbort, ApplyFinish, Result
  <2>2. /\ worker'.pc = "idle" /\ child = 0 /\ child' = child /\ touched' = touched
        /\ tokens' = tokens /\ receipts' = receipts /\ ~At("idle")
    BY <1>4, <1>12 DEF ApplyAbort, ApplyFinish, Free, At
  <2>3. OnRecordWhileWorking'
    BY <1>12, UnderwaySteps DEF OnRecordWhileWorking
  <2>4. LockHeld' /\ Progress'
    BY <2>2 DEF HostInv, LockHeld, Progress, At
  <2>5. Mine \in Project /\ ~record[Mine].byHand
    <3>1. Underway = {worker.token}
      BY <1>12, UnderwaySteps
    <3>2. record[Mine] = [status |-> "unknown", ref |-> worker.token, byHand |-> FALSE]
      BY <3>1 DEF HostInv, OnRecordWhileWorking, Mine
    <3>3. QED
      BY <1>2, <2>2, <3>2
  <2>6. \A p \in Project : /\ record'[p].byHand = record[p].byHand
                           /\ p # Mine => record'[p] = record[p]
    BY <1>3, <2>1, <2>5
  <2>7. SettledIsClear'
    BY <2>5, <2>6 DEF HostInv, SettledIsClear
  <2>8. QED
    BY <2>3, <2>4, <2>7
<1>13. CASE ComposeEnds
  <2>1. /\ child # 0 /\ child' = 0 /\ tokens' = tokens /\ receipts' = receipts
        /\ record' = record /\ touched' = touched
    BY <1>13 DEF ComposeEnds
  <2>2. OnRecordWhileWorking'
    BY <1>13, <2>1, UnderwaySteps DEF HostInv, OnRecordWhileWorking
  <2>3. CASE At("compose")
    <3>1. worker'.pc = "verify" /\ worker'.token = worker.token
      BY <1>2, <1>13, <2>3 DEF ComposeEnds, Locals
    <3>2. QED
      BY <1>2, <2>1, <2>2, <2>3, <3>1 DEF HostInv, LockHeld, Progress, SettledIsClear, At
  <2>4. CASE ~At("compose")
    <3>1. worker'.pc = "idle"
      BY <1>4, <1>13, <2>1, <2>4 DEF ComposeEnds, At
    <3>2. QED
      BY <1>6, <2>1, <2>2, <3>1 DEF LockHeld, At
  <2>5. QED
    BY <2>3, <2>4
<1>14. ASSUME NEW p \in Project, Resolve(p)
       PROVE  LockHeld' /\ Progress' /\ SettledIsClear' /\ OnRecordWhileWorking'
  <2>1. /\ At("idle") /\ child = 0 /\ child' = child /\ touched' = touched /\ worker' = worker
        /\ tokens' = tokens /\ receipts' = receipts
        /\ record' = [record EXCEPT ![p].status = "failed", ![p].byHand = TRUE]
    BY <1>14 DEF Resolve, Locked, At
  <2>2. OnRecordWhileWorking'
    BY <1>14, UnderwaySteps DEF OnRecordWhileWorking
  <2>3. LockHeld' /\ Progress'
    BY <2>1 DEF HostInv, LockHeld, Progress, At
  <2>4. SettledIsClear'
    BY <1>3, <2>1 DEF HostInv, SettledIsClear
  <2>5. QED
    BY <2>2, <2>3, <2>4
<1>15. CASE WorkerDies
  <2>1. /\ worker'.pc = "idle" /\ child' = child /\ touched' = touched
        /\ tokens' = tokens /\ receipts' = receipts /\ record' = record
    BY <1>15 DEF WorkerDies, Free
  <2>2. Underway' \subseteq Underway
    <3>1. At("compose") => child \in Underway
      BY <1>4, UnderwayIs
    <3>2. Underway' = IF At("compose") THEN {child} ELSE {}
      BY <1>15, UnderwaySteps
    <3>3. QED
      BY <3>1, <3>2
  <2>3. OnRecordWhileWorking'
    BY <2>1, <2>2 DEF HostInv, OnRecordWhileWorking
  <2>4. LockHeld'
    BY <2>1 DEF HostInv, LockHeld, At
  <2>5. QED
    BY <1>6, <2>1, <2>3, <2>4
<1>16. QED
  BY <1>7, <1>8, <1>9, <1>10, <1>11, <1>12, <1>13, <1>14, <1>15, HostFootprint DEF HostInv
-----------------------------------------------------------------------------
(* The theorems that are part of the invariant. *)

\* Type correctness of the maintenance host: an update at work is that of a
\* plan that is consumed already, and so is every operation ever put on record
\* (project_registry.py _handle, plan['consumed']).
THEOREM HostTypes == Spec => []HTypeOK
<1>1. HostInv => HTypeOK
  BY DEF HostInv
<1>2. QED
  BY <1>1, HostInit, HostStep, PTL DEF Spec

\* An update in progress stays on record as unknown under its own reference,
\* however long its worker's commands outlive it.
THEOREM UpdatesOnRecord == Spec => []OnRecordWhileWorking
<1>1. HostInv => OnRecordWhileWorking
  BY DEF HostInv
<1>2. QED
  BY <1>1, HostInit, HostStep, PTL DEF Spec

-----------------------------------------------------------------------------
(* The freeze after an update whose result could not be told. *)

\* With something unknown and no update in progress nobody moves but the
\* administrator.
LEMMA FreezeStep ==
    ASSUME HostInv, [Next]_hostvars, NEW p \in Project, record[p].status = "unknown", Working = {}
    PROVE  /\ UNCHANGED <<registry, touched, receipts>>
           /\ \A t \in DOMAIN tokens' \ DOMAIN tokens : tokens'[t].kind = "preview"
           /\ record' # record => \E q \in Project : record'[q].byHand /\ ~record[q].byHand
<1> DEFINE Frozen == /\ UNCHANGED <<registry, touched, receipts>>
                     /\ \A t \in DOMAIN tokens' \ DOMAIN tokens : tokens'[t].kind = "preview"
                     /\ record' # record => \E q \in Project : record'[q].byHand /\ ~record[q].byHand
<1> SUFFICES Frozen
  OBVIOUS
<1> USE DEF registry, operations, deployment, commands
<1>1. \A q : ~ClearToChange(q)
  BY DEF ClearToChange
<1>2. Underway = {}
  BY DEF Working
<1>3. child = 0 /\ ~At("consumed") /\ ~At("prepare") /\ ~At("up") /\ ~At("verify")
  BY <1>2, UnderwayIs DEF HostInv, Progress
<1>4. ASSUME NEW q \in Project, Resolve(q)
      PROVE  Frozen
  <2>1. /\ record' = [record EXCEPT ![q].status = "failed", ![q].byHand = TRUE]
        /\ record[q].status = "unknown"
        /\ UNCHANGED <<registry, touched, receipts, tokens>>
    BY <1>4 DEF Resolve
  <2>2. ~record[q].byHand /\ record'[q].byHand
    BY <2>1 DEF HostInv, SettledIsClear, HTypeOK
  <2>3. QED
    BY <2>1, <2>2
<1>5. ASSUME NEW q \in Project, Preview(q) \/ Plan(q)
      PROVE  Frozen
  <2>1. Issue("preview", q)
    BY <1>1, <1>5 DEF Preview, Plan
  <2>2. QED
    BY <2>1, IssueGrows DEF Issue, HostInv
<1>6. ASSUME NEW q \in Project, Drift(q) \/ Health(q) \/ Review(q)
      PROVE  Frozen
  BY <1>6 DEF Drift, Health, Review
<1>7. ASSUME NEW ok \in BOOLEAN,
             \/ ApplyRecord \/ ApplyRefuse \/ ApplyPrepare \/ ApplyAbort
             \/ ApplyRecreate \/ ComposeEnds \/ ApplyFinish(ok)
      PROVE  FALSE
  BY <1>3, <1>7
  DEF ApplyRecord, ApplyRefuse, ApplyPrepare, ApplyAbort, ApplyRecreate, ComposeEnds, ApplyFinish
<1>8. CASE WorkerDies \/ UNCHANGED hostvars
  BY <1>8 DEF WorkerDies, hostvars
<1>9. ASSUME NEW q \in Project, NEW active \in BOOLEAN, NEW policy \in Policies,
              Reconfigure(q, active, policy)
       PROVE  FALSE
  BY <1>1, <1>9 DEF Reconfigure
<1>10. ASSUME NEW t \in DOMAIN tokens, ApplyStart(t) \/ \E policy \in Policies : Enroll(t, policy)
       PROVE  FALSE
  BY <1>1, <1>10 DEF ApplyStart, Enroll
<1>11. QED
  BY <1>4, <1>5, <1>6, <1>7, <1>8, <1>9, <1>10 DEF Next, ApplyStep

\* An operation left unknown by a dead worker freezes the whole host until an
\* administrator settles it.
THEOREM UnknownFreezesHost == Spec => UnclearFreezes
<1> DEFINE Frozen ==
      \A p \in Project :
          record[p].status = "unknown" /\ Working = {} =>
              /\ UNCHANGED <<registry, touched, receipts>>
              /\ \A t \in DOMAIN tokens' \ DOMAIN tokens : tokens'[t].kind = "preview"
              /\ record' # record => \E q \in Project : record'[q].byHand /\ ~record[q].byHand
<1>1. HostInv /\ [Next]_hostvars => [Frozen]_hostvars
  BY FreezeStep
<1> HIDE DEF Frozen
<1>2. Spec => [][Frozen]_hostvars
  BY <1>1, HostInit, HostStep, PTL DEF Spec
<1>3. QED
  BY <1>2 DEF Frozen, UnclearFreezes

-----------------------------------------------------------------------------
(* Plans the deployment has moved away from. *)

\* A token never runs ahead of its deployment, and lags behind it once stale.
Dated ==
    /\ \A t \in DOMAIN tokens : tokens[t].material <= deployed[tokens[t].project]
    /\ \A t \in stale : tokens[t].material < deployed[tokens[t].project]

StaleInv == /\ Dated
            /\ At("up") => worker.token \notin stale
            /\ StaleUntouched

LEMMA MovesDates ==
    ASSUME HostInv, StaleInv, NEW p \in Project, Moves(p), tokens' = tokens, touched' = touched,
           worker'.token = worker.token, At("up")' => At("up")
    PROVE  StaleInv'
<1>1. /\ \A t \in DOMAIN tokens : /\ tokens[t].project \in Project
                                  /\ tokens[t].material \in 0..MaxDrift
      /\ \A q \in Project : /\ deployed[q] \in Nat
                            /\ deployed'[q] = IF q = p THEN deployed[q] + 1 ELSE deployed[q]
      /\ stale \subseteq DOMAIN tokens
  <2>1. \A t \in DOMAIN tokens : tokens[t].project \in Project /\ tokens[t].material \in 0..MaxDrift
    BY TokenTable DEF HostInv, Token
  <2>2. /\ deployed' = [deployed EXCEPT ![p] = @ + 1] /\ deployed \in [Project -> 0..MaxDrift]
        /\ stale \subseteq DOMAIN tokens
    BY DEF Moves, HostInv, HTypeOK
  <2>3. QED
    BY <2>1, <2>2, BoundAssumption
<1>2. \A t \in Outdated(p) : /\ t \in DOMAIN tokens /\ tokens[t].project = p
                             /\ t \notin touched /\ ~(At("up") /\ t = worker.token)
  BY DEF Outdated
<1>3. stale' = stale \cup Outdated(p)
  BY DEF Moves
<1>4. Dated'
  BY <1>1, <1>2, <1>3, BoundAssumption DEF StaleInv, Dated
<1>5. StaleUntouched' /\ (At("up")' => worker'.token \notin stale')
  BY <1>2, <1>3 DEF StaleInv, StaleUntouched
<1>6. QED
  BY <1>4, <1>5 DEF StaleInv

\* Every other step leaves the deployment alone.
LEMMA KeepsDates ==
    ASSUME HostInv, StaleInv, Grown, UNCHANGED <<deployed, stale>>,
           \A t \in DOMAIN tokens' \ DOMAIN tokens : /\ tokens'[t].project \in Project
                                                    /\ tokens'[t].material = deployed[tokens'[t].project],
           At("up")' => worker'.token \notin stale,
           touched' \subseteq touched \/ (touched' = touched \cup {worker.token} /\ At("up"))
    PROVE  StaleInv'
<1>1. stale \subseteq DOMAIN tokens /\ \A q \in Project : deployed[q] \in Nat
  BY BoundAssumption DEF HostInv, HTypeOK
<1>2. Dated'
  BY <1>1 DEF StaleInv, Dated, Grown
<1>3. StaleUntouched'
  BY DEF StaleInv, StaleUntouched
<1>4. QED
  BY <1>2, <1>3 DEF StaleInv

LEMMA StaleStep == HostInv /\ StaleInv /\ [Next]_hostvars => StaleInv'
<1> SUFFICES ASSUME HostInv, StaleInv, [Next]_hostvars
             PROVE  StaleInv'
  OBVIOUS
<1> USE DEF registry, operations, deployment, commands
<1>1. ASSUME tokens' = tokens
      PROVE  Grown /\ DOMAIN tokens' \ DOMAIN tokens = {}
  BY <1>1 DEF Grown
<1>2. At("up") => worker.token \notin stale
  BY DEF StaleInv
<1>3. HTypeOK /\ worker \in Locals
  BY DEF HostInv, HTypeOK, Locals
<1>4. ASSUME NEW p \in Project, Drift(p)
      PROVE  StaleInv'
  BY <1>4, MovesDates DEF Drift, At
<1>5. CASE ComposeEnds
  <2>1. child \in DOMAIN tokens
    BY <1>3, <1>5, SpentExist DEF ComposeEnds, HTypeOK, HostInv, LockHeld
  <2>2. tokens[child].project \in Project
    BY <1>3, <2>1, TokenTable DEF Token
  <2>3. worker'.token = worker.token /\ (At("up")' => At("up"))
    BY <1>3, <1>5 DEF ComposeEnds, At, Locals
  <2>4. QED
    BY <1>5, <2>2, <2>3, MovesDates DEF ComposeEnds
<1>6. ASSUME NEW p \in Project, Preview(p) \/ Plan(p)
      PROVE  StaleInv'
  <2>1. PICK kind \in {"preview", "plan"} : Issue(kind, p)
    BY <1>6 DEF Preview, Plan
  <2>2. /\ Grown
        /\ \A t \in DOMAIN tokens' \ DOMAIN tokens : /\ tokens'[t].project = p
                                                     /\ tokens'[t].material = deployed[p]
    BY <1>3, <2>1, IssueGrows
  <2>3. QED
    BY <1>2, <2>1, <2>2, KeepsDates DEF Issue, At
<1>7. ASSUME NEW p \in Project,
             \/ Health(p) \/ Review(p) \/ Resolve(p)
             \/ \E active \in BOOLEAN, policy \in Policies : Reconfigure(p, active, policy)
      PROVE  StaleInv'
  BY <1>1, <1>2, <1>7, KeepsDates DEF Health, Review, Resolve, Reconfigure, At
<1>8. ASSUME NEW t \in DOMAIN tokens,
             ApplyStart(t) \/ \E policy \in Policies : Enroll(t, policy)
      PROVE  StaleInv'
  <2>1. Grown /\ DOMAIN tokens' \ DOMAIN tokens = {}
    BY <1>3, <1>8, ConsumedGrows DEF ApplyStart, Enroll, Spend
  <2>2. CASE ApplyStart(t)
    <3>1. UNCHANGED <<deployed, stale, touched>> /\ ~At("up")'
      BY <2>2 DEF ApplyStart, At
    <3>2. QED
      BY <2>1, <3>1, KeepsDates
  <2>3. ASSUME NEW policy \in Policies, Enroll(t, policy)
        PROVE  StaleInv'
    <3>1. UNCHANGED <<deployed, stale, touched, worker>>
      BY <2>3 DEF Enroll
    <3>2. QED
      BY <1>2, <2>1, <3>1, KeepsDates DEF At
  <2>4. QED
    BY <1>8, <2>2, <2>3
<1>9. CASE ApplyPrepare
  <2>1. /\ Unmoved /\ worker'.token = worker.token
        /\ worker.token \in DOMAIN tokens /\ Mine \in Project
    BY <1>3, <1>9, TokenTable DEF ApplyPrepare, At, Locals, HostInv, LockHeld, Mine, Token
  <2>2. worker.token \notin stale
    <3>1. deployed[Mine] \in 0..MaxDrift
      BY <1>3, <2>1 DEF HTypeOK
    <3>2. ~(deployed[Mine] < deployed[Mine])
      BY <3>1, BoundAssumption
    <3>3. QED
      BY <2>1, <3>2 DEF StaleInv, Dated, Unmoved, Mine
  <2>3. QED
    BY <1>1, <1>9, <2>1, <2>2, KeepsDates DEF ApplyPrepare
<1>10. CASE ApplyRecreate
  BY <1>1, <1>3, <1>10, KeepsDates DEF ApplyRecreate, At, Locals
<1>11. ASSUME NEW ok \in BOOLEAN,
             ApplyRecord \/ ApplyRefuse \/ ApplyAbort \/ ApplyFinish(ok) \/ WorkerDies
       PROVE  StaleInv'
  <2>1. ~At("up")' /\ UNCHANGED <<tokens, deployed, stale, touched>>
    BY <1>3, <1>11
    DEF ApplyRecord, ApplyRefuse, ApplyAbort, ApplyFinish, WorkerDies, Free, At, Locals
  <2>2. QED
    BY <1>1, <2>1, KeepsDates
<1>12. CASE UNCHANGED hostvars
  BY <1>1, <1>2, <1>12, KeepsDates DEF hostvars, At
<1>13. QED
  BY <1>4, <1>5, <1>6, <1>7, <1>8, <1>9, <1>10, <1>11, <1>12 DEF Next, ApplyStep

\* No business is recreated from a plan its deployment moved away from before
\* the execution was frozen (project_registry.py generic_apply, plan_stale).
THEOREM StalePlansUntouched == Spec => []StaleUntouched
<1>1. Init => StaleInv
  <2>1. ASSUME Init
        PROVE  tokens = <<>> /\ DOMAIN tokens = {} /\ stale = {} /\ touched = {}
    BY <2>1, EmptySeq DEF Init
  <2>2. QED
    BY <2>1 DEF StaleInv, Dated, StaleUntouched
<1>2. StaleInv => StaleUntouched
  BY DEF StaleInv
<1>3. QED
  BY <1>1, <1>2, HostInit, HostStep, StaleStep, PTL DEF Spec

-----------------------------------------------------------------------------
(* The host implements HostLedger. *)

LEMMA HostLedgerStep == HostInv /\ [Next]_hostvars => [Ledger!HNext]_(Ledger!hvars)
<1> SUFFICES ASSUME HostInv, [Next]_hostvars
             PROVE  Ledger!HNext \/ UNCHANGED Ledger!hvars
  OBVIOUS
<1> USE DEF registry, operations, deployment, commands, Ledger!hvars
<1>1. /\ \A t \in DOMAIN tokens : tokens[t].project \in Project /\ t \in 1..MaxTokens
      /\ ~At("idle") => worker.token \in DOMAIN tokens /\ Mine \in Project
  <2>1. \A t \in DOMAIN tokens : t \in 1..MaxTokens
    BY TokenTable, BoundAssumption DEF HostInv, HostBounded
  <2>2. QED
    BY <2>1, TokenTable DEF HostInv, LockHeld, Mine, Token
<1>2. record \in [Project -> [status: {"idle", "unknown", "succeeded", "failed"},
                             ref: 0..MaxTokens, byHand: BOOLEAN]]
  BY DEF HostInv, HTypeOK
<1>3. ASSUME Underway = {worker.token}, ~At("idle")
      PROVE  Working = {Mine} /\ Mine \in Project /\ record[Mine].ref = worker.token
  BY <1>1, <1>3 DEF Working, Mine, HostInv, OnRecordWhileWorking
<1>4. ASSUME Underway' = Underway, \A t \in Underway : tokens'[t].project = tokens[t].project
      PROVE  Working' = Working
  BY <1>4 DEF Working
<1>5. ASSUME Underway' = {}
      PROVE  Working' = {}
  BY <1>5 DEF Working
<1>6. CASE Quiet
  <2>1. Working' = Working
    BY <1>4, <1>6, UnderwaySteps DEF Quiet, Grown, Underway
  <2>2. QED
    BY <1>6, <2>1 DEF Quiet
<1>7. ASSUME NEW t \in DOMAIN tokens, ApplyStart(t)
      PROVE  UNCHANGED Ledger!hvars
  BY <1>4, <1>7, UnderwaySteps DEF ApplyStart
<1>8. CASE ApplyRecord
  <2>1. At("consumed") /\ worker.token \notin receipts /\ worker.token \in 1..MaxTokens /\ Mine \in Project
    BY <1>1, <1>8 DEF ApplyRecord, HostInv, Progress, At
  <2>2. Working = {} /\ Working' = {Mine}
    BY <1>8, UnderwaySteps DEF Working, Mine, ApplyRecord
  <2>3. Ledger!Unclear = {}
    BY <2>1 DEF HostInv, Progress, Ledger!Unclear
  <2>4. Ledger!Begin(Mine, worker.token)
    BY <1>8, <2>1, <2>2, <2>3 DEF ApplyRecord, Recorded, Receipted, Ledger!Begin
  <2>5. QED
    BY <2>1, <2>4 DEF Ledger!HNext
<1>9. CASE ApplyRefuse
  BY <1>4, <1>9, UnderwaySteps DEF ApplyRefuse
<1>10. CASE ApplyPrepare
  BY <1>4, <1>10, UnderwaySteps DEF ApplyPrepare
<1>11. CASE ApplyAbort
  <2>1. /\ Working = {Mine} /\ Mine \in Project /\ record[Mine].ref = worker.token
        /\ Working' = {} /\ worker.token \notin touched
    BY <1>3, <1>5, <1>11, UnderwaySteps DEF ApplyAbort, HostInv, Progress, At
  <2>2. Ledger!End(Mine, "failed")
    BY <1>11, <2>1 DEF ApplyAbort, Ledger!End, Ledger!Truthful
  <2>3. QED
    BY <2>1, <2>2 DEF Ledger!HNext
<1>12. CASE ApplyRecreate
  <2>1. /\ Working = {Mine} /\ Mine \in Project /\ record[Mine].ref = worker.token
        /\ Working' = Working
    BY <1>3, <1>4, <1>12, UnderwaySteps DEF ApplyRecreate, At
  <2>2. Ledger!Touch(Mine)
    BY <1>12, <2>1 DEF ApplyRecreate, Ledger!Touch
  <2>3. QED
    BY <2>1, <2>2 DEF Ledger!HNext
<1>13. ASSUME NEW ok \in BOOLEAN, ApplyFinish(ok)
       PROVE  Ledger!HNext
  <2>1. /\ Working = {Mine} /\ Mine \in Project /\ record[Mine].ref = worker.token
        /\ Working' = {} /\ worker.token \in touched
    BY <1>3, <1>5, <1>13, UnderwaySteps DEF ApplyFinish, HostInv, Progress, At
  <2>2. Ledger!End(Mine, Result(ok))
    BY <1>13, <2>1 DEF ApplyFinish, Result, Ledger!End, Ledger!Truthful
  <2>3. QED
    BY <2>1, <2>2 DEF Ledger!HNext, Result
<1>14. CASE ComposeEnds
  <2>1. UNCHANGED <<record, receipts, touched>> /\ tokens' = tokens
    BY <1>14 DEF ComposeEnds
  <2>2. CASE At("compose")
    BY <1>4, <1>14, <2>1, <2>2, UnderwaySteps
  <2>3. CASE ~At("compose")
    <3>1. Working # {} /\ Working' = {}
      BY <1>5, <1>14, <2>3, UnderwaySteps DEF Working
    <3>2. QED
      BY <2>1, <3>1 DEF Ledger!HNext, Ledger!Die
  <2>4. QED
    BY <2>2, <2>3
<1>15. ASSUME NEW p \in Project, Resolve(p)
       PROVE  Ledger!HNext
  <2>1. Working = {} /\ Working' = {}
    BY <1>15, UnderwaySteps DEF Working
  <2>2. p \in Ledger!Unclear
    BY <1>15 DEF Resolve, Ledger!Unclear
  <2>3. record' = [record EXCEPT ![p] = [status |-> "failed", ref |-> record[p].ref, byHand |-> TRUE]]
    <3>1. record' = [record EXCEPT ![p].status = "failed", ![p].byHand = TRUE]
      BY <1>15 DEF Resolve
    <3>2. record' \in [Project -> [status: {"idle", "unknown", "succeeded", "failed"},
                                 ref: 0..MaxTokens, byHand: BOOLEAN]]
      BY HostTypeStep DEF HostInv, HTypeOK
    <3>3. /\ record'[p].status = "failed" /\ record'[p].ref = record[p].ref
          /\ record'[p].byHand = TRUE
          /\ \A q \in Project : q # p => record'[q] = record[q]
      BY <1>2, <3>1
    <3>4. record'[p] = [status |-> "failed", ref |-> record[p].ref, byHand |-> TRUE]
      BY <3>2, <3>3
    <3>5. QED
      BY <1>2, <3>2, <3>3, <3>4
  <2>4. Ledger!Settle(p)
    BY <1>15, <2>1, <2>2, <2>3 DEF Resolve, Ledger!Settle
  <2>5. QED
    BY <2>4 DEF Ledger!HNext
<1>16. CASE WorkerDies
  <2>1. UNCHANGED <<record, receipts, touched>> /\ tokens' = tokens
    BY <1>16 DEF WorkerDies
  <2>2. CASE At("compose")
    <3>1. child # 0
      BY <1>1, <2>2, TokenTable DEF HostInv, LockHeld, At
    <3>2. Underway' = Underway
      BY <1>16, <2>2, <3>1, UnderwayIs, UnderwaySteps
    <3>3. QED
      BY <1>4, <2>1, <3>2
  <2>3. CASE ~At("compose")
    <3>1. Working' = {}
      BY <1>5, <1>16, <2>3, UnderwaySteps
    <3>2. QED
      BY <2>1, <3>1 DEF Ledger!HNext, Ledger!Die
  <2>4. QED
    BY <2>2, <2>3
<1>17. QED
  BY <1>6, <1>7, <1>8, <1>9, <1>10, <1>11, <1>12, <1>13, <1>14, <1>15, <1>16, HostFootprint
  DEF HostInv

\* What surrounds an update - plans, the lock, registry changes, dead workers
\* and the commands they leave behind - never shows in what is promised of it.
THEOREM HostImplementsLedger == Spec => HostLedgerSpec
<1>1. Init => Ledger!HInit
  <2>1. SUFFICES ASSUME Init
                 PROVE  Ledger!HInit
    OBVIOUS
  <2>2. tokens = <<>> /\ DOMAIN tokens = {}
    BY <2>1, EmptySeq DEF Init
  <2>3. Working = {}
    BY <2>2 DEF Working, Underway
  <2>4. QED
    BY <2>1, <2>3 DEF Init, NoRecord, Ledger!HInit, Ledger!NoRecord
<1>2. QED
  BY <1>1, HostInit, HostStep, HostLedgerStep, PTL DEF Spec, HostLedgerSpec, Ledger!HSpec

=============================================================================
