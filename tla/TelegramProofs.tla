--------------------------- MODULE TelegramProofs ---------------------------
(***************************************************************************)
(* What a chat may do to the system, proved for every set of users and     *)
(* bots and any number of updates, keyboards, changes and restarts.        *)
(***************************************************************************)
EXTENDS TelegramProperties, WellFoundedInduction, NaturalsInduction, TLAPS

Fields == {"at", "batch", "by", "now", "rev", "to"}

\* A tick is a record; the fields are not typed here.
Shape == job = [f \in Fields |-> job[f]]

\* A code is that of the present settings, or there is none.
CodeInv == code # 0 => code = revision

\* Buttons that wait belong to keyboards of which no button was ever acted on,
\* and a press that was acknowledged is the only one left of its keyboard.
ButtonInv ==
    /\ made \in Nat
    /\ \A e \in pending : e.button[1] \in Nat /\ e.button[1] <= made
    /\ \A b \in claimed : b[1] \in Nat /\ b[1] <= made
    /\ \A e \in pending, b \in claimed : e.button[1] # b[1]
    /\ job.at = "press" => \A e \in pending : e.button[1] = Current.button[1]
                                              => e.button = Current.button

\* One record constructor or update, as the functions they are.
LEMMA JobShapes ==
    ASSUME Shape
    PROVE  /\ Idle = [f \in Fields |-> Idle[f]]
           /\ Idle.at = "idle" /\ Idle.to = 0
           /\ \A x : LET new == [job EXCEPT !.at = x]
                     IN  /\ new = [f \in Fields |-> new[f]] /\ new.at = x
                         /\ new.by = job.by /\ new.rev = job.rev /\ new.to = job.to
                         /\ new.now = job.now
<1>1. Idle = [f \in Fields |-> Idle[f]] /\ Idle.at = "idle" /\ Idle.to = 0
  BY DEF Idle, Fields
<1>2. ASSUME NEW x
      PROVE  LET new == [job EXCEPT !.at = x]
             IN  /\ new = [f \in Fields |-> new[f]] /\ new.at = x
                 /\ new.by = job.by /\ new.rev = job.rev /\ new.to = job.to
                 /\ new.now = job.now
  BY DEF Shape, Fields
<1>3. QED
  BY <1>1, <1>2

\* Where a tick may go, and on whose behalf.
LEMMA AdminStep == Shape /\ ActsForAdmin /\ [TNext]_vars => Shape' /\ ActsForAdmin'
<1> SUFFICES ASSUME Shape, ActsForAdmin, [TNext]_vars
             PROVE  Shape' /\ ActsForAdmin'
  OBVIOUS
<1> USE DEF config, Quiet, Continues
<1>1. CASE Web
  <2>1. job' = job /\ job.at = "idle"
    BY <1>1 DEF Web, Replaces, Deletes, BeginsBinding, Unbinds, Changes, Unlocked
  <2>2. QED
    BY <2>1 DEF Shape, ActsForAdmin
<1>2. CASE Users \/ ButtonExpires \/ CodeExpires \/ KeyFails \/ UNCHANGED vars
  <2>1. job' = job /\ bound' = bound /\ revision' = revision
    BY <1>2 DEF Users, Commands, Binds, Presses, Sends, ButtonExpires, CodeExpires,
       KeyFails, memory, vars
  <2>2. QED
    BY <2>1 DEF Shape, ActsForAdmin
<1>3. CASE TickBegins \/ Connects \/ Answers
  <2>1. /\ bound' = bound /\ revision' = revision
        /\ \E x \in {"poll", "connect", "press"} : job' = [job EXCEPT !.at = x]
    BY <1>3 DEF TickBegins, Connects, Answers
  <2>2. job'.at \in {"poll", "connect", "press"} /\ Shape'
    BY <2>1, JobShapes DEF Shape
  <2>3. QED
    BY <2>2 DEF ActsForAdmin
<1>4. CASE Polls \/ Takes
  <2>1. Shape' /\ job'.at \in {"handle", "answer", "command"}
    BY <1>4 DEF Polls, Takes, Shape, Fields
  <2>2. QED
    BY <2>1 DEF ActsForAdmin
<1>5. CASE Refuses
  <2>1. job' = [job EXCEPT !.batch = Rest] \/ job' = Idle
    BY <1>5 DEF Refuses
  <2>2. Shape' /\ job'.at \in {"handle", "idle"}
    <3>1. job.at = "handle"
      BY <1>5 DEF Refuses, TakesNext
    <3>2. QED
      BY <2>1, <3>1, JobShapes DEF Shape, Fields
  <2>3. QED
    BY <2>2 DEF ActsForAdmin
<1>6. CASE AnswerFails \/ Replies
  <2>1. CASE Done
    <3>1. Shape' /\ job'.at = "handle"
      BY <2>1 DEF Done, Idle, Shape, Fields
    <3>2. QED
      BY <3>1 DEF ActsForAdmin
  <2>2. CASE job' = Idle
    BY <2>2, JobShapes DEF Shape, ActsForAdmin
  <2>3. QED
    BY <1>6, <2>1, <2>2 DEF AnswerFails, Replies
<1>7. CASE Claims
  <2>1. bound' = bound /\ revision' = revision
    BY <1>7 DEF Claims
  <2>2. CASE job.by = bound /\ job' = [job EXCEPT !.at = "act", !.rev = revision]
    <3>1. Shape' /\ job'.at = "act" /\ job'.by = job.by /\ job'.rev = revision
      BY <2>2 DEF Shape, Fields
    <3>2. QED
      BY <2>1, <2>2, <3>1 DEF ActsForAdmin
  <2>3. CASE job' = [job EXCEPT !.at = "reply", !.to = 0]
    <3>1. Shape' /\ job'.at = "reply" /\ job'.to = 0
      BY <2>3 DEF Shape, Fields
    <3>2. QED
      BY <3>1 DEF ActsForAdmin
  <2>4. QED
    BY <1>7, <2>2, <2>3 DEF Claims
<1>8. ASSUME Menu, job.by = bound, bound' = bound
      PROVE  Shape' /\ ActsForAdmin'
  <2>1. Shape' /\ job'.at = "reply" /\ job'.by = job.by
    BY <1>8 DEF Menu, Shape, Fields
  <2>2. QED
    BY <1>8, <2>1 DEF ActsForAdmin
<1>9. ASSUME NoMenu
      PROVE  Shape' /\ ActsForAdmin'
  <2>1. Shape' /\ job'.at = "reply" /\ job'.to = 0
    BY <1>9 DEF NoMenu, Shape, Fields
  <2>2. QED
    BY <2>1 DEF ActsForAdmin
<1>10. CASE Acts
  BY <1>8, <1>9, <1>10 DEF Acts, ActsForAdmin
<1>11. CASE RunsCommand
  BY <1>8, <1>9, <1>11 DEF RunsCommand
<1>12. CASE RunsBind
  BY <1>9, <1>12 DEF RunsBind
<1>13. CASE BatchEnds
  <2>1. /\ Shape' /\ job'.at = "notices" /\ job'.by = bound /\ job'.rev = revision
        /\ bound' = bound /\ revision' = revision
    BY <1>13 DEF BatchEnds, Shape, Fields
  <2>2. QED
    BY <2>1 DEF ActsForAdmin
<1>14. CASE TickEnds \/ TickFails \/ Crashes
  <2>1. job' = Idle
    BY <1>14 DEF TickEnds, TickFails, Crashes
  <2>2. QED
    BY <2>1, JobShapes DEF Shape, ActsForAdmin
<1>15. QED
  BY <1>1, <1>2, <1>3, <1>4, <1>5, <1>6, <1>7, <1>10, <1>11, <1>12, <1>13, <1>14
  DEF TNext, Tick

LEMMA AdminInit == TInit => Shape /\ ActsForAdmin
<1> SUFFICES ASSUME TInit
             PROVE  Shape /\ ActsForAdmin
  OBVIOUS
<1>1. job = Idle
  BY DEF TInit
<1>2. QED
  BY <1>1 DEF Shape, Fields, ActsForAdmin, Idle

\* Whoever the system acts for or tells something is the administrator of that
\* moment, under the settings of that moment.
THEOREM OnlyTheAdministrator == TSpec => []ActsForAdmin
<1>1. QED
  BY AdminInit, AdminStep, PTL DEF TSpec

\* A code never outlives the settings it was issued under.
LEMMA CodeStep == CodeInv /\ [TNext]_vars =>
    CodeInv' /\ (bound' \notin {bound, NoUser} => Current.code = revision)
<1> SUFFICES ASSUME CodeInv, [TNext]_vars
             PROVE  CodeInv' /\ (bound' \notin {bound, NoUser} => Current.code = revision)
  OBVIOUS
<1> USE DEF config, Quiet, CodeInv
<1>1. CASE Web
  BY <1>1 DEF Web, Replaces, Deletes, BeginsBinding, Unbinds, Changes, Voided
<1>2. CASE Users \/ ButtonExpires \/ CodeExpires \/ Crashes \/ UNCHANGED vars
  BY <1>2 DEF Users, Commands, Binds, Presses, Sends, ButtonExpires, CodeExpires, Crashes,
     memory, vars
<1>3. CASE RunsBind
  BY <1>3 DEF RunsBind
<1>4. CASE Replies
  BY <1>4 DEF Replies
<1>5. CASE Tick /\ ~RunsBind /\ ~Replies
  <2>1. Quiet
    BY <1>5 DEF Tick, TickBegins, Connects, Polls, Takes, Refuses, TakesNext, AnswerFails, Answers,
       Claims, Acts, RunsCommand, BatchEnds, TickEnds, TickFails, KeyFails
  <2>2. QED
    BY <2>1
<1>6. QED
  BY <1>1, <1>2, <1>3, <1>4, <1>5 DEF TNext

\* A chat is bound only by a code of the settings of that moment.
THEOREM CodesExpireWithSettings == TSpec => CodeCurrent
<1>1. TInit => CodeInv
  BY DEF TInit, CodeInv
<1>2. QED
  BY <1>1, CodeStep, PTL DEF TSpec, CodeCurrent

\* Nothing but the claim of a button that waits begins an action.
LEMMA ActBegins ==
    ASSUME Shape, [TNext]_vars, job.at # "act", job'.at = "act"
    PROVE  \E e \in pending : e.button = Current.button
<1>1. ~(Web \/ Users \/ ButtonExpires \/ CodeExpires \/ KeyFails \/ UNCHANGED vars)
  <2>1. job' # job
    OBVIOUS
  <2>2. QED
    BY <2>1 DEF Web, Replaces, Deletes, BeginsBinding, Unbinds, Changes, Users, Commands, Binds,
       Presses, Sends, ButtonExpires, CodeExpires, KeyFails, memory, vars
<1>2. ~(TickBegins \/ Connects \/ Answers)
  <2>1. \A x : job' = [job EXCEPT !.at = x] => x = "act"
    BY JobShapes
  <2>2. QED
    BY <2>1 DEF TickBegins, Connects, Answers, Continues
<1>3. ~(Polls \/ Takes \/ BatchEnds)
  BY DEF Polls, Takes, BatchEnds, Shape, Fields
<1>4. ~Refuses
  <2>1. job' # Idle /\ job' # [job EXCEPT !.batch = Rest]
    BY DEF Idle, Shape, Fields
  <2>2. QED
    BY <2>1 DEF Refuses
<1>5. ~(AnswerFails \/ Replies \/ TickEnds \/ TickFails \/ Crashes)
  <2>1. ~Done
    BY DEF Done, Idle
  <2>2. job' # Idle
    BY DEF Idle
  <2>3. QED
    BY <2>1, <2>2 DEF AnswerFails, Replies, TickEnds, TickFails, Crashes
<1>6. ~(Menu \/ NoMenu)
  BY DEF Menu, NoMenu, Shape, Fields
<1>7. ~(Acts \/ RunsCommand \/ RunsBind)
  BY <1>6 DEF Acts, RunsCommand, RunsBind
<1>8. CASE Claims
  <2>1. job' # [job EXCEPT !.at = "reply", !.to = 0]
    BY DEF Shape, Fields
  <2>2. {e \in Waiting(Current.button) : e.rev = revision} # {}
    BY <1>8, <2>1 DEF Claims
  <2>3. QED
    BY <2>2 DEF Waiting
<1>9. QED
  BY <1>1, <1>2, <1>3, <1>4, <1>5, <1>7, <1>8 DEF TNext, Tick

\* The actions of the keyboards, and all that touch neither them nor a press.
LEMMA ButtonStep == Shape /\ ButtonInv /\ [TNext]_vars => ButtonInv'
<1> SUFFICES ASSUME Shape, ButtonInv, [TNext]_vars
             PROVE  ButtonInv'
  OBVIOUS
<1> USE DEF config, Quiet, history, outside
<1>1. ASSUME pending' \subseteq pending, UNCHANGED <<made, claimed>>,
             job'.at = "press" => job' = job /\ updates' = updates
      PROVE  ButtonInv'
  BY <1>1 DEF ButtonInv, Current
<1>2. CASE Web \/ Users
  <2>1. pending' \subseteq pending /\ UNCHANGED <<made, claimed, job>> /\ job.at # "press"
    BY <1>2 DEF Web, Replaces, Deletes, BeginsBinding, Unbinds, Changes, Unlocked,
       Users, Commands, Binds, Presses, Sends, memory
  <2>2. QED
    BY <1>1, <2>1
<1>3. CASE ButtonExpires \/ CodeExpires \/ KeyFails \/ UNCHANGED vars
  BY <1>1, <1>3 DEF ButtonExpires, CodeExpires, KeyFails, vars, memory
<1>4. CASE TickBegins \/ Connects
  <2>1. \E x \in {"poll", "connect"} : job' = [job EXCEPT !.at = x]
    BY <1>4 DEF TickBegins, Connects, Continues
  <2>2. job'.at # "press"
    BY <2>1, JobShapes
  <2>3. QED
    BY <1>1, <1>4, <2>2 DEF TickBegins, Connects
<1>5. CASE Polls \/ Takes \/ BatchEnds
  <2>1. job'.at # "press"
    BY <1>5 DEF Polls, Takes, BatchEnds, Shape, Fields
  <2>2. QED
    BY <1>1, <1>5, <2>1 DEF Polls, Takes, TakesNext, BatchEnds
<1>6. CASE Refuses
  <2>1. job.at = "handle"
    BY <1>6 DEF Refuses, TakesNext
  <2>2. job'.at # "press"
    BY <1>6, <2>1, JobShapes DEF Refuses, Shape, Fields
  <2>3. QED
    BY <1>1, <1>6, <2>2 DEF Refuses, TakesNext
<1>7. CASE AnswerFails \/ Replies
  <2>1. job'.at # "press"
    <3>1. Done => job'.at = "handle"
      BY DEF Done, Idle
    <3>2. job' = Idle => job'.at = "idle"
      BY DEF Idle
    <3>3. QED
      BY <1>7, <3>1, <3>2 DEF AnswerFails, Replies
  <2>2. QED
    BY <1>1, <1>7, <2>1 DEF AnswerFails, Replies
<1>8. CASE TickEnds \/ TickFails \/ Crashes
  <2>1. job'.at # "press"
    BY <1>8, JobShapes DEF TickEnds, TickFails, Crashes
  <2>2. QED
    BY <1>1, <1>8, <2>1 DEF TickEnds, TickFails, Crashes
<1>9. CASE Answers
  <2>1. /\ pending' = pending \ Retired /\ updates' = updates /\ made' = made
        /\ claimed' = claimed /\ job'.now = job.now
    BY <1>9, JobShapes DEF Answers, Continues
  <2>2. Current' = Current
    BY <2>1 DEF Current
  <2>3. \A e \in pending' : e.button[1] = Current.button[1] => e.button = Current.button
    BY <2>1 DEF Retired
  <2>4. QED
    BY <2>1, <2>2, <2>3 DEF ButtonInv
<1>10. CASE Claims
  <2>1. /\ job.at = "press" /\ pending' = pending \ Waiting(Current.button)
        /\ made' = made
    BY <1>10 DEF Claims, Popped
  <2>2. job'.at # "press"
    BY <1>10 DEF Claims, Shape, Fields
  <2>3. CASE claimed' = claimed
    BY <1>1, <2>1, <2>2, <2>3
  <2>4. CASE claimed' # claimed
    <3>1. claimed' = claimed \cup {Current.button} /\ Waiting(Current.button) # {}
      BY <1>10, <2>4 DEF Claims
    <3>2. PICK e \in pending : e.button = Current.button
      BY <3>1 DEF Waiting
    <3>3. /\ Current.button[1] \in Nat /\ Current.button[1] <= made
          /\ \A b \in claimed : b[1] # Current.button[1]
      BY <3>2 DEF ButtonInv
    <3>4. \A f \in pending' : f.button[1] # Current.button[1]
      BY <2>1 DEF ButtonInv, Waiting
    <3>5. QED
      BY <2>1, <2>2, <3>1, <3>3, <3>4 DEF ButtonInv
  <2>5. QED
    BY <2>3, <2>4
<1>11. ASSUME Menu, claimed' = claimed
       PROVE  ButtonInv'
  <2>1. made' = made + 1 /\ job'.at # "press"
    BY <1>11 DEF Menu, Shape, Fields
  <2>2. \A e \in pending' : e \in pending \/ e.button[1] = made + 1
    BY <1>11 DEF Menu
  <2>3. QED
    BY <1>11, <2>1, <2>2 DEF ButtonInv
<1>12. ASSUME NoMenu, claimed' = claimed
       PROVE  ButtonInv'
  <2>1. job'.at # "press" /\ pending' = pending /\ made' = made
    BY <1>12 DEF NoMenu, Shape, Fields
  <2>2. QED
    BY <1>1, <1>12, <2>1
<1>13. CASE Acts \/ RunsCommand \/ RunsBind
  <2>1. claimed' = claimed /\ (Menu \/ NoMenu)
    BY <1>13 DEF Acts, RunsCommand, RunsBind
  <2>2. QED
    BY <1>11, <1>12, <2>1
<1>14. QED
  BY <1>2, <1>3, <1>4, <1>5, <1>6, <1>7, <1>8, <1>9, <1>10, <1>13
  DEF TNext, Tick

\* The button whose action begins waited, and so no other of its keyboard was acted on.
LEMMA ActStep == Shape /\ ButtonInv /\ [TNext]_vars =>
    (job.at # "act" /\ job'.at = "act" => \A b \in claimed : b[1] # Current.button[1])
<1> SUFFICES ASSUME Shape, ButtonInv, [TNext]_vars, job.at # "act", job'.at = "act"
             PROVE  \A b \in claimed : b[1] # Current.button[1]
  OBVIOUS
<1>1. PICK e \in pending : e.button = Current.button
  BY ActBegins
<1>2. QED
  BY <1>1 DEF ButtonInv

\* No keyboard is acted on twice, by one of its buttons or by two, whatever is
\* pressed, sent or delivered twice.
THEOREM OneActionPerKeyboard == TSpec => ActsOnce
<1>1. TInit => ButtonInv
  BY DEF TInit, ButtonInv, Idle
<1>2. QED
  BY <1>1, AdminInit, AdminStep, ButtonStep, ActStep, PTL DEF TSpec, ActsOnce

\* What a poll of the present session would return.
Outstanding == {i \in Mine(session) : i >= offset}

Polled ==
    /\ session \in Bot => \A i \in Outstanding : i > start /\ i \notin handled
    /\ job.batch \subseteq Outstanding

\* Where a tick has a session, and where it has a batch.
SessionPlaces ==
    /\ token \in Bot \cup {NoBot} /\ session \in Bot \cup {NoBot}
    /\ job.at \notin {"idle", "connect"} => session \in Bot
    /\ job.at = "connect" => token \in Bot /\ session = NoBot
    /\ job.at \in {"idle", "connect", "poll", "notices"} => job.batch = {}

\* Updates are numbered in the order they are sent.
Numbers ==
    /\ Len(updates) \in Nat /\ updates = [i \in 1..Len(updates) |-> updates[i]]
    /\ handled \subseteq 1..Len(updates)
    /\ start \in Nat /\ start <= Len(updates)
    /\ offset \in Nat
    /\ forgotten \in [Bot -> Nat]

PollInv == Polled /\ SessionPlaces /\ Numbers

\* The smallest of some numbers, and the greatest of some that are bounded.
LEMMA LeastOf ==
    ASSUME NEW S \in SUBSET Nat, S # {}
    PROVE  Min(S) \in S /\ \A i \in S : Min(S) <= i
<1>1. \E x \in S : \A y \in S : ~(<<y, x>> \in OpToRel(<, Nat))
  BY NatLessThanWellFounded, WFMin
<1>2. PICK x \in S : \A y \in S : ~(y < x)
  BY <1>1 DEF OpToRel
<1>3. x \in S /\ \A y \in S : x <= y
  BY <1>2
<1>4. QED
  BY <1>3 DEF Min

\* The greatest member is the least bound.
LEMMA GreatestOf ==
    ASSUME NEW S \in SUBSET Nat, S # {}, NEW n \in Nat, \A i \in S : i <= n
    PROVE  Max(S) \in S /\ \A i \in S : i <= Max(S)
<1> DEFINE B == {m \in Nat : \A i \in S : i <= m}
<1>1. n \in B
  OBVIOUS
<1>2. B \in SUBSET Nat /\ B # {}
  BY <1>1
<1>3. PICK m \in B : \A k \in B : m <= k
  <2> HIDE DEF B
  <2>1. QED
    BY <1>2, LeastOf
<1>4. m \in S
  <2>1. SUFFICES ASSUME m \notin S
                 PROVE  FALSE
    OBVIOUS
  <2>2. PICK i \in S : TRUE
    OBVIOUS
  <2>3. \A j \in S : j < m
    BY <2>1
  <2>4. m - 1 \in B
    BY <2>2, <2>3
  <2>5. QED
    BY <1>3, <2>4
<1>5. \E x \in S : \A y \in S : x >= y
  BY <1>4
<1>6. QED
  BY <1>5 DEF Max

\* As it acknowledges updates, the server never remembers forgotten ones.
LEMMA GreaterOfTwo ==
    ASSUME NEW m \in Nat, NEW n \in Nat
    PROVE  Max({m, n}) \in Nat /\ m <= Max({m, n}) /\ n <= Max({m, n}) /\ Max({m, n}) \in {m, n}
<1>1. \A i \in {m, n} : i <= m + n
  OBVIOUS
<1>2. {m, n} \in SUBSET Nat /\ m + n \in Nat
  OBVIOUS
<1>3. Max({m, n}) \in {m, n} /\ \A i \in {m, n} : i <= Max({m, n})
  BY <1>1, <1>2, GreatestOf
<1>4. QED
  BY <1>3

\* Updates are numbers up to the last one sent.
LEMMA MineNumbered ==
    ASSUME Numbers
    PROVE  \A b : Mine(b) \in SUBSET Nat /\ \A i \in Mine(b) : i <= Len(updates)
BY DEF Numbers, Mine

\* A step that takes nothing up and asks the server for nothing.
LEMMA Unpolled ==
    ASSUME PollInv, UNCHANGED <<updates, forgotten, handled, start>>,
           token' \in Bot \cup {NoBot},
           \/ UNCHANGED <<session, offset>>
           \/ session' = NoBot /\ offset' = 0,
           job'.at \notin {"idle", "connect"} => session' \in Bot,
           job'.at = "connect" => token' \in Bot /\ session' = NoBot,
           \/ job'.batch = {}
           \/ /\ UNCHANGED <<session, offset>> /\ job'.batch = job.batch
              /\ job'.at \notin {"idle", "connect", "poll", "notices"}
    PROVE  PollInv'
<1>1. Numbers'
  BY DEF PollInv, Numbers
<1>2. SessionPlaces'
  BY DEF PollInv, SessionPlaces
<1>3. CASE UNCHANGED <<session, offset>>
  <2>1. Outstanding' = Outstanding
    BY <1>3 DEF Outstanding, Mine
  <2>2. QED
    BY <1>1, <1>2, <1>3, <2>1 DEF PollInv, Polled
<1>4. CASE session' = NoBot /\ offset' = 0
  <2>1. session' \notin Bot
    BY <1>4, TelegramAssumption
  <2>2. job'.batch = {} \/ UNCHANGED <<session, offset>>
    OBVIOUS
  <2>3. CASE job'.batch = {}
    BY <1>1, <1>2, <2>1, <2>3 DEF PollInv, Polled
  <2>4. QED
    BY <1>3, <2>2, <2>3
<1>5. QED
  BY <1>3, <1>4

\* A poll acknowledges only what is before the offset.
LEMMA Acknowledged ==
    ASSUME PollInv, session \in Bot, UNCHANGED <<updates, session, offset>>,
           \/ UNCHANGED forgotten
           \/ /\ offset # 0
              /\ forgotten' = [forgotten EXCEPT ![session] = Max({@, offset - 1})]
    PROVE  forgotten' \in [Bot -> Nat] /\ Outstanding' = Outstanding
<1>1. forgotten \in [Bot -> Nat] /\ offset \in Nat
  BY DEF PollInv, Numbers
<1>2. CASE UNCHANGED forgotten
  BY <1>1, <1>2 DEF Outstanding, Mine
<1>3. CASE offset # 0 /\ forgotten' = [forgotten EXCEPT ![session] = Max({@, offset - 1})]
  <2> DEFINE m == Max({forgotten[session], offset - 1})
  <2>1. forgotten[session] \in Nat /\ offset - 1 \in Nat
    BY <1>1, <1>3
  <2>2. m \in Nat /\ forgotten[session] <= m /\ m \in {forgotten[session], offset - 1}
    BY <2>1, GreaterOfTwo
  <2>3. forgotten' = [forgotten EXCEPT ![session] = m]
    BY <1>3
  <2> HIDE DEF m
  <2>4. forgotten' \in [Bot -> Nat] /\ forgotten'[session] = m
    BY <1>1, <2>2, <2>3
  <2>5. Mine(session)' = {i \in DOMAIN updates : updates[i].bot = session /\ i > m}
    BY <2>4 DEF Mine
  <2>6. \A i \in DOMAIN updates : i \in Nat
    BY DEF PollInv, Numbers
  <2>7. Outstanding' = Outstanding
    BY <1>1, <2>1, <2>2, <2>5, <2>6 DEF Outstanding, Mine
  <2>8. QED
    BY <2>4, <2>7
<1>4. QED
  BY <1>2, <1>3

\* One more update, which no session has seen.
LEMMA OneMore ==
    ASSUME PollInv, NEW u, updates' = Append(updates, u), job.batch = {},
           UNCHANGED <<token, session, offset, job, forgotten, handled, start>>
    PROVE  PollInv'
<1> DEFINE n == Len(updates)
<1>1. n \in Nat /\ updates = [i \in 1..n |-> updates[i]]
  BY DEF PollInv, Numbers
<1>2. updates \in Seq({updates[i] : i \in 1..n} \cup {u})
  BY <1>1
<1>3. /\ Len(updates') = n + 1 /\ updates' = [i \in 1..(n + 1) |-> updates'[i]]
      /\ \A i \in 1..n : updates'[i] = updates[i]
  <2> DEFINE S == {updates[i] : i \in 1..n} \cup {u}
  <2>1. updates \in Seq(S) /\ u \in S
    BY <1>2
  <2> HIDE DEF S
  <2>2. updates' \in Seq(S)
    BY <2>1
  <2>3. Len(updates') = n + 1
    BY <2>1
  <2>4. updates' = [i \in 1..(n + 1) |-> updates'[i]]
    <3>1. \A s \in Seq(S) : s = [i \in 1..Len(s) |-> s[i]]
      OBVIOUS
    <3>2. QED
      BY <2>2, <2>3, <3>1
  <2>5. \A i \in 1..n : updates'[i] = updates[i]
    BY <2>1
  <2>6. QED
    BY <2>3, <2>4, <2>5
<1>4. Numbers'
  BY <1>1, <1>3 DEF PollInv, Numbers
<1>5. SessionPlaces'
  BY DEF PollInv, SessionPlaces
<1>6. ASSUME NEW i \in Outstanding'
      PROVE  i \in Outstanding \/ i = n + 1
  <2>1. i \in 1..(n + 1)
    BY <1>3, <1>6 DEF Outstanding, Mine
  <2>2. CASE i \in 1..n
    BY <1>1, <1>3, <1>6, <2>2 DEF Outstanding, Mine
  <2>3. QED
    BY <1>1, <2>1, <2>2
<1>7. n + 1 > start /\ n + 1 \notin handled
  BY <1>1 DEF PollInv, Numbers
<1>8. Polled'
  BY <1>6, <1>7 DEF PollInv, Polled
<1>9. QED
  BY <1>4, <1>5, <1>8 DEF PollInv

\* What the server forgets when a session begins.
LEMMA DroppedNumbered ==
    ASSUME Numbers
    PROVE  Dropped \in [Bot -> Nat]
<1>1. forgotten \in [Bot -> Nat] /\ Len(updates) \in Nat
  BY DEF Numbers
<1>2. CASE Mine(token) # {}
  <2> DEFINE m == Max(Mine(token))
  <2>1. Mine(token) \in SUBSET Nat /\ \A i \in Mine(token) : i <= Len(updates) /\ i >= 1
    BY MineNumbered DEF Numbers, Mine
  <2>2. m \in Mine(token)
    BY <1>1, <1>2, <2>1, GreatestOf
  <2> HIDE DEF m
  <2>3. m - 1 \in Nat
    BY <2>1, <2>2
  <2>4. Dropped = [forgotten EXCEPT ![token] = m - 1]
    BY <1>2 DEF Dropped, m
  <2>5. QED
    BY <1>1, <2>3, <2>4
<1>3. QED
  BY <1>1, <1>2 DEF Dropped

\* A new session skips all there is.
LEMMA SkipsAll ==
    ASSUME Shape, PollInv, Connects
    PROVE  PollInv'
<1> USE DEF Quiet, config
<1> DEFINE n == Len(updates)
<1>1. /\ token \in Bot /\ session' = token /\ offset' = Skipped(token) /\ start' = n
      /\ UNCHANGED <<token, updates, handled>> /\ n \in Nat /\ job.batch = {}
      /\ forgotten \in [Bot -> Nat]
  BY DEF Connects, PollInv, SessionPlaces, Numbers
<1>2. job'.at = "poll" /\ job'.batch = {}
  BY <1>1 DEF Connects, Continues, Shape, Fields
<1>3. SessionPlaces'
  BY <1>1, <1>2 DEF SessionPlaces
<1>4. CASE Mine(token) = {}
  <2>1. offset' = 0 /\ forgotten' = forgotten
    BY <1>1, <1>4 DEF Skipped, Connects, Dropped
  <2>2. Outstanding' = {}
    BY <1>1, <1>4, <2>1 DEF Outstanding, Mine
  <2>3. Numbers'
    BY <1>1, <2>1 DEF PollInv, Numbers
  <2>4. QED
    BY <1>2, <1>3, <2>2, <2>3 DEF PollInv, Polled
<1>5. CASE Mine(token) # {}
  <2> DEFINE m == Max(Mine(token))
  <2>1. m \in Mine(token) /\ \A i \in Mine(token) : i <= m
    <3>1. Mine(token) \in SUBSET Nat /\ \A i \in Mine(token) : i <= n
      BY MineNumbered DEF PollInv
    <3>2. QED
      BY <1>1, <1>5, <3>1, GreatestOf
  <2>2. offset' = m + 1 /\ forgotten' = [forgotten EXCEPT ![token] = m - 1]
    BY <1>1, <1>5 DEF Skipped, Connects, Dropped
  <2> HIDE DEF m
  <2>3. m \in Nat /\ m > forgotten[token] /\ m - 1 \in Nat
    BY <1>1, <2>1 DEF Mine, PollInv, Numbers
  <2>4. Numbers'
    BY <1>1, <2>2, <2>3 DEF PollInv, Numbers
  <2>5. Outstanding' = {}
    <3>1. SUFFICES ASSUME NEW i \in Outstanding'
                   PROVE  FALSE
      OBVIOUS
    <3>2. i \in DOMAIN updates /\ updates[i].bot = token /\ i >= m + 1
      BY <1>1, <2>2, <3>1 DEF Outstanding, Mine
    <3>3. i \in Nat
      BY <3>2 DEF PollInv, Numbers
    <3>4. i \in Mine(token)
      <4>1. i > forgotten[token]
        BY <1>1, <2>3, <3>2, <3>3
      <4>2. QED
        BY <3>2, <4>1 DEF Mine
    <3>5. QED
      BY <2>1, <2>3, <3>2, <3>3, <3>4
  <2>6. QED
    BY <1>2, <1>3, <2>4, <2>5 DEF PollInv, Polled
<1>6. QED
  BY <1>4, <1>5

\* The first update of a batch is outstanding, and the others remain so.
LEMMA TakesFirst ==
    ASSUME PollInv, TakesNext, job'.batch \in {Rest, {}},
           job'.batch # {} => job'.at \notin {"idle", "connect", "poll", "notices"},
           job'.at # "connect"
    PROVE  PollInv' /\ First > start /\ First \notin handled
<1> USE DEF Quiet, config
<1>1. /\ session \in Bot /\ job.batch # {} /\ offset' = First + 1 /\ handled' = handled \cup {First}
      /\ UNCHANGED <<token, session, updates, forgotten, start>>
  BY DEF TakesNext, PollInv, SessionPlaces
<1>2. job.batch \in SUBSET Nat /\ \A i \in job.batch : i <= Len(updates) /\ i >= offset
  BY MineNumbered DEF PollInv, Polled, Outstanding
<1>3. First \in job.batch /\ \A i \in job.batch : First <= i
  BY <1>1, <1>2, LeastOf DEF First
<1>4. /\ First \in Nat /\ First <= Len(updates) /\ First >= offset /\ First \in Outstanding
      /\ First \in DOMAIN updates
  BY <1>2, <1>3 DEF PollInv, Polled, Outstanding, Mine
<1>5. First > start /\ First \notin handled
  BY <1>1, <1>4 DEF PollInv, Polled
<1>6. Numbers'
  BY <1>1, <1>4 DEF PollInv, Numbers
<1>7. SessionPlaces'
  BY <1>1 DEF PollInv, SessionPlaces
<1>8. \A i \in Outstanding' : i \in Outstanding /\ i # First
  <2>1. SUFFICES ASSUME NEW i \in Outstanding'
                 PROVE  i \in Outstanding /\ i # First
    OBVIOUS
  <2>2. i \in Mine(session) /\ i >= First + 1
    BY <1>1 DEF Outstanding, Mine
  <2>3. i \in Nat /\ offset \in Nat
    BY <2>2, MineNumbered DEF PollInv, Numbers
  <2>4. QED
    BY <1>4, <2>2, <2>3 DEF Outstanding
<1>9. job'.batch \subseteq Outstanding'
  <2>1. SUFFICES ASSUME NEW i \in Rest
                 PROVE  i \in Outstanding'
    OBVIOUS
  <2>2. i \in Mine(session) /\ i >= First + 1
    BY <1>2, <1>3, <1>4, <2>1 DEF Rest, PollInv, Polled, Outstanding
  <2>3. QED
    BY <1>1, <2>2 DEF Outstanding, Mine
<1>10. Polled'
  BY <1>1, <1>8, <1>9 DEF PollInv, Polled
<1>11. QED
  BY <1>5, <1>6, <1>7, <1>10 DEF PollInv

\* A step of the chat, the web page, the server or the users.
LEMMA PollStep ==
    ASSUME Shape, PollInv, [TNext]_vars
    PROVE  PollInv' /\ (Takes \/ Refuses => First \notin handled /\ First > start)
<1> USE DEF Quiet, config, history, outside, memory, Continues
<1>1. CASE Takes
  <2>1. job'.batch = Rest /\ job'.at \in {"answer", "command"}
    BY <1>1 DEF Takes, Shape, Fields
  <2>2. QED
    BY <1>1, <2>1, TakesFirst DEF Takes
<1>2. CASE Refuses
  <2>1. job.at = "handle"
    BY <1>2 DEF Refuses, TakesNext
  <2>2. CASE job' = Idle
    <3>1. job'.batch = {} /\ job'.at = "idle"
      BY <2>2 DEF Idle
    <3>2. QED
      BY <1>2, <3>1, TakesFirst DEF Refuses
  <2>3. CASE job' = [job EXCEPT !.batch = Rest]
    <3>1. job'.batch = Rest /\ job'.at = "handle"
      BY <2>1, <2>3 DEF Shape, Fields
    <3>2. QED
      BY <1>2, <3>1, TakesFirst DEF Refuses
  <2>4. QED
    BY <1>2, <2>2, <2>3 DEF Refuses
<1>3. SUFFICES ASSUME ~Takes, ~Refuses
               PROVE  PollInv'
  BY <1>1, <1>2
<1>4. /\ token \in Bot \cup {NoBot} /\ session \in Bot \cup {NoBot}
      /\ job.at \notin {"idle", "connect"} => session \in Bot
      /\ job.at \in {"idle", "connect", "poll", "notices"} => job.batch = {}
  BY DEF PollInv, SessionPlaces
<1>5. CASE Web
  <2>1. /\ job' = job /\ job.at = "idle" /\ UNCHANGED <<updates, forgotten, handled, start>>
        /\ token' \in Bot \cup {NoBot}
        /\ UNCHANGED <<session, offset>> \/ (session' = NoBot /\ offset' = 0)
    BY <1>4, <1>5 DEF Web, Replaces, Deletes, BeginsBinding, Unbinds, Changes, Unlocked, Disconnected
  <2>2. QED
    BY <1>4, <2>1, Unpolled
<1>6. CASE Users
  <2>1. PICK u : Sends(u)
    BY <1>6 DEF Users, Commands, Binds, Presses
  <2>2. QED
    BY <1>4, <2>1, OneMore DEF Sends
<1>7. ASSUME UNCHANGED <<token, session, offset, updates, forgotten, handled, start, job>>
      PROVE  PollInv'
  <2>1. CASE job.batch = {}
    BY <1>4, <1>7, <2>1, Unpolled DEF PollInv, SessionPlaces
  <2>2. CASE job.batch # {}
    BY <1>4, <1>7, <2>2, Unpolled DEF PollInv, SessionPlaces
  <2>3. QED
    BY <2>1, <2>2
<1>8. CASE ButtonExpires \/ CodeExpires \/ UNCHANGED vars
  BY <1>7, <1>8 DEF ButtonExpires, CodeExpires, vars
<1>9. CASE Crashes \/ KeyFails
  <2>1. /\ job'.batch = {} /\ job'.at = "idle" /\ session' = NoBot /\ offset' = 0
        /\ UNCHANGED <<token, updates, forgotten, handled, start>>
    BY <1>4, <1>9 DEF Crashes, KeyFails, Idle, Disconnected
  <2>2. QED
    BY <1>4, <2>1, Unpolled
<1>10. CASE TickBegins
  <2>1. /\ job.at = "idle" /\ token \in Bot
        /\ UNCHANGED <<token, updates, forgotten, handled, start>>
    BY <1>4, <1>10 DEF TickBegins
  <2>2. /\ job'.batch = {}
        /\ job'.at = IF session = token THEN "poll" ELSE "connect"
    BY <1>4, <1>10, <2>1 DEF TickBegins, Shape, Fields
  <2>3. IF session = token THEN UNCHANGED <<session, offset>> ELSE session' = NoBot /\ offset' = 0
    BY <1>10 DEF TickBegins, Disconnected
  <2>4. QED
    BY <1>4, <2>1, <2>2, <2>3, Unpolled
<1>11. CASE Connects
  BY <1>11, SkipsAll
<1>12. CASE Polls
  <2>1. /\ session \in Bot /\ UNCHANGED <<token, session, offset, updates, handled, start>>
    BY <1>4, <1>12 DEF Polls
  <2>2. forgotten' \in [Bot -> Nat] /\ Outstanding' = Outstanding
    BY <1>12, <2>1, Acknowledged DEF Polls
  <2>3. job'.batch = Outstanding /\ job'.at = "handle"
    BY <1>12 DEF Polls, Outstanding, Shape, Fields
  <2>4. Numbers'
    BY <2>1, <2>2 DEF PollInv, Numbers
  <2>5. SessionPlaces'
    BY <1>4, <2>1, <2>3 DEF SessionPlaces
  <2>6. Polled'
    BY <2>1, <2>2, <2>3 DEF PollInv, Polled
  <2>7. QED
    BY <2>4, <2>5, <2>6 DEF PollInv
<1>13. ASSUME UNCHANGED <<token, session, offset, updates, forgotten, handled, start>>,
              job.at \notin {"idle", "connect", "poll", "notices"},
              job'.batch = job.batch, job'.at \notin {"idle", "connect", "poll", "notices"}
       PROVE  PollInv'
  BY <1>4, <1>13, Unpolled
<1>14. CASE AnswerFails \/ Replies
  <2>1. CASE job'.at = "handle" /\ job'.batch = job.batch
    BY <1>13, <1>14, <2>1 DEF AnswerFails, Replies
  <2>2. CASE job' = Idle
    <3>1. job'.at = "idle" /\ job'.batch = {}
      BY <2>2 DEF Idle
    <3>2. QED
      BY <1>4, <1>14, <3>1, Unpolled DEF AnswerFails, Replies
  <2>3. QED
    BY <1>14, <2>1, <2>2 DEF AnswerFails, Replies, Done, Idle
<1>15. CASE Answers
  <2>1. job'.at = "press" /\ job'.batch = job.batch
    BY <1>15 DEF Answers, Shape, Fields
  <2>2. QED
    BY <1>13, <1>15, <2>1 DEF Answers
<1>16. CASE Claims
  <2>1. job'.at \in {"act", "reply"} /\ job'.batch = job.batch
    BY <1>16 DEF Claims, Shape, Fields
  <2>2. QED
    BY <1>13, <1>16, <2>1 DEF Claims
<1>17. CASE Acts \/ RunsCommand \/ RunsBind
  <2>1. Menu \/ NoMenu
    BY <1>17 DEF Acts, RunsCommand, RunsBind
  <2>2. job'.at = "reply" /\ job'.batch = job.batch
    BY <2>1 DEF Menu, NoMenu, Shape, Fields
  <2>3. QED
    BY <1>13, <1>17, <2>2 DEF Acts, RunsCommand, RunsBind
<1>18. CASE BatchEnds
  <2>1. job.at = "handle" /\ job.batch = {} /\ job'.at = "notices" /\ job'.batch = {}
    BY <1>18 DEF BatchEnds, Shape, Fields
  <2>2. QED
    BY <1>4, <1>18, <2>1, Unpolled DEF BatchEnds
<1>19. CASE TickEnds
  <2>1. job'.batch = {} /\ job'.at = "idle"
    BY <1>19 DEF TickEnds, Idle
  <2>2. QED
    BY <1>4, <1>19, <2>1, Unpolled DEF TickEnds
<1>20. CASE TickFails
  <2>1. /\ job'.batch = {} /\ job'.at = "idle"
        /\ UNCHANGED <<token, session, offset, updates, handled, start>>
    BY <1>20 DEF TickFails, Idle
  <2>2. CASE UNCHANGED forgotten
    BY <1>4, <2>1, <2>2, Unpolled
  <2>3. CASE /\ job.at = "poll" /\ offset # 0
             /\ forgotten' = [forgotten EXCEPT ![session] = Max({@, offset - 1})]
    <3>1. session \in Bot
      BY <1>4, <2>3
    <3>2. forgotten' \in [Bot -> Nat] /\ Outstanding' = Outstanding
      BY <2>1, <2>3, <3>1, Acknowledged
    <3>3. QED
      BY <1>4, <2>1, <3>2 DEF PollInv, Polled, SessionPlaces, Numbers
  <2>4. CASE job.at = "connect" /\ forgotten' = Dropped
    <3>1. forgotten' \in [Bot -> Nat]
      BY <2>4, DroppedNumbered DEF PollInv
    <3>2. session' \notin Bot
      BY <1>4, <2>1, <2>4, TelegramAssumption DEF PollInv, SessionPlaces
    <3>3. QED
      BY <1>4, <2>1, <3>1, <3>2 DEF PollInv, Polled, SessionPlaces, Numbers
  <2>5. QED
    BY <1>20, <2>2, <2>3, <2>4 DEF TickFails
<1>21. QED
  BY <1>3, <1>5, <1>6, <1>8, <1>9, <1>10, <1>11, <1>12, <1>14, <1>15, <1>16, <1>17, <1>18, <1>19, <1>20
  DEF TNext, Tick

LEMMA PollInit == TInit => PollInv
<1> SUFFICES ASSUME TInit
             PROVE  PollInv
  OBVIOUS
<1>1. updates = << >> /\ handled = {} /\ start = 0 /\ offset = 0 /\ session = NoBot
      /\ forgotten = [b \in Bot |-> 0] /\ job.batch = {} /\ job.at = "idle"
      /\ token \in Bot \cup {NoBot}
  BY DEF TInit, Idle
<1>2. Numbers
  BY <1>1 DEF Numbers
<1>3. SessionPlaces /\ Polled
  BY <1>1, TelegramAssumption DEF SessionPlaces, Polled
<1>4. QED
  BY <1>2, <1>3 DEF PollInv

\* Whatever is delivered again and however often the session is renewed, nothing is
\* carried out twice, and nothing that was sent before the session began.
THEOREM UpdatesHandledOnce == TSpec => HandledOnce
<1>1. QED
  BY AdminInit, AdminStep, PollInit, PollStep, PTL DEF TSpec, HandledOnce

=============================================================================
