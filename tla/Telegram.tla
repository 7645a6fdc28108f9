------------------------------ MODULE Telegram ------------------------------
(***************************************************************************)
(* The chat with the administrator: the stored token and binding           *)
(* (maintenance_center/telegram_store.py), the menus whose buttons wait to *)
(* be pressed (telegram_control.py) and the polling loop that carries out  *)
(* what the updates ask for (telegram_runtime.py), beside the settings of  *)
(* the web page, a Telegram server that keeps what was not acknowledged,   *)
(* chats that show old keyboards, failing requests and restarts.           *)
(*                                                                         *)
(* A tick is a coroutine that awaits at every request; it holds the lock   *)
(* of the runtime from its first step to its last, and the web page takes  *)
(* that lock for every change.                                             *)
(*                                                                         *)
(* Simplifications:                                                        *)
(*  - What a button or a command asks of the controller is left out: it    *)
(*    does something once, and may answer with a keyboard of two buttons.  *)
(*  - A bot has one token. Replacing it by another token of the same bot   *)
(*    differs in the identity of the session only, which ends anyway.      *)
(*  - No limit of 100 buttons that wait.                                   *)
(*  - The 300 s of a button and the 600 s of a code may pass at any time.  *)
(***************************************************************************)
EXTENDS Naturals, Sequences, FiniteSetsExt

CONSTANTS
    User, NoUser,
    Bot, NoBot,
    MaxRevision, MaxUpdates, MaxKeyboards, MaxCrashes   \* bounds; MaxRevision is for changes of the web page

ASSUME TelegramAssumption ==
    /\ NoUser \notin User /\ NoBot \notin Bot
    /\ {MaxRevision, MaxUpdates, MaxKeyboards, MaxCrashes} \subseteq Nat

VARIABLES
    revision,  \* config.revision
    token,     \* config.bot_id, with its token
    bound,     \* config.user_id and chat_id
    code,      \* TelegramStore.binding_code: the revision that issued it, or 0 (memory)
    pending,   \* TelegramControl.pending: buttons with their revision (memory)
    session,   \* TelegramRuntime.bot_revision (memory)
    offset,    \* TelegramRuntime.offset, 0 for None (memory)
    job,       \* the tick under way and what it has read (memory)
    updates,   \* all updates ever sent to a bot, in their order
    forgotten, \* what the server has forgotten of each bot: up to this update
    shown,     \* keyboards in chats
    issued,    \* binding codes the web page has shown
    made,      \* keyboards made, for fresh handles and the bound
    handled,   \* history: updates carried out or refused
    claimed,   \* history: buttons whose action was begun
    start,     \* history: updates sent before the current session
    crashes    \* restarts, for the bound

config   == <<revision, token, bound>>
memory   == <<code, pending, session, offset, job>>
outside  == <<updates, forgotten, shown, issued>>
history  == <<handled, claimed, start>>
vars     == <<config, memory, outside, made, history, crashes>>

-----------------------------------------------------------------------------
\* Where a tick is: `batch' and `now' are the updates it has yet to look at, the
\* first one first, and the one it is at, `by' whom it acts for or writes to, `rev' the revision it has compared,
\* `to' a keyboard to be sent.
Idle == [batch |-> {}, at |-> "idle", by |-> NoUser, rev |-> 0, to |-> 0, now |-> 0]

\* A process starts with the settings an earlier one left.
TInit ==
    /\ revision = 0
    /\ token \in Bot \cup {NoBot} /\ bound \in User \cup {NoUser}
    /\ token = NoBot => bound = NoUser
    /\ code = 0 /\ pending = {} /\ session = NoBot /\ offset = 0 /\ job = Idle
    /\ updates = <<>> /\ forgotten = [b \in Bot |-> 0] /\ shown = {} /\ issued = {}
    /\ made = 0 /\ handled = {} /\ claimed = {} /\ start = 0 /\ crashes = 0

\* asyncio.Lock: nothing of the runtime is changed while a tick is under way.
Bug_Unlocked == TRUE
Unlocked == job.at = "idle"

Disconnected == session' = NoBot /\ offset' = 0

-----------------------------------------------------------------------------
(* The settings of the web page. A form carries the revision it was made   *)
(* from and is refused once that has passed, which changes nothing. No     *)
(* waiting button survives a change.                                       *)
Bug_Voided == code
Voided == 0

Changes ==
    /\ Unlocked
    /\ revision < MaxRevision
    /\ revision' = revision + 1
    /\ pending' = {}
    /\ UNCHANGED <<job, updates, forgotten, shown, made, history, crashes>>

\* Telegram has confirmed the identity of the bot before the lock is taken.
Replaces(b) ==
    /\ Changes
    /\ token' = b
    /\ bound' = IF b = token THEN bound ELSE NoUser
    /\ code' = Voided
    /\ Disconnected
    /\ UNCHANGED issued

Deletes ==
    /\ Changes
    /\ token' = NoBot /\ bound' = NoUser /\ code' = Voided
    /\ Disconnected
    /\ UNCHANGED issued

BeginsBinding ==
    /\ token # NoBot
    /\ Changes
    /\ bound' = NoUser
    /\ code' = revision + 1 /\ issued' = issued \cup {revision + 1}
    /\ UNCHANGED <<token, session, offset>>

Unbinds ==
    /\ Changes
    /\ bound' = NoUser /\ code' = Voided
    /\ UNCHANGED <<token, session, offset, issued>>

Web == (\E b \in Bot : Replaces(b)) \/ Deletes \/ BeginsBinding \/ Unbinds

-----------------------------------------------------------------------------
(* The other side: users write to a bot and press buttons of any keyboard  *)
(* they were ever shown; time passes. What is sent while a batch is worked *)
(* off shows at the next poll only: it is sent when the batch is done.     *)
Sends(u) ==
    /\ Len(updates) < MaxUpdates
    /\ job.at \in {"idle", "connect", "poll"}
    /\ updates' = Append(updates, u)
    /\ UNCHANGED <<config, memory, forgotten, shown, issued, made, history, crashes>>

Commands(user, b) ==
    Sends([button |-> <<0, 0>>, code |-> 0, bot |-> b, from |-> user, kind |-> "command"])
Binds(user, b, c) ==
    Sends([button |-> <<0, 0>>, code |-> c, bot |-> b, from |-> user, kind |-> "bind"])
Presses(k, i) ==
    Sends([button |-> <<k.keyboard, i>>, code |-> 0, bot |-> k.bot, from |-> k.user, kind |-> "press"])

Users == \/ \E user \in User, b \in Bot : Commands(user, b) \/ \E c \in issued : Binds(user, b, c)
         \/ \E k \in shown, i \in 1..2 : Presses(k, i)

\* The buttons of a keyboard are made together and expire together.
ButtonExpires ==
    /\ \E e \in pending : pending' = {f \in pending : f.button[1] # e.button[1]}
    /\ UNCHANGED <<config, code, session, offset, job, outside, made, history, crashes>>

CodeExpires ==
    /\ code # 0 /\ code' = 0
    /\ UNCHANGED <<config, pending, session, offset, job, outside, made, history, crashes>>

-----------------------------------------------------------------------------
(* A tick. *)
Continues(at) == job' = [job EXCEPT !.at = at]
Quiet == UNCHANGED <<config, code, shown, issued, updates, crashes>>

TickBegins ==
    /\ job.at = "idle"
    /\ token # NoBot
    /\ Continues(IF session = token THEN "poll" ELSE "connect")
    /\ IF session = token THEN UNCHANGED <<session, offset>> ELSE Disconnected
    /\ Quiet /\ UNCHANGED <<pending, forgotten, made, history>>

Mine(b) == {i \in DOMAIN updates : updates[i].bot = b /\ i > forgotten[b]}

\* get_updates(-1): the server forgets all but the last update, which is not
\* carried out either.
Bug_Skipped(b) == 0
Skipped(b) == IF Mine(b) = {} THEN 0 ELSE Max(Mine(b)) + 1

Dropped == IF Mine(token) = {} THEN forgotten
           ELSE [forgotten EXCEPT ![token] = Max(Mine(token)) - 1]

Connects ==
    /\ job.at = "connect"
    /\ session' = token
    /\ offset' = Skipped(token)
    /\ forgotten' = Dropped
    /\ start' = Len(updates)
    /\ Continues("poll")
    /\ Quiet /\ UNCHANGED <<pending, made, handled, claimed>>

\* get_updates(offset): forgets what is before the offset, returns the rest.
Polls ==
    /\ job.at = "poll"
    /\ forgotten' = IF offset = 0 THEN forgotten
                    ELSE [forgotten EXCEPT ![session] = Max({@, offset - 1})]
    /\ job' = [job EXCEPT !.at = "handle", !.batch = {i \in Mine(session) : i >= offset}]
    /\ Quiet /\ UNCHANGED <<pending, session, offset, made, history>>

Current == updates[job.now]

(* The offset moves past an update before anything is done about it. A     *)
(* press of anybody but the administrator is refused, and an error in that *)
(* ends the tick; who sent a message is looked at when it is carried out.  *)
First == Min(job.batch)
Rest == job.batch \ {First}

TakesNext ==
    /\ job.at = "handle" /\ job.batch # {}
    /\ offset' = First + 1
    /\ handled' = handled \cup {First}
    /\ Quiet /\ UNCHANGED <<pending, session, forgotten, made, claimed, start>>

Allowed(u) == u.kind # "press" \/ u.from = bound

Takes ==
    /\ TakesNext
    /\ LET u == updates[First]
       IN  /\ Allowed(u)
           /\ job' = [job EXCEPT !.batch = Rest, !.now = First, !.by = u.from,
                                 !.at = IF u.kind = "press" THEN "answer" ELSE "command"]

Refuses ==
    /\ TakesNext
    /\ ~Allowed(updates[First])
    /\ job' \in {[job EXCEPT !.batch = Rest], Idle}

\* An update is done with.
Done == job' = [Idle EXCEPT !.at = "handle", !.batch = job.batch]

Waiting(b) == {e \in pending : e.button = b}

\* The other buttons of a keyboard that was pressed.
Bug_Retired == {}
Retired == {e \in pending : e.button[1] = Current.button[1] /\ e.button # Current.button}

\* A press that Telegram does not acknowledge is dropped with its keyboard;
\* after an error of another kind the buttons wait on. To tell of it may fail too.
AnswerFails ==
    /\ job.at = "answer"
    /\ pending' \in {pending, pending \ (Retired \cup Waiting(Current.button))}
    /\ Done \/ job' = Idle
    /\ Quiet /\ UNCHANGED <<session, offset, forgotten, made, history>>

Answers ==
    /\ job.at = "answer"
    /\ pending' = pending \ Retired
    /\ Continues("press")
    /\ Quiet /\ UNCHANGED <<session, offset, forgotten, made, history>>

\* TelegramControl.pending.pop of the button pressed.
Bug_Popped == pending
Popped == pending \ Waiting(Current.button)

(* A worker thread takes the button out and compares its revision, then    *)
(* does what it stands for.                                                *)
Claims ==
    /\ job.at = "press"
    /\ pending' = Popped
    /\ LET valid == {e \in Waiting(Current.button) : e.rev = revision}
       IN  IF valid # {} /\ job.by = bound
           THEN /\ claimed' = claimed \cup {Current.button}
                /\ job' = [job EXCEPT !.at = "act", !.rev = revision]
           ELSE /\ job' = [job EXCEPT !.at = "reply", !.to = 0]
                /\ UNCHANGED claimed
    /\ Quiet /\ UNCHANGED <<session, offset, forgotten, made, handled, start>>

\* The answer has a keyboard, or it has none.
Menu ==
    /\ made < MaxKeyboards
    /\ made' = made + 1
    /\ pending' = pending \cup {[button |-> <<made + 1, i>>, rev |-> revision] : i \in 1..2}
    /\ job' = [job EXCEPT !.at = "reply", !.to = made + 1]

NoMenu ==
    /\ job' = [job EXCEPT !.at = "reply", !.to = 0]
    /\ UNCHANGED <<made, pending>>

Acts ==
    /\ job.at = "act"
    /\ Menu \/ NoMenu
    /\ Quiet /\ UNCHANGED <<session, offset, forgotten, history>>

RunsCommand ==
    /\ job.at = "command" /\ Current.kind = "command"
    /\ IF job.by = bound THEN Menu \/ NoMenu ELSE NoMenu
    /\ Quiet /\ UNCHANGED <<session, offset, forgotten, history>>

RunsBind ==
    /\ job.at = "command" /\ Current.kind = "bind"
    /\ IF code # 0 /\ Current.code = code /\ token # NoBot
       THEN revision' = revision + 1 /\ bound' = job.by /\ code' = 0
       ELSE UNCHANGED <<revision, bound, code>>
    /\ NoMenu
    /\ UNCHANGED <<token, shown, issued, updates, crashes, session, offset, forgotten, history>>

\* The reply is sent, perhaps twice with the same buttons; it may be lost, or
\* arrive although it seems lost.
Replies ==
    /\ job.at = "reply"
    /\ \/ job.to # 0 /\ shown' = shown \cup {[user |-> job.by, bot |-> session, keyboard |-> job.to]}
       \/ UNCHANGED shown
    /\ Done
    /\ UNCHANGED <<config, code, issued, updates, crashes>>
    /\ UNCHANGED <<pending, session, offset, forgotten, made, history>>

\* The batch is done: what the outbox holds is sent to the administrator, whose
\* chat is read once.
BatchEnds ==
    /\ job.at = "handle" /\ job.batch = {}
    /\ bound # NoUser
    /\ job' = [job EXCEPT !.at = "notices", !.by = bound, !.rev = revision]
    /\ Quiet /\ UNCHANGED <<pending, session, offset, forgotten, made, history>>

TickEnds ==
    /\ \/ job.at = "handle" /\ job.batch = {}
       \/ job.at = "notices"
    /\ job' = Idle
    /\ Quiet /\ UNCHANGED <<pending, session, offset, forgotten, made, history>>

\* A request fails, and with it the tick; the session goes on. The server may
\* have done what it was asked before its answer was lost.
TickFails ==
    /\ job.at \in {"connect", "poll", "reply", "notices"}
    /\ job' = Idle
    /\ \/ UNCHANGED forgotten
       \/ job.at = "connect" /\ forgotten' = Dropped
       \/ /\ job.at = "poll" /\ offset # 0
          /\ forgotten' = [forgotten EXCEPT ![session] = Max({@, offset - 1})]
    /\ Quiet /\ UNCHANGED <<pending, session, offset, made, history>>

\* Without the key of the token the session ends.
KeyFails ==
    /\ job.at = "idle" /\ token # NoBot /\ session # NoBot
    /\ Disconnected
    /\ Quiet /\ UNCHANGED <<pending, job, forgotten, made, history>>

Tick == \/ TickBegins \/ Connects \/ Polls \/ Takes \/ Refuses \/ AnswerFails \/ Answers
        \/ Claims \/ Acts \/ RunsCommand \/ RunsBind \/ Replies
        \/ BatchEnds \/ TickEnds \/ TickFails \/ KeyFails

Crashes ==
    /\ crashes < MaxCrashes
    /\ crashes' = crashes + 1
    /\ code' = 0 /\ pending' = {} /\ job' = Idle
    /\ Disconnected
    /\ UNCHANGED <<config, outside, made, history>>

TNext == Web \/ Users \/ ButtonExpires \/ CodeExpires \/ Tick \/ Crashes

TSpec == TInit /\ [][TNext]_vars

=============================================================================
