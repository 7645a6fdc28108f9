------------------------- MODULE TelegramProperties -------------------------
(* What the administrator may rely on when a chat can change the system. *)
EXTENDS Telegram

(* No action is begun for a button if one was begun before for any button  *)
(* of its keyboard, the same one or another: whatever was pressed twice,   *)
(* redelivered, sent twice or left in the chat by a failed edit            *)
(* (telegram_runtime.py _retire_keyboard: "other handles in the superseded *)
(* keyboard must not remain actionable").                                  *)
ActsOnce ==
    [][job.at # "act" /\ job'.at = "act" => \A b \in claimed : b[1] # Current.button[1]]_vars

(* An update is handled once at most, and only in the polling session in   *)
(* which it was sent: the offset is in memory, and an update stays with    *)
(* the server until a later poll acknowledges it ("Drop queued commands on *)
(* every new polling session", telegram_runtime.py tick).                  *)
HandledOnce ==
    [][Takes \/ Refuses => First \notin handled /\ First > start]_vars

(* From the check of a press to its action and from the reading of the     *)
(* chat to the last notice, settings and binding do not change: nothing is *)
(* done for, and nothing told to, anybody but the administrator.           *)
ActsForAdmin ==
    /\ job.at \in {"act", "notices"} => job.by = bound /\ job.rev = revision
    /\ job.at = "reply" /\ job.to # 0 => job.by = bound

(* A binding code binds only as long as the settings are those of the      *)
(* moment it was issued: a later change of any kind makes it worthless.    *)
CodeCurrent ==
    [][bound' \notin {bound, NoUser} => Current.code = revision]_vars

=============================================================================
