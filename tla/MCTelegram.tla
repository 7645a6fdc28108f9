----------------------------- MODULE MCTelegram -----------------------------
(* Instances of Telegram for TLC. *)
EXTENDS TelegramProperties, TLC

Symmetry == Permutations(User) \cup Permutations(Bot)

=============================================================================
