-------------------------- MODULE MCTelegramWebhook --------------------------
(* Instances of TelegramWebhook for TLC. *)
EXTENDS TelegramWebhook
=============================================================================
