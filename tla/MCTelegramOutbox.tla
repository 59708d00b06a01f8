-------------------------- MODULE MCTelegramOutbox --------------------------
(* Instances of TelegramOutbox for TLC: every constant is set in the .cfg.   *)
EXTENDS TelegramOutbox
=============================================================================
