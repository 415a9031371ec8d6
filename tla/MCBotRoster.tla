---------------------------- MODULE MCBotRoster ----------------------------
(* BotRoster on small instances. *)
EXTENDS BotRoster
============================================================================
