---------------------------- MODULE MCConversations ----------------------------
(* A chat for TLC; its assumption is evaluated with the instance of MCIntake. *)
EXTENDS Conversations
================================================================================
