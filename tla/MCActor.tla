------------------------------- MODULE MCActor -------------------------------
(***************************************************************************)
(* Actor for TLC: two callers, two actors, mailboxes of two messages.      *)
(***************************************************************************)
EXTENDS Actor
=============================================================================
