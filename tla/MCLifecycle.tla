---------------------------- MODULE MCLifecycle ----------------------------
(***************************************************************************)
(* SessionLifecycle on two session ids: the two create requests a chat     *)
(* makes when a message arrives before its start is answered, or one for   *)
(* each of two chats.                                                      *)
(***************************************************************************)
EXTENDS SessionLifecycle

=============================================================================
