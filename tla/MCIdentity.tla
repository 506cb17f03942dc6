----------------------------- MODULE MCIdentity -----------------------------
(***************************************************************************)
(* Identity with the configured admin and one other person, two logins at  *)
(* a time, and three user ids: an account can be deleted and made again.   *)
(***************************************************************************)
EXTENDS Identity, TLC

CONSTANTS admin, ann,       \* netids
          adminMail, mail

MCEmailOf == (admin :> adminMail) @@ (ann :> mail)

=============================================================================
