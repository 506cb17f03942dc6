------------------------------ MODULE Identity ------------------------------
(***************************************************************************)
(* Accounts and sign-in: the users table of the system store, the CAS      *)
(* login that maps an identity to a row of it and mints a session token,   *)
(* and what the admin routes do to the table meanwhile.  A login runs in a *)
(* thread, so its transactions interleave with those of other logins and   *)
(* of the admin routes.  What a token gives access to is the subject of    *)
(* CourseAccess.                                                           *)
(*                                                                         *)
(* A netid's e-mail does not change (EmailOf), but two may share one.  How *)
(* long a token lasts is left open: it expires some time after its mint.   *)
(***************************************************************************)

CONSTANTS Ids,          \* user ids: uuids
          NoUser,
          Identities,   \* CAS netids, the sso_subject of a users row
          NoSubject,    \* a row that is not bound yet
          Emails,       \* addresses, two that differ only in case being one
          EmailOf,      \* the e-mail CAS releases for each netid
          AdminEmail,   \* ADFEL_ADMIN_EMAIL
          LegacyEmail,  \* the first admin's e-mail when that was not set
          NewRoles,     \* the roles accounts are created with
          Logins        \* POST /auth/cas/validate requests

Roles == {"admin", "instructor", "student"}

ASSUME IdentityAssumption ==
  /\ NoUser \notin Ids
  /\ NoSubject \notin Identities
  /\ EmailOf \in [Identities -> Emails]
  /\ {AdminEmail, LegacyEmail} \subseteq Emails
  /\ NewRoles \subseteq Roles

VARIABLES users,   \* the rows of the users table
          used,    \* the ids given out so far
          tokens,  \* session tokens that have not expired
          login    \* the local variables of each login thread

vars == <<users, used, tokens, login>>

User == [id : Ids, email : Emails, role : Roles, subject : Identities \cup {NoSubject}]

\* The claims, and whom the token was minted for.
Token == [user : Ids, email : Emails, role : Roles, identity : Identities]

\* email: looked up next, bind: the row found has no subject, bootstrap: the
\* admin's row is about to be inserted, mint: the account is resolved.
LoginPoints == {"none", "subject", "email", "bind", "bootstrap", "mint", "refused"}

NoRow == [id |-> NoUser]

\* row is the users row a lookup returned; known is the account of the
\* identity's e-mail at the time the login began.
Login == [pc : LoginPoints, identity : Identities \cup {NoSubject},
          row : User \cup {NoRow}, known : Ids \cup {NoUser}]

NoLogin == [pc |-> "none", identity |-> NoSubject, row |-> NoRow, known |-> NoUser]

-----------------------------------------------------------------------------
(* The system store.  Mutant marks a planted defect. *)

OnFile(u) == \E row \in users : row.id = u

\* Mutant: a row that is not bound matches as well.
BySubjectMutant(s) == {row \in users : row.subject \in {s, NoSubject}}

\* Mutant: an identity whose token is still valid is resolved from it.
BySubjectCachedMutant(s) ==
  LET cached == {t \in tokens : t.identity = s} IN
  IF cached = {} THEN {row \in users : row.subject = s}
  ELSE {[id |-> t.user, email |-> t.email, role |-> t.role, subject |-> s] :
        t \in cached}

\* get_user_by_sso_subject; the column is UNIQUE.
BySubject(s) == {row \in users : row.subject = s}

\* Mutant: only a row that is not bound is found.
ByEmailMutant(e) == {row \in users : row.email = e /\ row.subject = NoSubject}

\* get_user_by_email; the column is UNIQUE.
ByEmail(e) == {row \in users : row.email = e}

\* The account on file for the e-mail of an identity, if any.
KnownAs(s) ==
  LET found == ByEmail(EmailOf[s]) IN
  IF found = {} THEN {NoUser} ELSE {row.id : row \in found}

Account(id, email, role, subject) ==
  [id |-> id, email |-> email, role |-> role, subject |-> subject]

\* What the schema demands of a new row of users.
UserFits(row) ==
  \A other \in users :
    /\ other.email # row.email
    /\ row.subject # NoSubject => other.subject # row.subject

-----------------------------------------------------------------------------

\* _ensure_admin has run.
Init ==
  \E u \in Ids, e \in {AdminEmail, LegacyEmail} :
    /\ users  = {Account(u, e, "admin", NoSubject)}
    /\ used   = {u}
    /\ tokens = {}
    /\ login  = [l \in Logins |-> NoLogin]

(* The login: validate_cas and its _do in a thread. *)

\* CAS accepts the ticket.
ValidateTicket(l, s) ==
  /\ login[l].pc \in {"none", "refused"}
  /\ \E known \in KnownAs(s) :
       login' = [login EXCEPT ![l] = [NoLogin EXCEPT !.pc = "subject",
                                                     !.identity = s,
                                                     !.known = known]]
  /\ UNCHANGED <<users, used, tokens>>

\* resolve_or_create_user: exact match by sso_subject.
LookUpSubject(l) ==
  LET found == BySubject(login[l].identity) IN
  /\ login[l].pc = "subject"
  /\ \/ \E row \in found :
          login' = [login EXCEPT ![l].pc = "mint", ![l].row = row]
     \/ found = {} /\ login' = [login EXCEPT ![l].pc = "email"]
  /\ UNCHANGED <<users, used, tokens>>

\* By e-mail; without a row the configured admin is made, anyone else refused.
LookUpEmail(l) ==
  LET email == EmailOf[login[l].identity]
      found == ByEmail(email)
  IN
  /\ login[l].pc = "email"
  /\ \/ \E row \in found :
          login' = [login EXCEPT
                     ![l].pc = IF row.subject = NoSubject THEN "bind" ELSE "mint",
                     ![l].row = row]
     \/ /\ found = {}
        /\ login' = [login EXCEPT
                      ![l].pc = IF email = AdminEmail THEN "bootstrap"
                                ELSE "refused"]
  /\ UNCHANGED <<users, used, tokens>>

\* update_user_sso_subject, on a row that may be bound or gone by now.
BindSubject(l) ==
  LET id == login[l].row.id
      Bound(row) == IF row.id = id THEN [row EXCEPT !.subject = login[l].identity]
                    ELSE row
  IN
  /\ login[l].pc = "bind"
  /\ users' = {Bound(row) : row \in users}
  /\ login' = [login EXCEPT ![l].pc = "mint"]
  /\ UNCHANGED <<used, tokens>>

\* insert_user of the admin; LoginFails when the row does not fit any more.
BootstrapAdmin(l, u) ==
  LET row == Account(u, EmailOf[login[l].identity], "admin", login[l].identity) IN
  /\ login[l].pc = "bootstrap"
  /\ u \notin used
  /\ UserFits(row)
  /\ users' = users \cup {row}
  /\ used' = used \cup {u}
  /\ login' = [login EXCEPT ![l].pc = "mint", ![l].row = row]
  /\ UNCHANGED tokens

\* mint_session_jwt, from the row as it was read.
MintToken(l) ==
  LET row == login[l].row IN
  /\ login[l].pc = "mint"
  /\ tokens' = tokens \cup {[user |-> row.id, email |-> row.email, role |-> row.role,
                             identity |-> login[l].identity]}
  /\ login' = [login EXCEPT ![l] = NoLogin]
  /\ UNCHANGED <<users, used>>

\* A transaction raises, for the UNIQUE columns or otherwise.
LoginFails(l) ==
  /\ login[l].pc \notin {"none", "refused"}
  /\ login' = [login EXCEPT ![l] = NoLogin]
  /\ UNCHANGED <<users, used, tokens>>

\* verify_session_jwt rejects the token from now on.
TokenExpires(t) ==
  /\ t \in tokens
  /\ tokens' = tokens \ {t}
  /\ UNCHANGED <<users, used, login>>

(* The admin routes, as far as they change the users table. *)

\* insert_user of create_user, or of enroll_student for a placeholder.
InsertUser(u, email, role) ==
  LET row == Account(u, email, role, NoSubject) IN
  /\ u \notin used
  /\ UserFits(row)
  /\ users' = users \cup {row}
  /\ used' = used \cup {u}
  /\ UNCHANGED <<tokens, login>>

\* delete_user, unless the user is the instructor of a course.
DeleteUser(u) ==
  /\ OnFile(u)
  /\ users' = {row \in users : row.id # u}
  /\ UNCHANGED <<used, tokens, login>>

-----------------------------------------------------------------------------

\* What a login thread does by itself once it has begun.
Resolve(l) ==
  \/ LookUpSubject(l)
  \/ LookUpEmail(l)
  \/ BindSubject(l)
  \/ \E u \in Ids : BootstrapAdmin(l, u)
  \/ MintToken(l)
  \/ LoginFails(l)

Next ==
  \/ \E l \in Logins :
       \/ \E s \in Identities : ValidateTicket(l, s)
       \/ Resolve(l)
  \/ \E t \in tokens : TokenExpires(t)
  \/ \E u \in Ids :
       \/ \E e \in Emails, role \in NewRoles : InsertUser(u, e, role)
       \/ DeleteUser(u)

\* A login thread runs to its end, and the tokens of an account expire.
Fairness ==
  /\ \A l \in Logins : WF_vars(Resolve(l))
  /\ \A u \in Ids : WF_vars(\E t \in tokens : t.user = u /\ TokenExpires(t))

Spec == Init /\ [][Next]_vars /\ Fairness

-----------------------------------------------------------------------------

TypeOK ==
  /\ users \subseteq User
  /\ used \subseteq Ids
  /\ tokens \subseteq Token
  /\ login \in [Logins -> Login]

\* Whoever signs in gets the account of the e-mail CAS has vouched for, by the
\* subject or by the e-mail, whatever was bound, deleted or enrolled meanwhile,
\* and with the role that account was given (auth.py:196-212).
TokensTruthful ==
  \A t \in tokens :
    /\ t.email = EmailOf[t.identity]
    /\ \A row \in users : row.id = t.user => row.email = t.email /\ row.role = t.role

\* "No account found for this email" (auth.py:229) is only said to someone whose
\* account was not on file all the while the login ran: an account that another
\* login binds between the two lookups is still found.
EnrolledAdmitted ==
  \A l \in Logins : login[l].pc = "refused" => ~OnFile(login[l].known)

\* Deleting an account takes effect: when no more accounts are deleted, in the
\* end every valid token names an account on file, those minted by logins that
\* had read the account before it was deleted included (auth.py:68-73).
RevocationCompletes == <>[](\A t \in tokens : OnFile(t.user))

=============================================================================
