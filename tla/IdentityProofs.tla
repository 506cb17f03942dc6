--------------------------- MODULE IdentityProofs ---------------------------
(***************************************************************************)
(* What holds of Identity for any number of accounts, identities and       *)
(* logins, whichever identities share an e-mail and however logins and     *)
(* admin routes interleave.  The inductive invariant adds to the two       *)
(* properties that a bound row has the e-mail of its subject, and that the *)
(* copy of a row a login holds agrees with the row as long as it is there. *)
(***************************************************************************)
EXTENDS Identity, TLAPS

\* A row that is on file has an id that was given out, and no other row has its
\* id or its e-mail; the subject it is bound to has its e-mail.
RowsSound ==
  /\ \A row \in users : row.id \in used
  /\ \A row, other \in users :
       row.id = other.id \/ row.email = other.email => row = other
  /\ \A row \in users : row.subject # NoSubject => row.email = EmailOf[row.subject]

\* The claims a token or a login has for an identity are those of the account.
Agrees(id, email, role, identity) ==
  /\ id \in used
  /\ email = EmailOf[identity]
  /\ \A row \in users : row.id = id => row.email = email /\ row.role = role

TokensSound == \A t \in tokens : Agrees(t.user, t.email, t.role, t.identity)

\* The account known from the start of a login, if still on file, has the
\* e-mail of its identity.
KnownSound(st) ==
  /\ st.known # NoUser => st.known \in used
  /\ \A row \in users : row.id = st.known => row.email = EmailOf[st.identity]

\* A row is held only between its lookup and the mint.
LoginSound(st) ==
  /\ st.pc \notin {"none", "refused"} => st.identity \in Identities
  /\ st.pc \in {"bind", "mint"} =>
       /\ st.row \in User
       /\ Agrees(st.row.id, st.row.email, st.row.role, st.identity)
  /\ st.identity \in Identities => KnownSound(st)
  /\ st.pc = "refused" => st.identity \in Identities /\ ~OnFile(st.known)

LoginsSound == \A l \in Logins : LoginSound(login[l])

IdentityInv ==
  /\ TypeOK
  /\ RowsSound
  /\ TokensSound
  /\ LoginsSound

\* The UNIQUE column holds: no identity is bound to two accounts, not even by
\* two logins that both looked it up before either bound it (auth.py:188-212).
SubjectsUnique ==
  \A row, other \in users :
    row.subject = other.subject /\ row.subject # NoSubject => row = other

-----------------------------------------------------------------------------

\* Every row is a row from before, bound perhaps, or has a new id.
RowsDescend ==
  /\ used \subseteq used'
  /\ \A row \in users' :
       \/ row.id \notin used
       \/ \E old \in users : /\ old.id = row.id
                             /\ old.email = row.email
                             /\ old.role = row.role

\* What is known of a row before such a step is known of it after it.
LEMMA AgreesStable ==
  ASSUME RowsDescend, NEW id, NEW email, NEW role, NEW identity,
         Agrees(id, email, role, identity)
  PROVE  Agrees(id, email, role, identity)'
BY DEF RowsDescend, Agrees

LEMMA LoginStable ==
  ASSUME TypeOK, TypeOK', RowsDescend, NEW st \in Login, LoginSound(st)
  PROVE  LoginSound(st)'
<1>1. NoUser \notin Ids /\ NoSubject \notin Identities
  BY IdentityAssumption
<1>2. \A row \in users \cup users' : row.id \in Ids
  BY DEF TypeOK, User
<1>3. st.pc \in {"bind", "mint"} =>
        Agrees(st.row.id, st.row.email, st.row.role, st.identity)'
  BY DEF LoginSound, Agrees, RowsDescend
<1>4. st.identity \in Identities => KnownSound(st)'
  BY <1>1, <1>2 DEF LoginSound, KnownSound, RowsDescend
<1>5. st.pc = "refused" => st.identity \in Identities /\ ~OnFile(st.known)'
  BY <1>1, <1>2 DEF LoginSound, KnownSound, OnFile, RowsDescend
<1>6. QED
  BY <1>3, <1>4, <1>5 DEF LoginSound

\* What is left to show of a step: its types, its rows, and the token or the
\* login it has changed.
LEMMA InvKept ==
  ASSUME IdentityInv, TypeOK', RowsSound', RowsDescend,
         \A t \in tokens' : t \in tokens \/ Agrees(t.user, t.email, t.role, t.identity)',
         \A l \in Logins : login'[l] = login[l] \/ LoginSound(login[l])'
  PROVE  IdentityInv'
<1>1. TokensSound'
  BY AgreesStable DEF IdentityInv, TokensSound, Agrees, RowsDescend
<1>2. ASSUME NEW l \in Logins
      PROVE  LoginSound(login[l])'
  <2>1. CASE login'[l] = login[l]
    <3>1. PICK st \in Login : st = login[l] /\ LoginSound(st)
      BY DEF IdentityInv, LoginsSound, TypeOK
    <3>2. LoginSound(st)'
      BY <3>1, LoginStable DEF IdentityInv
    <3>3. st = login'[l]
      BY <2>1, <3>1
    <3>4. QED
      BY <3>2, <3>3 DEF LoginSound, Agrees, KnownSound, OnFile
  <2>2. QED
    BY <2>1
<1>3. QED
  BY <1>1, <1>2 DEF IdentityInv, LoginsSound

\* A step that changes no row and no token, and moves one login on to st.
LEMMA LoginOnlyStep ==
  ASSUME IdentityInv, NEW l \in Logins, NEW st \in Login, LoginSound(st),
         login' = [login EXCEPT ![l] = st],
         UNCHANGED <<users, used, tokens>>
  PROVE  IdentityInv'
<1>1. login'[l] = st /\ \A k \in Logins : k # l => login'[k] = login[k]
  BY DEF IdentityInv, TypeOK
<1>2. TypeOK'
  BY DEF IdentityInv, TypeOK
<1>3. RowsSound' /\ RowsDescend
  BY DEF IdentityInv, RowsSound, RowsDescend, TypeOK
<1>4. LoginSound(login[l])'
  BY <1>1 DEF LoginSound, Agrees, KnownSound, OnFile
<1>5. \A k \in Logins : login'[k] = login[k] \/ LoginSound(login[k])'
  BY <1>1, <1>4
<1>6. QED
  BY <1>2, <1>3, <1>5, InvKept

-----------------------------------------------------------------------------

LEMMA InitEstablishesInv == Init => IdentityInv
<1> SUFFICES ASSUME Init PROVE IdentityInv
  OBVIOUS
<1>1. PICK u \in Ids, e \in {AdminEmail, LegacyEmail} :
        /\ users  = {Account(u, e, "admin", NoSubject)}
        /\ used   = {u}
        /\ tokens = {}
        /\ login  = [l \in Logins |-> NoLogin]
  BY DEF Init
<1>2. e \in Emails
  BY IdentityAssumption
<1>3. TypeOK
  <2>1. Account(u, e, "admin", NoSubject) \in User
    BY <1>2 DEF Account, User, Roles
  <2>2. NoLogin \in Login
    BY DEF NoLogin, Login, LoginPoints
  <2>3. QED
    BY <1>1, <2>1, <2>2 DEF TypeOK
<1>4. RowsSound
  BY <1>1 DEF RowsSound, Account
<1>5. TokensSound
  BY <1>1 DEF TokensSound
<1>6. LoginsSound
  BY <1>1, IdentityAssumption DEF LoginsSound, LoginSound, NoLogin
<1>7. QED
  BY <1>3, <1>4, <1>5, <1>6 DEF IdentityInv

LEMMA NoLoginSound == NoLogin \in Login /\ LoginSound(NoLogin)
BY IdentityAssumption DEF NoLogin, Login, LoginPoints, LoginSound

\* What the lookups return.
LEMMA RowFound ==
  ASSUME IdentityInv, NEW s \in Identities, NEW row \in users,
         row.subject = s \/ row.email = EmailOf[s]
  PROVE  row \in User /\ Agrees(row.id, row.email, row.role, s)
<1>1. row \in User /\ NoSubject \notin Identities
  BY IdentityAssumption DEF IdentityInv, TypeOK
<1>2. row.email = EmailOf[s]
  BY <1>1 DEF IdentityInv, RowsSound
<1>3. QED
  BY <1>1, <1>2 DEF IdentityInv, RowsSound, Agrees

LEMMA ValidateTicketKeepsInv ==
  ASSUME IdentityInv, NEW l \in Logins, NEW s \in Identities, ValidateTicket(l, s)
  PROVE  IdentityInv'
<1>1. PICK known \in KnownAs(s) :
        login' = [login EXCEPT ![l] = [NoLogin EXCEPT !.pc = "subject",
                                                      !.identity = s,
                                                      !.known = known]]
  BY DEF ValidateTicket
<1> DEFINE st == [NoLogin EXCEPT !.pc = "subject", !.identity = s, !.known = known]
<1>2. \A row \in users : row \in User /\ row.id \in Ids
  BY DEF IdentityInv, TypeOK, User
<1>3. \/ known = NoUser
      \/ \E row \in users : row.id = known /\ row.email = EmailOf[s]
  BY <1>1 DEF KnownAs, ByEmail
<1>4. known \in Ids \cup {NoUser}
  BY <1>2, <1>3
<1>5. st \in Login /\ st.pc = "subject" /\ st.identity = s /\ st.known = known
  BY <1>4 DEF NoLogin, Login, LoginPoints
<1>6. KnownSound(st)
  <2> HIDE DEF st
  <2>1. NoUser \notin Ids
    BY IdentityAssumption
  <2>2. QED
    BY <1>2, <1>3, <1>5, <2>1 DEF KnownSound, IdentityInv, RowsSound
<1>7. LoginSound(st)
  <2> HIDE DEF st
  <2>1. QED
    BY <1>5, <1>6 DEF LoginSound
<1>8. login' = [login EXCEPT ![l] = st] /\ UNCHANGED <<users, used, tokens>>
  BY <1>1 DEF ValidateTicket
<1>9. QED
  <2> HIDE DEF st
  <2>1. QED
    BY <1>5, <1>7, <1>8, LoginOnlyStep

\* A login moved on to pc, with the row of the lookup; what is known of it stays.
LEMMA MoveOn ==
  ASSUME IdentityInv, NEW l \in Logins, NEW pc \in LoginPoints, NEW row,
         UNCHANGED <<users, used, tokens>>,
         login' = [login EXCEPT ![l].pc = pc, ![l].row = row],
         login[l].identity \in Identities,
         pc \notin {"none", "refused"},
         row \in User \cup {NoRow},
         pc \in {"bind", "mint"} =>
           /\ row \in User
           /\ Agrees(row.id, row.email, row.role, login[l].identity)
  PROVE  IdentityInv'
<1>1. PICK old \in Login : old = login[l] /\ LoginSound(old)
  BY DEF IdentityInv, TypeOK, LoginsSound
<1> DEFINE st == [old EXCEPT !.pc = pc, !.row = row]
<1>2. st \in Login /\ st.pc = pc /\ st.identity = old.identity
        /\ st.row = row /\ st.known = old.known
  BY DEF Login
<1>3. login' = [login EXCEPT ![l] = st]
  BY <1>1 DEF IdentityInv, TypeOK
<1>4. LoginSound(st)
  <2> HIDE DEF st
  <2>1. QED
    BY <1>1, <1>2 DEF LoginSound, KnownSound
<1>5. QED
  <2> HIDE DEF st
  <2>1. QED
    BY <1>2, <1>3, <1>4, LoginOnlyStep

LEMMA LookUpSubjectKeepsInv ==
  ASSUME IdentityInv, NEW l \in Logins, LookUpSubject(l)
  PROVE  IdentityInv'
<1>1. PICK old \in Login : old = login[l] /\ LoginSound(old)
  BY DEF IdentityInv, TypeOK, LoginsSound
<1>2. old.pc = "subject" /\ old.identity \in Identities
  BY <1>1 DEF LookUpSubject, LoginSound
<1>3. CASE \E row \in BySubject(old.identity) :
             login' = [login EXCEPT ![l].pc = "mint", ![l].row = row]
  <2>1. PICK row \in users :
          /\ row.subject = old.identity
          /\ login' = [login EXCEPT ![l].pc = "mint", ![l].row = row]
    BY <1>3 DEF BySubject
  <2>2. row \in User /\ Agrees(row.id, row.email, row.role, old.identity)
    BY <1>2, <2>1, RowFound
  <2>3. "mint" \in LoginPoints
    BY DEF LoginPoints
  <2>4. QED
    BY <1>1, <1>2, <2>1, <2>2, <2>3, MoveOn DEF LookUpSubject
<1>4. CASE login' = [login EXCEPT ![l].pc = "email"]
  <2>1. login' = [login EXCEPT ![l].pc = "email", ![l].row = old.row]
    BY <1>1, <1>4 DEF IdentityInv, TypeOK, Login
  <2>2. old.row \in User \cup {NoRow} /\ "email" \in LoginPoints
    BY DEF Login, LoginPoints
  <2>3. QED
    BY <1>1, <1>2, <2>1, <2>2, MoveOn DEF LookUpSubject
<1>5. QED
  BY <1>1, <1>3, <1>4 DEF LookUpSubject

LEMMA LookUpEmailKeepsInv ==
  ASSUME IdentityInv, NEW l \in Logins, LookUpEmail(l)
  PROVE  IdentityInv'
<1>1. PICK old \in Login : old = login[l] /\ LoginSound(old)
  BY DEF IdentityInv, TypeOK, LoginsSound
<1>2. old.pc = "email" /\ old.identity \in Identities
  BY <1>1 DEF LookUpEmail, LoginSound
<1>3. UNCHANGED <<users, used, tokens>>
  BY DEF LookUpEmail
<1> DEFINE email == EmailOf[old.identity]
<1>4. CASE \E row \in ByEmail(email) :
             login' = [login EXCEPT
                        ![l].pc = IF row.subject = NoSubject THEN "bind" ELSE "mint",
                        ![l].row = row]
  <2>1. PICK row \in users :
          /\ row.email = email
          /\ login' = [login EXCEPT
                        ![l].pc = IF row.subject = NoSubject THEN "bind" ELSE "mint",
                        ![l].row = row]
    BY <1>4 DEF ByEmail
  <2>2. row \in User /\ Agrees(row.id, row.email, row.role, old.identity)
    BY <1>2, <2>1, RowFound
  <2> DEFINE pc == IF row.subject = NoSubject THEN "bind" ELSE "mint"
  <2>3. pc \in LoginPoints /\ pc \notin {"none", "refused"}
    BY DEF LoginPoints
  <2>4. login' = [login EXCEPT ![l].pc = pc, ![l].row = row]
    BY <2>1
  <2> HIDE DEF pc
  <2>5. QED
    BY <1>1, <1>2, <1>3, <2>2, <2>3, <2>4, MoveOn
<1>5. CASE ByEmail(email) = {} /\ email = AdminEmail
             /\ login' = [login EXCEPT ![l].pc = "bootstrap"]
  <2>1. login' = [login EXCEPT ![l].pc = "bootstrap", ![l].row = old.row]
    BY <1>1, <1>5 DEF IdentityInv, TypeOK, Login
  <2>2. old.row \in User \cup {NoRow} /\ "bootstrap" \in LoginPoints
    BY DEF Login, LoginPoints
  <2>3. QED
    BY <1>1, <1>2, <1>3, <2>1, <2>2, MoveOn
<1>6. CASE ByEmail(email) = {}
             /\ login' = [login EXCEPT ![l].pc = "refused"]
  <2> DEFINE st == [old EXCEPT !.pc = "refused"]
  <2>1. st \in Login /\ st.pc = "refused" /\ st.identity = old.identity
          /\ st.known = old.known
    BY DEF Login, LoginPoints
  <2>2. login' = [login EXCEPT ![l] = st]
    BY <1>1, <1>6 DEF IdentityInv, TypeOK
  <2>3. ~OnFile(old.known)
    BY <1>1, <1>2, <1>6 DEF LoginSound, KnownSound, OnFile, ByEmail
  <2>4. LoginSound(st)
    <3> HIDE DEF st
    <3>1. QED
      BY <1>1, <1>2, <2>1, <2>3 DEF LoginSound, KnownSound
  <2> HIDE DEF st
  <2>5. QED
    BY <1>3, <2>1, <2>2, <2>4, LoginOnlyStep
<1>7. QED
  BY <1>1, <1>4, <1>5, <1>6 DEF LookUpEmail

\* The rows before a bind and after it are the same but for the subject.
LEMMA BindSubjectKeepsInv ==
  ASSUME IdentityInv, NEW l \in Logins, BindSubject(l)
  PROVE  IdentityInv'
<1>1. PICK old \in Login : old = login[l] /\ LoginSound(old)
  BY DEF IdentityInv, TypeOK, LoginsSound
<1>2. /\ old.pc = "bind" /\ old.identity \in Identities /\ old.row \in User
      /\ Agrees(old.row.id, old.row.email, old.row.role, old.identity)
  BY <1>1 DEF BindSubject, LoginSound
<1> DEFINE id == old.row.id
           Bound(row) == IF row.id = id THEN [row EXCEPT !.subject = old.identity]
                         ELSE row
           st == [old EXCEPT !.pc = "mint"]
<1>3. /\ users' = {Bound(row) : row \in users}
      /\ login' = [login EXCEPT ![l] = st]
      /\ UNCHANGED <<used, tokens>>
  BY <1>1 DEF BindSubject, IdentityInv, TypeOK
<1>4. \A row \in users : /\ Bound(row) \in User
                         /\ Bound(row).id = row.id
                         /\ Bound(row).email = row.email
                         /\ Bound(row).role = row.role
                         /\ Bound(row).subject = IF row.id = id THEN old.identity
                                                 ELSE row.subject
  BY <1>2 DEF IdentityInv, TypeOK, User
<1>5. /\ st \in Login /\ st.pc = "mint" /\ st.identity = old.identity
      /\ st.row = old.row /\ st.known = old.known
  BY DEF Login, LoginPoints
<1>6. login'[l] = st /\ \A k \in Logins : k # l => login'[k] = login[k]
  BY <1>3 DEF IdentityInv, TypeOK
<1> HIDE DEF Bound, st
<1>7. TypeOK'
  BY <1>3, <1>4, <1>5 DEF IdentityInv, TypeOK
<1>8. RowsDescend
  BY <1>3, <1>4 DEF RowsDescend
<1>9. RowsSound'
  <2>1. \A row \in users' : row.id \in used'
    BY <1>3, <1>4 DEF IdentityInv, RowsSound
  <2>2. \A row, other \in users' :
          row.id = other.id \/ row.email = other.email => row = other
    BY <1>3, <1>4 DEF IdentityInv, RowsSound
  <2>3. \A row \in users' :
          row.subject # NoSubject => row.email = EmailOf[row.subject]
    BY <1>2, <1>3, <1>4 DEF IdentityInv, RowsSound, Agrees
  <2>4. QED
    BY <2>1, <2>2, <2>3 DEF RowsSound
<1>10. LoginSound(st)
  BY <1>1, <1>2, <1>5 DEF LoginSound, KnownSound
<1>11. LoginSound(login[l])'
  <2>1. LoginSound(st)'
    BY <1>5, <1>7, <1>8, <1>10, LoginStable DEF IdentityInv
  <2>2. QED
    BY <1>6, <2>1 DEF LoginSound, Agrees, KnownSound, OnFile
<1>12. QED
  BY <1>3, <1>6, <1>7, <1>8, <1>9, <1>11, InvKept

\* A new row, with an id that was never given out and an e-mail that is free.
LEMMA NewRow ==
  ASSUME IdentityInv, NEW row \in User, row.id \notin used, UserFits(row),
         row.subject # NoSubject => row.email = EmailOf[row.subject],
         users' = users \cup {row}, used' = used \cup {row.id}
  PROVE  RowsSound' /\ RowsDescend
<1>1. RowsDescend
  BY DEF RowsDescend
<1>2. RowsSound'
  BY DEF IdentityInv, RowsSound, UserFits
<1>3. QED
  BY <1>1, <1>2

LEMMA BootstrapAdminKeepsInv ==
  ASSUME IdentityInv, NEW l \in Logins, NEW u \in Ids, BootstrapAdmin(l, u)
  PROVE  IdentityInv'
<1>1. PICK old \in Login : old = login[l] /\ LoginSound(old)
  BY DEF IdentityInv, TypeOK, LoginsSound
<1>2. old.pc = "bootstrap" /\ old.identity \in Identities /\ KnownSound(old)
  BY <1>1 DEF BootstrapAdmin, LoginSound
<1> DEFINE row == Account(u, EmailOf[old.identity], "admin", old.identity)
           st  == [old EXCEPT !.pc = "mint", !.row = row]
<1>3. /\ u \notin used /\ UserFits(row)
      /\ users' = users \cup {row} /\ used' = used \cup {u}
      /\ login' = [login EXCEPT ![l] = st]
      /\ UNCHANGED tokens
  BY <1>1 DEF BootstrapAdmin, IdentityInv, TypeOK
<1>4. /\ row \in User /\ row.id = u /\ row.email = EmailOf[old.identity]
      /\ row.role = "admin" /\ row.subject = old.identity
  BY <1>2, IdentityAssumption DEF Account, User, Roles
<1> HIDE DEF row
<1>5. /\ st \in Login /\ st.pc = "mint" /\ st.identity = old.identity
      /\ st.row = row /\ st.known = old.known
  BY <1>4 DEF Login, LoginPoints
<1> HIDE DEF st
<1>6. login'[l] = st /\ \A k \in Logins : k # l => login'[k] = login[k]
  BY <1>3 DEF IdentityInv, TypeOK
<1>7. TypeOK'
  BY <1>3, <1>4, <1>5 DEF IdentityInv, TypeOK
<1>8. RowsSound' /\ RowsDescend
  BY <1>3, <1>4, NewRow
<1>9. \A other \in users' : other.id = u => other = row
  BY <1>3, <1>4 DEF IdentityInv, RowsSound
<1>10. KnownSound(old)'
  <2>1. NoUser \notin Ids
    BY IdentityAssumption
  <2>2. QED
    BY <1>2, <1>3, <1>4, <2>1 DEF KnownSound
<1>11. LoginSound(login[l])'
  BY <1>2, <1>3, <1>4, <1>5, <1>6, <1>9, <1>10 DEF LoginSound, Agrees, KnownSound
<1>12. QED
  BY <1>3, <1>6, <1>7, <1>8, <1>11, InvKept

LEMMA MintTokenKeepsInv ==
  ASSUME IdentityInv, NEW l \in Logins, MintToken(l)
  PROVE  IdentityInv'
<1>1. PICK old \in Login : old = login[l] /\ LoginSound(old)
  BY DEF IdentityInv, TypeOK, LoginsSound
<1>2. /\ old.pc = "mint" /\ old.identity \in Identities /\ old.row \in User
      /\ Agrees(old.row.id, old.row.email, old.row.role, old.identity)
  BY <1>1 DEF MintToken, LoginSound
<1> DEFINE t == [user |-> old.row.id, email |-> old.row.email,
                 role |-> old.row.role, identity |-> old.identity]
<1>3. /\ tokens' = tokens \cup {t}
      /\ login' = [login EXCEPT ![l] = NoLogin]
      /\ UNCHANGED <<users, used>>
  BY <1>1 DEF MintToken
<1>4. t \in Token
  BY <1>2 DEF Token, User
<1>5. TypeOK'
  BY <1>3, <1>4, NoLoginSound DEF IdentityInv, TypeOK
<1>6. RowsSound' /\ RowsDescend
  BY <1>3 DEF IdentityInv, RowsSound, RowsDescend
<1>7. \A s \in tokens' : s \in tokens \/ Agrees(s.user, s.email, s.role, s.identity)'
  BY <1>2, <1>3 DEF Agrees
<1>8. login'[l] = NoLogin /\ \A k \in Logins : k # l => login'[k] = login[k]
  BY <1>3 DEF IdentityInv, TypeOK
<1>9. LoginSound(login[l])'
  BY <1>3, <1>8, NoLoginSound DEF LoginSound, Agrees, KnownSound, OnFile
<1>10. QED
  BY <1>5, <1>6, <1>7, <1>8, <1>9, InvKept

LEMMA LoginFailsKeepsInv ==
  ASSUME IdentityInv, NEW l \in Logins, LoginFails(l)
  PROVE  IdentityInv'
BY NoLoginSound, LoginOnlyStep DEF LoginFails

LEMMA TokenExpiresKeepsInv ==
  ASSUME IdentityInv, NEW t \in tokens, TokenExpires(t)
  PROVE  IdentityInv'
<1>1. tokens' \subseteq tokens /\ UNCHANGED <<users, used, login>>
  BY DEF TokenExpires
<1>2. TypeOK' /\ RowsSound' /\ RowsDescend
  BY <1>1 DEF IdentityInv, TypeOK, RowsSound, RowsDescend
<1>3. QED
  BY <1>1, <1>2, InvKept

LEMMA InsertUserKeepsInv ==
  ASSUME IdentityInv, NEW u \in Ids, NEW e \in Emails, NEW role \in NewRoles,
         InsertUser(u, e, role)
  PROVE  IdentityInv'
<1> DEFINE row == Account(u, e, role, NoSubject)
<1>1. /\ u \notin used /\ UserFits(row)
      /\ users' = users \cup {row} /\ used' = used \cup {u}
      /\ UNCHANGED <<tokens, login>>
  BY DEF InsertUser
<1>2. row \in User /\ row.id = u /\ row.subject = NoSubject
  BY IdentityAssumption DEF Account, User
<1> HIDE DEF row
<1>3. TypeOK'
  BY <1>1, <1>2 DEF IdentityInv, TypeOK
<1>4. RowsSound' /\ RowsDescend
  BY <1>1, <1>2, NewRow
<1>5. QED
  BY <1>1, <1>3, <1>4, InvKept

LEMMA DeleteUserKeepsInv ==
  ASSUME IdentityInv, NEW u \in Ids, DeleteUser(u)
  PROVE  IdentityInv'
<1>1. users' \subseteq users /\ UNCHANGED <<used, tokens, login>>
  BY DEF DeleteUser
<1>2. TypeOK'
  BY <1>1 DEF IdentityInv, TypeOK
<1>3. RowsSound'
  BY <1>1 DEF IdentityInv, RowsSound
<1>4. RowsDescend
  BY <1>1 DEF RowsDescend
<1>5. QED
  BY <1>1, <1>2, <1>3, <1>4, InvKept

-----------------------------------------------------------------------------

LEMMA NextKeepsInv == IdentityInv /\ [Next]_vars => IdentityInv'
<1> SUFFICES ASSUME IdentityInv, [Next]_vars PROVE IdentityInv'
  OBVIOUS
<1>1. ASSUME NEW l \in Logins, NEW s \in Identities, ValidateTicket(l, s)
      PROVE  IdentityInv'
  BY <1>1, ValidateTicketKeepsInv
<1>2. ASSUME NEW l \in Logins, Resolve(l)
      PROVE  IdentityInv'
  BY <1>2, LookUpSubjectKeepsInv, LookUpEmailKeepsInv, BindSubjectKeepsInv,
     BootstrapAdminKeepsInv, MintTokenKeepsInv, LoginFailsKeepsInv DEF Resolve
<1>3. ASSUME NEW t \in tokens, TokenExpires(t)
      PROVE  IdentityInv'
  BY <1>3, TokenExpiresKeepsInv
<1>4. ASSUME NEW u \in Ids, NEW e \in Emails, NEW role \in NewRoles,
             InsertUser(u, e, role)
      PROVE  IdentityInv'
  BY <1>4, InsertUserKeepsInv
<1>5. ASSUME NEW u \in Ids, DeleteUser(u)
      PROVE  IdentityInv'
  BY <1>5, DeleteUserKeepsInv
<1>6. CASE UNCHANGED vars
  <2>1. UNCHANGED <<users, used, tokens, login>>
    BY <1>6 DEF vars
  <2>2. TypeOK' /\ RowsSound' /\ RowsDescend
    BY <2>1 DEF IdentityInv, TypeOK, RowsSound, RowsDescend
  <2>3. QED
    BY <2>1, <2>2, InvKept
<1>7. QED
  BY <1>1, <1>2, <1>3, <1>4, <1>5, <1>6 DEF Next

LEMMA InvAlways == Spec => []IdentityInv
BY InitEstablishesInv, NextKeepsInv, PTL DEF Spec

\* The tables, the claims and the local variables of the logins have their types.
THEOREM TypesHold == Spec => []TypeOK
<1>1. IdentityInv => TypeOK
  BY DEF IdentityInv
<1>2. QED
  BY <1>1, InvAlways, PTL

\* Whoever signs in gets the account of the e-mail CAS has vouched for, with the
\* role it was given: for any number of identities, shared e-mails included, of
\* accounts, and of logins at a time (auth.py:188-234).
THEOREM TokensAreTruthful == Spec => []TokensTruthful
<1>1. IdentityInv => TokensTruthful
  BY DEF IdentityInv, TokensSound, Agrees, TokensTruthful
<1>2. QED
  BY <1>1, InvAlways, PTL

\* Nobody whose account is on file all the while a login runs is told that there
\* is none, whatever other logins bind meanwhile (auth.py:217-229).
THEOREM EnrolledAreAdmitted == Spec => []EnrolledAdmitted
<1>1. IdentityInv => EnrolledAdmitted
  BY DEF IdentityInv, LoginsSound, LoginSound, EnrolledAdmitted
<1>2. QED
  BY <1>1, InvAlways, PTL

\* sso_subject stays UNIQUE though the late bind does not look for another row
\* of the subject: no bind can raise, and BindSubject needs no guard for it.
THEOREM SubjectsStayUnique == Spec => []SubjectsUnique
<1>1. IdentityInv => SubjectsUnique
  BY DEF IdentityInv, RowsSound, SubjectsUnique
<1>2. QED
  BY <1>1, InvAlways, PTL

=============================================================================
