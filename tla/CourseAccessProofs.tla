------------------------- MODULE CourseAccessProofs -------------------------
(***************************************************************************)
(* What holds of CourseAccess for any number of accounts, courses and      *)
(* overlapping requests.  The inductive invariant adds to the properties   *)
(* what the foreign keys keep true: the account and the course of every    *)
(* enrollment are on file, and so is the instructor of every course.       *)
(***************************************************************************)
EXTENDS CourseAccess, TLAPS

\* The foreign keys of enrollments and courses refer to rows on file.
KeysRefer ==
  /\ \A e \in enrollments : CourseOnFile(e[1]) /\ OnFile(e[2])
  /\ \A course \in courses : OnFile(course.instructor)

AccessInv ==
  /\ TypeOK
  /\ KeysRefer

-----------------------------------------------------------------------------

\* A request that is moved on stays one of the requests there can be.
LEMMA TypeReset ==
  ASSUME TypeOK, NEW r \in Requests
  PROVE  [request EXCEPT ![r] = NoRequest] \in [Requests -> Request]
<1>1. NoRequest \in Request
  BY AccessAssumption DEF NoRequest, Request, RequestPoints, Roles
<1>2. QED
  BY <1>1 DEF TypeOK

LEMMA TypePoint ==
  ASSUME TypeOK, NEW r \in Requests, NEW pc \in RequestPoints
  PROVE  [request EXCEPT ![r].pc = pc] \in [Requests -> Request]
BY DEF TypeOK, Request

LEMMA TypeClaims ==
  ASSUME TypeOK, NEW r \in Requests, NEW account \in User
  PROVE  [request EXCEPT ![r].pc = "identified", ![r].user = account.id,
                         ![r].role = account.role] \in [Requests -> Request]
<1>1. account.id \in Ids /\ account.role \in Roles /\ "identified" \in RequestPoints
  BY DEF User, RequestPoints
<1>2. request \in [Requests -> Request] /\ request[r] \in Request
  BY DEF TypeOK
<1>3. \A pc \in RequestPoints, u \in Ids, role \in Roles :
        [request EXCEPT ![r].pc = pc, ![r].user = u, ![r].role = role]
          \in [Requests -> Request]
  BY <1>2 DEF Request
<1>4. QED
  BY <1>1, <1>3

LEMMA TypeCourse ==
  ASSUME TypeOK, NEW r \in Requests, NEW pc \in RequestPoints, NEW c \in Courses
  PROVE  [request EXCEPT ![r].pc = pc, ![r].course = c] \in [Requests -> Request]
<1>1. PICK old \in Request : old = request[r]
  BY DEF TypeOK
<1>2. [old EXCEPT !.pc = pc, !.course = c] \in Request
  BY DEF Request
<1>3. [request EXCEPT ![r].pc = pc, ![r].course = c]
        = [request EXCEPT ![r] = [old EXCEPT !.pc = pc, !.course = c]]
  BY <1>1
<1>4. QED
  BY <1>2, <1>3 DEF TypeOK

LEMMA TypeStudent ==
  ASSUME TypeOK, NEW r \in Requests, NEW u \in Ids
  PROVE  [request EXCEPT ![r].pc = "enroll", ![r].student = u]
           \in [Requests -> Request]
<1>1. "enroll" \in RequestPoints
  BY DEF RequestPoints
<1>2. PICK old \in Request : old = request[r]
  BY DEF TypeOK
<1>3. [old EXCEPT !.pc = "enroll", !.student = u] \in Request
  BY <1>1 DEF Request
<1>4. [request EXCEPT ![r].pc = "enroll", ![r].student = u]
        = [request EXCEPT ![r] = [old EXCEPT !.pc = "enroll", !.student = u]]
  BY <1>2
<1>5. QED
  BY <1>3, <1>4 DEF TypeOK

LEMMA TypeInsert ==
  ASSUME TypeOK, NEW r \in Requests, NEW e \in Emails, NEW role \in Roles
  PROVE  [request EXCEPT ![r].pc = "insert", ![r].email = e, ![r].newRole = role]
           \in [Requests -> Request]
<1>1. "insert" \in RequestPoints
  BY DEF RequestPoints
<1>2. request \in [Requests -> Request] /\ request[r] \in Request
  BY DEF TypeOK
<1>3. \A pc \in RequestPoints :
        [request EXCEPT ![r].pc = pc, ![r].email = e, ![r].newRole = role]
          \in [Requests -> Request]
  BY <1>2 DEF Request
<1>4. QED
  BY <1>1, <1>3

LEMMA InitEstablishesInv == Init => AccessInv
<1> SUFFICES ASSUME Init PROVE AccessInv
  OBVIOUS
<1>1. PICK u \in Ids, c \in Courses, e \in Emails :
        /\ users       = {[id |-> u, email |-> e, role |-> "admin"]}
        /\ courses     = {[id |-> c, instructor |-> u]}
        /\ enrollments = {}
        /\ accounts    = users
        /\ born        = {c}
        /\ request     = [r \in Requests |-> NoRequest]
  BY DEF Init
<1>2. NoRequest \in Request
  BY AccessAssumption DEF NoRequest, Request, RequestPoints, Roles
<1>3. TypeOK
  BY <1>1, <1>2 DEF TypeOK, User, Course, Roles
<1>4. KeysRefer
  BY <1>1 DEF KeysRefer, OnFile
<1>5. QED
  BY <1>3, <1>4 DEF AccessInv

\* A step that only moves requests on.
LEMMA TablesKept ==
  ASSUME AccessInv, UNCHANGED tables,
         request' \in [Requests -> Request]
  PROVE  AccessInv'
<1>1. UNCHANGED <<users, courses, enrollments, accounts, born>>
  BY DEF tables
<1>2. TypeOK'
  BY <1>1 DEF AccessInv, TypeOK
<1>3. KeysRefer'
  BY <1>1 DEF AccessInv, KeysRefer, OnFile, CourseOnFile
<1>4. QED
  BY <1>2, <1>3 DEF AccessInv

\* The steps that read the tables.
LEMMA ReadsKeepInv ==
  ASSUME AccessInv, NEW r \in Requests,
         \/ \E account \in accounts : RequireUser(r, account)
         \/ \E c \in Courses : RequireCourseInstructor(r, c) \/ ReadCourse(r, c)
         \/ ReadEnrollment(r)
         \/ RequestEnds(r)
         \/ \E e \in Emails, role \in NewRoles : FindUser(r, e, role)
         \/ \E e \in Emails : FindStudent(r, e)
  PROVE  AccessInv'
<1>1. TypeOK /\ NewRoles \subseteq Roles /\ "student" \in Roles
  BY AccessAssumption DEF AccessInv, Roles
<1>2. {"identified", "enrollment", "member", "manager"} \subseteq RequestPoints
  BY DEF RequestPoints
<1>3. \A row \in users : row.id \in Ids
  BY <1>1 DEF TypeOK, User
<1>4. ASSUME NEW account \in accounts, RequireUser(r, account)
      PROVE  AccessInv'
  <2>1. account \in User
    BY <1>1 DEF TypeOK
  <2>2. request' \in [Requests -> Request]
    BY <1>1, <1>4, <2>1, TypeClaims DEF RequireUser
  <2>3. QED
    BY <1>4, <2>2, TablesKept DEF RequireUser
<1>5. ASSUME NEW c \in Courses, RequireCourseInstructor(r, c)
      PROVE  AccessInv'
  <2>1. request' \in [Requests -> Request]
    BY <1>1, <1>2, <1>5, TypeCourse DEF RequireCourseInstructor
  <2>2. QED
    BY <1>5, <2>1, TablesKept DEF RequireCourseInstructor
<1>6. ASSUME NEW c \in Courses, ReadCourse(r, c)
      PROVE  AccessInv'
  <2>1. PICK pc \in {"member", "enrollment"} :
          request' = [request EXCEPT ![r].pc = pc, ![r].course = c]
    BY <1>6 DEF ReadCourse
  <2>2. request' \in [Requests -> Request]
    BY <1>1, <1>2, <2>1, TypeCourse
  <2>3. QED
    BY <1>6, <2>2, TablesKept DEF ReadCourse
<1>7. CASE ReadEnrollment(r)
  <2>1. request' \in [Requests -> Request]
    BY <1>1, <1>2, <1>7, TypePoint DEF ReadEnrollment
  <2>2. QED
    BY <1>7, <2>1, TablesKept DEF ReadEnrollment
<1>8. CASE RequestEnds(r)
  <2>1. request' \in [Requests -> Request]
    BY <1>1, <1>8, TypeReset DEF RequestEnds
  <2>2. QED
    BY <1>8, <2>1, TablesKept DEF RequestEnds
<1>9. ASSUME NEW e \in Emails, NEW role \in NewRoles, FindUser(r, e, role)
      PROVE  AccessInv'
  <2>1. request' \in [Requests -> Request]
    BY <1>1, <1>9, TypeInsert DEF FindUser
  <2>2. QED
    BY <1>9, <2>1, TablesKept DEF FindUser
<1>10. ASSUME NEW e \in Emails, FindStudent(r, e)
       PROVE  AccessInv'
  <2>1. CASE \E row \in ByEmail(e) :
               request' = [request EXCEPT ![r].pc = "enroll", ![r].student = row.id]
    <3>1. PICK u \in Ids :
            request' = [request EXCEPT ![r].pc = "enroll", ![r].student = u]
      BY <1>3, <2>1 DEF ByEmail
    <3>2. request' \in [Requests -> Request]
      BY <1>1, <3>1, TypeStudent
    <3>3. QED
      BY <1>10, <3>2, TablesKept DEF FindStudent
  <2>2. CASE request' = [request EXCEPT ![r].pc = "insert", ![r].email = e,
                                        ![r].newRole = "student"]
    <3>1. request' \in [Requests -> Request]
      BY <1>1, <2>2, TypeInsert
    <3>2. QED
      BY <1>10, <3>1, TablesKept DEF FindStudent
  <2>3. QED
    BY <1>10, <2>1, <2>2 DEF FindStudent
<1>11. QED
  BY <1>4, <1>5, <1>6, <1>7, <1>8, <1>9, <1>10

\* insert_user: rows are added, so no reference breaks.
LEMMA NewUserKeepsInv ==
  ASSUME AccessInv, NEW row \in User, NewUser(row),
         UNCHANGED <<courses, enrollments, born>>,
         request' \in [Requests -> Request]
  PROVE  AccessInv'
<1>1. users' = users \cup {row} /\ accounts' = accounts \cup {row}
  BY DEF NewUser
<1>2. TypeOK'
  BY <1>1 DEF AccessInv, TypeOK
<1>3. KeysRefer'
  BY <1>1 DEF AccessInv, KeysRefer, OnFile, CourseOnFile
<1>4. QED
  BY <1>2, <1>3 DEF AccessInv

LEMMA InsertUserKeepsInv ==
  ASSUME AccessInv, NEW r \in Requests, NEW u \in Ids, InsertUser(r, u)
  PROVE  AccessInv'
<1> DEFINE row == [id |-> u, email |-> request[r].email, role |-> request[r].newRole]
<1>1. TypeOK /\ row \in User
  BY DEF AccessInv, TypeOK, InsertUser, Request, User
<1>2. request' \in [Requests -> Request]
  <2>1. \/ request' = [request EXCEPT ![r] = NoRequest]
        \/ request' = [request EXCEPT ![r].pc = "enroll", ![r].student = u]
    BY DEF InsertUser
  <2>2. QED
    BY <1>1, <2>1, TypeReset, TypeStudent
<1>3. QED
  BY <1>1, <1>2, NewUserKeepsInv DEF InsertUser

LEMMA BootstrapAdminKeepsInv ==
  ASSUME AccessInv, NEW u \in Ids, BootstrapAdmin(u)
  PROVE  AccessInv'
<1>1. [id |-> u, email |-> AdminEmail, role |-> "admin"] \in User
  BY AccessAssumption DEF User, Roles
<1>2. request' \in [Requests -> Request]
  BY DEF BootstrapAdmin, AccessInv, TypeOK
<1>3. QED
  BY <1>1, <1>2, NewUserKeepsInv DEF BootstrapAdmin

LEMMA InsertEnrollmentKeepsInv ==
  ASSUME AccessInv, NEW r \in Requests, InsertEnrollment(r)
  PROVE  AccessInv'
<1> DEFINE c == request[r].course
           u == request[r].student
<1>1. /\ enrollments' = enrollments \cup {<<c, u>>}
      /\ CourseOnFile(c) /\ OnFile(u)
      /\ request' = [request EXCEPT ![r] = NoRequest]
      /\ UNCHANGED <<users, courses, accounts, born>>
  BY DEF InsertEnrollment, EnrollmentFits
<1>2. c \in Courses /\ u \in Ids
  BY <1>1 DEF AccessInv, TypeOK, CourseOnFile, OnFile, Course, User
<1> HIDE DEF c, u
<1>3. TypeOK'
  BY <1>1, <1>2, TypeReset DEF AccessInv, TypeOK
<1>4. KeysRefer'
  BY <1>1 DEF AccessInv, KeysRefer, OnFile, CourseOnFile
<1>5. QED
  BY <1>3, <1>4 DEF AccessInv

LEMMA UnenrollKeepsInv ==
  ASSUME AccessInv, NEW r \in Requests, NEW u \in Ids, Unenroll(r, u)
  PROVE  AccessInv'
<1> DEFINE e == <<request[r].course, u>>
<1>1. /\ enrollments' = enrollments \ {e}
      /\ request' = [request EXCEPT ![r] = NoRequest]
      /\ UNCHANGED <<users, courses, accounts, born>>
  BY DEF Unenroll
<1> HIDE DEF e
<1>2. TypeOK'
  BY <1>1, TypeReset DEF AccessInv, TypeOK
<1>3. KeysRefer'
  BY <1>1 DEF AccessInv, KeysRefer, OnFile, CourseOnFile
<1>4. QED
  BY <1>2, <1>3 DEF AccessInv

\* The cascade takes the enrollments of the account, the missing cascade keeps
\* the account while it teaches.
LEMMA DeleteUserKeepsInv ==
  ASSUME AccessInv, NEW r \in Requests, NEW u \in Ids, DeleteUser(r, u)
  PROVE  AccessInv'
<1>1. /\ users' = {row \in users : row.id # u}
      /\ enrollments' = {e \in enrollments : e[2] # u}
      /\ request' = [request EXCEPT ![r] = NoRequest]
      /\ \A course \in courses : course.instructor # u
      /\ UNCHANGED <<courses, accounts, born>>
  BY DEF DeleteUser, WithoutUser, Teaches
<1>2. TypeOK'
  BY <1>1, TypeReset DEF AccessInv, TypeOK
<1>3. \A v : v # u /\ OnFile(v) => OnFile(v)'
  BY <1>1 DEF OnFile
<1>4. KeysRefer'
  BY <1>1, <1>3 DEF AccessInv, KeysRefer, CourseOnFile
<1>5. QED
  BY <1>2, <1>4 DEF AccessInv

LEMMA InsertCourseKeepsInv ==
  ASSUME AccessInv, NEW r \in Requests, NEW c \in Courses, InsertCourse(r, c)
  PROVE  AccessInv'
<1> DEFINE row == [id |-> c, instructor |-> request[r].user]
<1>1. /\ courses' = courses \cup {row}
      /\ born' = born \cup {c}
      /\ OnFile(request[r].user)
      /\ request' = [request EXCEPT ![r] = NoRequest]
      /\ UNCHANGED <<users, enrollments, accounts>>
  BY DEF InsertCourse
<1>2. row \in Course /\ OnFile(row.instructor)
  BY <1>1 DEF AccessInv, TypeOK, OnFile, Course, User
<1> HIDE DEF row
<1>3. TypeOK'
  BY <1>1, <1>2, TypeReset DEF AccessInv, TypeOK
<1>4. KeysRefer'
  BY <1>1, <1>2 DEF AccessInv, KeysRefer, OnFile, CourseOnFile
<1>5. QED
  BY <1>3, <1>4 DEF AccessInv

LEMMA DeleteCourseKeepsInv ==
  ASSUME AccessInv, NEW r \in Requests, DeleteCourse(r)
  PROVE  AccessInv'
<1> DEFINE c == request[r].course
<1>1. /\ courses' = {course \in courses : course.id # c}
      /\ enrollments' = {e \in enrollments : e[1] # c}
      /\ request' = [request EXCEPT ![r] = NoRequest]
      /\ UNCHANGED <<users, accounts, born>>
  BY DEF DeleteCourse, WithoutCourse
<1> HIDE DEF c
<1>2. TypeOK'
  BY <1>1, TypeReset DEF AccessInv, TypeOK
<1>3. \A d : d # c /\ CourseOnFile(d) => CourseOnFile(d)'
  BY <1>1 DEF CourseOnFile
<1>4. KeysRefer'
  BY <1>1, <1>3 DEF AccessInv, KeysRefer, OnFile
<1>5. QED
  BY <1>2, <1>4 DEF AccessInv

LEMMA NextKeepsInv == AccessInv /\ [Next]_vars => AccessInv'
<1> SUFFICES ASSUME AccessInv, [Next]_vars PROVE AccessInv'
  OBVIOUS
<1>1. CASE UNCHANGED vars
  BY <1>1, TablesKept DEF vars, AccessInv, TypeOK
<1>2. CASE Next
  BY <1>2, ReadsKeepInv, InsertUserKeepsInv, BootstrapAdminKeepsInv,
     InsertEnrollmentKeepsInv, UnenrollKeepsInv, DeleteUserKeepsInv,
     InsertCourseKeepsInv, DeleteCourseKeepsInv DEF Next
<1>3. QED
  BY <1>1, <1>2

LEMMA InvAlways == Spec => []AccessInv
BY InitEstablishesInv, NextKeepsInv, PTL DEF Spec

-----------------------------------------------------------------------------

\* The tables and the local variables of the requests have their types.
THEOREM TypesHold == Spec => []TypeOK
<1>1. AccessInv => TypeOK
  BY DEF AccessInv
<1>2. QED
  BY <1>1, InvAlways, PTL

\* The foreign keys of the system store never dangle (system.py:43-54),
\* whatever is deleted between the transactions of a request.
THEOREM ReferencesHold == Spec => []KeysRefer
<1>1. AccessInv => KeysRefer
  BY DEF AccessInv
<1>2. QED
  BY <1>1, InvAlways, PTL

\* A request that is admitted to a course by this step.
Admitted(r) ==
  /\ request[r].pc \in {"identified", "enrollment"}
  /\ request'[r].pc \in {"member", "manager"}
  /\ request[r].role # "admin"

Backed(r) == OnFile(request[r].user) /\ CourseOnFile(request'[r].course)

\* Only the three dependencies admit anyone.
LEMMA AdmittedByDependency ==
  ASSUME AccessInv, Next, NEW r \in Requests, Admitted(r)
  PROVE  \/ \E c \in Courses : RequireCourseInstructor(r, c) \/ ReadCourse(r, c)
         \/ ReadEnrollment(r)
<1>1. request \in [Requests -> Request]
  BY DEF AccessInv, TypeOK
<1>2. NoRequest.pc = "none"
  BY DEF NoRequest
<1>3. \A q \in Requests :
        (\E account \in accounts : RequireUser(q, account)) => ~Admitted(r)
  BY <1>1 DEF RequireUser, Admitted
<1>4. \A q \in Requests : RequestEnds(q) => ~Admitted(r)
  BY <1>1, <1>2 DEF RequestEnds, Admitted
<1>5. \A q \in Requests, e \in Emails :
        FindStudent(q, e) \/ (\E role \in NewRoles : FindUser(q, e, role)) => ~Admitted(r)
  BY <1>1 DEF FindStudent, FindUser, Admitted
<1>6. \A q \in Requests, u \in Ids :
        InsertUser(q, u) \/ Unenroll(q, u) \/ DeleteUser(q, u) => ~Admitted(r)
  BY <1>1, <1>2 DEF InsertUser, Unenroll, DeleteUser, Admitted
<1>7. \A q \in Requests : InsertEnrollment(q) \/ DeleteCourse(q) => ~Admitted(r)
  BY <1>1, <1>2 DEF InsertEnrollment, DeleteCourse, Admitted
<1>8. \A q \in Requests, c \in Courses : InsertCourse(q, c) => ~Admitted(r)
  BY <1>1, <1>2 DEF InsertCourse, Admitted
<1>9. \A u \in Ids : BootstrapAdmin(u) => ~Admitted(r)
  BY <1>1 DEF BootstrapAdmin, Admitted
<1>10. \A q \in Requests, c \in Courses :
         RequireCourseInstructor(q, c) \/ ReadCourse(q, c) => q = r
  BY <1>1 DEF RequireCourseInstructor, ReadCourse, Admitted
<1>11. ~\E u \in Ids : BootstrapAdmin(u)
  BY <1>9
<1>12. PICK q \in Requests :
         \/ \E account \in accounts : RequireUser(q, account)
         \/ \E c \in Courses :
              \/ RequireCourseInstructor(q, c)
              \/ ReadCourse(q, c)
              \/ InsertCourse(q, c)
         \/ ReadEnrollment(q)
         \/ RequestEnds(q)
         \/ \E e \in Emails :
              \/ FindStudent(q, e)
              \/ \E role \in NewRoles : FindUser(q, e, role)
         \/ \E u \in Ids : InsertUser(q, u) \/ Unenroll(q, u) \/ DeleteUser(q, u)
         \/ InsertEnrollment(q)
         \/ DeleteCourse(q)
  BY <1>11, Zenon DEF Next
<1>13. CASE \E c \in Courses : RequireCourseInstructor(q, c) \/ ReadCourse(q, c)
  BY <1>10, <1>13
<1>14. CASE ReadEnrollment(q)
  <2>1. q = r
    BY <1>1, <1>14 DEF ReadEnrollment, Admitted
  <2>2. QED
    BY <1>14, <2>1
<1>15. QED
  BY <1>3, <1>4, <1>5, <1>6, <1>7, <1>8, <1>12, <1>13, <1>14

LEMMA AdmittedIsBacked ==
  ASSUME AccessInv, Next, NEW r \in Requests, Admitted(r)
  PROVE  Backed(r)
<1>1. request \in [Requests -> Request]
  BY DEF AccessInv, TypeOK
<1>2. \A c, course :
        course \in courses /\ course.id = c /\ Owns(r, course)
          => OnFile(request[r].user) /\ CourseOnFile(c)
  BY DEF Admitted, Owns, AccessInv, KeysRefer, CourseOnFile
<1>3. ASSUME NEW c \in Courses, RequireCourseInstructor(r, c)
      PROVE  Backed(r)
  <2>1. request'[r].course = c
    BY <1>1, <1>3 DEF RequireCourseInstructor, Request
  <2>2. QED
    BY <1>2, <1>3, <2>1 DEF RequireCourseInstructor, Backed
<1>4. ASSUME NEW c \in Courses, ReadCourse(r, c)
      PROVE  Backed(r)
  <2>1. PICK course \in courses :
          /\ course.id = c
          /\ request' = [request EXCEPT
                          ![r].pc = IF Owns(r, course) THEN "member" ELSE "enrollment",
                          ![r].course = c]
    BY <1>4 DEF ReadCourse
  <2>2. request'[r].course = c /\ Owns(r, course)
    BY <1>1, <2>1 DEF Admitted, Request
  <2>3. QED
    BY <1>2, <2>1, <2>2 DEF Backed
<1>5. CASE ReadEnrollment(r)
  <2>1. request'[r].course = request[r].course
    BY <1>1, <1>5 DEF ReadEnrollment, Request
  <2>2. <<request[r].course, request[r].user>> \in enrollments
    BY <1>5 DEF ReadEnrollment
  <2>3. QED
    BY <2>1, <2>2 DEF AccessInv, KeysRefer, Backed
<1>6. QED
  BY <1>3, <1>4, <1>5, AdmittedByDependency

\* Whoever is admitted to a course still has an account, and the course is on
\* file, whatever was deleted since the token was issued (auth.py:93-123).
THEOREM AdmissionsAreBacked == Spec => AdmissionBacked
<1>1. AccessInv /\ [Next]_vars =>
        [\A r \in Requests :
           /\ request[r].pc \in {"identified", "enrollment"}
           /\ request'[r].pc \in {"member", "manager"}
           /\ request[r].role # "admin"
           => OnFile(request[r].user) /\ CourseOnFile(request'[r].course)]_vars
  BY AdmittedIsBacked DEF Admitted, Backed
<1>2. QED
  BY <1>1, InvAlways, PTL DEF Spec, AdmissionBacked

=============================================================================
