---------------------------- MODULE CourseAccess ----------------------------
(***************************************************************************)
(* Who gets at a course: the users, courses and enrollments tables of the  *)
(* system store with their foreign keys, the dependencies that admit a     *)
(* request to a course, and the admin routes that change the tables.       *)
(*                                                                         *)
(* The dependencies run in threads, so their reads interleave with         *)
(* everything; the admin routes call the store from coroutines without an  *)
(* await between the calls, so of two such bodies one runs after the other *)
(* (LoopFree), and only the login of the configured admin, in a thread,    *)
(* inserts a row between two transactions of a body.                       *)
(*                                                                         *)
(* Tokens are the subject of Identity.  Here a request may present the     *)
(* claims of any account that is or ever was on file: what holds then      *)
(* holds however long a token lasts.  The resources of a course are the    *)
(* subject of CourseLifecycle.                                             *)
(***************************************************************************)

CONSTANTS Ids,         \* user ids: uuids
          NoUser,
          Emails,      \* addresses, two that differ only in case being one
          AdminEmail,  \* the configured admin's
          NewRoles,    \* the roles accounts are created with
          Courses,     \* course ids: uuids
          NoCourse,
          Requests     \* requests that present a token

Roles == {"admin", "instructor", "student"}

ASSUME AccessAssumption ==
  /\ NoUser \notin Ids
  /\ NoCourse \notin Courses
  /\ AdminEmail \in Emails
  /\ NewRoles \subseteq Roles

VARIABLES users,        \* the rows of the users table
          courses,      \* the rows of the courses table
          enrollments,  \* the rows of the enrollments table
          accounts,     \* the rows users has ever had
          born,         \* the course ids given out so far
          request       \* the local variables of each request

tables == <<users, courses, enrollments, accounts, born>>
vars   == <<tables, request>>

User == [id : Ids, email : Emails, role : Roles]

Course == [id : Courses, instructor : Ids]

\* identified: the token is verified, enrollment: the course is read and
\* is_enrolled comes next, member and manager: admitted to the course,
\* insert and enroll: an admin route between two transactions.
RequestPoints == {"none", "identified", "enrollment", "member", "manager",
                  "insert", "enroll"}

\* user and role are the claims, email and newRole those of the account an
\* admin route looks for, student the account it found or made.
Request == [pc : RequestPoints, user : Ids \cup {NoUser}, role : Roles,
            course : Courses \cup {NoCourse}, email : Emails, newRole : Roles,
            student : Ids \cup {NoUser}]

NoRequest == [pc |-> "none", user |-> NoUser, role |-> "student",
              course |-> NoCourse, email |-> AdminEmail, newRole |-> "student",
              student |-> NoUser]

-----------------------------------------------------------------------------
(* The system store.  Mutant marks a planted defect. *)

OnFile(u) == \E row \in users : row.id = u

CourseOnFile(c) == \E row \in courses : row.id = c

\* get_user_by_email; the column is UNIQUE.
ByEmail(e) == {row \in users : row.email = e}

\* Ids that no row has had.
FreshIds == Ids \ {row.id : row \in accounts}

\* What the foreign keys demand of a new row of enrollments.
EnrollmentFits(c, u) == CourseOnFile(c) /\ OnFile(u)

\* ON DELETE CASCADE of the two foreign keys of enrollments.
WithoutUser(u) == {e \in enrollments : e[2] # u}

WithoutCourse(c) == {e \in enrollments : e[1] # c}

\* Mutant: courses.instructor_id is not a foreign key.
TeachesMutant(u) == FALSE

\* courses.instructor_id has no ON DELETE: the instructor's row must stay.
Teaches(u) == \E row \in courses : row.instructor = u

-----------------------------------------------------------------------------

\* bootstrap has run: the admin and the default course, which is the admin's.
Init ==
  \E u \in Ids, c \in Courses, e \in Emails :
    /\ users       = {[id |-> u, email |-> e, role |-> "admin"]}
    /\ courses     = {[id |-> c, instructor |-> u]}
    /\ enrollments = {}
    /\ accounts    = users
    /\ born        = {c}
    /\ request     = [r \in Requests |-> NoRequest]

(* Who a request is from, and the course it is admitted to; each read in a
   thread. *)

\* require_user: the claims are believed as they are.
RequireUser(r, account) ==
  /\ request[r].pc = "none"
  /\ account \in accounts
  /\ request' = [request EXCEPT ![r].pc = "identified", ![r].user = account.id,
                                ![r].role = account.role]
  /\ UNCHANGED tables

\* The course is the request's own: its instructor's, or any for an admin.
Owns(r, course) == request[r].role = "admin" \/ course.instructor = request[r].user

\* require_course_instructor.
RequireCourseInstructor(r, c) ==
  /\ request[r].pc = "identified"
  /\ \E course \in courses : course.id = c /\ Owns(r, course)
  /\ request' = [request EXCEPT ![r].pc = "manager", ![r].course = c]
  /\ UNCHANGED tables

\* require_course_member: get_course.
ReadCourse(r, c) ==
  /\ request[r].pc = "identified"
  /\ \E course \in courses :
       /\ course.id = c
       /\ request' = [request EXCEPT
                       ![r].pc = IF Owns(r, course) THEN "member" ELSE "enrollment",
                       ![r].course = c]
  /\ UNCHANGED tables

\* require_course_member: is_enrolled.
ReadEnrollment(r) ==
  /\ request[r].pc = "enrollment"
  /\ <<request[r].course, request[r].user>> \in enrollments
  /\ request' = [request EXCEPT ![r].pc = "member"]
  /\ UNCHANGED tables

\* The request is over: served, refused with 401, 403, 404 or 409, or failed
\* by a transaction that raised.
RequestEnds(r) ==
  /\ request[r].pc # "none"
  /\ request' = [request EXCEPT ![r] = NoRequest]
  /\ UNCHANGED tables

(* The admin routes, on the event loop. *)

\* insert_user: the e-mail must not be taken.
NewUser(row) ==
  /\ row.id \in FreshIds
  /\ ByEmail(row.email) = {}
  /\ users' = users \cup {row}
  /\ accounts' = accounts \cup {row}

\* No admin route is between two of its transactions.
LoopFree == \A r \in Requests : request[r].pc \notin {"insert", "enroll"}

\* create_user: 409 (RequestEnds) if the e-mail is registered.
FindUser(r, email, role) ==
  /\ LoopFree
  /\ request[r].pc = "identified"
  /\ request[r].role = "admin"
  /\ ByEmail(email) = {}
  /\ request' = [request EXCEPT ![r].pc = "insert", ![r].email = email,
                                ![r].newRole = role]
  /\ UNCHANGED tables

\* enroll_student: the student's account, or a placeholder to be inserted.
FindStudent(r, email) ==
  LET found == ByEmail(email) IN
  /\ LoopFree
  /\ request[r].pc = "manager"
  /\ \/ \E row \in found :
          request' = [request EXCEPT ![r].pc = "enroll", ![r].student = row.id]
     \/ /\ found = {}
        /\ request' = [request EXCEPT ![r].pc = "insert", ![r].email = email,
                                      ![r].newRole = "student"]
  /\ UNCHANGED tables

\* insert_user of create_user, which ends with it, or of enroll_student.
InsertUser(r, u) ==
  LET row == [id |-> u, email |-> request[r].email, role |-> request[r].newRole] IN
  /\ request[r].pc = "insert"
  /\ NewUser(row)
  /\ request' = IF request[r].course = NoCourse
                THEN [request EXCEPT ![r] = NoRequest]
                ELSE [request EXCEPT ![r].pc = "enroll", ![r].student = u]
  /\ UNCHANGED <<courses, enrollments, born>>

\* insert_enrollment, INSERT OR IGNORE, and the answer 201.
InsertEnrollment(r) ==
  LET c == request[r].course
      u == request[r].student
  IN
  /\ request[r].pc = "enroll"
  /\ EnrollmentFits(c, u)
  /\ enrollments' = enrollments \cup {<<c, u>>}
  /\ request' = [request EXCEPT ![r] = NoRequest]
  /\ UNCHANGED <<users, courses, accounts, born>>

\* unenroll_student.
Unenroll(r, u) ==
  LET e == <<request[r].course, u>> IN
  /\ LoopFree
  /\ request[r].pc = "manager"
  /\ e \in enrollments
  /\ enrollments' = enrollments \ {e}
  /\ request' = [request EXCEPT ![r] = NoRequest]
  /\ UNCHANGED <<users, courses, accounts, born>>

\* delete_user of the admin routes: the row and, by cascade, its enrollments.
DeleteUser(r, u) ==
  /\ LoopFree
  /\ request[r].pc = "identified"
  /\ request[r].role = "admin"
  /\ OnFile(u)
  /\ ~Teaches(u)
  /\ users' = {row \in users : row.id # u}
  /\ enrollments' = WithoutUser(u)
  /\ request' = [request EXCEPT ![r] = NoRequest]
  /\ UNCHANGED <<courses, accounts, born>>

\* create_course, its row: the instructor must still be on file.
InsertCourse(r, c) ==
  /\ LoopFree
  /\ request[r].pc = "identified"
  /\ request[r].role \in {"admin", "instructor"}
  /\ c \notin born
  /\ OnFile(request[r].user)
  /\ courses' = courses \cup {[id |-> c, instructor |-> request[r].user]}
  /\ born' = born \cup {c}
  /\ request' = [request EXCEPT ![r] = NoRequest]
  /\ UNCHANGED <<users, enrollments, accounts>>

\* delete_course, its row, after the awaits of the teardown.
DeleteCourse(r) ==
  LET c == request[r].course IN
  /\ LoopFree
  /\ request[r].pc = "manager"
  /\ courses' = {course \in courses : course.id # c}
  /\ enrollments' = WithoutCourse(c)
  /\ request' = [request EXCEPT ![r] = NoRequest]
  /\ UNCHANGED <<users, accounts, born>>

\* The first login of the configured admin inserts the account (Identity).
BootstrapAdmin(u) ==
  /\ NewUser([id |-> u, email |-> AdminEmail, role |-> "admin"])
  /\ UNCHANGED <<courses, enrollments, born, request>>

-----------------------------------------------------------------------------

Next ==
  \/ \E r \in Requests :
       \/ \E account \in accounts : RequireUser(r, account)
       \/ \E c \in Courses :
            \/ RequireCourseInstructor(r, c)
            \/ ReadCourse(r, c)
            \/ InsertCourse(r, c)
       \/ ReadEnrollment(r)
       \/ RequestEnds(r)
       \/ \E e \in Emails :
            \/ FindStudent(r, e)
            \/ \E role \in NewRoles : FindUser(r, e, role)
       \/ \E u \in Ids : InsertUser(r, u) \/ Unenroll(r, u) \/ DeleteUser(r, u)
       \/ InsertEnrollment(r)
       \/ DeleteCourse(r)
  \/ \E u \in Ids : BootstrapAdmin(u)

Spec == Init /\ [][Next]_vars

-----------------------------------------------------------------------------

TypeOK ==
  /\ users \subseteq accounts
  /\ courses \subseteq Course
  /\ enrollments \subseteq Courses \X Ids
  /\ accounts \subseteq User
  /\ born \subseteq Courses
  /\ request \in [Requests -> Request]

\* A token outlives its account, the access to courses does not: whoever passes
\* require_course_member or require_course_instructor still has an account, and
\* the course is on file, admins aside (auth.py:98-108, 117-123).  Between the
\* token and the last read the account, the enrollment and the course may go.
AdmissionBacked ==
  [][\A r \in Requests :
       /\ request[r].pc \in {"identified", "enrollment"}
       /\ request'[r].pc \in {"member", "manager"}
       /\ request[r].role # "admin"
       => OnFile(request[r].user) /\ CourseOnFile(request'[r].course)]_vars

=============================================================================
