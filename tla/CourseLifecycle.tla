-------------------------- MODULE CourseLifecycle --------------------------
(***************************************************************************)
(* The courses of the server: the bootstrap that runs at every start, the  *)
(* creation and deletion of a course with its blob container and its data  *)
(* directory, the cache of LabHarness objects, and the requests that look  *)
(* a course up.  Dependencies of a route run in threads before the route's *)
(* coroutine; the coroutines create_course and delete_course await the     *)
(* Azure and file operations, and others run meanwhile.                    *)
(*                                                                         *)
(* By the convention of derive_resource_names a course has a container     *)
(* name of its own, which is written as its id here; the instructor may    *)
(* give another name instead, of a container that exists already or that   *)
(* another course was given too.  The blob storage is configured.          *)
(***************************************************************************)
EXTENDS Naturals, Sequences, FiniteSets

CONSTANTS Courses,      \* course ids
          NoCourse,     \* no course
          Overrides,    \* container names an instructor or the config may give
          Existing,     \* containers that others have made before
          Deletions,    \* DELETE requests on courses
          Requests,     \* requests that use the harness of a course
          Sessions,     \* sessions of the legacy routes
          NoSession,    \* a request on no legacy session
          MaxCrashes    \* bound on crashes of the server

ASSUME CourseAssumption ==
  /\ NoCourse \notin Courses
  /\ NoSession \notin Sessions
  /\ Existing \subseteq Overrides
  /\ MaxCrashes \in Nat

VARIABLES boot,        \* how far the start of the process has come
          seeded,      \* the users table is not empty
          rows,        \* the courses table
          born,        \* the ids given to courses, in the order of created_at
          legacy,      \* rows with the legacy database paths
          named,       \* the container name of each course
          containers,  \* names of the blob containers that exist
          directories, \* data/courses/{id} that exist
          cache,       \* HarnessRegistry._cache
          creation,    \* the create_course request of each id
          deletion,    \* the local variables of each delete_course
          request,     \* the local variables of each other request
          opened,      \* the course a legacy session was opened on
          reported,    \* courses whose container a deletion left over and said so
          unremoved,   \* directories rmtree has failed on
          overlapped,  \* courses requested while they were being deleted
          crashes      \* crashes so far

system == <<boot, seeded, rows, born, legacy, named, containers, directories, cache>>
notes  == <<reported, unremoved, overlapped, crashes>>
vars   == <<system, creation, deletion, request, opened, notes>>

BootPoints == {"admin", "course", "ready"}

\* failed: the row is there and the harness is not; unprovisioned: no row, and
\* create_container raised; rolledback, leaked: no row, and the rollback removed
\* the container, or may not have.
CreationPoints == {"none", "provision", "insert", "rollback", "created", "failed",
                   "unprovisioned", "rolledback", "leaked", "interrupted"}

Names == Courses \cup Overrides

\* The names a course can be given: its own, or another.
NamesFor(c) == {c} \cup Overrides

DeletionPoints == {"none", "checked", "directory", "container", "row", "over"}

Deletion == [pc : DeletionPoints, course : Courses \cup {NoCourse}]

RequestPoints == {"none", "checked", "working"}

\* session is that of a turn on the legacy routes, or the one being opened.
Request == [pc : RequestPoints, course : Courses \cup {NoCourse},
            session : Sessions \cup {NoSession}, opens : BOOLEAN]

NoDeletion == [pc |-> "none", course |-> NoCourse]

NoRequest == [pc |-> "none", course |-> NoCourse, session |-> NoSession,
              opens |-> FALSE]

HasRow(c) == c \in rows

Ready == boot = "ready"

Born == {born[i] : i \in DOMAIN born}

Deleting(c) == \E d \in Deletions :
  deletion[d].course = c /\ deletion[d].pc \in {"directory", "container", "row"}

Requested(c) == \E r \in Requests : request[r].pc # "none" /\ request[r].course = c

-----------------------------------------------------------------------------
(* Mutant marks a planted defect. *)

\* Mutant: the newest course comes first.
IsDefaultCourseMutant(c) ==
  \E i \in DOMAIN born :
    born[i] = c /\ HasRow(c) /\ \A j \in DOMAIN born : i < j => ~HasRow(born[j])

\* get_default_course: the first row that list_courses returns, the oldest.
IsDefaultCourse(c) ==
  \E i \in DOMAIN born :
    born[i] = c /\ HasRow(c) /\ \A j \in DOMAIN born : j < i => ~HasRow(born[j])

\* What building or using the harness of a course leaves on disk: the stores
\* make their directory when they are created and at every connection.
Materialized(c) == IF c \in legacy THEN directories ELSE directories \cup {c}

\* The courses that a request and a deletion are now both busy with.
OverlapsWith(c, busy) == IF busy THEN overlapped \cup {c} ELSE overlapped

\* Mutant: the default course is seeded together with the admin only.
EnsureAdminMutant ==
  /\ boot = "admin"
  /\ seeded' = TRUE
  /\ boot' = IF seeded THEN "ready" ELSE "course"
  /\ UNCHANGED <<rows, born, legacy, named, containers, directories, cache, creation,
                 deletion, request, opened, notes>>

\* _ensure_admin: only an empty users table is seeded.
EnsureAdmin ==
  /\ boot = "admin"
  /\ seeded' = TRUE
  /\ boot' = "course"
  /\ UNCHANGED <<rows, born, legacy, named, containers, directories, cache, creation,
                 deletion, request, opened, notes>>

\* _ensure_default_course, with courses there already.
KeepCourses ==
  /\ boot = "course"
  /\ rows # {}
  /\ boot' = "ready"
  /\ UNCHANGED <<seeded, rows, born, legacy, named, containers, directories, cache, creation,
                 deletion, request, opened, notes>>

\* _ensure_default_course on an empty table: a row with the legacy paths and the
\* configured container, which is not created here.
SeedDefaultCourse(c) ==
  /\ boot = "course"
  /\ rows = {}
  /\ c \notin Born
  /\ boot' = "ready"
  /\ rows' = {c}
  /\ born' = Append(born, c)
  /\ legacy' = legacy \cup {c}
  /\ named' \in {[named EXCEPT ![c] = n] : n \in NamesFor(c)}
  /\ UNCHANGED <<seeded, containers, directories, cache, creation, deletion,
                 request, opened, notes>>

Init ==
  /\ boot        = "admin"
  /\ seeded      = FALSE
  /\ rows        = {}
  /\ born        = <<>>
  /\ legacy      = {}
  /\ named       = [c \in Courses |-> c]
  /\ containers  = Existing
  /\ directories = {}
  /\ cache       = {}
  /\ creation    = [c \in Courses |-> "none"]
  /\ deletion    = [d \in Deletions |-> NoDeletion]
  /\ request     = [r \in Requests |-> NoRequest]
  /\ opened      = [s \in Sessions |-> NoCourse]
  /\ reported    = {}
  /\ unremoved   = {}
  /\ overlapped  = {}
  /\ crashes     = 0

(* create_course *)

\* A fresh uuid; created_at is taken here, before the container is made and the
\* row inserted; the names are checked against nothing.
CreateCourse(c) ==
  /\ Ready
  /\ c \notin Born
  /\ born' = Append(born, c)
  /\ named' \in {[named EXCEPT ![c] = n] : n \in NamesFor(c)}
  /\ creation' = [creation EXCEPT ![c] = "provision"]
  /\ UNCHANGED <<boot, seeded, rows, legacy, containers, directories, cache,
                 deletion, request, opened, notes>>

\* create_course_resources, in a thread: a container that exists is used as it is.
Provision(c) ==
  /\ creation[c] = "provision"
  /\ containers' = containers \cup {named[c]}
  /\ creation' = [creation EXCEPT ![c] = "insert"]
  /\ UNCHANGED <<boot, seeded, rows, born, legacy, named, directories, cache, deletion,
                 request, opened, notes>>

\* create_container raises, before or after the container was made (the answer
\* may have been lost): 502, and nothing is rolled back.
ProvisionFails(c) ==
  /\ creation[c] = "provision"
  /\ containers' \in {containers, containers \cup {named[c]}}
  /\ creation' = [creation EXCEPT ![c] = "unprovisioned"]
  /\ UNCHANGED <<boot, seeded, rows, born, legacy, named, directories, cache, deletion,
                 request, opened, notes>>

\* insert_course, and the harness built before the next await; if building it
\* raises the row stays, and perhaps the directory of its first store.
InsertCourse(c) ==
  /\ creation[c] = "insert"
  /\ rows' = rows \cup {c}
  /\ \/ /\ cache' = cache \cup {c}
        /\ directories' = Materialized(c)
        /\ creation' = [creation EXCEPT ![c] = "created"]
     \/ /\ directories' \in {directories, Materialized(c)}
        /\ creation' = [creation EXCEPT ![c] = "failed"]
        /\ UNCHANGED cache
  /\ UNCHANGED <<boot, seeded, born, legacy, named, containers, deletion, request, opened,
                 notes>>

\* Mutant: the exception is passed on without a rollback.
InsertCourseFailsMutant(c) ==
  /\ creation[c] = "insert"
  /\ creation' = [creation EXCEPT ![c] = "rolledback"]
  /\ UNCHANGED <<system, deletion, request, opened, notes>>

InsertCourseFails(c) ==
  /\ creation[c] = "insert"
  /\ creation' = [creation EXCEPT ![c] = "rollback"]
  /\ UNCHANGED <<system, deletion, request, opened, notes>>

\* delete_course_resources for a course without a row; what it reports as left
\* over is dropped here, and a container whose deletion raised may be gone.
RollBack(c) ==
  /\ creation[c] = "rollback"
  /\ \/ /\ containers' = containers \ {named[c]}
        /\ creation' = [creation EXCEPT ![c] = "rolledback"]
     \/ /\ containers' \in {containers, containers \ {named[c]}}
        /\ creation' = [creation EXCEPT ![c] = "leaked"]
  /\ UNCHANGED <<boot, seeded, rows, born, legacy, named, directories, cache, deletion,
                 request, opened, notes>>

(* delete_course *)

\* require_course_instructor: the row is read in a thread, before the route.
CheckDeletion(d, c) ==
  /\ Ready
  /\ deletion[d].pc = "none"
  /\ HasRow(c)
  /\ deletion' = [deletion EXCEPT ![d] = [pc |-> "checked", course |-> c]]
  /\ UNCHANGED <<system, creation, request, opened, notes>>

\* Mutant: the cached harness is forgotten about.
EvictMutant(d) ==
  LET c == deletion[d].course IN
  /\ deletion[d].pc = "checked"
  /\ deletion' = [deletion EXCEPT ![d].pc = "directory"]
  /\ overlapped' = OverlapsWith(c, Requested(c))
  /\ UNCHANGED <<system, creation, request, opened, reported, unremoved, crashes>>

\* HarnessRegistry.evict: turns that hold the harness go on using it.
Evict(d) ==
  LET c == deletion[d].course IN
  /\ deletion[d].pc = "checked"
  /\ cache' = cache \ {c}
  /\ deletion' = [deletion EXCEPT ![d].pc = "directory"]
  /\ overlapped' = OverlapsWith(c, Requested(c))
  /\ UNCHANGED <<boot, seeded, rows, born, legacy, named, containers, directories, creation,
                 request, opened, reported, unremoved, crashes>>

\* delete_course_resources: rmtree, whose failure is only logged.
RemoveDirectory(d) ==
  LET c == deletion[d].course IN
  /\ deletion[d].pc = "directory"
  /\ deletion' = [deletion EXCEPT ![d].pc = "container"]
  /\ \/ directories' = directories \ {c} /\ UNCHANGED unremoved
     \/ c \in directories /\ unremoved' = unremoved \cup {c} /\ UNCHANGED directories
  /\ UNCHANGED <<boot, seeded, rows, born, legacy, named, containers, cache, creation, request,
                 opened, reported, overlapped, crashes>>

\* The container: gone, missing already, or reported as left over because its
\* deletion raised, be it gone or not.
RemoveContainer(d) ==
  LET c == deletion[d].course IN
  /\ deletion[d].pc = "container"
  /\ deletion' = [deletion EXCEPT ![d].pc = "row"]
  /\ \/ containers' = containers \ {named[c]} /\ UNCHANGED reported
     \/ /\ containers' \in {containers, containers \ {named[c]}}
        /\ reported' = reported \cup {c}
  /\ UNCHANGED <<boot, seeded, rows, born, legacy, named, directories, cache, creation, request,
                 opened, unremoved, overlapped, crashes>>

\* SqliteSystemStore.delete_course, no matter whether the row is still there.
DeleteRow(d) ==
  LET c == deletion[d].course IN
  /\ deletion[d].pc = "row"
  /\ rows' = rows \ {c}
  /\ deletion' = [deletion EXCEPT ![d].pc = "over"]
  /\ UNCHANGED <<boot, seeded, born, legacy, named, containers, directories, cache,
                 creation, request, opened, notes>>

\* The blob client cannot be made or the row cannot be deleted: the request
\* fails and the row stays.
DeletionFails(d) ==
  /\ deletion[d].pc \in {"container", "row"}
  /\ deletion' = [deletion EXCEPT ![d].pc = "over"]
  /\ UNCHANGED <<system, creation, request, opened, notes>>

(* Requests that use a harness. *)

\* require_course_member on /courses/{id}/..., in a thread before the route.
CheckMember(r, c) ==
  /\ Ready
  /\ request[r].pc = "none"
  /\ HasRow(c)
  /\ request' = [request EXCEPT ![r] = [NoRequest EXCEPT !.pc = "checked",
                                                         !.course = c]]
  /\ overlapped' = OverlapsWith(c, Deleting(c))
  /\ UNCHANGED <<system, creation, deletion, opened, reported, unremoved, crashes>>

\* HarnessRegistry.get_or_create: built if it is not cached, under the lock.
GetOrCreate(c) ==
  /\ cache' = cache \cup {c}
  /\ directories' = IF c \in cache THEN directories ELSE Materialized(c)
  /\ UNCHANGED <<boot, seeded, rows, born, legacy, named, containers>>

\* The route goes on with the row the dependency has read.
GetHarness(r) ==
  /\ request[r].pc = "checked"
  /\ GetOrCreate(request[r].course)
  /\ request' = [request EXCEPT ![r].pc = "working"]
  /\ UNCHANGED <<creation, deletion, opened, notes>>

\* Building the harness raises.
BuildFails(r) ==
  /\ request[r].pc = "checked"
  /\ request[r].course \notin cache
  /\ directories' \in {directories, Materialized(request[r].course)}
  /\ request' = [request EXCEPT ![r] = NoRequest]
  /\ UNCHANGED <<boot, seeded, rows, born, legacy, named, containers, cache, creation,
                 deletion, opened, notes>>

\* _default_harness: the default course and its harness, without an await.
LegacyRequest(r, s, opens) ==
  \E c \in Courses :
    /\ Ready
    /\ request[r].pc = "none"
    /\ IsDefaultCourse(c)
    /\ GetOrCreate(c)
    /\ request' = [request EXCEPT ![r] = [pc |-> "working", course |-> c,
                                          session |-> s, opens |-> opens]]
    /\ overlapped' = OverlapsWith(c, Deleting(c))
    /\ UNCHANGED <<creation, deletion, opened, reported, unremoved, crashes>>

\* _default_harness raises while it builds.
LegacyBuildFails(c) ==
  /\ Ready
  /\ IsDefaultCourse(c)
  /\ c \notin cache
  /\ directories' = Materialized(c)
  /\ overlapped' = OverlapsWith(c, Deleting(c))
  /\ UNCHANGED <<boot, seeded, rows, born, legacy, named, containers, cache, creation,
                 deletion, request, opened, reported, unremoved, crashes>>

\* POST /sessions.
OpenSession(r, s) ==
  /\ opened[s] = NoCourse
  /\ \A other \in Requests : request[other].session # s
  /\ LegacyRequest(r, s, TRUE)

\* POST /sessions/{id}/turn on a session of the registry.
TakeTurn(r, s) ==
  /\ opened[s] # NoCourse
  /\ LegacyRequest(r, s, FALSE)

\* The thread has used its harness, and with it the files of the course.
Finish(r) ==
  LET c == request[r].course IN
  /\ request[r].pc = "working"
  /\ directories' = Materialized(c)
  /\ opened' = IF request[r].opens
               THEN [opened EXCEPT ![request[r].session] = c] ELSE opened
  /\ request' = [request EXCEPT ![r] = NoRequest]
  /\ UNCHANGED <<boot, seeded, rows, born, legacy, named, containers, cache, creation,
                 deletion, notes>>

(* The process dies; what it had under way is left where it was, the sessions
   in memory are gone. *)
Crash ==
  /\ crashes < MaxCrashes
  /\ crashes' = crashes + 1
  /\ boot' = "admin"
  /\ cache' = {}
  /\ creation' = [c \in Courses |->
                   IF creation[c] \in {"provision", "insert", "rollback"}
                   THEN "interrupted" ELSE creation[c]]
  /\ deletion' = [d \in Deletions |->
                   IF deletion[d].pc = "checked" THEN NoDeletion
                   ELSE IF deletion[d].pc = "none" THEN deletion[d]
                   ELSE [deletion[d] EXCEPT !.pc = "over"]]
  /\ request' = [r \in Requests |-> NoRequest]
  /\ opened' = [s \in Sessions |-> NoCourse]
  /\ UNCHANGED <<seeded, rows, born, legacy, named, containers, directories, reported,
                 unremoved, overlapped>>

Next ==
  \/ EnsureAdmin
  \/ KeepCourses
  \/ \E c \in Courses :
       \/ SeedDefaultCourse(c)
       \/ CreateCourse(c)
       \/ Provision(c)
       \/ ProvisionFails(c)
       \/ InsertCourse(c)
       \/ InsertCourseFails(c)
       \/ RollBack(c)
       \/ LegacyBuildFails(c)
  \/ \E d \in Deletions :
       \/ \E c \in Courses : CheckDeletion(d, c)
       \/ Evict(d)
       \/ RemoveDirectory(d)
       \/ RemoveContainer(d)
       \/ DeleteRow(d)
       \/ DeletionFails(d)
  \/ \E r \in Requests :
       \/ \E c \in Courses : CheckMember(r, c)
       \/ GetHarness(r)
       \/ BuildFails(r)
       \/ \E s \in Sessions : OpenSession(r, s) \/ TakeTurn(r, s)
       \/ Finish(r)
  \/ Crash

Spec == Init /\ [][Next]_vars

-----------------------------------------------------------------------------

TypeOK ==
  /\ boot \in BootPoints
  /\ seeded \in BOOLEAN
  /\ rows \subseteq Born
  /\ born \in Seq(Courses)
  /\ legacy \subseteq Courses
  /\ named \in [Courses -> Names]
  /\ containers \subseteq Names
  /\ directories \subseteq Courses
  /\ cache \subseteq Courses
  /\ creation \in [Courses -> CreationPoints]
  /\ deletion \in [Deletions -> Deletion]
  /\ request \in [Requests -> Request]
  /\ opened \in [Sessions -> Courses \cup {NoCourse}]
  /\ reported \subseteq Born
  /\ unremoved \subseteq Courses
  /\ overlapped \subseteq Courses
  /\ crashes \in 0 .. MaxCrashes

\* A deletion of the course has begun to take it apart, or had.
TakenApart(c) == \E d \in Deletions :
  deletion[d].course = c /\ deletion[d].pc \notin {"none", "checked"}

\* A deletion or a rollback of a course of that container name has got as far as
\* the container, or may have.
Dismantled(n) == \E c \in Courses :
  named[c] = n /\ (TakenApart(c) \/ creation[c] \in {"rolledback", "leaked"})

\* A request for the course was cut short, or is at work, or a deletion said it
\* left the container over.
LeftOver(c) ==
  \/ creation[c] \in {"unprovisioned", "insert", "rollback", "leaked", "interrupted"}
  \/ c \in reported

\* A created course has its container until a course of the same container name
\* is taken apart; and a container that the server made and no course names any
\* more can be told from the log: a request still busy with it, cut short or
\* failed, or a deletion that reported it (admin.py:140-154, provisioning.py:75-97).
ContainersAccounted ==
  /\ \A c \in rows \ legacy : ~Dismantled(named[c]) => named[c] \in containers
  /\ \A n \in containers \ Existing :
       (\A c \in rows : named[c] # n) => \E c \in Courses : named[c] = n /\ LeftOver(c)

\* A course that is gone has left neither a harness nor a directory behind,
\* unless a request on it overlapped its deletion or rmtree failed.
DeletionComplete ==
  \A c \in Courses : ~HasRow(c) =>
    /\ c \in cache => c \in overlapped
    /\ c \in directories => c \in overlapped \cup unremoved

\* "re-running the server is safe" (migration.py:13-14): wherever it crashed,
\* a server that gets ready has a user and a default course, and no two rows
\* share the legacy database files.
BootstrapCompletes ==
  /\ [][~Ready /\ Ready' => seeded' /\ rows' # {}]_vars
  /\ [](\A c, other \in legacy : HasRow(c) /\ HasRow(other) => c = other)

\* A session of the legacy routes that was opened on the seeded default course
\* has every turn handled by the harness, and so the database, of that course,
\* for as long as the course exists (student.py:197-204).  A course that became
\* the default because the older ones were deleted gives no such promise: a
\* create_course that took its created_at earlier may still insert its row.
LegacySessionsStayOnCourse ==
  \A r \in Requests :
    LET s == request[r].session IN
    /\ request[r].pc = "working"
    /\ s # NoSession
    /\ ~request[r].opens
    /\ opened[s] \in legacy
    /\ HasRow(opened[s])
    => request[r].course = opened[s]

-----------------------------------------------------------------------------
(* The inductive invariant behind the properties: what a course can still
   become by the point its creation has reached, and what deletions and
   requests that are under way have seen of it. *)

\* The course still answers for the container it names.
Answerable(c) ==
  \/ LeftOver(c)
  \/ HasRow(c) /\ \A d \in Deletions : ~(deletion[d].course = c /\ deletion[d].pc = "row")

\* Every container the server made has a course that answers for it, and a course
\* about to get its row has its container, unless it was dismantled.
ContainersHeld ==
  /\ \A n \in containers \ Existing : \E c \in Courses : named[c] = n /\ Answerable(c)
  /\ \A c \in Courses : creation[c] = "insert" /\ ~Dismantled(named[c]) =>
       named[c] \in containers

\* What the creation of a course with a row is at: over, or never begun for the
\* course that the bootstrap seeds.
Through == {"none", "created", "failed"}

\* Nothing is there of a course before its id is given out, and no id is given
\* out twice.
IdsFresh ==
  /\ \A i, j \in DOMAIN born : born[i] = born[j] => i = j
  /\ \A c \in Courses : creation[c] # "none" => c \in Born
  /\ \A d \in Deletions : deletion[d].pc # "none" => deletion[d].course \in Born
  /\ \A r \in Requests : request[r].pc # "none" => request[r].course \in Born
  /\ \A s \in Sessions : opened[s] # NoCourse => opened[s] \in Born
  /\ legacy \subseteq Born

\* The row comes before a deletion, and nothing is created while the server
\* starts.
CreationFirst ==
  /\ \A c \in rows : creation[c] \in Through
  /\ \A d \in Deletions : deletion[d].pc # "none" => creation[deletion[d].course] \in Through
  /\ ~Ready => \A c \in Courses : creation[c] \notin {"provision", "insert", "rollback"}

\* A seeded course is older than every other course with a row.
LegacyOldest ==
  /\ \A c \in legacy : creation[c] = "none"
  /\ \A i, j \in DOMAIN born : born[i] \in legacy /\ j < i =>
       ~HasRow(born[j]) /\ creation[born[j]] \notin {"provision", "insert"}

\* What a deletion has removed stays away, unless a request brings it back.
RemovedInOrder ==
  \A d \in Deletions :
    LET c == deletion[d].course IN
    /\ deletion[d].pc \in {"directory", "container", "row"} /\ c \in cache
         => c \in overlapped
    /\ deletion[d].pc \in {"container", "row"} /\ c \in directories
         => c \in overlapped \cup unremoved

\* A request and a deletion that are both busy with a course are noticed.
OverlapsNoticed ==
  \A c \in Courses : Requested(c) /\ (Deleting(c) \/ ~HasRow(c)) => c \in overlapped

\* A session is opened once, and turns are taken only on sessions opened.
SessionsOpenedOnce ==
  /\ \A r \in Requests : request[r].session # NoSession => request[r].pc = "working"
  /\ \A r \in Requests : request[r].opens =>
       request[r].session # NoSession /\ opened[request[r].session] = NoCourse
  /\ \A r \in Requests : request[r].session # NoSession /\ ~request[r].opens =>
       opened[request[r].session] # NoCourse
  /\ \A r, q \in Requests :
       request[r].opens /\ request[q].opens /\ request[r].session = request[q].session => r = q

AdminFirst == boot # "admin" => seeded

CourseInv ==
  /\ TypeOK
  /\ IdsFresh
  /\ CreationFirst
  /\ LegacyOldest
  /\ RemovedInOrder
  /\ OverlapsNoticed
  /\ SessionsOpenedOnce
  /\ AdminFirst
  /\ ContainersHeld
  /\ ContainersAccounted
  /\ DeletionComplete
  /\ LegacySessionsStayOnCourse

=============================================================================
