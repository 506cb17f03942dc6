------------------------ MODULE CourseLifecycleProofs ------------------------
(***************************************************************************)
(* What holds of CourseLifecycle for any number of courses, deletions,     *)
(* requests and legacy sessions, and for any number of crashes, however    *)
(* the routes interleave at their awaits.                                  *)
(***************************************************************************)
EXTENDS CourseLifecycle, TLAPS

-----------------------------------------------------------------------------
(***************************************************************************)
(* The operators.                                                          *)
(***************************************************************************)

\* Ids are given out at the end.
LEMMA BornGrows ==
  ASSUME born \in Seq(Courses), NEW c \in Courses, born' = Append(born, c)
  PROVE  /\ born' \in Seq(Courses)
         /\ Born' = Born \cup {c}
         /\ DOMAIN born = 1 .. Len(born)
         /\ Len(born) \in Nat
         /\ DOMAIN born' = 1 .. Len(born) + 1
         /\ \A i \in DOMAIN born : born'[i] = born[i]
         /\ born'[Len(born) + 1] = c
<1>1. /\ born' \in Seq(Courses)
      /\ DOMAIN born = 1 .. Len(born)
      /\ Len(born) \in Nat
      /\ DOMAIN born' = 1 .. Len(born) + 1
      /\ \A i \in DOMAIN born : born'[i] = born[i]
      /\ born'[Len(born) + 1] = c
  OBVIOUS
<1>2. Born' = Born \cup {c}
  BY <1>1 DEF Born
<1>3. QED
  BY <1>1, <1>2

\* A deletion moves to another point.
LEMMA DeletionMoves ==
  ASSUME deletion \in [Deletions -> Deletion], NEW d \in Deletions, NEW p \in DeletionPoints,
         deletion' = [deletion EXCEPT ![d].pc = p]
  PROVE  /\ deletion' \in [Deletions -> Deletion]
         /\ deletion'[d].pc = p
         /\ \A e \in Deletions : deletion'[e].course = deletion[e].course
         /\ \A e \in Deletions : e # d => deletion'[e] = deletion[e]
<1>1. PICK old \in Deletion : old = deletion[d]
  OBVIOUS
<1> DEFINE st == [old EXCEPT !.pc = p]
<1>2. deletion' = [deletion EXCEPT ![d] = st]
  BY <1>1
<1>3. st \in Deletion /\ st.pc = p /\ st.course = old.course
  BY DEF Deletion
<1> HIDE DEF st
<1>4. QED
  BY <1>1, <1>2, <1>3

\* What the invariant relies on being of the right type.
LEMMA Typed ==
  ASSUME CourseInv
  PROVE  /\ deletion \in [Deletions -> Deletion]
         /\ request \in [Requests -> Request]
         /\ creation \in [Courses -> CreationPoints]
         /\ opened \in [Sessions -> Courses \cup {NoCourse}]
         /\ born \in Seq(Courses)
         /\ Born \subseteq Courses
         /\ rows \subseteq Born
         /\ legacy \subseteq Courses
         /\ named \in [Courses -> Names]
         /\ containers \subseteq Names
         /\ reported \subseteq Born
         /\ directories \subseteq Courses
         /\ cache \subseteq Courses
         /\ overlapped \subseteq Courses
         /\ \A d \in Deletions : deletion[d].pc # "none" => deletion[d].course \in Courses
         /\ \A r \in Requests : request[r].pc # "none" => request[r].course \in Courses
<1>1. TypeOK /\ IdsFresh
  BY DEF CourseInv
<1>2. Born \subseteq Courses
  BY <1>1 DEF TypeOK, Born
<1>3. /\ \A d \in Deletions : deletion[d].pc # "none" => deletion[d].course \in Courses
      /\ \A r \in Requests : request[r].pc # "none" => request[r].course \in Courses
  BY <1>1, <1>2 DEF IdsFresh
<1>4. QED
  BY <1>1, <1>2, <1>3 DEF TypeOK

-----------------------------------------------------------------------------
(***************************************************************************)
(* The containers.                                                         *)
(***************************************************************************)

\* The container of the course may have been taken away.
Gone(c) == TakenApart(c) \/ creation[c] \in {"rolledback", "leaked"}

\* A step keeps the account of the containers when whoever answers for one that
\* stays goes on to, a new one has somebody to, one that goes away is dismantled
\* by then, and a course gets its row, or its turn to, with its container there.
LEMMA ContainerStep ==
  ASSUME CourseInv,
         rows' \subseteq Courses,
         \A x \in Courses : Answerable(x) /\ named[x] \in containers'
                            => Answerable(x)' /\ named'[x] = named[x],
         \A n \in containers' \ containers :
            n \in Existing \/ \E x \in Courses : named'[x] = n /\ Answerable(x)',
         \A x \in Courses : Gone(x) => Gone(x)' /\ named'[x] = named[x],
         \A n \in containers \ containers' : \E x \in Courses : named'[x] = n /\ Gone(x)',
         \A x \in rows' \ legacy' :
            (x \in rows \ legacy \/ creation[x] = "insert") /\ named'[x] = named[x],
         \A x \in Courses : creation'[x] = "insert" =>
            \/ creation[x] = "insert" /\ named'[x] = named[x]
            \/ named'[x] \in containers'
  PROVE  ContainersHeld' /\ ContainersAccounted'
<1>1. ASSUME NEW n \in containers' \ Existing
      PROVE  \E x \in Courses : named'[x] = n /\ Answerable(x)'
  <2>1. CASE n \in containers
    <3>1. PICK x \in Courses : named[x] = n /\ Answerable(x)
      BY <2>1 DEF CourseInv, ContainersHeld
    <3>2. QED
      BY <3>1
  <2>2. CASE n \notin containers
    BY <2>2
  <2>3. QED
    BY <2>1, <2>2
<1>2. ASSUME NEW x \in Courses, named'[x] = named[x],
             creation[x] = "insert" \/ x \in rows \ legacy,
             \A y \in Courses : named'[y] = named'[x] => ~Gone(y)'
      PROVE  named'[x] \in containers'
  <2>1. ~Dismantled(named[x])
    BY <1>2 DEF Dismantled, Gone
  <2>2. named[x] \in containers
    BY <1>2, <2>1 DEF CourseInv, ContainersHeld, ContainersAccounted
  <2>3. QED
    BY <1>2, <2>2
<1>3. ASSUME NEW x \in Courses, creation'[x] = "insert" \/ x \in rows' \ legacy',
             \A y \in Courses : named'[y] = named'[x] => ~Gone(y)'
      PROVE  named'[x] \in containers'
  BY <1>2, <1>3
<1>4. ASSUME NEW n \in containers' \ Existing, \A x \in rows' : named'[x] # n
      PROVE  \E x \in Courses : named'[x] = n /\ LeftOver(x)'
  <2>1. PICK x \in Courses : named'[x] = n /\ Answerable(x)'
    BY <1>1
  <2>2. LeftOver(x)' \/ x \in rows'
    BY <2>1 DEF Answerable, HasRow
  <2>3. QED
    BY <1>4, <2>1, <2>2
<1>5. ContainersHeld'
  BY <1>1, <1>3 DEF ContainersHeld, Dismantled, Gone
<1>6. ContainersAccounted'
  <2>1. \A x \in rows' \ legacy' : x \in Courses
    OBVIOUS
  <2>2. QED
    BY <1>3, <1>4, <2>1 DEF ContainersAccounted, Dismantled, Gone
<1>7. QED
  BY <1>5, <1>6

\* A step that touches neither the containers nor what is said of them.
LEMMA ContainersUntouched ==
  ASSUME CourseInv, UNCHANGED <<rows, legacy, named, containers, creation, deletion, reported>>
  PROVE  ContainersHeld' /\ ContainersAccounted'
BY DEF CourseInv, ContainersHeld, ContainersAccounted, Answerable, LeftOver, Dismantled,
   TakenApart, HasRow

-----------------------------------------------------------------------------
(***************************************************************************)
(* The bootstrap.                                                          *)
(***************************************************************************)

LEMMA BootKeepsInv ==
  ASSUME CourseInv, EnsureAdmin \/ KeepCourses
  PROVE  CourseInv'
<1>1. /\ UNCHANGED <<rows, born, legacy, named, containers, directories, cache, creation,
                     deletion, request, opened, reported, unremoved, overlapped, crashes>>
      /\ seeded' \in BOOLEAN
      /\ boot' \in BootPoints
      /\ seeded'
      /\ ~Ready
  BY DEF EnsureAdmin, KeepCourses, notes, CourseInv, AdminFirst, TypeOK, BootPoints, Ready
<1>2. TypeOK' /\ AdminFirst'
  BY <1>1 DEF CourseInv, TypeOK, AdminFirst, Born
<1>3. IdsFresh' /\ CreationFirst' /\ LegacyOldest'
  BY <1>1 DEF CourseInv, IdsFresh, CreationFirst, LegacyOldest, Born, HasRow
<1>4. RemovedInOrder' /\ OverlapsNoticed' /\ SessionsOpenedOnce'
  BY <1>1 DEF CourseInv, RemovedInOrder, OverlapsNoticed, SessionsOpenedOnce, Requested,
     Deleting, HasRow
<1>5. DeletionComplete' /\ LegacySessionsStayOnCourse'
  BY <1>1 DEF CourseInv, DeletionComplete, LegacySessionsStayOnCourse, HasRow
<1>6. ContainersHeld' /\ ContainersAccounted'
  BY <1>1, ContainersUntouched
<1>7. QED
  BY <1>2, <1>3, <1>4, <1>5, <1>6 DEF CourseInv

\* A course gets a name, its own or another.
LEMMA NewName ==
  ASSUME named \in [Courses -> Names], NEW c \in Courses,
         named' \in {[named EXCEPT ![c] = n] : n \in NamesFor(c)}
  PROVE  /\ named' \in [Courses -> Names]
         /\ \A x \in Courses : x # c => named'[x] = named[x]
<1>1. PICK n \in NamesFor(c) : named' = [named EXCEPT ![c] = n]
  OBVIOUS
<1>2. n \in Names
  BY DEF NamesFor, Names
<1>3. QED
  BY <1>1, <1>2

\* The seeded course is new, and no create_course is under way that could
\* still insert an older one.
LEMMA SeedKeepsInv ==
  ASSUME CourseInv, NEW c \in Courses, SeedDefaultCourse(c)
  PROVE  CourseInv'
<1>1. /\ c \notin Born
      /\ rows = {}
      /\ ~Ready
      /\ rows' = {c}
      /\ legacy' = legacy \cup {c}
      /\ born' = Append(born, c)
      /\ boot = "course" /\ boot' = "ready"
      /\ UNCHANGED <<seeded, containers, directories, cache, creation, deletion, request,
                     opened, reported, unremoved, overlapped, crashes>>
      /\ named' \in {[named EXCEPT ![c] = n] : n \in NamesFor(c)}
  BY DEF SeedDefaultCourse, notes, Ready
<1>2. /\ born' \in Seq(Courses)
      /\ Born' = Born \cup {c}
      /\ DOMAIN born = 1 .. Len(born)
      /\ Len(born) \in Nat
      /\ DOMAIN born' = 1 .. Len(born) + 1
      /\ \A i \in DOMAIN born : born'[i] = born[i] /\ born[i] \in Born
      /\ born'[Len(born) + 1] = c
  BY <1>1, Typed, BornGrows DEF Born
<1>3. /\ creation[c] = "none"
      /\ c \notin legacy /\ c \notin reported
      /\ \A d \in Deletions : deletion[d].pc # "none" => deletion[d].course # c
      /\ \A r \in Requests : request[r].pc # "none" => request[r].course # c
      /\ \A s \in Sessions : opened[s] # c
  <2>1. c # NoCourse
    BY CourseAssumption
  <2>2. QED
    BY <1>1, <2>1, Typed DEF CourseInv, IdsFresh
<1>named. /\ named' \in [Courses -> Names]
          /\ \A x \in Courses : x # c => named'[x] = named[x]
  BY <1>1, Typed, NewName
<1>4. TypeOK' /\ AdminFirst'
  BY <1>1, <1>2, <1>named DEF CourseInv, TypeOK, AdminFirst, BootPoints
<1>5. IdsFresh'
  BY <1>1, <1>2 DEF CourseInv, IdsFresh
<1>6. CreationFirst'
  BY <1>1, <1>3 DEF CourseInv, CreationFirst, Through, Ready
<1>7. LegacyOldest'
  <2>1. \A x \in Courses : creation[x] \notin {"provision", "insert"}
    BY <1>1 DEF CourseInv, CreationFirst
  <2>2. \A x \in legacy' : creation'[x] = "none"
    BY <1>1, <1>3 DEF CourseInv, LegacyOldest
  <2>3. ASSUME NEW i \in DOMAIN born', NEW j \in DOMAIN born', born'[i] \in legacy', j < i
        PROVE  born'[j] \notin rows' /\ creation'[born'[j]] \notin {"provision", "insert"}
    <3>1. j \in DOMAIN born /\ born'[j] = born[j] /\ born[j] \in Born
      BY <1>2, <2>3
    <3>2. born[j] # c /\ born[j] \in Courses
      BY <1>1, <3>1, Typed
    <3>3. QED
      BY <1>1, <2>1, <3>1, <3>2
  <2>4. QED
    BY <2>2, <2>3 DEF LegacyOldest, HasRow
<1>8. RemovedInOrder' /\ SessionsOpenedOnce'
  BY <1>1 DEF CourseInv, RemovedInOrder, SessionsOpenedOnce
<1>9. OverlapsNoticed'
  BY <1>1, <1>3 DEF CourseInv, OverlapsNoticed, Requested, Deleting, HasRow
<1>10. ContainersHeld' /\ ContainersAccounted'
  <2>1. \A x \in Courses : Answerable(x) => x # c /\ Answerable(x)'
    BY <1>1, <1>3 DEF Answerable, LeftOver, HasRow
  <2>2. \A x \in Courses : Gone(x) => x # c /\ Gone(x)'
    BY <1>1, <1>3 DEF Gone, TakenApart
  <2>3. \A x \in Courses : creation[x] # "insert"
    BY <1>1 DEF CourseInv, CreationFirst
  <2>4. QED
    BY <1>1, <1>named, <2>1, <2>2, <2>3, ContainerStep
<1>11. DeletionComplete'
  BY <1>1 DEF CourseInv, DeletionComplete, HasRow
<1>12. LegacySessionsStayOnCourse'
  <2>1. \A r \in Requests : request[r].session # NoSession => request[r].session \in Sessions
    BY Typed DEF Request
  <2>2. ASSUME NEW r \in Requests, request[r].session # NoSession
        PROVE  opened[request[r].session] \notin {c}
    BY <1>3, <2>1, <2>2
  <2>3. QED
    BY <1>1, <2>2 DEF LegacySessionsStayOnCourse, HasRow
<1>13. QED
  BY <1>4, <1>5, <1>6, <1>7, <1>8, <1>9, <1>10, <1>11, <1>12 DEF CourseInv

-----------------------------------------------------------------------------
(***************************************************************************)
(* The creation of a course.                                               *)
(***************************************************************************)

\* The id is new, so nothing under way is about it.
LEMMA CreateCourseKeepsInv ==
  ASSUME CourseInv, NEW c \in Courses, CreateCourse(c)
  PROVE  CourseInv'
<1>1. /\ Ready
      /\ c \notin Born
      /\ born' = Append(born, c)
      /\ creation' = [creation EXCEPT ![c] = "provision"]
      /\ UNCHANGED <<boot, seeded, rows, legacy, containers, directories, cache, deletion,
                     request, opened, reported, unremoved, overlapped, crashes>>
      /\ named' \in {[named EXCEPT ![c] = n] : n \in NamesFor(c)}
  BY DEF CreateCourse, notes
<1>2. /\ born' \in Seq(Courses)
      /\ Born' = Born \cup {c}
      /\ DOMAIN born = 1 .. Len(born)
      /\ Len(born) \in Nat
      /\ DOMAIN born' = 1 .. Len(born) + 1
      /\ \A i \in DOMAIN born : born'[i] = born[i] /\ born[i] \in Born
      /\ born'[Len(born) + 1] = c
  BY <1>1, Typed, BornGrows DEF Born
<1>3. /\ creation[c] = "none"
      /\ c \notin legacy /\ c \notin reported
      /\ c \notin rows
      /\ \A d \in Deletions : deletion[d].pc # "none" => deletion[d].course # c
  BY <1>1, Typed DEF CourseInv, IdsFresh
<1>named. /\ named' \in [Courses -> Names]
          /\ \A x \in Courses : x # c => named'[x] = named[x]
  BY <1>1, Typed, NewName
<1>4. /\ creation' \in [Courses -> CreationPoints]
      /\ creation'[c] = "provision"
      /\ \A x \in Courses : x # c => creation'[x] = creation[x]
  BY <1>1, Typed DEF CreationPoints
<1>5. TypeOK' /\ AdminFirst'
  BY <1>1, <1>2, <1>4, <1>named DEF CourseInv, TypeOK, AdminFirst
<1>6. IdsFresh'
  BY <1>1, <1>2, <1>4 DEF CourseInv, IdsFresh
<1>7. CreationFirst'
  <2>1. \A x \in rows' : creation'[x] \in Through
    BY <1>1, <1>3, <1>4, Typed DEF CourseInv, CreationFirst
  <2>2. \A d \in Deletions : deletion'[d].pc # "none" => creation'[deletion'[d].course] \in Through
    BY <1>1, <1>3, <1>4, Typed DEF CourseInv, CreationFirst
  <2>3. QED
    BY <1>1, <2>1, <2>2 DEF CreationFirst, Ready
<1>8. LegacyOldest'
  <2>1. \A x \in legacy' : creation'[x] = "none"
    BY <1>1, <1>3, <1>4, Typed DEF CourseInv, LegacyOldest
  <2>2. ASSUME NEW i \in DOMAIN born', NEW j \in DOMAIN born', born'[i] \in legacy', j < i
        PROVE  born'[j] \notin rows' /\ creation'[born'[j]] \notin {"provision", "insert"}
    <3>1. i \in DOMAIN born /\ j \in DOMAIN born
      BY <1>1, <1>2, <1>3, <2>2
    <3>2. /\ born'[j] = born[j] /\ born'[i] = born[i]
          /\ born[j] \in Born /\ born[j] \in Courses /\ born[j] # c
      BY <1>1, <1>2, <3>1, Typed
    <3>3. born[j] \notin rows /\ creation[born[j]] \notin {"provision", "insert"}
      BY <1>1, <2>2, <3>1, <3>2 DEF CourseInv, LegacyOldest, HasRow
    <3>4. QED
      BY <1>1, <1>4, <3>2, <3>3
  <2>3. QED
    BY <2>1, <2>2 DEF LegacyOldest, HasRow
<1>9. RemovedInOrder' /\ SessionsOpenedOnce' /\ OverlapsNoticed'
  BY <1>1 DEF CourseInv, RemovedInOrder, SessionsOpenedOnce, OverlapsNoticed, Requested,
     Deleting, HasRow
<1>10. ContainersHeld' /\ ContainersAccounted'
  <2>1. \A x \in Courses : Answerable(x) => x # c /\ Answerable(x)'
    BY <1>1, <1>3, <1>4 DEF Answerable, LeftOver, HasRow
  <2>2. \A x \in Courses : Gone(x) => x # c /\ Gone(x)'
    BY <1>1, <1>3, <1>4 DEF Gone, TakenApart
  <2>3. rows' \subseteq Courses /\ \A x \in rows' : x # c
    BY <1>1, <1>3, Typed
  <2>4. QED
    BY <1>1, <1>4, <1>named, <2>1, <2>2, <2>3, ContainerStep
<1>11. DeletionComplete' /\ LegacySessionsStayOnCourse'
  BY <1>1 DEF CourseInv, DeletionComplete, LegacySessionsStayOnCourse, HasRow
<1>12. QED
  BY <1>5, <1>6, <1>7, <1>8, <1>9, <1>10, <1>11 DEF CourseInv

\* What is known of a course that is being created.
LEMMA BeingCreated ==
  ASSUME CourseInv, NEW c \in Courses, creation[c] \in {"provision", "insert", "rollback"}
  PROVE  /\ Ready
         /\ c \in Born
         /\ c \notin rows
         /\ c \notin legacy
         /\ \A d \in Deletions : deletion[d].pc # "none" => deletion[d].course # c
BY Typed DEF CourseInv, IdsFresh, CreationFirst, LegacyOldest, Through

\* A step of create_course other than the insertion of the row.
LEMMA CreationStepKeepsInv ==
  ASSUME CourseInv, NEW c \in Courses,
         NEW p \in {"insert", "unprovisioned", "rollback", "rolledback", "leaked"},
         creation[c] \in {"provision", "insert", "rollback"},
         creation' = [creation EXCEPT ![c] = p],
         containers' \subseteq containers \cup {named[c]},
         \A n \in containers : n \in containers' \/ n = named[c],
         p = "insert" => creation[c] = "provision" /\ named[c] \in containers',
         p = "rolledback" => containers' = containers \ {named[c]},
         p \notin {"rolledback", "leaked"} => containers \subseteq containers',
         UNCHANGED <<boot, seeded, rows, born, legacy, named, directories, cache, deletion,
                     request, opened, reported, unremoved, overlapped, crashes>>
  PROVE  CourseInv'
<1>1. /\ Ready
      /\ c \in Born
      /\ c \notin rows
      /\ c \notin legacy
      /\ \A d \in Deletions : deletion[d].pc # "none" => deletion[d].course # c
  BY BeingCreated
<1>2. /\ creation' \in [Courses -> CreationPoints]
      /\ creation'[c] = p
      /\ \A x \in Courses : x # c => creation'[x] = creation[x]
  BY Typed DEF CreationPoints
<1>3. Born' = Born
  BY DEF Born
<1>4. TypeOK' /\ AdminFirst'
  <2>1. containers' \subseteq Names
    BY Typed
  <2>2. QED
    BY <1>2, <1>3, <2>1 DEF CourseInv, TypeOK, AdminFirst
<1>5. IdsFresh'
  BY <1>1, <1>2, <1>3 DEF CourseInv, IdsFresh
<1>6. CreationFirst'
  <2>1. \A x \in rows' : creation'[x] \in Through
    BY <1>1, <1>2, Typed DEF CourseInv, CreationFirst
  <2>2. \A d \in Deletions : deletion'[d].pc # "none" => creation'[deletion'[d].course] \in Through
    BY <1>1, <1>2, Typed DEF CourseInv, CreationFirst
  <2>3. QED
    BY <1>1, <2>1, <2>2 DEF CreationFirst, Ready
<1>7. LegacyOldest'
  <2>1. \A x \in legacy' : creation'[x] = "none"
    BY <1>1, <1>2, Typed DEF CourseInv, LegacyOldest
  <2>2. ASSUME NEW i \in DOMAIN born, NEW j \in DOMAIN born, born[i] \in legacy, j < i
        PROVE  born[j] \notin rows /\ creation'[born[j]] \notin {"provision", "insert"}
    <3>1. born[j] \in Courses
      BY Typed DEF Born
    <3>2. born[j] \notin rows /\ creation[born[j]] \notin {"provision", "insert"}
      BY <2>2 DEF CourseInv, LegacyOldest, HasRow
    <3>3. QED
      BY <1>2, <3>1, <3>2
  <2>3. QED
    BY <2>1, <2>2 DEF LegacyOldest, HasRow
<1>8. RemovedInOrder'
  BY DEF CourseInv, RemovedInOrder
<1>9. SessionsOpenedOnce' /\ OverlapsNoticed'
  BY DEF CourseInv, SessionsOpenedOnce, OverlapsNoticed, Requested, Deleting, HasRow
<1>10. ContainersHeld' /\ ContainersAccounted'
  <2>1. \A x \in Courses : x # c /\ Answerable(x) => Answerable(x)'
    BY <1>2 DEF Answerable, LeftOver, HasRow
  <2>2. p # "rolledback" => Answerable(c)'
    BY <1>2 DEF Answerable, LeftOver
  <2>3. named[c] \in containers' => p # "rolledback"
    OBVIOUS
  <2>4. \A x \in Courses : Gone(x) => Gone(x)'
    BY <1>2 DEF Gone, TakenApart
  <2>5. p \in {"rolledback", "leaked"} => Gone(c)'
    BY <1>2 DEF Gone
  <2>6. \A x \in Courses : Answerable(x) /\ named[x] \in containers' => Answerable(x)'
    BY <2>1, <2>2, <2>3
  <2>7. \A n \in containers' \ containers : \E x \in Courses : named'[x] = n /\ Answerable(x)'
    BY <2>2, <2>3
  <2>8. \A n \in containers \ containers' : \E x \in Courses : named'[x] = n /\ Gone(x)'
    BY <2>5
  <2>9. \A x \in Courses : creation'[x] = "insert" =>
          creation[x] = "insert" \/ named'[x] \in containers'
    BY <1>2
  <2>10. rows' \subseteq Courses
    BY Typed
  <2>11. QED
    BY <2>4, <2>6, <2>7, <2>8, <2>9, <2>10, ContainerStep
<1>11. DeletionComplete' /\ LegacySessionsStayOnCourse'
  BY DEF CourseInv, DeletionComplete, LegacySessionsStayOnCourse, HasRow
<1>12. QED
  BY <1>4, <1>5, <1>6, <1>7, <1>8, <1>9, <1>10, <1>11 DEF CourseInv

LEMMA CreationKeepsInv ==
  ASSUME CourseInv, NEW c \in Courses,
         Provision(c) \/ ProvisionFails(c) \/ InsertCourseFails(c) \/ RollBack(c)
  PROVE  CourseInv'
<1>1. CASE Provision(c)
  <2>1. /\ creation[c] = "provision"
        /\ containers' = containers \cup {named[c]}
        /\ creation' = [creation EXCEPT ![c] = "insert"]
        /\ UNCHANGED <<boot, seeded, rows, born, legacy, named, directories, cache, deletion,
                       request, opened, reported, unremoved, overlapped, crashes>>
    BY <1>1 DEF Provision, notes
  <2>2. QED
    BY <2>1, CreationStepKeepsInv
<1>2. CASE ProvisionFails(c)
  <2>1. /\ creation[c] = "provision"
        /\ containers' \in {containers, containers \cup {named[c]}}
        /\ creation' = [creation EXCEPT ![c] = "unprovisioned"]
        /\ UNCHANGED <<boot, seeded, rows, born, legacy, named, directories, cache, deletion,
                       request, opened, reported, unremoved, overlapped, crashes>>
    BY <1>2 DEF ProvisionFails, notes
  <2>2. QED
    BY <2>1, CreationStepKeepsInv
<1>3. CASE InsertCourseFails(c)
  <2>1. /\ creation[c] = "insert"
        /\ containers' = containers
        /\ creation' = [creation EXCEPT ![c] = "rollback"]
        /\ UNCHANGED <<boot, seeded, rows, born, legacy, named, directories, cache, deletion,
                       request, opened, reported, unremoved, overlapped, crashes>>
    BY <1>3 DEF InsertCourseFails, system, notes
  <2>2. QED
    BY <2>1, CreationStepKeepsInv
<1>4. CASE RollBack(c)
  <2>1. /\ creation[c] = "rollback"
        /\ UNCHANGED <<boot, seeded, rows, born, legacy, named, directories, cache, deletion,
                       request, opened, reported, unremoved, overlapped, crashes>>
    BY <1>4 DEF RollBack, notes
  <2>2. CASE /\ containers' = containers \ {named[c]}
             /\ creation' = [creation EXCEPT ![c] = "rolledback"]
    BY <2>1, <2>2, CreationStepKeepsInv
  <2>3. CASE /\ containers' \in {containers, containers \ {named[c]}}
             /\ creation' = [creation EXCEPT ![c] = "leaked"]
    BY <2>1, <2>3, CreationStepKeepsInv
  <2>4. QED
    BY <1>4, <2>2, <2>3 DEF RollBack
<1>5. QED
  BY <1>1, <1>2, <1>3, <1>4

\* The row appears while nobody deletes the course, with its container there
\* unless that has been taken away through another course.
LEMMA InsertCourseKeepsInv ==
  ASSUME CourseInv, NEW c \in Courses, InsertCourse(c)
  PROVE  CourseInv'
<1>1. /\ creation[c] = "insert"
      /\ rows' = rows \cup {c}
      /\ UNCHANGED <<boot, seeded, born, legacy, named, containers, deletion, request, opened,
                     reported, unremoved, overlapped, crashes>>
  BY DEF InsertCourse, notes
<1>2. /\ Ready
      /\ c \in Born
      /\ c \notin rows
      /\ c \notin legacy
      /\ \A d \in Deletions : deletion[d].pc # "none" => deletion[d].course # c
  BY <1>1, BeingCreated
<1>3. PICK p \in {"created", "failed"} : creation' = [creation EXCEPT ![c] = p]
  BY DEF InsertCourse
<1>4. /\ cache' \subseteq cache \cup {c}
      /\ directories' \subseteq directories \cup {c}
  BY DEF InsertCourse, Materialized
<1>5. /\ creation' \in [Courses -> CreationPoints]
      /\ creation'[c] = p
      /\ \A x \in Courses : x # c => creation'[x] = creation[x]
  BY <1>3, Typed DEF CreationPoints
<1>6. Born' = Born
  BY <1>1 DEF Born
<1>7. TypeOK' /\ AdminFirst'
  BY <1>1, <1>2, <1>4, <1>5, <1>6 DEF CourseInv, TypeOK, AdminFirst
<1>8. IdsFresh'
  BY <1>1, <1>2, <1>5, <1>6 DEF CourseInv, IdsFresh
<1>9. CreationFirst'
  <2>1. \A x \in rows' : creation'[x] \in Through
    BY <1>1, <1>5, Typed DEF CourseInv, CreationFirst, Through
  <2>2. \A d \in Deletions : deletion'[d].pc # "none" => creation'[deletion'[d].course] \in Through
    BY <1>1, <1>2, <1>5, Typed DEF CourseInv, CreationFirst
  <2>3. QED
    BY <1>1, <1>2, <2>1, <2>2 DEF CreationFirst, Ready
<1>10. LegacyOldest'
  <2>1. \A x \in legacy' : creation'[x] = "none"
    BY <1>1, <1>2, <1>5, Typed DEF CourseInv, LegacyOldest
  <2>2. ASSUME NEW i \in DOMAIN born, NEW j \in DOMAIN born, born[i] \in legacy, j < i
        PROVE  born[j] \notin rows' /\ creation'[born[j]] \notin {"provision", "insert"}
    <3>1. born[j] \in Courses
      BY Typed DEF Born
    <3>2. born[j] \notin rows /\ creation[born[j]] \notin {"provision", "insert"}
      BY <2>2 DEF CourseInv, LegacyOldest, HasRow
    <3>3. QED
      BY <1>1, <1>5, <3>1, <3>2
  <2>3. QED
    BY <1>1, <2>1, <2>2 DEF LegacyOldest, HasRow
<1>11. RemovedInOrder'
  <2>1. \A d \in Deletions : deletion[d].pc \in {"directory", "container", "row"} =>
          deletion[d].course # c
    BY <1>2
  <2>2. QED
    BY <1>1, <1>4, <2>1 DEF CourseInv, RemovedInOrder
<1>12. SessionsOpenedOnce' /\ OverlapsNoticed'
  BY <1>1 DEF CourseInv, SessionsOpenedOnce, OverlapsNoticed, Requested, Deleting, HasRow
<1>13. ContainersHeld' /\ ContainersAccounted'
  <2>1. \A x \in Courses : x # c /\ Answerable(x) => Answerable(x)'
    BY <1>1, <1>5 DEF Answerable, LeftOver, HasRow
  <2>2. Answerable(c)'
    <3>1. \A d \in Deletions : ~(deletion'[d].course = c /\ deletion'[d].pc = "row")
      BY <1>1, <1>2
    <3>2. HasRow(c)'
      BY <1>1 DEF HasRow
    <3>3. QED
      BY <3>1, <3>2 DEF Answerable
  <2>3. \A x \in Courses : Gone(x) => Gone(x)'
    BY <1>1, <1>5 DEF Gone, TakenApart
  <2>4. \A x \in Courses : creation'[x] = "insert" => creation[x] = "insert"
    BY <1>5
  <2>5. rows' \subseteq Courses
    BY <1>1, Typed
  <2>6. QED
    BY <1>1, <2>1, <2>2, <2>3, <2>4, <2>5, ContainerStep
<1>14. DeletionComplete'
  BY <1>1, <1>4 DEF CourseInv, DeletionComplete, HasRow
<1>15. LegacySessionsStayOnCourse'
  BY <1>1, <1>2 DEF CourseInv, LegacySessionsStayOnCourse, HasRow
<1>16. QED
  BY <1>7, <1>8, <1>9, <1>10, <1>11, <1>12, <1>13, <1>14, <1>15 DEF CourseInv

-----------------------------------------------------------------------------
(***************************************************************************)
(* The deletion of a course.                                               *)
(***************************************************************************)

LEMMA CheckDeletionKeepsInv ==
  ASSUME CourseInv, NEW d \in Deletions, NEW c \in Courses, CheckDeletion(d, c)
  PROVE  CourseInv'
<1> DEFINE st == [pc |-> "checked", course |-> c]
<1>1. /\ deletion[d].pc = "none"
      /\ c \in rows
      /\ deletion' = [deletion EXCEPT ![d] = st]
      /\ UNCHANGED <<boot, seeded, rows, born, legacy, named, containers, directories, cache,
                     creation, request, opened, reported, unremoved, overlapped, crashes>>
  BY DEF CheckDeletion, system, notes, HasRow
<1>2. st \in Deletion /\ st.pc = "checked" /\ st.course = c
  BY DEF Deletion, DeletionPoints
<1> HIDE DEF st
<1>3. /\ deletion' \in [Deletions -> Deletion]
      /\ deletion'[d].pc = "checked" /\ deletion'[d].course = c
      /\ \A e \in Deletions : e # d => deletion'[e] = deletion[e]
  BY <1>1, <1>2, Typed
<1>4. Born' = Born /\ c \in Born
  BY <1>1, Typed DEF Born
<1>5. TypeOK' /\ AdminFirst'
  BY <1>1, <1>3, <1>4 DEF CourseInv, TypeOK, AdminFirst
<1>6. IdsFresh'
  BY <1>1, <1>3, <1>4 DEF CourseInv, IdsFresh
<1>7. CreationFirst'
  BY <1>1, <1>3 DEF CourseInv, CreationFirst, Ready
<1>8. LegacyOldest' /\ SessionsOpenedOnce'
  BY <1>1 DEF CourseInv, LegacyOldest, SessionsOpenedOnce, HasRow
<1>9. RemovedInOrder'
  BY <1>1, <1>3 DEF CourseInv, RemovedInOrder
<1>10. OverlapsNoticed'
  <2>1. \A x \in Courses : Deleting(x)' => Deleting(x)
    BY <1>1, <1>3 DEF Deleting
  <2>2. \A x \in Courses : Requested(x)' <=> Requested(x)
    BY <1>1 DEF Requested
  <2>3. QED
    BY <1>1, <2>1, <2>2 DEF CourseInv, OverlapsNoticed, HasRow
<1>11. ContainersHeld' /\ ContainersAccounted'
  <2>1. \A x \in Courses : Gone(x) => Gone(x)'
    BY <1>1, <1>3 DEF Gone, TakenApart
  <2>2. \A x \in Courses : Answerable(x) => Answerable(x)'
    BY <1>1, <1>3 DEF Answerable, LeftOver, HasRow
  <2>3. rows' \subseteq Courses
    BY <1>1, Typed
  <2>4. QED
    BY <1>1, <2>1, <2>2, <2>3, ContainerStep
<1>12. DeletionComplete' /\ LegacySessionsStayOnCourse'
  BY <1>1 DEF CourseInv, DeletionComplete, LegacySessionsStayOnCourse, HasRow
<1>13. QED
  BY <1>5, <1>6, <1>7, <1>8, <1>9, <1>10, <1>11, <1>12 DEF CourseInv

\* A step of delete_course: it takes away what its point is about, after what
\* the points before have taken.
LEMMA DeletionStepKeepsInv ==
  ASSUME CourseInv, NEW d \in Deletions, NEW p \in {"directory", "container", "row", "over"},
         NEW c \in Courses, c = deletion[d].course,
         deletion[d].pc \in {"checked", "directory", "container", "row"},
         deletion' = [deletion EXCEPT ![d].pc = p],
         rows' \subseteq rows,
         \A x \in rows : x \in rows' \/ (x = c /\ deletion[d].pc = "row"),
         containers' \subseteq containers,
         \A n \in containers : n \in containers' \/ (n = named[c] /\ deletion[d].pc = "container"),
         directories' \subseteq directories,
         cache' \subseteq cache,
         overlapped \subseteq overlapped', overlapped' \subseteq Courses,
         reported \subseteq reported', reported' \subseteq reported \cup {c},
         unremoved \subseteq unremoved', unremoved' \subseteq Courses,
         p = "directory" => /\ deletion[d].pc = "checked"
                            /\ c \notin cache'
                            /\ Requested(c) => c \in overlapped',
         p = "container" => /\ deletion[d].pc = "directory"
                            /\ c \in directories' => c \in unremoved',
         p = "row" => /\ deletion[d].pc = "container"
                      /\ named[c] \in containers' => c \in reported',
         UNCHANGED <<boot, seeded, born, legacy, named, creation, request, opened, crashes>>
  PROVE  CourseInv'
<1>1. /\ deletion' \in [Deletions -> Deletion]
      /\ deletion'[d].pc = p
      /\ \A e \in Deletions : deletion'[e].course = deletion[e].course
      /\ \A e \in Deletions : e # d => deletion'[e] = deletion[e]
  BY Typed, DeletionMoves DEF DeletionPoints
<1>2. Born' = Born
  BY DEF Born
<1>3. \A e \in Deletions : deletion'[e].pc # "none" <=> deletion[e].pc # "none"
  BY <1>1
<1>4. /\ \A x \in Courses : TakenApart(x) => TakenApart(x)'
      /\ TakenApart(c)'
  BY <1>1 DEF TakenApart
<1>5. \A x \in Courses : Requested(x)' <=> Requested(x)
  BY DEF Requested
<1>6. TypeOK' /\ AdminFirst'
  <2>1. c \in Born
    BY DEF CourseInv, IdsFresh
  <2>2. QED
    BY <1>1, <1>2, <2>1 DEF CourseInv, TypeOK, AdminFirst
<1>7. IdsFresh'
  <2>1. \A e \in Deletions : deletion'[e].pc # "none" => deletion'[e].course \in Born
    BY <1>1, <1>3 DEF CourseInv, IdsFresh
  <2>2. QED
    BY <1>2, <2>1 DEF CourseInv, IdsFresh
<1>8. CreationFirst'
  <2>1. \A e \in Deletions : deletion'[e].pc # "none" => creation[deletion'[e].course] \in Through
    BY <1>1, <1>3 DEF CourseInv, CreationFirst
  <2>2. \A x \in rows' : creation[x] \in Through
    BY DEF CourseInv, CreationFirst
  <2>3. ~Ready' => \A x \in Courses : creation[x] \notin {"provision", "insert", "rollback"}
    BY DEF CourseInv, CreationFirst, Ready
  <2>4. QED
    BY <2>1, <2>2, <2>3 DEF CreationFirst
<1>9. LegacyOldest' /\ SessionsOpenedOnce'
  BY DEF CourseInv, LegacyOldest, SessionsOpenedOnce, HasRow
<1>10. RemovedInOrder'
  <2>1. ASSUME NEW e \in Deletions, e # d
        PROVE  /\ deletion'[e].pc \in {"directory", "container", "row"}
                    /\ deletion'[e].course \in cache' => deletion'[e].course \in overlapped'
               /\ deletion'[e].pc \in {"container", "row"}
                    /\ deletion'[e].course \in directories'
                      => deletion'[e].course \in overlapped' \cup unremoved'
    BY <1>1, <2>1 DEF CourseInv, RemovedInOrder
  <2>2. /\ deletion[d].pc \in {"directory", "container", "row"} /\ c \in cache
             => c \in overlapped
        /\ deletion[d].pc \in {"container", "row"} /\ c \in directories
             => c \in overlapped \cup unremoved
    BY DEF CourseInv, RemovedInOrder
  <2>3. /\ p \in {"directory", "container", "row"} /\ c \in cache' => c \in overlapped'
        /\ p \in {"container", "row"} /\ c \in directories' => c \in overlapped' \cup unremoved'
    BY <2>2
  <2>4. deletion'[d].pc = p /\ deletion'[d].course = c
    BY <1>1
  <2>5. QED
    BY <2>1, <2>3, <2>4 DEF RemovedInOrder
<1>11. OverlapsNoticed'
  <2>1. \A x \in Courses : Deleting(x)' => Deleting(x) \/ (p = "directory" /\ x = c)
    BY <1>1 DEF Deleting
  <2>2. deletion[d].pc = "row" => Deleting(c)
    BY DEF Deleting
  <2>3. ASSUME NEW x \in Courses, Requested(x), Deleting(x) \/ x \notin rows
        PROVE  x \in overlapped'
    BY <2>3 DEF CourseInv, OverlapsNoticed, HasRow
  <2>4. QED
    BY <1>5, <2>1, <2>2, <2>3 DEF OverlapsNoticed, HasRow
<1>12. ContainersHeld' /\ ContainersAccounted'
  <2>1. \A x \in Courses : Gone(x) => Gone(x)'
    BY <1>4 DEF Gone
  <2>2. Gone(c)'
    BY <1>4 DEF Gone
  <2>3. ASSUME NEW x \in Courses, LeftOver(x)
        PROVE  Answerable(x)'
    BY <2>3 DEF LeftOver, Answerable
  <2>4. ASSUME NEW x \in Courses, named[x] \in containers', ~LeftOver(x), Answerable(x)
        PROVE  Answerable(x)'
    <3>1. x \in rows /\ \A e \in Deletions : ~(deletion[e].course = x /\ deletion[e].pc = "row")
      BY <2>4 DEF Answerable, HasRow
    <3>2. x \in rows'
      BY <3>1
    <3>3. CASE p = "row" /\ x = c
      <4>1. c \in reported'
        BY <2>4, <3>3
      <4>2. QED
        BY <3>3, <4>1 DEF Answerable, LeftOver
    <3>4. CASE ~(p = "row" /\ x = c)
      <4>1. \A e \in Deletions : ~(deletion'[e].course = x /\ deletion'[e].pc = "row")
        BY <1>1, <3>1, <3>4
      <4>2. QED
        BY <3>2, <4>1 DEF Answerable, HasRow
    <3>5. QED
      BY <3>3, <3>4
  <2>5. \A x \in Courses : Answerable(x) /\ named[x] \in containers' => Answerable(x)'
    BY <2>3, <2>4
  <2>6. rows' \subseteq Courses
    BY Typed
  <2>7. \A n \in containers \ containers' : \E x \in Courses : named'[x] = n /\ Gone(x)'
    BY <2>2
  <2>8. QED
    BY <2>1, <2>5, <2>6, <2>7, ContainerStep
<1>13. DeletionComplete'
  <2>1. ASSUME NEW x \in Courses, x \notin rows'
        PROVE  /\ x \in cache' => x \in overlapped'
               /\ x \in directories' => x \in overlapped' \cup unremoved'
    <3>1. CASE x \notin rows
      BY <3>1 DEF CourseInv, DeletionComplete, HasRow
    <3>2. CASE x \in rows
      BY <2>1, <3>2 DEF CourseInv, RemovedInOrder
    <3>3. QED
      BY <3>1, <3>2
  <2>2. QED
    BY <2>1 DEF DeletionComplete, HasRow
<1>14. LegacySessionsStayOnCourse'
  BY DEF CourseInv, LegacySessionsStayOnCourse, HasRow
<1>15. QED
  BY <1>6, <1>7, <1>8, <1>9, <1>10, <1>11, <1>12, <1>13, <1>14 DEF CourseInv

LEMMA DeletionKeepsInv ==
  ASSUME CourseInv, NEW d \in Deletions,
         \/ Evict(d) \/ RemoveDirectory(d) \/ RemoveContainer(d)
         \/ DeleteRow(d) \/ DeletionFails(d)
  PROVE  CourseInv'
<1>1. /\ deletion[d].pc \in {"checked", "directory", "container", "row"}
      /\ deletion[d].course \in Courses
  BY Typed DEF Evict, RemoveDirectory, RemoveContainer, DeleteRow, DeletionFails
<1>2. PICK c \in Courses : c = deletion[d].course
  BY <1>1
<1>3. reported \subseteq Courses /\ unremoved \subseteq Courses /\ overlapped \subseteq Courses
  BY Typed DEF CourseInv, TypeOK
<1>4. CASE Evict(d)
  <2>1. /\ deletion[d].pc = "checked"
        /\ cache' = cache \ {c}
        /\ deletion' = [deletion EXCEPT ![d].pc = "directory"]
        /\ overlapped' = IF Requested(c) THEN overlapped \cup {c} ELSE overlapped
        /\ UNCHANGED <<boot, seeded, rows, born, legacy, named, containers, directories,
                       creation, request, opened, reported, unremoved, crashes>>
    BY <1>2, <1>4 DEF Evict, OverlapsWith
  <2>2. QED
    BY <1>2, <1>3, <2>1, DeletionStepKeepsInv
<1>5. CASE RemoveDirectory(d)
  <2>1. /\ deletion[d].pc = "directory"
        /\ deletion' = [deletion EXCEPT ![d].pc = "container"]
        /\ \/ directories' = directories \ {c} /\ UNCHANGED unremoved
           \/ c \in directories /\ unremoved' = unremoved \cup {c} /\ UNCHANGED directories
        /\ UNCHANGED <<boot, seeded, rows, born, legacy, named, containers, cache,
                       creation, request, opened, reported, overlapped, crashes>>
    BY <1>2, <1>5 DEF RemoveDirectory
  <2>2. QED
    BY <1>2, <1>3, <2>1, DeletionStepKeepsInv
<1>6. CASE RemoveContainer(d)
  <2>1. /\ deletion[d].pc = "container"
        /\ deletion' = [deletion EXCEPT ![d].pc = "row"]
        /\ \/ containers' = containers \ {named[c]} /\ UNCHANGED reported
           \/ /\ containers' \in {containers, containers \ {named[c]}}
              /\ reported' = reported \cup {c}
        /\ UNCHANGED <<boot, seeded, rows, born, legacy, named, directories, cache,
                       creation, request, opened, unremoved, overlapped, crashes>>
    BY <1>2, <1>6 DEF RemoveContainer
  <2>2. QED
    BY <1>2, <1>3, <2>1, DeletionStepKeepsInv
<1>7. CASE DeleteRow(d)
  <2>1. /\ deletion[d].pc = "row"
        /\ rows' = rows \ {c}
        /\ deletion' = [deletion EXCEPT ![d].pc = "over"]
        /\ UNCHANGED <<boot, seeded, born, legacy, named, containers, directories, cache,
                       creation, request, opened, reported, unremoved, overlapped, crashes>>
    BY <1>2, <1>7 DEF DeleteRow, notes
  <2>2. QED
    BY <1>2, <1>3, <2>1, DeletionStepKeepsInv
<1>8. CASE DeletionFails(d)
  <2>1. /\ deletion[d].pc \in {"container", "row"}
        /\ deletion' = [deletion EXCEPT ![d].pc = "over"]
        /\ UNCHANGED <<boot, seeded, rows, born, legacy, named, containers, directories, cache,
                       creation, request, opened, reported, unremoved, overlapped, crashes>>
    BY <1>8 DEF DeletionFails, system, notes
  <2>2. QED
    BY <1>2, <1>3, <2>1, DeletionStepKeepsInv
<1>9. QED
  BY <1>4, <1>5, <1>6, <1>7, <1>8

-----------------------------------------------------------------------------
(***************************************************************************)
(* The requests that use a harness.                                        *)
(***************************************************************************)

\* A step of requests on course c changes nothing of a course but its harness
\* and its directory, and leaves every overlap noticed.
LEMMA TouchKeepsCourses ==
  ASSUME CourseInv, NEW c \in Born,
         cache \subseteq cache', cache' \subseteq cache \cup {c},
         directories \subseteq directories', directories' \subseteq directories \cup {c},
         overlapped \subseteq overlapped', overlapped' \subseteq Courses,
         Deleting(c) \/ ~HasRow(c) => c \in overlapped',
         \A x \in Courses : Requested(x)' => Requested(x) \/ x = c,
         UNCHANGED <<boot, seeded, rows, born, legacy, named, containers, creation, deletion,
                     reported, unremoved, crashes>>
  PROVE  /\ CreationFirst' /\ LegacyOldest' /\ RemovedInOrder' /\ OverlapsNoticed'
         /\ AdminFirst' /\ ContainersHeld' /\ ContainersAccounted'
         /\ DeletionComplete'
         /\ cache' \subseteq Courses /\ directories' \subseteq Courses
<1>1. c \in Courses /\ cache' \subseteq Courses /\ directories' \subseteq Courses
  BY Typed
<1>2. CreationFirst' /\ LegacyOldest' /\ AdminFirst'
  BY DEF CourseInv, CreationFirst, LegacyOldest, AdminFirst, Ready, HasRow
<1>3. RemovedInOrder'
  <2>1. ASSUME NEW d \in Deletions, deletion[d].pc \in {"directory", "container", "row"}
        PROVE  deletion[d].course = c => c \in overlapped'
    BY <2>1 DEF Deleting
  <2>2. QED
    BY <2>1 DEF CourseInv, RemovedInOrder
<1>4. OverlapsNoticed'
  <2>1. \A x \in Courses : Deleting(x)' <=> Deleting(x)
    BY DEF Deleting
  <2>2. QED
    BY <2>1 DEF CourseInv, OverlapsNoticed, HasRow
<1>5. ContainersHeld' /\ ContainersAccounted'
  BY ContainersUntouched
<1>6. DeletionComplete'
  BY DEF CourseInv, DeletionComplete, HasRow
<1>7. QED
  BY <1>1, <1>2, <1>3, <1>4, <1>5, <1>6

\* The request that takes such a step gets new values.
LEMMA RequestStep ==
  ASSUME CourseInv, NEW r \in Requests, NEW q \in Request, NEW c \in Born,
         request' = [request EXCEPT ![r] = q],
         q.pc # "none" => q.course = c,
         \A s \in Sessions : opened'[s] \in {opened[s], c},
         opened' \in [Sessions -> Courses \cup {NoCourse}],
         cache \subseteq cache', cache' \subseteq cache \cup {c},
         directories \subseteq directories', directories' \subseteq directories \cup {c},
         overlapped \subseteq overlapped', overlapped' \subseteq Courses,
         Deleting(c) \/ ~HasRow(c) => c \in overlapped',
         UNCHANGED <<boot, seeded, rows, born, legacy, named, containers, creation, deletion,
                     reported, unremoved, crashes>>
  PROVE  /\ TypeOK' /\ IdsFresh' /\ CreationFirst' /\ LegacyOldest' /\ RemovedInOrder'
         /\ OverlapsNoticed' /\ AdminFirst' /\ ContainersHeld' /\ ContainersAccounted'
         /\ DeletionComplete'
         /\ request'[r] = q
         /\ \A o \in Requests : o # r => request'[o] = request[o]
<1>1. /\ request' \in [Requests -> Request]
      /\ request'[r] = q
      /\ \A o \in Requests : o # r => request'[o] = request[o]
  BY Typed
<1>2. \A x \in Courses : Requested(x)' => Requested(x) \/ x = c
  BY <1>1 DEF Requested
<1>3. Born' = Born
  BY DEF Born
<1>4. /\ CreationFirst' /\ LegacyOldest' /\ RemovedInOrder'
      /\ OverlapsNoticed' /\ AdminFirst' /\ ContainersHeld' /\ ContainersAccounted'
         /\ DeletionComplete'
      /\ cache' \subseteq Courses /\ directories' \subseteq Courses
  BY <1>2, TouchKeepsCourses
<1>5. TypeOK'
  BY <1>1, <1>3, <1>4 DEF CourseInv, TypeOK
<1>6. IdsFresh'
  <2>1. \A o \in Requests : request'[o].pc # "none" => request'[o].course \in Born
    BY <1>1 DEF CourseInv, IdsFresh
  <2>2. \A s \in Sessions : opened'[s] # NoCourse => opened'[s] \in Born
    BY DEF CourseInv, IdsFresh
  <2>3. QED
    BY <1>3, <2>1, <2>2 DEF CourseInv, IdsFresh
<1>7. QED
  BY <1>1, <1>4, <1>5, <1>6

\* A request that is on no session of the legacy routes.
LEMMA PlainRequestKeepsInv ==
  ASSUME CourseInv, NEW r \in Requests, NEW q \in Request, NEW c \in Born,
         request' = [request EXCEPT ![r] = q],
         q.pc # "none" => q.course = c,
         q.session = NoSession, q.opens = FALSE,
         cache \subseteq cache', cache' \subseteq cache \cup {c},
         directories \subseteq directories', directories' \subseteq directories \cup {c},
         overlapped \subseteq overlapped', overlapped' \subseteq Courses,
         Deleting(c) \/ ~HasRow(c) => c \in overlapped',
         UNCHANGED <<boot, seeded, rows, born, legacy, named, containers, creation, deletion,
                     opened, reported, unremoved, crashes>>
  PROVE  CourseInv'
<1>1. /\ TypeOK' /\ IdsFresh' /\ CreationFirst' /\ LegacyOldest' /\ RemovedInOrder'
      /\ OverlapsNoticed' /\ AdminFirst' /\ ContainersHeld' /\ ContainersAccounted'
         /\ DeletionComplete'
      /\ request'[r] = q
      /\ \A o \in Requests : o # r => request'[o] = request[o]
  BY Typed, RequestStep
<1>2. SessionsOpenedOnce'
  BY <1>1 DEF CourseInv, SessionsOpenedOnce
<1>3. LegacySessionsStayOnCourse'
  BY <1>1 DEF CourseInv, LegacySessionsStayOnCourse, HasRow
<1>4. QED
  BY <1>1, <1>2, <1>3 DEF CourseInv

\* The course of a request that is under way is known, and whether it is being
\* deleted has been noticed.
LEMMA UnderWay ==
  ASSUME CourseInv, NEW r \in Requests, request[r].pc # "none"
  PROVE  /\ request[r].course \in Born
         /\ Deleting(request[r].course) \/ ~HasRow(request[r].course)
              => request[r].course \in overlapped
<1>1. request[r].course \in Born /\ request[r].course \in Courses
  BY Typed DEF CourseInv, IdsFresh
<1>2. Requested(request[r].course)
  BY DEF Requested
<1>3. QED
  BY <1>1, <1>2 DEF CourseInv, OverlapsNoticed

LEMMA NoRequestTyped ==
  /\ NoRequest \in Request
  /\ NoRequest.pc = "none" /\ NoRequest.session = NoSession /\ NoRequest.opens = FALSE
BY DEF NoRequest, Request, RequestPoints

LEMMA CheckMemberKeepsInv ==
  ASSUME CourseInv, NEW r \in Requests, NEW c \in Courses, CheckMember(r, c)
  PROVE  CourseInv'
<1> DEFINE q == [NoRequest EXCEPT !.pc = "checked", !.course = c]
<1>1. /\ request[r].pc = "none"
      /\ c \in rows
      /\ request' = [request EXCEPT ![r] = q]
      /\ overlapped' = IF Deleting(c) THEN overlapped \cup {c} ELSE overlapped
      /\ UNCHANGED <<boot, seeded, rows, born, legacy, named, containers, directories, cache,
                     creation, deletion, opened, reported, unremoved, crashes>>
  BY DEF CheckMember, OverlapsWith, system, HasRow
<1>2. q \in Request /\ q.course = c /\ q.session = NoSession /\ q.opens = FALSE
  BY DEF NoRequest, Request, RequestPoints
<1> HIDE DEF q
<1>3. c \in Born /\ HasRow(c) /\ overlapped' \subseteq Courses
  BY <1>1, Typed DEF HasRow
<1>4. /\ cache \subseteq cache' /\ cache' \subseteq cache \cup {c}
      /\ directories \subseteq directories' /\ directories' \subseteq directories \cup {c}
      /\ overlapped \subseteq overlapped'
      /\ Deleting(c) \/ ~HasRow(c) => c \in overlapped'
  BY <1>1, <1>3
<1>5. QED
  BY <1>1, <1>2, <1>3, <1>4, PlainRequestKeepsInv

LEMMA GetHarnessKeepsInv ==
  ASSUME CourseInv, NEW r \in Requests, GetHarness(r) \/ BuildFails(r)
  PROVE  CourseInv'
<1>1. request[r].pc = "checked"
  BY DEF GetHarness, BuildFails
<1>2. PICK c \in Born : c = request[r].course
  BY <1>1, UnderWay
<1>3. Deleting(c) \/ ~HasRow(c) => c \in overlapped
  BY <1>1, <1>2, UnderWay
<1>4. request[r].session = NoSession /\ request[r].opens = FALSE
  BY <1>1, Typed DEF CourseInv, SessionsOpenedOnce, Request
<1>5. overlapped \subseteq Courses
  BY Typed
<1>6. CASE GetHarness(r)
  <2>1. PICK old \in Request : old = request[r]
    BY Typed
  <2> DEFINE q == [old EXCEPT !.pc = "working"]
  <2>2. q \in Request /\ q.course = c /\ q.session = NoSession /\ q.opens = FALSE
    BY <1>2, <1>4, <2>1 DEF Request, RequestPoints
  <2>3. request' = [request EXCEPT ![r] = q]
    BY <1>6, <2>1 DEF GetHarness
  <2>4. /\ cache' = cache \cup {c}
        /\ directories \subseteq directories' /\ directories' \subseteq directories \cup {c}
        /\ UNCHANGED <<boot, seeded, rows, born, legacy, named, containers,
                       creation, deletion, opened, reported, unremoved, overlapped, crashes>>
    BY <1>2, <1>6 DEF GetHarness, GetOrCreate, Materialized, notes
  <2> HIDE DEF q
  <2>5. QED
    BY <1>3, <1>5, <2>2, <2>3, <2>4, PlainRequestKeepsInv
<1>7. CASE BuildFails(r)
  <2>1. /\ request' = [request EXCEPT ![r] = NoRequest]
        /\ directories \subseteq directories' /\ directories' \subseteq directories \cup {c}
        /\ UNCHANGED <<boot, seeded, rows, born, legacy, named, containers, cache,
                       creation, deletion, opened, reported, unremoved, overlapped, crashes>>
    BY <1>2, <1>7 DEF BuildFails, Materialized, notes
  <2>2. QED
    BY <1>3, <1>5, <2>1, NoRequestTyped, PlainRequestKeepsInv
<1>8. QED
  BY <1>6, <1>7

LEMMA LegacyBuildFailsKeepsInv ==
  ASSUME CourseInv, NEW c \in Courses, LegacyBuildFails(c)
  PROVE  CourseInv'
<1>1. c \in Born /\ HasRow(c)
  BY DEF LegacyBuildFails, IsDefaultCourse, Born
<1>2. /\ directories \subseteq directories' /\ directories' \subseteq directories \cup {c}
      /\ overlapped' = IF Deleting(c) THEN overlapped \cup {c} ELSE overlapped
      /\ UNCHANGED <<boot, seeded, rows, born, legacy, named, containers, cache, creation,
                     deletion, request, opened, reported, unremoved, crashes>>
  BY DEF LegacyBuildFails, Materialized, OverlapsWith
<1>3. /\ overlapped \subseteq overlapped' /\ overlapped' \subseteq Courses
      /\ Deleting(c) \/ ~HasRow(c) => c \in overlapped'
      /\ cache \subseteq cache' /\ cache' \subseteq cache \cup {c}
  BY <1>1, <1>2, Typed
<1>4. \A x \in Courses : Requested(x)' => Requested(x) \/ x = c
  BY <1>2 DEF Requested
<1>5. /\ CreationFirst' /\ LegacyOldest' /\ RemovedInOrder' /\ OverlapsNoticed'
      /\ AdminFirst' /\ ContainersHeld' /\ ContainersAccounted'
         /\ DeletionComplete'
      /\ cache' \subseteq Courses /\ directories' \subseteq Courses
  BY <1>1, <1>2, <1>3, <1>4, TouchKeepsCourses
<1>6. Born' = Born
  BY <1>2 DEF Born
<1>7. TypeOK' /\ IdsFresh'
  BY <1>2, <1>3, <1>5, <1>6 DEF CourseInv, TypeOK, IdsFresh
<1>8. SessionsOpenedOnce' /\ LegacySessionsStayOnCourse'
  BY <1>2 DEF CourseInv, SessionsOpenedOnce, LegacySessionsStayOnCourse, HasRow
<1>9. QED
  BY <1>5, <1>7, <1>8 DEF CourseInv

\* The default course is the seeded one for as long as that has a row.
LEMMA DefaultIsSeeded ==
  ASSUME CourseInv, NEW c \in Courses, IsDefaultCourse(c), NEW x \in legacy, HasRow(x)
  PROVE  c = x
<1>1. PICK i \in DOMAIN born : born[i] = c /\ HasRow(c)
                               /\ \A j \in DOMAIN born : j < i => ~HasRow(born[j])
  BY DEF IsDefaultCourse
<1>2. PICK k \in DOMAIN born : born[k] = x
  BY Typed DEF CourseInv, IdsFresh, Born
<1>3. i \in Nat /\ k \in Nat
  BY Typed
<1>4. ~(k < i)
  BY <1>1, <1>2
<1>5. ~(i < k)
  BY <1>1, <1>2 DEF CourseInv, LegacyOldest
<1>6. QED
  BY <1>1, <1>2, <1>3, <1>4, <1>5

LEMMA LegacyRequestKeepsInv ==
  ASSUME CourseInv, NEW r \in Requests, NEW s \in Sessions, OpenSession(r, s) \/ TakeTurn(r, s)
  PROVE  CourseInv'
<1>1. PICK opens \in BOOLEAN : /\ LegacyRequest(r, s, opens)
                               /\ opens => /\ opened[s] = NoCourse
                                           /\ \A o \in Requests : request[o].session # s
                               /\ ~opens => opened[s] # NoCourse
  BY DEF OpenSession, TakeTurn
<1>2. PICK c \in Courses :
        /\ IsDefaultCourse(c)
        /\ GetOrCreate(c)
        /\ request' = [request EXCEPT ![r] = [pc |-> "working", course |-> c,
                                              session |-> s, opens |-> opens]]
        /\ overlapped' = OverlapsWith(c, Deleting(c))
        /\ UNCHANGED <<creation, deletion, opened, reported, unremoved, crashes>>
  BY <1>1 DEF LegacyRequest
<1> DEFINE q == [pc |-> "working", course |-> c, session |-> s, opens |-> opens]
<1>3. /\ q \in Request
      /\ q.pc = "working" /\ q.course = c /\ q.session = s /\ q.opens = opens
      /\ request' = [request EXCEPT ![r] = q]
  BY <1>2 DEF Request, RequestPoints
<1> HIDE DEF q
<1>4. c \in Born /\ HasRow(c)
  BY <1>2 DEF IsDefaultCourse, Born
<1>5. /\ cache \subseteq cache' /\ cache' \subseteq cache \cup {c}
      /\ directories \subseteq directories' /\ directories' \subseteq directories \cup {c}
      /\ UNCHANGED <<boot, seeded, rows, born, legacy, named, containers>>
  BY <1>2 DEF GetOrCreate, Materialized
<1>6. /\ overlapped \subseteq overlapped' /\ overlapped' \subseteq Courses
      /\ Deleting(c) \/ ~HasRow(c) => c \in overlapped'
  BY <1>2, <1>4, Typed DEF OverlapsWith
<1>7. /\ TypeOK' /\ IdsFresh' /\ CreationFirst' /\ LegacyOldest' /\ RemovedInOrder'
      /\ OverlapsNoticed' /\ AdminFirst' /\ ContainersHeld' /\ ContainersAccounted'
         /\ DeletionComplete'
      /\ request'[r] = q
      /\ \A o \in Requests : o # r => request'[o] = request[o]
  BY <1>2, <1>3, <1>4, <1>5, <1>6, Typed, RequestStep
<1>8. SessionsOpenedOnce'
  <2>1. s # NoSession
    BY CourseAssumption
  <2>2. \A o \in Requests : opens /\ o # r => request[o].session # s
    BY <1>1
  <2>3. \A o \in Requests : o # r =>
          /\ request[o].session # NoSession => request[o].pc = "working"
          /\ request[o].opens => request[o].session # NoSession
                                 /\ opened[request[o].session] = NoCourse
          /\ request[o].session # NoSession /\ ~request[o].opens
               => opened[request[o].session] # NoCourse
    BY DEF CourseInv, SessionsOpenedOnce
  <2>4. \A o, p \in Requests : request[o].opens /\ request[p].opens
          /\ request[o].session = request[p].session => o = p
    BY DEF CourseInv, SessionsOpenedOnce
  <2>5. opened' = opened
    BY <1>2
  <2>6. \A o \in Requests : request'[o].session # NoSession => request'[o].pc = "working"
    BY <1>3, <1>7, <2>3
  <2>7. \A o \in Requests : request'[o].opens =>
          request'[o].session # NoSession /\ opened[request'[o].session] = NoCourse
    BY <1>1, <1>3, <1>7, <2>1, <2>3
  <2>8. \A o \in Requests : request'[o].session # NoSession /\ ~request'[o].opens =>
          opened[request'[o].session] # NoCourse
    BY <1>1, <1>3, <1>7, <2>3
  <2>9. \A o, p \in Requests : request'[o].opens /\ request'[p].opens
          /\ request'[o].session = request'[p].session => o = p
    BY <1>3, <1>7, <2>2, <2>4
  <2>10. QED
    BY <2>5, <2>6, <2>7, <2>8, <2>9 DEF SessionsOpenedOnce
<1>9. LegacySessionsStayOnCourse'
  <2>1. opened[s] \in legacy /\ HasRow(opened[s]) => c = opened[s]
    BY <1>2, DefaultIsSeeded
  <2>2. QED
    BY <1>2, <1>3, <1>5, <1>7, <2>1 DEF CourseInv, LegacySessionsStayOnCourse, HasRow
<1>10. QED
  BY <1>7, <1>8, <1>9 DEF CourseInv

\* A session gets its course once the request that opens it has finished, and
\* no turn can be under way on it before.
LEMMA FinishKeepsInv ==
  ASSUME CourseInv, NEW r \in Requests, Finish(r)
  PROVE  CourseInv'
<1>1. request[r].pc = "working"
  BY DEF Finish
<1>2. PICK c \in Born : c = request[r].course
  BY <1>1, UnderWay
<1>3. PICK s : s = request[r].session
  OBVIOUS
<1>4. /\ request' = [request EXCEPT ![r] = NoRequest]
      /\ directories \subseteq directories' /\ directories' \subseteq directories \cup {c}
      /\ opened' = IF request[r].opens THEN [opened EXCEPT ![s] = c] ELSE opened
      /\ UNCHANGED <<boot, seeded, rows, born, legacy, named, containers, cache,
                     creation, deletion, reported, unremoved, overlapped, crashes>>
  BY <1>2, <1>3 DEF Finish, Materialized, notes
<1>5. c \in Courses /\ overlapped \subseteq Courses
  BY Typed
<1>6. c # NoCourse
  BY <1>5, CourseAssumption
<1>7. Deleting(c) \/ ~HasRow(c) => c \in overlapped
  BY <1>1, <1>2, UnderWay
<1>8. request[r].opens => s \in Sessions
  BY <1>3, Typed DEF CourseInv, SessionsOpenedOnce, Request
<1>9. /\ opened' \in [Sessions -> Courses \cup {NoCourse}]
      /\ \A x \in Sessions : opened'[x] \in {opened[x], c}
      /\ \A x \in Sessions : ~(request[r].opens /\ x = s) => opened'[x] = opened[x]
  BY <1>4, <1>5, <1>8, Typed
<1>10. /\ TypeOK' /\ IdsFresh' /\ CreationFirst' /\ LegacyOldest' /\ RemovedInOrder'
      /\ OverlapsNoticed' /\ AdminFirst' /\ ContainersHeld' /\ ContainersAccounted'
         /\ DeletionComplete'
      /\ request'[r] = NoRequest
      /\ \A o \in Requests : o # r => request'[o] = request[o]
  BY <1>4, <1>5, <1>7, <1>9, NoRequestTyped, RequestStep
<1>11. ASSUME NEW o \in Requests, o # r, request[o].session # NoSession
       PROVE  /\ request[o].session \in Sessions
              /\ ~(request[r].opens /\ request[o].session = s)
              /\ opened'[request[o].session] = opened[request[o].session]
  <2>1. request[o].session \in Sessions
    BY <1>11, Typed DEF Request
  <2>2. ~(request[r].opens /\ request[o].session = s)
    BY <1>3, <1>11 DEF CourseInv, SessionsOpenedOnce
  <2>3. QED
    BY <1>9, <2>1, <2>2
<1>12. SessionsOpenedOnce'
  <2>1. \A o \in Requests : request'[o].opens => o # r /\ request[o].session # NoSession
    BY <1>10, NoRequestTyped DEF CourseInv, SessionsOpenedOnce
  <2>2. \A o \in Requests : request'[o].session # NoSession => o # r
    BY <1>10, NoRequestTyped
  <2>3. QED
    BY <1>10, <1>11, <2>1, <2>2 DEF CourseInv, SessionsOpenedOnce
<1>13. LegacySessionsStayOnCourse'
  <2>1. \A o \in Requests : request'[o].pc = "working" => o # r
    BY <1>10, NoRequestTyped
  <2>2. QED
    BY <1>4, <1>10, <1>11, <2>1 DEF CourseInv, LegacySessionsStayOnCourse, HasRow
<1>14. QED
  BY <1>10, <1>12, <1>13 DEF CourseInv

-----------------------------------------------------------------------------
(***************************************************************************)
(* The crash, and every step.                                              *)
(***************************************************************************)

LEMMA CrashKeepsInv ==
  ASSUME CourseInv, Crash
  PROVE  CourseInv'
<1>1. /\ crashes < MaxCrashes /\ crashes' = crashes + 1
      /\ boot' = "admin" /\ cache' = {}
      /\ UNCHANGED <<seeded, rows, born, legacy, named, containers, directories, reported,
                     unremoved, overlapped>>
  BY DEF Crash
<1>2. /\ creation' \in [Courses -> CreationPoints]
      /\ \A x \in Courses : creation[x] \in {"provision", "insert", "rollback"} =>
                              creation'[x] = "interrupted"
      /\ \A x \in Courses : creation[x] \notin {"provision", "insert", "rollback"} =>
                              creation'[x] = creation[x]
  BY Typed DEF Crash, CreationPoints
<1>3. /\ deletion' \in [Deletions -> Deletion]
      /\ \A d \in Deletions : /\ deletion'[d].pc \in {"none", "over"}
                              /\ deletion'[d].pc # "none" =>
                                   /\ deletion[d].pc # "none"
                                   /\ deletion'[d].course = deletion[d].course
                              /\ deletion[d].pc \notin {"none", "checked"} =>
                                   deletion'[d].pc = "over"
  <2>1. ASSUME NEW d \in Deletions
        PROVE  /\ deletion'[d] \in Deletion
               /\ deletion'[d].pc \in {"none", "over"}
               /\ deletion'[d].pc # "none" =>
                    /\ deletion[d].pc # "none"
                    /\ deletion'[d].course = deletion[d].course
               /\ deletion[d].pc \notin {"none", "checked"} => deletion'[d].pc = "over"
    <3>1. PICK old \in Deletion : old = deletion[d]
      BY Typed
    <3>2. deletion'[d] = IF old.pc = "checked" THEN NoDeletion
                         ELSE IF old.pc = "none" THEN old
                         ELSE [old EXCEPT !.pc = "over"]
      BY <3>1 DEF Crash
    <3>3. QED
      BY <3>1, <3>2 DEF NoDeletion, Deletion, DeletionPoints
  <2>2. deletion' = [d \in Deletions |-> deletion'[d]]
    BY DEF Crash
  <2>3. QED
    BY <2>1, <2>2
<1>4. /\ request' \in [Requests -> Request]
      /\ \A r \in Requests : /\ request'[r].pc = "none"
                             /\ request'[r].session = NoSession
                             /\ request'[r].opens = FALSE
  BY NoRequestTyped DEF Crash
<1>5. /\ opened' \in [Sessions -> Courses \cup {NoCourse}]
      /\ \A s \in Sessions : opened'[s] = NoCourse
  BY DEF Crash
<1>6. Born' = Born
  BY <1>1 DEF Born
<1>7. TypeOK'
  <2>1. crashes' \in 0 .. MaxCrashes
    BY <1>1, CourseAssumption DEF CourseInv, TypeOK
  <2>2. QED
    BY <1>1, <1>2, <1>3, <1>4, <1>5, <1>6, <2>1 DEF CourseInv, TypeOK, BootPoints
<1>8. AdminFirst'
  BY <1>1 DEF AdminFirst
<1>9. IdsFresh'
  <2>1. \A x \in Courses : creation'[x] # "none" => x \in Born
    BY <1>2 DEF CourseInv, IdsFresh
  <2>2. \A d \in Deletions : deletion'[d].pc # "none" => deletion'[d].course \in Born
    BY <1>3 DEF CourseInv, IdsFresh
  <2>3. QED
    BY <1>1, <1>4, <1>5, <1>6, <2>1, <2>2 DEF CourseInv, IdsFresh
<1>10. \A x \in Courses : creation[x] \in Through => creation'[x] = creation[x]
  BY <1>2 DEF Through
<1>11. CreationFirst'
  <2>1. \A x \in Courses : creation'[x] \notin {"provision", "insert", "rollback"}
    BY <1>2
  <2>2. \A x \in rows' : creation'[x] \in Through
    BY <1>1, <1>10, Typed DEF CourseInv, CreationFirst
  <2>3. \A d \in Deletions : deletion'[d].pc # "none" => creation'[deletion'[d].course] \in Through
    BY <1>3, <1>10, Typed DEF CourseInv, CreationFirst
  <2>4. QED
    BY <2>1, <2>2, <2>3 DEF CreationFirst
<1>12. LegacyOldest'
  <2>1. \A x \in legacy' : creation'[x] = "none"
    BY <1>1, <1>10, Typed DEF CourseInv, LegacyOldest, Through
  <2>2. ASSUME NEW i \in DOMAIN born, NEW j \in DOMAIN born, born[i] \in legacy, j < i
        PROVE  born[j] \notin rows /\ creation'[born[j]] \notin {"provision", "insert"}
    <3>1. born[j] \in Courses
      BY Typed DEF Born
    <3>2. born[j] \notin rows
      BY <2>2 DEF CourseInv, LegacyOldest, HasRow
    <3>3. QED
      BY <1>2, <3>1, <3>2
  <2>3. QED
    BY <1>1, <2>1, <2>2 DEF LegacyOldest, HasRow
<1>13. RemovedInOrder'
  BY <1>3 DEF RemovedInOrder
<1>14. OverlapsNoticed' /\ LegacySessionsStayOnCourse'
  BY <1>4 DEF OverlapsNoticed, Requested, LegacySessionsStayOnCourse
<1>15. SessionsOpenedOnce'
  BY <1>4 DEF SessionsOpenedOnce
<1>16. ContainersHeld' /\ ContainersAccounted'
  <2>1. \A x \in Courses : Gone(x) => Gone(x)'
    <3>1. ASSUME NEW x \in Courses, NEW d \in Deletions, deletion[d].course = x,
                 deletion[d].pc \notin {"none", "checked"}
          PROVE  deletion'[d].course = x /\ deletion'[d].pc \notin {"none", "checked"}
      BY <1>3, <3>1
    <3>2. \A x \in Courses : TakenApart(x) => TakenApart(x)'
      BY <3>1 DEF TakenApart
    <3>3. QED
      BY <1>2, <3>2 DEF Gone
  <2>2. \A x \in Courses : LeftOver(x) => LeftOver(x)'
    BY <1>1, <1>2 DEF LeftOver
  <2>3. \A d \in Deletions : deletion'[d].pc # "row"
    BY <1>3
  <2>4. \A x \in Courses : Answerable(x) => Answerable(x)'
    BY <1>1, <2>2, <2>3 DEF Answerable, HasRow
  <2>5. rows' \subseteq Courses /\ \A x \in Courses : creation'[x] # "insert"
    <3>1. \A x \in Courses : creation'[x] # "insert"
      BY <1>2
    <3>2. QED
      BY <1>1, <3>1, Typed
  <2>6. QED
    BY <1>1, <2>1, <2>4, <2>5, ContainerStep
<1>17. DeletionComplete'
  BY <1>1 DEF CourseInv, DeletionComplete, HasRow
<1>18. QED
  BY <1>7, <1>8, <1>9, <1>11, <1>12, <1>13, <1>14, <1>15, <1>16, <1>17 DEF CourseInv

LEMMA StutterKeepsInv ==
  ASSUME CourseInv, UNCHANGED vars
  PROVE  CourseInv'
<1>1. UNCHANGED <<boot, seeded, rows, born, legacy, named, containers, directories, cache, creation,
                  deletion, request, opened, reported, unremoved, overlapped, crashes>>
  BY DEF vars, system, notes
<1>2. TypeOK' /\ AdminFirst'
  BY <1>1 DEF CourseInv, TypeOK, AdminFirst, Born
<1>3. IdsFresh' /\ CreationFirst' /\ LegacyOldest'
  BY <1>1 DEF CourseInv, IdsFresh, CreationFirst, LegacyOldest, Born, HasRow, Ready
<1>4. RemovedInOrder' /\ OverlapsNoticed' /\ SessionsOpenedOnce'
  BY <1>1 DEF CourseInv, RemovedInOrder, OverlapsNoticed, SessionsOpenedOnce, Requested,
     Deleting, HasRow
<1>5. DeletionComplete' /\ LegacySessionsStayOnCourse'
  BY <1>1 DEF CourseInv, DeletionComplete, LegacySessionsStayOnCourse, HasRow
<1>6. ContainersHeld' /\ ContainersAccounted'
  BY <1>1, ContainersUntouched
<1>7. QED
  BY <1>2, <1>3, <1>4, <1>5, <1>6 DEF CourseInv

LEMMA InitEstablishesInv ==
  ASSUME Init
  PROVE  CourseInv
<1>1. /\ rows = {} /\ born = <<>> /\ legacy = {} /\ containers = Existing /\ directories = {}
      /\ cache = {} /\ boot = "admin" /\ seeded = FALSE /\ crashes = 0
      /\ reported = {} /\ unremoved = {} /\ overlapped = {}
  BY DEF Init
<1>2. /\ creation \in [Courses -> CreationPoints]
      /\ \A x \in Courses : creation[x] = "none"
      /\ named \in [Courses -> Names] /\ containers \subseteq Names
  BY CourseAssumption DEF Init, CreationPoints, Names
<1>3. /\ deletion \in [Deletions -> Deletion]
      /\ \A d \in Deletions : deletion[d].pc = "none"
  BY DEF Init, NoDeletion, Deletion, DeletionPoints
<1>4. /\ request \in [Requests -> Request]
      /\ \A r \in Requests : /\ request[r].pc = "none"
                             /\ request[r].session = NoSession
                             /\ request[r].opens = FALSE
  BY NoRequestTyped DEF Init
<1>5. /\ opened \in [Sessions -> Courses \cup {NoCourse}]
      /\ \A s \in Sessions : opened[s] = NoCourse
  BY DEF Init
<1>6. born \in Seq(Courses) /\ DOMAIN born = {}
  BY <1>1
<1>7. TypeOK /\ AdminFirst
  <2>1. crashes \in 0 .. MaxCrashes
    BY <1>1, CourseAssumption
  <2>2. boot \in BootPoints /\ seeded \in BOOLEAN /\ rows \subseteq Born
    BY <1>1 DEF BootPoints
  <2>3. TypeOK
    BY <1>1, <1>2, <1>3, <1>4, <1>5, <1>6, <2>1, <2>2 DEF TypeOK
  <2>4. AdminFirst
    BY <1>1 DEF AdminFirst
  <2>5. QED
    BY <2>3, <2>4
<1>8. IdsFresh
  <2>1. \A i, j \in DOMAIN born : born[i] = born[j] => i = j
    BY <1>6
  <2>2. legacy \subseteq Born
    BY <1>1
  <2>3. QED
    BY <1>2, <1>3, <1>4, <1>5, <2>1, <2>2 DEF IdsFresh
<1>9. CreationFirst /\ LegacyOldest
  BY <1>1, <1>2, <1>3 DEF CreationFirst, LegacyOldest
<1>10. RemovedInOrder
  BY <1>3 DEF RemovedInOrder
<1>11. OverlapsNoticed /\ SessionsOpenedOnce /\ LegacySessionsStayOnCourse
  BY <1>4 DEF OverlapsNoticed, SessionsOpenedOnce, LegacySessionsStayOnCourse, Requested
<1>12. ContainersHeld /\ ContainersAccounted /\ DeletionComplete
  BY <1>1, <1>2 DEF ContainersHeld, ContainersAccounted, DeletionComplete, HasRow
<1>13. QED
  BY <1>7, <1>8, <1>9, <1>10, <1>11, <1>12 DEF CourseInv

LEMMA NextKeepsInv ==
  ASSUME CourseInv, [Next]_vars
  PROVE  CourseInv'
<1>1. CASE EnsureAdmin \/ KeepCourses
  BY <1>1, BootKeepsInv
<1>2. ASSUME NEW c \in Courses,
             \/ SeedDefaultCourse(c) \/ CreateCourse(c) \/ Provision(c) \/ ProvisionFails(c)
             \/ InsertCourse(c) \/ InsertCourseFails(c) \/ RollBack(c) \/ LegacyBuildFails(c)
      PROVE  CourseInv'
  BY <1>2, SeedKeepsInv, CreateCourseKeepsInv, CreationKeepsInv, InsertCourseKeepsInv,
     LegacyBuildFailsKeepsInv
<1>3. ASSUME NEW d \in Deletions,
             \/ \E c \in Courses : CheckDeletion(d, c)
             \/ Evict(d) \/ RemoveDirectory(d) \/ RemoveContainer(d)
             \/ DeleteRow(d) \/ DeletionFails(d)
      PROVE  CourseInv'
  BY <1>3, CheckDeletionKeepsInv, DeletionKeepsInv
<1>4. ASSUME NEW r \in Requests,
             \/ \E c \in Courses : CheckMember(r, c)
             \/ GetHarness(r) \/ BuildFails(r)
             \/ \E s \in Sessions : OpenSession(r, s) \/ TakeTurn(r, s)
             \/ Finish(r)
      PROVE  CourseInv'
  BY <1>4, CheckMemberKeepsInv, GetHarnessKeepsInv, LegacyRequestKeepsInv, FinishKeepsInv
<1>5. CASE Crash
  BY <1>5, CrashKeepsInv
<1>6. CASE UNCHANGED vars
  BY <1>6, StutterKeepsInv
<1>7. QED
  BY <1>1, <1>2, <1>3, <1>4, <1>5, <1>6 DEF Next

-----------------------------------------------------------------------------
(***************************************************************************)
(* The theorems.                                                           *)
(***************************************************************************)

\* The course routes and the bootstrap keep their invariant, through every
\* crash.
THEOREM CourseInvariant == Spec => []CourseInv
<1>1. Init => CourseInv
  BY InitEstablishesInv
<1>2. CourseInv /\ [Next]_vars => CourseInv'
  BY NextKeepsInv
<1>3. QED
  BY <1>1, <1>2, PTL DEF Spec

\* Whatever container names the courses are given, shared ones and others' among
\* them, and wherever create_container or delete_container raises: a created
\* course has its container until a course of the same container name is taken
\* apart, and a container the server made that no course names any more has a
\* request still busy with it, one that was cut short or failed, or a deletion
\* that reported it (routes/admin.py:140-154, provisioning.py:75-97).
THEOREM ContainersAreAccounted == Spec => []ContainersAccounted
<1>1. CourseInv => ContainersAccounted
  BY DEF CourseInv
<1>2. QED
  BY <1>1, CourseInvariant, PTL

\* A deleted course leaves no harness and no directory behind but where a
\* request overlapped its deletion or rmtree failed (routes/admin.py:204-219).
THEOREM DeletionsAreComplete == Spec => []DeletionComplete
<1>1. CourseInv => DeletionComplete
  BY DEF CourseInv
<1>2. QED
  BY <1>1, CourseInvariant, PTL

\* Every turn of a session opened on the seeded course goes to that course for
\* as long as it exists (routes/student.py:197-204).
THEOREM LegacySessionsStay == Spec => []LegacySessionsStayOnCourse
<1>1. CourseInv => LegacySessionsStayOnCourse
  BY DEF CourseInv
<1>2. QED
  BY <1>1, CourseInvariant, PTL

\* No two rows share the legacy database files: the one would be older than the
\* other.
LEMMA OneLegacyRow ==
  ASSUME CourseInv, NEW c \in legacy, NEW other \in legacy, HasRow(c), HasRow(other)
  PROVE  c = other
<1>1. PICK i \in DOMAIN born : born[i] = c
  BY Typed DEF CourseInv, IdsFresh, Born
<1>2. PICK k \in DOMAIN born : born[k] = other
  BY Typed DEF CourseInv, IdsFresh, Born
<1>3. i \in Nat /\ k \in Nat
  BY Typed
<1>4. ~(k < i)
  BY <1>1, <1>2 DEF CourseInv, LegacyOldest
<1>5. ~(i < k)
  BY <1>1, <1>2 DEF CourseInv, LegacyOldest
<1>6. QED
  BY <1>1, <1>2, <1>3, <1>4, <1>5

\* Only the last step of the bootstrap makes the server ready.
LEMMA ReadyIsComplete ==
  ASSUME CourseInv, [Next]_vars, ~Ready, Ready'
  PROVE  seeded' /\ rows' # {}
<1>1. KeepCourses \/ \E c \in Courses : SeedDefaultCourse(c)
  <2>1. ASSUME NEW c \in Courses,
               \/ CreateCourse(c) \/ Provision(c) \/ ProvisionFails(c)
               \/ InsertCourse(c) \/ InsertCourseFails(c) \/ RollBack(c) \/ LegacyBuildFails(c)
        PROVE  boot' = boot
    BY <2>1 DEF CreateCourse, Provision, ProvisionFails, InsertCourse, InsertCourseFails,
       RollBack, LegacyBuildFails, system
  <2>2. ASSUME NEW d \in Deletions,
               \/ \E c \in Courses : CheckDeletion(d, c)
               \/ Evict(d) \/ RemoveDirectory(d) \/ RemoveContainer(d)
               \/ DeleteRow(d) \/ DeletionFails(d)
        PROVE  boot' = boot
    BY <2>2 DEF CheckDeletion, Evict, RemoveDirectory, RemoveContainer, DeleteRow,
       DeletionFails, system
  <2>3. ASSUME NEW r \in Requests,
               \/ \E c \in Courses : CheckMember(r, c)
               \/ GetHarness(r) \/ BuildFails(r)
               \/ \E s \in Sessions : OpenSession(r, s) \/ TakeTurn(r, s)
               \/ Finish(r)
        PROVE  boot' = boot
    BY <2>3 DEF CheckMember, GetHarness, BuildFails, OpenSession, TakeTurn, LegacyRequest,
       GetOrCreate, Finish, system
  <2>4. EnsureAdmin \/ Crash \/ UNCHANGED vars => boot' \in {"course", "admin", boot}
    BY DEF EnsureAdmin, Crash, vars, system
  <2>5. QED
    BY <2>1, <2>2, <2>3, <2>4 DEF Next, Ready
<1>2. seeded
  BY <1>1 DEF KeepCourses, SeedDefaultCourse, CourseInv, AdminFirst
<1>3. QED
  BY <1>1, <1>2 DEF KeepCourses, SeedDefaultCourse

\* Wherever it crashed, a server that gets ready has a user and a course, and no
\* two rows share the legacy files (migration.py:13-14).
THEOREM BootstrapIsComplete == Spec => BootstrapCompletes
<1>1. CourseInv /\ [Next]_vars => [~Ready /\ Ready' => seeded' /\ rows' # {}]_vars
  BY ReadyIsComplete
<1>2. CourseInv => \A c, other \in legacy : HasRow(c) /\ HasRow(other) => c = other
  BY OneLegacyRow
<1>3. QED
  BY <1>1, <1>2, CourseInvariant, PTL DEF Spec, BootstrapCompletes

=============================================================================
