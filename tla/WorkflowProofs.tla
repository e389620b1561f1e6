--------------------------- MODULE WorkflowProofs ---------------------------
(* The documents and the workflow of their API definition: what takes them *)
(* off it, what keeps them on it, and what a workflow promises.  For any   *)
(* API definition and any number of requests, database errors and crashes  *)
(* included.                                                               *)
EXTENDS ResourceServiceProofs, FiniteSetTheorems

Spent == {r \in Resources : Removed(r)}

LEMMA WorkflowInit == Init => W!Init
BY DEF Init, W!Init, Removed

(* The workflow judges and changes documents by the operators the service  *)
(* does.                                                                   *)
LEMMA SameOutcome ==
  ASSUME NEW j, NEW doc
  PROVE  /\ W!Outgoing(j, doc) = Outgoing(j, doc)
         /\ W!Created(j) = Created(j)
BY DEF Outgoing, W!Outgoing, Created, W!Created, Updated, W!Updated,
       SectionWritten, W!SectionWritten, Overlay, W!Overlay

LEMMA SameAccess ==
  ASSUME NEW let, NEW doc, NEW user
  PROVE  /\ W!AccessGranted(let, doc, user) = AccessGranted(let, doc, user)
         /\ W!AccessThrows(let, doc, user) = AccessThrows(let, doc, user)
BY DEF AccessGranted, W!AccessGranted, AccessThrows, W!AccessThrows,
       Reached, W!Reached, Applicable, W!Applicable, Throws, W!Throws,
       Grants, W!Grants, ConditionFails, W!ConditionFails

LEMMA SameJudgement ==
  ASSUME NEW j, NEW doc
  PROVE  /\ W!CreateAdmitted(j) = CreateAdmitted(j)
         /\ W!Admissible(j, doc) = Admissible(j, doc)
<1>1. W!CreateAdmitted(j) = CreateAdmitted(j)
  BY DEF CreateAdmitted, W!CreateAdmitted, GuardPasses, W!GuardPasses,
         Applicable, W!Applicable
<1>2. W!UpdateAdmitted(j, doc) = UpdateAdmitted(j, doc)
  BY SameAccess DEF UpdateAdmitted, W!UpdateAdmitted, GuardPasses, W!GuardPasses,
         Updated, W!Updated, Overlay, W!Overlay
<1>3. W!DeleteAdmitted(j, doc) = DeleteAdmitted(j, doc)
  BY SameAccess DEF DeleteAdmitted, W!DeleteAdmitted, GuardPasses, W!GuardPasses,
         MayRead, W!MayRead
<1>4. W!SectionAdmitted(j, doc) = SectionAdmitted(j, doc)
  BY SameAccess DEF SectionAdmitted, W!SectionAdmitted, MayRead, W!MayRead,
         SectionWritten, W!SectionWritten
<1> QED
  BY <1>1, <1>2, <1>3, <1>4 DEF Admissible, W!Admissible

-----------------------------------------------------------------------------
(* Any number of requests at a time: each operation of the database that   *)
(* finds the document its request read, or is about a new one, is one step *)
(* of the workflow.                                                        *)
LEMMA InsertIsCreate ==
  ASSUME IInv, NEW q \in Requests, Insert(q)
  PROVE  W!Next
<1> DEFINE r == target[q]
<1>1. /\ r \in Resources /\ job[q] \in Jobs /\ job[q].op = "create"
      /\ db[r] = None /\ ~Removed(r) /\ CreateAdmitted(job[q])
      /\ db' = [db EXCEPT ![r] = Created(job[q])]
      /\ job' = job /\ target' = target /\ applied' = applied \cup {q}
  BY DEF Insert, Answered, IInv, RequestsSound, IdsReserved, AppliedIsPast,
         Ended, TypeOK, Removed
<1>2. Spent' = Spent /\ r \notin Spent
  BY <1>1 DEF Removed, Spent
<1>3. W!Create(r, job[q])
  BY <1>1, <1>2, SameOutcome, SameJudgement DEF W!Create, Spent
<1> HIDE DEF r
<1> QED
  BY <1>1, <1>3 DEF W!Next

LEMMA WriteIsChange ==
  ASSUME IInv, NEW q \in Requests, Write(q), db[target[q]] = snap[q]
  PROVE  W!Next
<1> DEFINE r == target[q]
<1>1. /\ r \in Resources /\ job[q] \in Jobs /\ job[q].op \in {"update", "section"}
      /\ db[r] \in Doc /\ db[r] # None /\ Admissible(job[q], db[r])
  BY NamesAssumption DEF Write, IInv, TypeOK, RequestsSound, SnapsAdmitted
<1>2. /\ db' = [db EXCEPT ![r] = Overlay(db[r], Outgoing(job[q], db[r]))]
      /\ job' = job /\ target' = target /\ applied' = applied \cup {q}
  BY <1>1 DEF Write, Answered
<1>3. db' = [db EXCEPT ![r] = Outgoing(job[q], db[r])]
  BY <1>1, <1>2, OverlayOfOutgoing
<1>4. Spent' = Spent
  BY <1>1, <1>2 DEF Removed, Spent
<1>5. W!Change(r, job[q])
  BY <1>1, <1>3, <1>4, SameOutcome, SameJudgement DEF W!Change, Spent
<1> HIDE DEF r
<1> QED
  BY <1>1, <1>5 DEF W!Next

LEMMA RemoveIsDelete ==
  ASSUME IInv, NEW q \in Requests, Remove(q), db[target[q]] = snap[q]
  PROVE  W!Next
<1> DEFINE r == target[q]
<1>1. /\ r \in Resources /\ job[q] \in Jobs /\ job[q].op = "delete"
      /\ db[r] # None /\ Admissible(job[q], db[r])
  BY NamesAssumption DEF Remove, IInv, TypeOK, RequestsSound, SnapsAdmitted
<1>2. /\ db' = [db EXCEPT ![r] = None]
      /\ job' = job /\ target' = target /\ applied' = applied \cup {q}
  BY <1>1 DEF Remove, Answered
<1>3. Spent' = Spent \cup {r}
  BY <1>1, <1>2 DEF Removed, Spent
<1>4. W!Delete(r, job[q])
  BY <1>1, <1>2, <1>3, SameJudgement DEF W!Delete, Spent
<1> HIDE DEF r
<1> QED
  BY <1>1, <1>4 DEF W!Next

(* A write or a deletion that finds no document changes nothing.           *)
LEMMA MissIsNothing ==
  ASSUME IInv, NEW q \in Requests, Write(q) \/ Remove(q), db[target[q]] = None
  PROVE  db' = db /\ Spent' = Spent
<1>1. /\ db \in [Resources -> Doc \cup {None}] /\ target[q] \in Resources
      /\ db' = db \/ db' = [db EXCEPT ![target[q]] = None]
      /\ job' = job /\ target' = target /\ applied' = applied
  BY DEF Write, Remove, Answered, IInv, TypeOK
<1> QED
  BY <1>1 DEF Removed, Spent

LEMMA OthersChangeNothing ==
  ASSUME IInv, [Next]_vars, ~\E q \in Requests : Insert(q) \/ Write(q) \/ Remove(q)
  PROVE  db' = db /\ Spent' = Spent
<1>1. /\ db' = db /\ applied' = applied
      /\ \A q \in applied : job'[q] = job[q] /\ target'[q] = target[q]
  BY DEF Next, vars, Step, Receive, RefuseCreate, NotFound, Deny, Read, DbError,
         Fail, Finish, Crash, IInv, RequestsSound, AppliedIsPast, Ended, TypeOK
<1> QED
  BY <1>1 DEF Removed, Spent

LEMMA WorkflowOrStale ==
  ASSUME IInv, [Next]_vars
  PROVE  \/ UNCHANGED W!vars \/ W!Next
         \/ \E q \in Requests : StaleCommit(q)
<1>1. CASE \E q \in Requests : Insert(q)
  BY <1>1, InsertIsCreate
<1>2. ASSUME NEW q \in Requests, Write(q) \/ Remove(q)
      PROVE  \/ UNCHANGED W!vars \/ W!Next \/ StaleCommit(q)
  <2>1. CASE db[target[q]] = None
    BY <1>2, <2>1, MissIsNothing DEF W!vars, Spent
  <2>2. CASE db[target[q]] = snap[q]
    BY <1>2, <2>2, WriteIsChange, RemoveIsDelete
  <2>3. CASE db[target[q]] # None /\ db[target[q]] # snap[q]
    <3>1. q \notin applied /\ stage[q] = "accessed"
      BY <1>2 DEF Write, Remove, IInv, RequestsSound, AppliedIsPast, Ended
    <3> QED
      BY <1>2, <2>3, <3>1 DEF Write, Remove, StaleCommit, Commits
  <2> QED
    BY <2>1, <2>2, <2>3
<1>3. CASE ~\E q \in Requests : Insert(q) \/ Write(q) \/ Remove(q)
  BY <1>3, OthersChangeNothing DEF W!vars, Spent
<1> QED
  BY <1>1, <1>2, <1>3

(* Under any interleaving, the only steps that take a document off the     *)
(* workflow are commits on a document that has changed since the request   *)
(* read it (resource.service.ts:233, 320, 526).                            *)
THEOREM OnlyStaleCommits == Spec => OnlyStaleCommitsStray
<1> DEFINE Stray == \/ UNCHANGED W!vars \/ W!Next
                    \/ \E q \in Requests : StaleCommit(q)
<1>1. IInv /\ [Next]_vars => [Stray]_vars
  BY WorkflowOrStale
<1>2. Spec => [][Stray]_vars
  BY <1>1, Invariance, PTL DEF Spec
<1> QED
  BY <1>2 DEF OnlyStaleCommitsStray

(* A service whose writes find only the document their request has read is *)
(* the workflow: the comparison is the whole of what the filter of         *)
(* resource.query.service.ts:80 and :92 lacks.                             *)
THEOREM ComparingServiceIsWorkflow ==
  Spec /\ [][\A q \in Requests : ~StaleCommit(q)]_vars => RefinesWorkflow
<1> DEFINE Compared == \A q \in Requests : ~StaleCommit(q)
<1>1. IInv /\ [Next]_vars /\ [Compared]_vars => [W!Next]_(W!vars)
  <2>1. CASE Compared
    BY <2>1, WorkflowOrStale
  <2>2. CASE UNCHANGED vars
    BY <2>2 DEF vars, W!vars, Removed
  <2> QED
    BY <2>1, <2>2
<1>2. Spec /\ [][Compared]_vars => W!Spec
  BY <1>1, WorkflowInit, Invariance, PTL DEF Spec, W!Spec
<1> QED
  BY <1>2 DEF RefinesWorkflow

-----------------------------------------------------------------------------
(* One request at a time on each document, as behind a lock on its _id.    *)
(* Then a request in flight has the document to itself: its copy is as     *)
(* good as the document, and what it sent took effect.                     *)
Apart == \A p, q \in InFlight : target[p] = target[q] => p = q

Current == \A q \in Requests : stage[q] = "accessed" => db[target[q]] = snap[q]
Effective == \A q \in Requests : stage[q] = "written" => q \in applied
PInv == Current /\ Effective /\ EventsFollowChange

LEMMA ApartInit == Init => PInv
BY DEF Init, PInv, Current, Effective, EventsFollowChange

(* What the request in flight sends takes effect: nobody has changed the   *)
(* document since it was read, so it is still there.                       *)
LEMMA SendKeepsApart ==
  ASSUME IInv, Apart, PInv, NEW q \in Requests, Insert(q) \/ Write(q) \/ Remove(q)
  PROVE  PInv'
<1>1. /\ stage[q] \in {"received", "accessed"}
      /\ \E s \in {"written", "lost"} : stage' = [stage EXCEPT ![q] = s]
      /\ stage \in [Requests -> {"idle"} \cup Open \cup Ended]
      /\ target \in [Requests -> Resources \cup {NoResource}]
      /\ snap' = snap /\ events' = events /\ target' = target
      /\ applied \subseteq applied'
  BY DEF Insert, Write, Remove, Answered, IInv, TypeOK
<1>2. target[q] \in Resources /\ db \in [Resources -> Doc \cup {None}]
  BY <1>1 DEF IInv, TypeOK
<1>3. \A r \in Resources \ {target[q]} : db'[r] = db[r]
  BY <1>2 DEF Insert, Write, Remove
<1>4. q \in applied'
  <2>1. stage[q] = "accessed" => db[target[q]] # None
    BY NamesAssumption DEF PInv, Current, IInv, TypeOK
  <2> QED
    BY <2>1 DEF Insert, Write, Remove
<1>5. ASSUME NEW p \in Requests, stage'[p] = "accessed"
      PROVE  db'[target'[p]] = snap'[p]
  <2>1. p # q /\ stage[p] = "accessed"
    BY <1>1, <1>5
  <2>2. target[p] # target[q] /\ target[p] \in Resources
    BY <1>1, <2>1 DEF Apart, InFlight, Open, IInv, TypeOK
  <2> QED
    BY <1>1, <1>3, <2>1, <2>2 DEF PInv, Current
<1>6. Effective'
  BY <1>1, <1>4 DEF PInv, Effective
<1> QED
  BY <1>1, <1>5, <1>6 DEF PInv, Current, EventsFollowChange

LEMMA ReadKeepsApart ==
  ASSUME IInv, PInv, NEW q \in Requests, Read(q)
  PROVE  PInv'
<1>1. /\ stage' = [stage EXCEPT ![q] = "accessed"]
      /\ stage \in [Requests -> {"idle"} \cup Open \cup Ended]
      /\ snap' = [snap EXCEPT ![q] = db[target[q]]] /\ snap \in [Requests -> Doc \cup {None}]
      /\ db' = db /\ applied' = applied /\ events' = events /\ target' = target
  BY DEF Read, IInv, TypeOK
<1> QED
  BY <1>1 DEF PInv, Current, Effective, EventsFollowChange

LEMMA FinishKeepsApart ==
  ASSUME IInv, PInv, NEW q \in Requests, Finish(q)
  PROVE  PInv'
<1>1. /\ stage[q] = "written"
      /\ \E s \in {"failed", "done"} : stage' = [stage EXCEPT ![q] = s]
      /\ stage \in [Requests -> {"idle"} \cup Open \cup Ended]
      /\ events' = events \cup {EventOf(q)}
      /\ snap' = snap /\ target' = target /\ db' = db /\ applied' = applied
  BY DEF Finish, IInv, TypeOK
<1>2. EventOf(q).req = q /\ q \in applied
  BY <1>1 DEF EventOf, PInv, Effective
<1> QED
  BY <1>1, <1>2 DEF PInv, Current, Effective, EventsFollowChange

(* A request that is received, fails or is cut off leaves the rest alone.  *)
LEMMA QuietKeepsApart ==
  ASSUME IInv, PInv,
         \/ \E q \in Requests : Fail(q) \/ \E j \in Jobs, r \in Resources : Receive(q, j, r)
         \/ Crash
  PROVE  PInv'
<1>1. /\ \A p \in Requests : stage'[p] \in {"accessed", "written"}
                             => stage'[p] = stage[p] /\ target'[p] = target[p]
      /\ snap' = snap /\ db' = db /\ applied' = applied /\ events' = events
  BY DEF Fail, Receive, Crash, Open, IInv, TypeOK
<1> QED
  BY <1>1 DEF PInv, Current, Effective, EventsFollowChange

LEMMA StepKeepsApart == IInv /\ Apart /\ PInv /\ [Next]_vars => PInv'
<1> SUFFICES ASSUME IInv, Apart, PInv, [Next]_vars
             PROVE  PInv'
  OBVIOUS
<1>1. ASSUME NEW q \in Requests, NEW j \in Jobs, NEW r \in Resources,
             Receive(q, j, r)
      PROVE  PInv'
  BY <1>1, QuietKeepsApart
<1>2. ASSUME NEW q \in Requests, Step(q) \/ DbError(q)
      PROVE  PInv'
  BY <1>2, QuietKeepsApart, ReadKeepsApart, SendKeepsApart, FinishKeepsApart
     DEF Step, RefuseCreate, NotFound, Deny, DbError
<1>3. CASE Crash
  BY <1>3, QuietKeepsApart
<1>4. CASE UNCHANGED vars
  BY <1>4 DEF vars, PInv, Current, Effective, EventsFollowChange
<1> QED
  BY <1>1, <1>2, <1>3, <1>4 DEF Next

LEMMA ApartInvariance == Spec /\ []Apart => []PInv
BY ApartInit, StepKeepsApart, Invariance, PTL DEF Spec

(* With one request at a time on each document, no request publishes an    *)
(* event unless its operation changed the database, errors and crashes     *)
(* included (resource.service.ts:206-208, 250-256, 380-382, 526-535).      *)
THEOREM ApartEventsFollowChange == Spec /\ []Apart => []EventsFollowChange
<1>1. PInv => EventsFollowChange
  BY DEF PInv
<1> QED
  BY <1>1, ApartInvariance, PTL

(* With one request at a time on each document, and any number on others,  *)
(* the requests take the documents through the workflow their API          *)
(* definition describes: every change is one that the rules admit on the   *)
(* document as it is (resource.service.ts:174-386, 495-538).               *)
THEOREM ApartServiceIsWorkflow == Spec /\ []Apart => RefinesWorkflow
<1> DEFINE Compared == \A q \in Requests : ~StaleCommit(q)
<1>1. PInv => Compared
  BY DEF PInv, Current, StaleCommit
<1>2. Spec /\ []Apart => [][Compared]_vars
  BY <1>1, ApartInvariance, PTL
<1> QED
  BY <1>2, ComparingServiceIsWorkflow

(* The two promises of the README that fail when requests on one document  *)
(* overlap (README.md:37, 59) hold when they do not: a request moves the   *)
(* state only where its rules admit it, ...                                *)
THEOREM ApartTransitionsGoverned == Spec /\ []Apart => TransitionsGoverned
<1> DEFINE Governed == \A q \in Requests :
             LET r == target[q] IN
             Commits(q) /\ stage[q] = "accessed" /\ job[q].op # "delete"
               => \/ db'[r].state = db[r].state
                  \/ Admissible(job[q], db[r])
<1>1. IInv /\ PInv /\ [Next]_vars => [Governed]_vars
  BY CleanCommit DEF PInv, Current
<1>2. Spec /\ []Apart => [][Governed]_vars
  BY <1>1, ApartInvariance, Invariance, PTL DEF Spec
<1> QED
  BY <1>2 DEF TransitionsGoverned

(* ... and a section request leaves the other sections as they are.        *)
THEOREM ApartSectionsIsolated == Spec /\ []Apart => SectionIsolation
<1> DEFINE Isolated == \A q \in Requests, s \in Sections :
             Commits(q) /\ job[q].op = "section" /\ s # job[q].sec
               => db'[target[q]].sec[s] = db[target[q]].sec[s]
<1>1. ASSUME IInv, PInv, [Next]_vars, NEW q \in Requests, NEW s \in Sections,
             Commits(q), job[q].op = "section", s # job[q].sec
      PROVE  db'[target[q]].sec[s] = db[target[q]].sec[s]
  <2>1. stage[q] = "accessed" /\ job[q] \in Jobs
    <3>1. ~(db' = db /\ applied' \subseteq applied)
      BY <1>1 DEF Commits
    <3>2. \A p \in Requests : Insert(p) \/ Write(p) \/ Remove(p) => p = q
      BY <1>1 DEF Commits, Insert, Write, Remove
    <3>3. ~Insert(q)
      BY <1>1 DEF Insert
    <3> QED
      BY <1>1, <3>1, <3>2, <3>3, StepOnDocuments DEF Write, Remove, IInv, TypeOK
  <2>2. /\ db[target[q]] = snap[q] /\ db[target[q]] \in Doc
        /\ db'[target[q]] = SectionWritten(job[q], db[target[q]])
    BY <1>1, <2>1, CleanCommit DEF PInv, Current, Outgoing, IInv, TypeOK
  <2>3. job[q].sec \in Sections /\ job[q].payload \in Payloads
    BY <1>1, <2>1, SectionFields
  <2> QED
    BY <1>1, <2>2, <2>3 DEF SectionWritten, Doc
<1>2. IInv /\ PInv /\ [Next]_vars => [Isolated]_vars
  BY <1>1
<1>3. Spec /\ []Apart => [][Isolated]_vars
  BY <1>2, ApartInvariance, Invariance, PTL DEF Spec
<1> QED
  BY <1>3 DEF SectionIsolation

(* With one request at a time on each document, a valid document stays     *)
(* valid (resource.service.ts:517, 524): what is stored is the document    *)
(* that was validated, and not what others have made of it since.          *)
THEOREM ApartKeepsValidity == Spec /\ []Apart => ValidityKept
<1> DEFINE Kept == \A r \in Resources :
                     db[r] # None /\ db[r] \in ValidDocs
                       => db'[r] \in ValidDocs \cup {None}
<1>1. ASSUME IInv, PInv, [Next]_vars, NEW r \in Resources,
             db[r] # None, db[r] \in ValidDocs
      PROVE  db'[r] \in ValidDocs \cup {None}
  <2>1. ASSUME NEW q \in Requests, Insert(q)
        PROVE  db'[r] \in ValidDocs \cup {None}
    BY <1>1, <2>1 DEF Insert, IInv, RequestsSound, IdsReserved, TypeOK
  <2>2. ASSUME NEW q \in Requests, Write(q)
        PROVE  db'[r] \in ValidDocs \cup {None}
    <3>1. CASE r = target[q]
      <4>1. Commits(q) /\ stage[q] = "accessed" /\ job[q].op # "delete"
        BY <1>1, <2>2, <3>1
           DEF Write, Commits, IInv, RequestsSound, AppliedIsPast, Ended
      <4> QED
        BY <1>1, <3>1, <4>1, CleanCommit DEF PInv, Current
    <3>2. CASE r # target[q]
      BY <1>1, <2>2, <3>2 DEF Write, IInv, TypeOK
    <3> QED
      BY <3>1, <3>2
  <2>3. ASSUME NEW q \in Requests, Remove(q)
        PROVE  db'[r] \in ValidDocs \cup {None}
    BY <1>1, <2>3 DEF Remove, IInv, TypeOK
  <2> QED
    BY <1>1, <2>1, <2>2, <2>3, StepOnDocuments
<1>2. IInv /\ PInv /\ [Next]_vars => [Kept]_vars
  BY <1>1
<1>3. Spec /\ []Apart => [][Kept]_vars
  BY <1>2, ApartInvariance, Invariance, PTL DEF Spec
<1> QED
  BY <1>3 DEF ValidityKept

-----------------------------------------------------------------------------
(* One request at a time in the whole service.                             *)
Alone == IsFiniteSet(InFlight) /\ \A p, q \in InFlight : p = q

LEMMA AloneInit == Init => Alone
BY FS_EmptySet DEF Init, Alone, InFlight, Open

(* A request is received only when nobody else is in flight.               *)
LEMMA ReceiveKeepsAlone ==
  ASSUME MaxInFlight = 1, IInv, Alone,
         NEW q \in Requests, NEW j \in Jobs, NEW r \in Resources, Receive(q, j, r)
  PROVE  Alone'
<1>1. /\ stage' = [stage EXCEPT ![q] = "received"]
      /\ stage \in [Requests -> {"idle"} \cup Open \cup Ended]
  BY DEF Receive, IInv, TypeOK
<1>2. InFlight = {}
  <2>1. IsFiniteSet(InFlight) /\ Cardinality(InFlight) < 1
    BY DEF Receive, Alone
  <2> QED
    BY <2>1, FS_CardinalityType, FS_EmptySet
<1>3. InFlight' = {q}
  BY <1>1, <1>2 DEF InFlight, Open
<1> QED
  BY <1>3, FS_Singleton DEF Alone

(* Whatever else happens, nobody joins those in flight.                    *)
LEMMA StepKeepsAlone == MaxInFlight = 1 /\ IInv /\ Alone /\ [Next]_vars => Alone'
<1> SUFFICES ASSUME MaxInFlight = 1, IInv, Alone, [Next]_vars
             PROVE  Alone'
  OBVIOUS
<1>1. CASE \E q \in Requests, j \in Jobs, r \in Resources : Receive(q, j, r)
  BY <1>1, ReceiveKeepsAlone
<1>2. CASE (\E q \in Requests : Step(q) \/ DbError(q)) \/ Crash \/ UNCHANGED vars
  <2>1. /\ stage \in [Requests -> {"idle"} \cup Open \cup Ended]
        /\ \A q \in Requests : stage'[q] \in Open => stage[q] \in Open
    BY <1>2 DEF Step, RefuseCreate, NotFound, Deny, Read, Insert, Write, Remove,
                Answered, Finish, DbError, Fail, Crash, vars, Open, Ended, IInv, TypeOK
  <2>2. InFlight' \subseteq InFlight
    BY <2>1 DEF InFlight
  <2> QED
    BY <2>2, FS_Subset DEF Alone
<1> QED
  BY <1>1, <1>2 DEF Next

LEMMA SerialIsApart ==
  ASSUME MaxInFlight = 1
  PROVE  Spec => []Apart
<1>1. IInv /\ Alone /\ [Next]_vars => Alone'
  BY StepKeepsAlone
<1>2. Alone => Apart
  BY DEF Alone, Apart
<1> QED
  BY <1>1, <1>2, AloneInit, Invariance, PTL DEF Spec

(* Served one at a time, every event stands for a change                   *)
(* (resource.service.ts:206-208, 250-256, 380-382, 526-535) ...            *)
THEOREM EventsFollowChangeAlways ==
  ASSUME MaxInFlight = 1
  PROVE  Spec => []EventsFollowChange
BY SerialIsApart, ApartEventsFollowChange, PTL

(* ... and the requests take the documents through the workflow of their   *)
(* API definition (resource.service.ts:174-386, 495-538).                  *)
THEOREM SerialServiceIsWorkflow ==
  ASSUME MaxInFlight = 1
  PROVE  Spec => RefinesWorkflow
BY SerialIsApart, ApartServiceIsWorkflow

=============================================================================
