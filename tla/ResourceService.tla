-------------------------- MODULE ResourceService --------------------------
(***************************************************************************)
(* The resource service at work: any number of requests, each of which     *)
(* awaits the database between its steps, on documents they share.         *)
(*                                                                         *)
(* A request about an existing document reads it, judges and changes its   *)
(* own copy, and then sends the database one operation that names the      *)
(* document by _id alone.  Nothing between the read and the write keeps    *)
(* other requests away.  When the database answers, the event is published *)
(* and the subscribers are notified, in one go.                            *)
(*                                                                         *)
(* Stages of a request:                                                    *)
(*   idle -> received -> accessed -> written -> done                       *)
(* with `failed` for an error answered to the client and `lost` for a      *)
(* request whose continuation never ran: the instance died, or the         *)
(* database's answer did not arrive.                                       *)
(***************************************************************************)
EXTENDS ResourceApi, FiniteSets

CONSTANTS Resources,     \* the _ids documents can get
          Requests,      \* the requests, each made once
          Jobs,          \* what a request may ask for
          StartDbs,      \* the database as the service may find it
          MaxInFlight,   \* bound: requests in flight at a time
          NoJob, NoResource

ASSUME ServiceAssumption ==
  /\ Jobs \subseteq Job /\ NoJob \notin Jobs
  /\ NoResource \notin Resources
  /\ StartDbs \subseteq [Resources -> Doc \cup {None}]
  /\ ValidBodies \in [Roles -> SUBSET Doc]

VARIABLES db,        \* the collection
          stage, job, target, snap,  \* of each request; snap is its copy
          applied,   \* requests whose operation found its document
          events     \* what the event bus was given
vars == <<db, stage, job, target, snap, applied, events>>

Open == {"received", "accessed", "written"}
Ended == {"done", "failed", "lost"}
EventKinds == {"ResourceCreatedEvent", "ResourceUpdatedEvent", "ResourceDeletedEvent"}
InFlight == {q \in Requests : stage[q] \in Open}

TypeOK ==
  /\ db \in [Resources -> Doc \cup {None}]
  /\ stage \in [Requests -> {"idle"} \cup Open \cup Ended]
  /\ job \in [Requests -> Jobs \cup {NoJob}]
  /\ target \in [Requests -> Resources \cup {NoResource}]
  /\ snap \in [Requests -> Doc \cup {None}]
  /\ applied \subseteq Requests
  /\ events \subseteq [kind : EventKinds, res : Resources, req : Requests]
  /\ \A q \in Requests : stage[q] # "idle" => job[q] \in Jobs /\ target[q] \in Resources
  /\ \A q \in Requests : stage[q] = "accessed" => snap[q] \in Doc

Init ==
  /\ db \in StartDbs
  /\ stage = [q \in Requests |-> "idle"]
  /\ job = [q \in Requests |-> NoJob]
  /\ target = [q \in Requests |-> NoResource]
  /\ snap = [q \in Requests |-> None]
  /\ applied = {} /\ events = {}

-----------------------------------------------------------------------------
(* Faulty variants, each of a definition below it: ids that are free again *)
(* once their document is deleted                                          *)
FreshReused(r) ==
  /\ db[r] = None
  /\ \A q \in Requests : stage[q] = "received" /\ target[q] = r => job[q].op # "create"

(* An _id the driver can make up: it never names an earlier document       *)
Fresh(r) ==
  /\ db[r] = None
  /\ \A q \in Requests :
       stage[q] # "idle" /\ target[q] = r =>
         job[q].op # "create" /\ ~(job[q].op = "delete" /\ q \in applied)

(* A request reaches its controller.  The _id of a document to be created  *)
(* is chosen by the driver in insertOne; the choice is made here.          *)
Receive(q, j, r) ==
  /\ stage[q] = "idle" /\ Cardinality(InFlight) < MaxInFlight
  /\ j.op = "create" => Fresh(r)
  /\ stage' = [stage EXCEPT ![q] = "received"]
  /\ job' = [job EXCEPT ![q] = j]
  /\ target' = [target EXCEPT ![q] = r]
  /\ UNCHANGED <<db, snap, applied, events>>

Fail(q) ==
  /\ stage' = [stage EXCEPT ![q] = "failed"]
  /\ UNCHANGED <<db, job, target, snap, applied, events>>

(* create: guard or validation                                             *)
RefuseCreate(q) ==
  /\ stage[q] = "received" /\ job[q].op = "create"
  /\ ~CreateAdmitted(job[q])
  /\ Fail(q)

(* A faulty variant of NotFound: a deletion of nothing is left unanswered  *)
NotFoundUnanswered(q) ==
  /\ stage[q] = "received" /\ job[q].op \in {"update", "section"}
  /\ db[target[q]] = None
  /\ Fail(q)

(* accessResource: findOne returns nothing                                 *)
NotFound(q) ==
  /\ stage[q] = "received" /\ job[q].op # "create"
  /\ db[target[q]] = None
  /\ Fail(q)

(* The document is there; access and validation are judged on the copy     *)
Deny(q) ==
  /\ stage[q] = "received" /\ job[q].op # "create"
  /\ db[target[q]] # None
  /\ ~Admissible(job[q], db[target[q]])
  /\ Fail(q)

(* Faulty variants of Read: it forgets its copy; it does not judge it      *)
ReadUnkept(q) ==
  /\ stage[q] = "received" /\ job[q].op # "create"
  /\ db[target[q]] # None
  /\ Admissible(job[q], db[target[q]])
  /\ stage' = [stage EXCEPT ![q] = "accessed"]
  /\ UNCHANGED <<db, job, target, snap, applied, events>>

ReadUnjudged(q) ==
  /\ stage[q] = "received" /\ job[q].op \in {"update", "delete"}
  /\ db[target[q]] # None
  /\ stage' = [stage EXCEPT ![q] = "accessed"]
  /\ snap' = [snap EXCEPT ![q] = db[target[q]]]
  /\ UNCHANGED <<db, job, target, applied, events>>

Read(q) ==
  /\ stage[q] = "received" /\ job[q].op # "create"
  /\ db[target[q]] # None
  /\ Admissible(job[q], db[target[q]])
  /\ stage' = [stage EXCEPT ![q] = "accessed"]
  /\ snap' = [snap EXCEPT ![q] = db[target[q]]]
  /\ UNCHANGED <<db, job, target, applied, events>>

(* The database has carried out the operation of q; its answer may not     *)
(* reach the request                                                       *)
Answered(q) ==
  /\ \E s \in {"written", "lost"} : stage' = [stage EXCEPT ![q] = s]
  /\ UNCHANGED <<job, target, snap, events>>

(* A faulty variant of Insert: whatever the client sends is stored         *)
InsertUnjudged(q) ==
  /\ stage[q] = "received" /\ job[q].op = "create"
  /\ db' = [db EXCEPT ![target[q]] = Created(job[q])]
  /\ applied' = applied \cup {q}
  /\ Answered(q)

(* _create: insertOne                                                      *)
Insert(q) ==
  /\ stage[q] = "received" /\ job[q].op = "create"
  /\ CreateAdmitted(job[q])
  /\ db' = [db EXCEPT ![target[q]] = Created(job[q])]
  /\ applied' = applied \cup {q}
  /\ Answered(q)

(* Faulty variants of Write: upsert: true, as _updateMany has it; the      *)
(* document replaced by the copy                                           *)
WriteUpserting(q) ==
  /\ stage[q] = "accessed" /\ job[q].op \in {"update", "section"}
  /\ db' = [db EXCEPT ![target[q]] = IF @ = None THEN Outgoing(job[q], snap[q])
                                     ELSE Overlay(@, Outgoing(job[q], snap[q]))]
  /\ applied' = applied \cup {q}
  /\ Answered(q)

WriteReplacing(q) ==
  /\ stage[q] = "accessed" /\ job[q].op \in {"update", "section"}
  /\ db[target[q]] # None
  /\ db' = [db EXCEPT ![target[q]] = Outgoing(job[q], snap[q])]
  /\ applied' = applied \cup {q}
  /\ Answered(q)

(* _updateOne: findOneAndUpdate with $set of the whole copy, no upsert     *)
Write(q) ==
  /\ stage[q] = "accessed" /\ job[q].op \in {"update", "section"}
  /\ IF db[target[q]] = None
     THEN UNCHANGED <<db, applied>>
     ELSE /\ db' = [db EXCEPT ![target[q]] = Overlay(@, Outgoing(job[q], snap[q]))]
          /\ applied' = applied \cup {q}
  /\ Answered(q)

(* _delete: deleteOne, deletedCount is not looked at                       *)
Remove(q) ==
  /\ stage[q] = "accessed" /\ job[q].op = "delete"
  /\ db' = [db EXCEPT ![target[q]] = None]
  /\ applied' = IF db[target[q]] = None THEN applied ELSE applied \cup {q}
  /\ Answered(q)

(* A faulty variant of DbError: the error is swallowed                     *)
DbErrorSwallowed(q) ==
  /\ stage[q] \in {"received", "accessed"}
  /\ stage' = [stage EXCEPT ![q] = "written"]
  /\ UNCHANGED <<db, job, target, snap, applied, events>>

(* The driver reports an error and nothing was changed                     *)
DbError(q) ==
  /\ stage[q] \in {"received", "accessed"}
  /\ Fail(q)

EventOf(q) ==
  [kind |-> CASE job[q].op = "create" -> "ResourceCreatedEvent"
              [] job[q].op = "delete" -> "ResourceDeletedEvent"
              [] OTHER -> "ResourceUpdatedEvent",
   res |-> target[q], req |-> q]

(* A faulty variant of Finish: notified first, published after             *)
FinishNotifyFirst(q) ==
  /\ stage[q] = "written"
  /\ LET throws == job[q].op = "section" /\ ~IdField IN
       /\ events' = IF throws THEN events ELSE events \cup {EventOf(q)}
       /\ stage' = [stage EXCEPT ![q] = IF throws THEN "failed" ELSE "done"]
  /\ UNCHANGED <<db, job, target, snap, applied>>

(* The continuation after the database answered: publish, then notify.     *)
(* notify(resource.id.toString()) of a section operation throws for a      *)
(* document without an `id`, after the event is out.                       *)
Finish(q) ==
  /\ stage[q] = "written"
  /\ events' = events \cup {EventOf(q)}
  /\ stage' = [stage EXCEPT ![q] = IF job[q].op = "section" /\ ~IdField
                                   THEN "failed" ELSE "done"]
  /\ UNCHANGED <<db, job, target, snap, applied>>

(* The instance dies with everything it had in flight                      *)
Crash ==
  /\ InFlight # {}
  /\ stage' = [q \in Requests |-> IF stage[q] \in Open THEN "lost" ELSE stage[q]]
  /\ UNCHANGED <<db, job, target, snap, applied, events>>

Step(q) == \/ RefuseCreate(q) \/ NotFound(q) \/ Deny(q) \/ Read(q)
           \/ Insert(q) \/ Write(q) \/ Remove(q) \/ Finish(q)

Next == \/ \E q \in Requests : \E j \in Jobs, r \in Resources : Receive(q, j, r)
        \/ \E q \in Requests : Step(q) \/ DbError(q)
        \/ Crash

(* A pending database call is answered in the end, and the event loop runs *)
(* every continuation: each request in flight keeps going.  Nothing relies *)
(* on a failure: DbError and Crash may never happen.                       *)
Fairness == \A q \in Requests : WF_vars(Step(q))

Spec == Init /\ [][Next]_vars /\ Fairness

-----------------------------------------------------------------------------
Removed(r) == \E q \in applied : job[q].op = "delete" /\ target[q] = r

(* What a request may count on between its steps, and what the properties  *)
(* below rest on: the request of an operation that took effect is past its *)
(* write, and its document is there until a deletion removes it; a request *)
(* is about to write only what it was admitted to write on its own copy;   *)
(* and the _id of a pending creation is nobody else's.                     *)
AppliedIsPast == \A q \in applied : stage[q] \in {"written"} \cup Ended
AppliedLeaves == \A q \in applied : db[target[q]] # None \/ Removed(target[q])
SnapsAdmitted ==
  \A q \in Requests : stage[q] = "accessed" =>
    job[q].op # "create" /\ Admissible(job[q], snap[q])
IdsReserved ==
  \A q \in Requests : stage[q] = "received" /\ job[q].op = "create" =>
    /\ db[target[q]] = None
    /\ \A p \in Requests \ {q} : stage[p] # "idle" /\ target[p] = target[q] =>
         job[p].op # "create" /\ p \notin applied
RequestsSound == AppliedIsPast /\ AppliedLeaves /\ SnapsAdmitted /\ IdsReserved

(* Once a deletion has removed a document nothing brings it back: not an   *)
(* update that read it before (there is no upsert, resource.query.service  *)
(* .ts:92), not a section, not a creation.                                 *)
DeleteIsFinal ==
  \A q \in applied : job[q].op = "delete" => db[target[q]] = None

(* Every operation that took effect is either still on its way, cut off by *)
(* a crash or a lost answer, or announced by its own event; and an event   *)
(* is published only by a request that got past its write                  *)
(* (resource.service.ts:206-209, 250-259, 380-383, 526-535).               *)
CommitsAccounted ==
  /\ \A q \in applied : \/ stage[q] \in {"written", "lost"}
                        \/ EventOf(q) \in events
  /\ \A e \in events : stage[e.req] \in {"done", "failed"} /\ e = EventOf(e.req)

(* A section a document has is never taken away by an update or a section  *)
(* request, not even by one whose copy is older than the section: $set     *)
(* leaves alone what the copy does not have (resource.query.service.ts:92).*)
SectionsPersist ==
  [][\A r \in Resources, s \in Sections :
       db[r] # None /\ db'[r] # None /\ db[r].sec[s] # Absent
         => db'[r].sec[s] # Absent]_vars

(* The step by which q's operation takes effect                            *)
Commits(q) == q \notin applied /\ q \in applied'

(* If nobody has changed the document since q read it, q's commit is the   *)
(* one the rules allow: q is admitted on the document as it is, and what   *)
(* is stored is what q's request makes of it, valid against the main       *)
(* scheme (resource.service.ts:495, comment at 517).                       *)
CleanCommitsFollowRules ==
  [][\A q \in Requests :
       Commits(q) /\ stage[q] = "accessed" /\ db[target[q]] = snap[q] =>
         /\ Admissible(job[q], db[target[q]])
         /\ job[q].op # "delete" =>
              db'[target[q]] = Outgoing(job[q], db[target[q]])
              /\ db'[target[q]] \in ValidDocs]_vars

(* Every request gets an answer, or its instance is gone.                  *)
RequestsEnd == \A q \in Requests : stage[q] \in Open ~> stage[q] \in Ended

(* Under any interleaving an _id is fresh, then live, then gone.           *)
L == INSTANCE Lifecycle WITH
       phase <- [r \in Resources |-> IF db[r] # None THEN "live"
                                     ELSE IF Removed(r) THEN "gone" ELSE "fresh"]
RefinesLifecycle == L!Spec

(* Served one at a time, the requests make the documents go through the    *)
(* workflow of the API definition, each request a single step.             *)
W == INSTANCE Workflow WITH
       docs <- db, spent <- {r \in Resources : Removed(r)}
RefinesWorkflow == W!Spec

(* However many requests are in flight, only one kind of step takes the    *)
(* documents off the workflow: a commit on a document that has changed     *)
(* since the request read it.  A comparison in the filter of the write     *)
(* (resource.query.service.ts:80, 92), by which such a write finds          *)
(* nothing, is all that is missing.                                        *)
StaleCommit(q) ==
  Commits(q) /\ stage[q] = "accessed" /\ db[target[q]] # snap[q]
OnlyStaleCommitsStray ==
  [][\/ UNCHANGED W!vars \/ W!Next
     \/ \E q \in Requests : StaleCommit(q)]_vars

(* resource.service.ts:517, "we validate whole resource in any case": a    *)
(* document that is valid stays valid for as long as it exists.  (One that *)
(* has just been created need not be: its body was judged by the scheme of *)
(* the create rule, :184-186.)                                             *)
ValidityKept ==
  [][\A r \in Resources :
       db[r] # None /\ db[r] \in ValidDocs
         => db'[r] \in ValidDocs \cup {None}]_vars

(* Whoever the rules of a section operation name, by a rule that asks for  *)
(* anything, writes the section only if those rules grant it, although the *)
(* result of verifyAccess is discarded (resource.service.ts:337-339).      *)
(* README.md:55 says so of everybody; but a reader whom no rule of the     *)
(* operation names is let in.                                              *)
SectionGranted(q) ==
  AccessGranted(SectionApi[job[q].sec][job[q].how].let, snap[q], job[q].grant.user)
SectionRulesHeard ==
  \A q \in Requests : stage[q] = "accessed" /\ job[q].op = "section" =>
    LET let == SectionApi[job[q].sec][job[q].how].let IN
    \A i \in Applicable(let, job[q].grant.user) : let[i].form # "bare" => SectionGranted(q)

-----------------------------------------------------------------------------
(* README.md:59, "Transition from one state to another is govern by        *)
(* 'rules'": a request moves the state only if it is admitted in the       *)
(* state the document is in.                                               *)
TransitionsGoverned ==
  [][\A q \in Requests :
       LET r == target[q] IN
       Commits(q) /\ stage[q] = "accessed" /\ job[q].op # "delete"
         => \/ db'[r].state = db[r].state
            \/ Admissible(job[q], db[r])]_vars

(* README.md:37, actors "on each step are allowed to commit particular     *)
(* section": a section request leaves the other sections as they are.      *)
SectionIsolation ==
  [][\A q \in Requests, s \in Sections :
       Commits(q) /\ job[q].op = "section" /\ s # job[q].sec
         => db'[target[q]].sec[s] = db[target[q]].sec[s]]_vars

(* README.md:347, "Events are emitted after resource is created, updated   *)
(* or deleted": the request of an event took effect.                       *)
EventsFollowChange == \A e \in events : e.req \in applied
=============================================================================
