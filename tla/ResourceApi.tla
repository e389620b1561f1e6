---------------------------- MODULE ResourceApi ----------------------------
(***************************************************************************)
(* One API definition and what it makes of one document: when a request is *)
(* admitted and what it leaves in the document.  These are the parts of    *)
(* create, update, delete and upsertSection of resource.service.ts that    *)
(* look at a single copy of the document; ResourceService says which copy  *)
(* they look at, and when.                                                 *)
(*                                                                         *)
(* A document is [state, owner, sec]: its state, the users named by its    *)
(* `<role>Id` fields, and its sections.  NoState, NoUser and Absent stand  *)
(* for a field the document does not have.  A request body is a document   *)
(* too: the fields it has are the ones the client sent.                    *)
(***************************************************************************)
EXTENDS Access

CONSTANTS Sections,      \* the sections of the API definition
          Payloads,      \* what a section may hold
          Rejections,    \* the payloads with isApproved: false
          NoState, Absent, None

Hows == {"create", "update"}
Doc == [state : States \cup {NoState},
        owner : [Roles -> UserIds \cup {NoUser}],
        sec   : [Sections -> Payloads \cup {Absent}]]

CONSTANTS GetLet, CreateLet, UpdateLet, DeleteLet,  \* <operation>.let
          CreateSet,       \* create.set
          SectionApi,      \* sections: the operations each section defines
          ValidBodies,     \* role -> the bodies its create rule's scheme accepts
          ValidPayloads,   \* section -> the payloads its scheme accepts
          ValidDocs,       \* the documents the resource's main scheme accepts
          IdField          \* does the scheme give documents an `id` of their own?

ASSUME NamesAssumption ==
  NoState \notin States /\ Absent \notin Payloads /\ None \notin Doc

ASSUME ApiAssumption ==
  /\ {GetLet, CreateLet, UpdateLet, DeleteLet} \subseteq Seq(Rule)
  /\ CreateSet \in States \cup {NoState}
  /\ \A s \in Sections : DOMAIN SectionApi[s] \subseteq Hows
  /\ \A s \in Sections : \A h \in DOMAIN SectionApi[s] :
       /\ SectionApi[s][h].let \in Seq(Rule)
       /\ SectionApi[s][h].set \in States \cup {NoState}
  /\ IdField \in BOOLEAN

-----------------------------------------------------------------------------
(* The requests a client can make, with the grant JwtStrategy made of the  *)
(* client's token                                                          *)
CreateJob  == [op : {"create"}, grant : Grant, body : Doc]
UpdateJob  == [op : {"update"}, grant : Grant, body : Doc]
DeleteJob  == [op : {"delete"}, grant : Grant]
SectionJob == [op : {"section"}, grant : Grant, how : Hows,
               sec : Sections, payload : Payloads]
Job == CreateJob \cup UpdateJob \cup DeleteJob \cup SectionJob

(* A faulty variant of Overlay: { ...data, ...resource }                   *)
OverlaySwapped(doc, top) ==
  [state |-> IF doc.state = NoState THEN top.state ELSE doc.state,
   owner |-> [u \in Roles |-> IF doc.owner[u] = NoUser THEN top.owner[u]
                                                       ELSE doc.owner[u]],
   sec   |-> [s \in Sections |-> IF doc.sec[s] = Absent THEN top.sec[s]
                                                        ELSE doc.sec[s]]]

(* `top` laid over `doc`: the fields `top` has replace those of `doc`.     *)
(* Both { ...resource, ...data } and MongoDB's $set do this.               *)
Overlay(doc, top) ==
  [state |-> IF top.state = NoState THEN doc.state ELSE top.state,
   owner |-> [u \in Roles |-> IF top.owner[u] = NoUser THEN doc.owner[u]
                                                       ELSE top.owner[u]],
   sec   |-> [s \in Sections |-> IF top.sec[s] = Absent THEN doc.sec[s]
                                                        ELSE top.sec[s]]]

-----------------------------------------------------------------------------
(* create: the guard of the route, then the scheme of every rule for a     *)
(* group of the user; a rule without `validate` has no scheme and throws,  *)
(* and `if` is not looked at                                               *)
CreateAdmitted(job) ==
  /\ GuardPasses(CreateLet, job.grant.groups)
  /\ \A i \in Applicable(CreateLet, job.grant.user) :
       CreateLet[i].validates /\ job.body \in ValidBodies[CreateLet[i].for]

Created(job) ==
  IF CreateSet = NoState THEN job.body
                         ELSE [job.body EXCEPT !.state = CreateSet]

(* grantGetResourceAccess with get.let, before every section operation and *)
(* every deletion                                                          *)
MayRead(job, doc) == AccessGranted(GetLet, doc, job.grant.user)

(* update: the merged document is validated by the main scheme, which the  *)
(* `finally` of getUpdateValidationScheme always returns                   *)
Updated(job, doc) == Overlay(doc, job.body)

(* A faulty variant of UpdateAdmitted: the merged document is not validated *)
UpdateUnvalidated(job, doc) ==
  /\ GuardPasses(UpdateLet, job.grant.groups)
  /\ AccessGranted(UpdateLet, doc, job.grant.user)

UpdateAdmitted(job, doc) ==
  /\ GuardPasses(UpdateLet, job.grant.groups)
  /\ AccessGranted(UpdateLet, doc, job.grant.user)
  /\ Updated(job, doc) \in ValidDocs

DeleteAdmitted(job, doc) ==
  /\ GuardPasses(DeleteLet, job.grant.groups)
  /\ MayRead(job, doc)
  /\ AccessGranted(DeleteLet, doc, job.grant.user)

(* doUpsertSection: the payload goes into the section, and `set` moves the *)
(* state unless the payload says isApproved: false                         *)
SectionWritten(job, doc) ==
  LET set == SectionApi[job.sec][job.how].set IN
  [doc EXCEPT !.sec[job.sec] = job.payload,
              !.state = IF set = NoState \/ job.payload \in Rejections
                        THEN @ ELSE set]

(* A faulty variant of SectionAdmitted: the operation's rules are not asked *)
SectionAdmittedUnasked(job, doc) ==
  /\ MayRead(job, doc)
  /\ (job.how = "create") <=> (doc.sec[job.sec] = Absent)
  /\ job.how \in DOMAIN SectionApi[job.sec]
  /\ job.payload \in ValidPayloads[job.sec]
  /\ SectionWritten(job, doc) \in ValidDocs

(* accessResourceModifySection and the two validations.  The result of     *)
(* verifyAccess on the operation's own rules is discarded: only a rule     *)
(* that throws keeps a reader out.                                         *)
SectionAdmitted(job, doc) ==
  /\ MayRead(job, doc)
  /\ (job.how = "create") <=> (doc.sec[job.sec] = Absent)
  /\ job.how \in DOMAIN SectionApi[job.sec]
  /\ ~AccessThrows(SectionApi[job.sec][job.how].let, doc, job.grant.user)
  /\ job.payload \in ValidPayloads[job.sec]
  /\ SectionWritten(job, doc) \in ValidDocs

-----------------------------------------------------------------------------
(* A request that is about an existing document                            *)
Admissible(job, doc) ==
  \/ job.op = "update"  /\ UpdateAdmitted(job, doc)
  \/ job.op = "delete"  /\ DeleteAdmitted(job, doc)
  \/ job.op = "section" /\ SectionAdmitted(job, doc)

Outgoing(job, doc) ==
  IF job.op = "update" THEN Updated(job, doc) ELSE SectionWritten(job, doc)
=============================================================================
