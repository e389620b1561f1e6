------------------------------ MODULE Workflow ------------------------------
(***************************************************************************)
(* The workflow an API definition describes: documents that go from state  *)
(* to state, each request one indivisible step, admitted by the rules on   *)
(* the document it changes.                                                *)
(***************************************************************************)
EXTENDS ResourceApi

CONSTANTS Resources, Jobs, StartDbs

VARIABLES docs,    \* the documents
          spent    \* the _ids of deleted documents
vars == <<docs, spent>>

Init == docs \in StartDbs /\ spent = {}

Create(r, job) ==
  /\ job.op = "create" /\ docs[r] = None /\ r \notin spent
  /\ CreateAdmitted(job)
  /\ docs' = [docs EXCEPT ![r] = Created(job)]
  /\ UNCHANGED spent

Change(r, job) ==
  /\ job.op \in {"update", "section"} /\ docs[r] # None
  /\ Admissible(job, docs[r])
  /\ docs' = [docs EXCEPT ![r] = Outgoing(job, docs[r])]
  /\ UNCHANGED spent

Delete(r, job) ==
  /\ job.op = "delete" /\ docs[r] # None
  /\ Admissible(job, docs[r])
  /\ docs' = [docs EXCEPT ![r] = None]
  /\ spent' = spent \cup {r}

Next == \E r \in Resources, job \in Jobs :
          Create(r, job) \/ Change(r, job) \/ Delete(r, job)

Spec == Init /\ [][Next]_vars
=============================================================================
