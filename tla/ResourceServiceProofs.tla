----------------------- MODULE ResourceServiceProofs -----------------------
(* Proofs about ResourceService, for any API definition, any jobs and any  *)
(* number of requests and documents.                                       *)
EXTENDS ResourceService, AccessProofs

-----------------------------------------------------------------------------
(* What the operators of ResourceApi return.                               *)

LEMMA OverlayType ==
  ASSUME NEW doc \in Doc, NEW top \in Doc
  PROVE  Overlay(doc, top) \in Doc
BY DEF Doc, Overlay

LEMMA CreatedType ==
  ASSUME NEW j \in Jobs, j.op = "create"
  PROVE  Created(j) \in Doc
<1>1. j \in CreateJob
  BY ServiceAssumption DEF Job, CreateJob, UpdateJob, DeleteJob, SectionJob
<1>2. j.body \in Doc
  BY <1>1 DEF CreateJob
<1> QED
  BY <1>2, ApiAssumption DEF Created, Doc

LEMMA UpdateBody ==
  ASSUME NEW j \in Jobs, j.op = "update"
  PROVE  j.body \in Doc
BY ServiceAssumption DEF Job, CreateJob, UpdateJob, DeleteJob, SectionJob

LEMMA SectionFields ==
  ASSUME NEW j \in Jobs, j.op = "section"
  PROVE  j.sec \in Sections /\ j.payload \in Payloads
BY ServiceAssumption DEF Job, CreateJob, UpdateJob, DeleteJob, SectionJob

(* A section operation that is admitted writes a document, and one that    *)
(* has every section the copy has.                                         *)
LEMMA SectionWrittenType ==
  ASSUME NEW j \in Jobs, j.op = "section", NEW doc \in Doc,
         SectionAdmitted(j, doc)
  PROVE  SectionWritten(j, doc) \in Doc
<1>1. j.sec \in Sections /\ j.payload \in Payloads
  BY SectionFields
<1>2. SectionApi[j.sec][j.how].set \in States \cup {NoState}
  BY <1>1, ApiAssumption DEF SectionAdmitted
<1> QED
  BY <1>1, <1>2 DEF SectionWritten, Doc

LEMMA OutgoingType ==
  ASSUME NEW j \in Jobs, j.op \in {"update", "section"}, NEW doc \in Doc,
         Admissible(j, doc)
  PROVE  Outgoing(j, doc) \in Doc
<1>1. CASE j.op = "update"
  BY <1>1, UpdateBody, OverlayType DEF Outgoing, Updated
<1>2. CASE j.op = "section"
  BY <1>2, SectionWrittenType DEF Outgoing, Admissible
<1> QED
  BY <1>1, <1>2

(* Laying the same document on a second time changes nothing.              *)
LEMMA OverlayTwice ==
  ASSUME NEW doc \in Doc, NEW top \in Doc
  PROVE  Overlay(doc, Overlay(doc, top)) = Overlay(doc, top)
<1> DEFINE once == Overlay(doc, top)
<1>1. once \in Doc
  BY OverlayType
<1>2. (IF once.state = NoState THEN doc.state ELSE once.state) = once.state
  BY DEF Overlay
<1>3. \A u \in Roles : (IF once.owner[u] = NoUser THEN doc.owner[u] ELSE once.owner[u])
                       = once.owner[u]
  BY DEF Overlay
<1>4. \A s \in Sections : (IF once.sec[s] = Absent THEN doc.sec[s] ELSE once.sec[s])
                          = once.sec[s]
  BY DEF Overlay
<1>5. Overlay(doc, once) = [state |-> once.state,
                            owner |-> [u \in Roles |-> once.owner[u]],
                            sec |-> [s \in Sections |-> once.sec[s]]]
  BY <1>2, <1>3, <1>4 DEF Overlay
<1> QED
  BY <1>1, <1>5 DEF Doc

(* $set of a whole copy onto the document it is a copy of, with the        *)
(* request's changes in it, stores exactly the changed copy.               *)
LEMMA OverlayOfOutgoing ==
  ASSUME NEW j \in Jobs, j.op \in {"update", "section"}, NEW doc \in Doc,
         Admissible(j, doc)
  PROVE  Overlay(doc, Outgoing(j, doc)) = Outgoing(j, doc)
<1>1. CASE j.op = "update"
  <2>1. j.body \in Doc
    BY <1>1, UpdateBody
  <2>2. Outgoing(j, doc) = Overlay(doc, j.body)
    BY <1>1 DEF Outgoing, Updated
  <2> QED
    BY <2>1, <2>2, OverlayTwice
<1>2. CASE j.op = "section"
  <2>1. j.sec \in Sections /\ j.payload \in Payloads
    BY <1>2, SectionFields
  <2> DEFINE new == SectionWritten(j, doc)
  <2>2. new \in Doc /\ Outgoing(j, doc) = new
    BY <1>2, SectionWrittenType DEF Outgoing, Admissible
  <2>3. /\ new.state = doc.state \/ new.state # NoState
        /\ new.owner = doc.owner
        /\ \A s \in Sections : new.sec[s] = doc.sec[s] \/ new.sec[s] # Absent
    BY <2>1, NamesAssumption DEF SectionWritten, Doc
  <2>4. Overlay(doc, new).state = new.state
    BY <2>3 DEF Overlay
  <2>5. Overlay(doc, new).owner = new.owner
    BY <2>2, <2>3 DEF Overlay, Doc
  <2>6. Overlay(doc, new).sec = new.sec
    BY <2>2, <2>3 DEF Overlay, Doc
  <2> QED
    BY <2>2, <2>4, <2>5, <2>6 DEF Overlay, Doc
<1> QED
  BY <1>1, <1>2

-----------------------------------------------------------------------------
(* The inductive invariant.  TypeOK needs SnapsAdmitted: what a request    *)
(* writes is a document because it was admitted.  DeleteIsFinal needs the  *)
(* other parts of RequestsSound: no pending creation has the _id of a      *)
(* deleted document, which Fresh ensures because every operation that took *)
(* effect has left a document or a deletion behind.                        *)
IInv == TypeOK /\ RequestsSound /\ DeleteIsFinal /\ CommitsAccounted

LEMMA InitInv == Init => IInv
BY ServiceAssumption
   DEF Init, IInv, TypeOK, RequestsSound, AppliedIsPast, AppliedLeaves,
       SnapsAdmitted, IdsReserved, DeleteIsFinal, CommitsAccounted, Open

(* A request that fails before its write disturbs nothing.                 *)
LEMMA FailKeepsInv ==
  ASSUME NEW q \in Requests, IInv, stage[q] \in {"received", "accessed"}, Fail(q)
  PROVE  IInv'
<1> USE DEF IInv, Fail
<1>1. TypeOK'
  BY DEF TypeOK, Open, Ended
<1>2. /\ stage'[q] = "failed"
      /\ \A p \in Requests \ {q} : stage'[p] = stage[p]
  BY DEF TypeOK
<1>3. RequestsSound'
  <2>1. q \notin applied
    BY DEF RequestsSound, AppliedIsPast, Ended
  <2>2. AppliedIsPast'
    BY <1>2, <2>1 DEF RequestsSound, AppliedIsPast, Ended
  <2>3. AppliedLeaves'
    BY DEF RequestsSound, AppliedLeaves, Removed
  <2>4. SnapsAdmitted'
    BY <1>2 DEF RequestsSound, SnapsAdmitted
  <2>5. IdsReserved'
    BY <1>2 DEF RequestsSound, IdsReserved
  <2> QED
    BY <2>2, <2>3, <2>4, <2>5 DEF RequestsSound
<1>4. DeleteIsFinal'
  BY DEF DeleteIsFinal
<1>5. CommitsAccounted'
  BY <1>2 DEF CommitsAccounted, EventOf, TypeOK, RequestsSound, AppliedIsPast, Ended
<1> QED
  BY <1>1, <1>3, <1>4, <1>5

LEMMA ReceiveKeepsInv ==
  ASSUME NEW q \in Requests, NEW j \in Jobs, NEW r \in Resources,
         IInv, Receive(q, j, r)
  PROVE  IInv'
<1> USE DEF IInv, Receive
<1>1. TypeOK'
  BY DEF TypeOK, Open
<1>2. /\ stage[q] = "idle" /\ stage'[q] = "received" /\ job'[q] = j /\ target'[q] = r
      /\ \A p \in Requests \ {q} : stage'[p] = stage[p] /\ job'[p] = job[p]
                                  /\ target'[p] = target[p]
  BY DEF TypeOK
<1>3. q \notin applied /\ applied \subseteq Requests
  BY <1>2 DEF RequestsSound, AppliedIsPast, Ended, TypeOK
<1>4. RequestsSound'
  <2>1. AppliedIsPast'
    BY <1>2, <1>3 DEF RequestsSound, AppliedIsPast
  <2>2. AppliedLeaves'
    BY <1>2, <1>3 DEF RequestsSound, AppliedLeaves, Removed
  <2>3. SnapsAdmitted'
    BY <1>2 DEF RequestsSound, SnapsAdmitted
  <2>4. IdsReserved'
    <3> SUFFICES ASSUME NEW c \in Requests,
                        stage'[c] = "received", job'[c].op = "create"
                 PROVE  /\ db[target'[c]] = None
                        /\ \A p \in Requests \ {c} :
                             stage'[p] # "idle" /\ target'[p] = target'[c] =>
                               job'[p].op # "create" /\ p \notin applied
      BY DEF IdsReserved
    <3>1. CASE c = q
      <4>1. Fresh(r)
        BY <1>2, <3>1
      <4>2. db[r] = None /\ ~Removed(r)
        BY <4>1, <1>3, <1>2 DEF Fresh, Removed, RequestsSound, AppliedIsPast, Ended
      <4>3. \A p \in applied : target[p] # r
        BY <4>2 DEF RequestsSound, AppliedLeaves
      <4> QED
        BY <1>2, <3>1, <4>1, <4>2, <4>3 DEF Fresh
    <3>2. CASE c # q
      <4>1. stage[c] = "received" /\ job[c].op = "create"
        BY <1>2, <3>2
      <4>2. j.op = "create" => r # target[c]
        BY <4>1 DEF Fresh
      <4> QED
        BY <1>2, <1>3, <3>2, <4>1, <4>2 DEF RequestsSound, IdsReserved
    <3> QED
      BY <3>1, <3>2
  <2> QED
    BY <2>1, <2>2, <2>3, <2>4 DEF RequestsSound
<1>5. DeleteIsFinal'
  BY <1>2, <1>3 DEF DeleteIsFinal
<1>6. CommitsAccounted'
  <2>1. \A p \in Requests \ {q} : EventOf(p)' = EventOf(p)
    BY <1>2 DEF EventOf
  <2>2. \A e \in events : e.req # q
    BY <1>2 DEF CommitsAccounted
  <2> QED
    BY <1>2, <1>3, <2>1, <2>2 DEF CommitsAccounted, TypeOK
<1> QED
  BY <1>1, <1>4, <1>5, <1>6

LEMMA ReadKeepsInv ==
  ASSUME NEW q \in Requests, IInv, Read(q)
  PROVE  IInv'
<1> USE DEF IInv, Read
<1>1. TypeOK'
  BY DEF TypeOK, Open
<1>2. /\ stage'[q] = "accessed" /\ snap'[q] = db[target[q]]
      /\ \A p \in Requests \ {q} : stage'[p] = stage[p] /\ snap'[p] = snap[p]
  BY DEF TypeOK
<1>3. q \notin applied /\ applied \subseteq Requests
  BY DEF RequestsSound, AppliedIsPast, Ended, TypeOK
<1>4. RequestsSound'
  <2>1. AppliedIsPast'
    BY <1>2, <1>3 DEF RequestsSound, AppliedIsPast
  <2>2. AppliedLeaves'
    BY DEF RequestsSound, AppliedLeaves, Removed
  <2>3. SnapsAdmitted'
    BY <1>2 DEF RequestsSound, SnapsAdmitted
  <2>4. IdsReserved'
    BY <1>2 DEF RequestsSound, IdsReserved
  <2> QED
    BY <2>1, <2>2, <2>3, <2>4 DEF RequestsSound
<1>5. DeleteIsFinal'
  BY DEF DeleteIsFinal
<1>6. CommitsAccounted'
  BY <1>2, <1>3 DEF CommitsAccounted, EventOf, TypeOK
<1> QED
  BY <1>1, <1>4, <1>5, <1>6

LEMMA FinishKeepsInv ==
  ASSUME NEW q \in Requests, IInv, Finish(q)
  PROVE  IInv'
<1> USE DEF IInv, Finish
<1>1. EventOf(q) \in [kind : EventKinds, res : Resources, req : Requests]
  BY DEF EventOf, EventKinds, TypeOK
<1>2. TypeOK'
  BY <1>1 DEF TypeOK, Ended
<1>3. /\ stage'[q] \in {"done", "failed"}
      /\ \A p \in Requests \ {q} : stage'[p] = stage[p]
  BY DEF TypeOK
<1>4. RequestsSound'
  <2>1. AppliedIsPast'
    BY <1>3 DEF RequestsSound, AppliedIsPast, TypeOK, Ended
  <2>2. AppliedLeaves'
    BY DEF RequestsSound, AppliedLeaves, Removed
  <2>3. SnapsAdmitted'
    BY <1>3 DEF RequestsSound, SnapsAdmitted
  <2>4. IdsReserved'
    BY <1>3 DEF RequestsSound, IdsReserved
  <2> QED
    BY <2>1, <2>2, <2>3, <2>4 DEF RequestsSound
<1>5. DeleteIsFinal'
  BY DEF DeleteIsFinal
<1>6. CommitsAccounted'
  <2>1. \A p \in Requests : EventOf(p)' = EventOf(p)
    BY DEF EventOf
  <2>2. EventOf(q).req = q
    BY DEF EventOf
  <2> QED
    BY <1>3, <2>1, <2>2 DEF CommitsAccounted, TypeOK
<1> QED
  BY <1>2, <1>4, <1>5, <1>6

LEMMA CrashKeepsInv ==
  ASSUME IInv, Crash
  PROVE  IInv'
<1> USE DEF IInv, Crash
<1>1. TypeOK'
  BY DEF TypeOK, Open, Ended
<1>2. \A p \in Requests :
        stage'[p] = IF stage[p] \in Open THEN "lost" ELSE stage[p]
  BY DEF TypeOK
<1>3. RequestsSound'
  <2>1. AppliedIsPast'
    BY <1>2 DEF RequestsSound, AppliedIsPast, Open, Ended, TypeOK
  <2>2. AppliedLeaves'
    BY DEF RequestsSound, AppliedLeaves, Removed
  <2>3. SnapsAdmitted'
    BY <1>2 DEF RequestsSound, SnapsAdmitted, Open
  <2>4. IdsReserved'
    BY <1>2 DEF RequestsSound, IdsReserved, Open
  <2> QED
    BY <2>1, <2>2, <2>3, <2>4 DEF RequestsSound
<1>4. DeleteIsFinal'
  BY DEF DeleteIsFinal
<1>5. CommitsAccounted'
  BY <1>2 DEF CommitsAccounted, EventOf, Open, TypeOK
<1> QED
  BY <1>1, <1>3, <1>4, <1>5

-----------------------------------------------------------------------------
(* The three database operations.  What they share: the request moves on   *)
(* to "written" or "lost", and nothing of the other requests changes.      *)
LEMMA AnsweredFacts ==
  ASSUME NEW q \in Requests, TypeOK, Answered(q)
  PROVE  /\ stage' \in [Requests -> {"idle"} \cup Open \cup Ended]
         /\ stage'[q] \in {"written", "lost"}
         /\ \A p \in Requests \ {q} : stage'[p] = stage[p]
         /\ \A p \in Requests : EventOf(p)' = EventOf(p)
BY DEF Answered, TypeOK, Open, Ended, EventOf

(* The part of the invariant that does not look at the documents.          *)
LEMMA AnsweredKeepsBooks ==
  ASSUME NEW q \in Requests, IInv, Answered(q),
         stage[q] \in {"received", "accessed"},
         applied' \subseteq applied \cup {q}
  PROVE  AppliedIsPast' /\ SnapsAdmitted' /\ CommitsAccounted'
<1>1. TypeOK
  BY DEF IInv
<1>2. AppliedIsPast'
  BY <1>1, AnsweredFacts DEF IInv, RequestsSound, AppliedIsPast, TypeOK, Ended
<1>3. SnapsAdmitted'
  BY <1>1, AnsweredFacts DEF IInv, RequestsSound, SnapsAdmitted, Answered
<1>4. CommitsAccounted'
  <2>1. events' = events
    BY DEF Answered
  <2>2. \A e \in events : e.req \in Requests /\ e.req # q
    BY <1>1 DEF IInv, CommitsAccounted, TypeOK
  <2>3. \A p \in applied' : \/ stage'[p] \in {"written", "lost"}
                           \/ EventOf(p)' \in events'
    BY <1>1, <2>1, AnsweredFacts DEF IInv, CommitsAccounted, TypeOK
  <2>4. \A e \in events' : stage'[e.req] \in {"done", "failed"} /\ e = EventOf(e.req)'
    BY <1>1, <2>1, <2>2, AnsweredFacts DEF IInv, CommitsAccounted
  <2> QED
    BY <2>3, <2>4 DEF CommitsAccounted
<1> QED
  BY <1>2, <1>3, <1>4

LEMMA InsertKeepsInv ==
  ASSUME NEW q \in Requests, IInv, Insert(q)
  PROVE  IInv'
<1> DEFINE r == target[q]
<1>1. TypeOK /\ Answered(q) /\ job[q] \in Jobs /\ r \in Resources
      /\ job[q].op = "create" /\ stage[q] = "received"
  BY DEF IInv, Insert, TypeOK
<1>2. Created(job[q]) \in Doc /\ Created(job[q]) # None
  BY <1>1, CreatedType, NamesAssumption
<1>3. /\ db' = [db EXCEPT ![r] = Created(job[q])]
      /\ applied' = applied \cup {q} /\ job' = job /\ target' = target /\ snap' = snap
      /\ events' = events
  BY DEF Insert, Answered
<1>4. /\ db'[r] # None
      /\ \A x \in Resources \ {r} : db'[x] = db[x]
  BY <1>1, <1>2, <1>3 DEF TypeOK
<1>5. TypeOK'
  BY <1>1, <1>2, <1>3, AnsweredFacts DEF TypeOK
<1>6. AppliedIsPast' /\ SnapsAdmitted' /\ CommitsAccounted'
  BY <1>1, <1>3, AnsweredKeepsBooks
<1>7. \A p \in Requests \ {q} : stage[p] # "idle" /\ target[p] = r =>
        job[p].op # "create" /\ p \notin applied
  BY <1>1 DEF IInv, RequestsSound, IdsReserved
<1>8. \A p \in applied : p \in Requests /\ stage[p] # "idle" /\ target[p] \in Resources
  BY DEF IInv, RequestsSound, AppliedIsPast, Ended, TypeOK
<1>9. AppliedLeaves'
  BY <1>1, <1>3, <1>4, <1>8 DEF IInv, RequestsSound, AppliedLeaves, Removed
<1>10. IdsReserved'
  <2> SUFFICES ASSUME NEW c \in Requests,
                      stage'[c] = "received", job[c].op = "create"
               PROVE  /\ db'[target[c]] = None
                      /\ \A p \in Requests \ {c} :
                           stage'[p] # "idle" /\ target[p] = target[c] =>
                             job[p].op # "create" /\ p \notin applied'
    BY <1>3 DEF IdsReserved
  <2>1. c # q /\ stage[c] = "received"
    BY <1>1, AnsweredFacts
  <2>2. target[c] # r /\ target[c] \in Resources
    BY <1>1, <1>7, <2>1 DEF TypeOK
  <2>3. /\ db[target[c]] = None
        /\ \A p \in Requests \ {c} : stage[p] # "idle" /\ target[p] = target[c] =>
             job[p].op # "create" /\ p \notin applied
    BY <2>1 DEF IInv, RequestsSound, IdsReserved
  <2> QED
    BY <1>1, <1>3, <1>4, <2>1, <2>2, <2>3, AnsweredFacts
<1>11. DeleteIsFinal'
  BY <1>1, <1>3, <1>4, <1>7, <1>8 DEF IInv, DeleteIsFinal
<1> QED
  BY <1>5, <1>6, <1>9, <1>10, <1>11 DEF IInv, RequestsSound

LEMMA WriteKeepsInv ==
  ASSUME NEW q \in Requests, IInv, Write(q)
  PROVE  IInv'
<1> DEFINE r == target[q]
           new == Overlay(db[r], Outgoing(job[q], snap[q]))
<1>1. /\ TypeOK /\ Answered(q) /\ job[q] \in Jobs /\ r \in Resources
      /\ job[q].op \in {"update", "section"} /\ stage[q] = "accessed"
      /\ snap[q] \in Doc /\ Admissible(job[q], snap[q])
  BY DEF IInv, Write, TypeOK, RequestsSound, SnapsAdmitted
<1>2. /\ job' = job /\ target' = target /\ snap' = snap /\ events' = events
  BY <1>1 DEF Answered
<1>3. \/ db' = db /\ applied' = applied
      \/ db[r] # None /\ db' = [db EXCEPT ![r] = new] /\ applied' = applied \cup {q}
  BY DEF Write
<1>4. db[r] # None => new \in Doc /\ new # None
  BY <1>1, OutgoingType, OverlayType, NamesAssumption DEF TypeOK
<1>5. /\ \A x \in Resources : (db'[x] = None) <=> (db[x] = None)
      /\ db' \in [Resources -> Doc \cup {None}]
  BY <1>1, <1>3, <1>4 DEF TypeOK
<1>6. TypeOK'
  BY <1>1, <1>2, <1>3, <1>5, AnsweredFacts DEF TypeOK
<1>7. AppliedIsPast' /\ SnapsAdmitted' /\ CommitsAccounted'
  BY <1>1, <1>3, AnsweredKeepsBooks
<1>8. \A p \in applied : p \in Requests /\ target[p] \in Resources
  BY DEF IInv, RequestsSound, AppliedIsPast, Ended, TypeOK
<1>9. AppliedLeaves'
  BY <1>1, <1>2, <1>3, <1>5, <1>8 DEF IInv, RequestsSound, AppliedLeaves, Removed
<1>10. IdsReserved'
  <2> SUFFICES ASSUME NEW c \in Requests,
                      stage'[c] = "received", job[c].op = "create"
               PROVE  /\ db'[target[c]] = None
                      /\ \A p \in Requests \ {c} :
                           stage'[p] # "idle" /\ target[p] = target[c] =>
                             job[p].op # "create" /\ p \notin applied'
    BY <1>2 DEF IdsReserved
  <2>1. c # q /\ stage[c] = "received" /\ target[c] \in Resources
    BY <1>1, AnsweredFacts DEF TypeOK
  <2>2. /\ db[target[c]] = None
        /\ \A p \in Requests \ {c} : stage[p] # "idle" /\ target[p] = target[c] =>
             job[p].op # "create" /\ p \notin applied
    BY <2>1 DEF IInv, RequestsSound, IdsReserved
  <2> QED
    BY <1>1, <1>3, <1>5, <2>1, <2>2, AnsweredFacts
<1>11. DeleteIsFinal'
  BY <1>1, <1>2, <1>3, <1>5, <1>8 DEF IInv, DeleteIsFinal
<1> QED
  BY <1>6, <1>7, <1>9, <1>10, <1>11 DEF IInv, RequestsSound

LEMMA RemoveKeepsInv ==
  ASSUME NEW q \in Requests, IInv, Remove(q)
  PROVE  IInv'
<1> DEFINE r == target[q]
<1>1. /\ TypeOK /\ Answered(q) /\ job[q] \in Jobs /\ r \in Resources
      /\ job[q].op = "delete" /\ stage[q] = "accessed"
  BY DEF IInv, Remove, TypeOK
<1>2. /\ job' = job /\ target' = target /\ snap' = snap /\ events' = events
      /\ db' = [db EXCEPT ![r] = None]
      /\ applied' = IF db[r] = None THEN applied ELSE applied \cup {q}
  BY DEF Remove, Answered
<1>3. /\ db'[r] = None
      /\ \A x \in Resources \ {r} : db'[x] = db[x]
  BY <1>1, <1>2 DEF TypeOK
<1>4. TypeOK'
  BY <1>1, <1>2, AnsweredFacts DEF TypeOK
<1>5. AppliedIsPast' /\ SnapsAdmitted' /\ CommitsAccounted'
  BY <1>1, <1>2, AnsweredKeepsBooks
<1>6. \A p \in applied : p \in Requests /\ target[p] \in Resources
  BY DEF IInv, RequestsSound, AppliedIsPast, Ended, TypeOK
<1>7. AppliedLeaves'
  BY <1>1, <1>2, <1>3, <1>6 DEF IInv, RequestsSound, AppliedLeaves, Removed
<1>8. IdsReserved'
  <2> SUFFICES ASSUME NEW c \in Requests,
                      stage'[c] = "received", job[c].op = "create"
               PROVE  /\ db'[target[c]] = None
                      /\ \A p \in Requests \ {c} :
                           stage'[p] # "idle" /\ target[p] = target[c] =>
                             job[p].op # "create" /\ p \notin applied'
    BY <1>2 DEF IdsReserved
  <2>1. c # q /\ stage[c] = "received" /\ target[c] \in Resources
    BY <1>1, AnsweredFacts DEF TypeOK
  <2>2. /\ db[target[c]] = None
        /\ \A p \in Requests \ {c} : stage[p] # "idle" /\ target[p] = target[c] =>
             job[p].op # "create" /\ p \notin applied
    BY <2>1 DEF IInv, RequestsSound, IdsReserved
  <2> QED
    BY <1>1, <1>2, <1>3, <2>1, <2>2, AnsweredFacts
<1>9. DeleteIsFinal'
  BY <1>1, <1>2, <1>3, <1>6 DEF IInv, DeleteIsFinal
<1> QED
  BY <1>4, <1>5, <1>7, <1>8, <1>9 DEF IInv, RequestsSound

-----------------------------------------------------------------------------
LEMMA StepKeepsInv == IInv /\ [Next]_vars => IInv'
<1> SUFFICES ASSUME IInv, [Next]_vars
             PROVE  IInv'
  OBVIOUS
<1>1. ASSUME NEW q \in Requests, NEW j \in Jobs, NEW r \in Resources,
             Receive(q, j, r)
      PROVE  IInv'
  BY <1>1, ReceiveKeepsInv
<1>2. ASSUME NEW q \in Requests, Step(q)
      PROVE  IInv'
  <2>1. CASE RefuseCreate(q) \/ NotFound(q) \/ Deny(q)
    BY <2>1, FailKeepsInv DEF RefuseCreate, NotFound, Deny
  <2>2. CASE Read(q)
    BY <2>2, ReadKeepsInv
  <2>3. CASE Insert(q)
    BY <2>3, InsertKeepsInv
  <2>4. CASE Write(q)
    BY <2>4, WriteKeepsInv
  <2>5. CASE Remove(q)
    BY <2>5, RemoveKeepsInv
  <2>6. CASE Finish(q)
    BY <2>6, FinishKeepsInv
  <2> QED
    BY <1>2, <2>1, <2>2, <2>3, <2>4, <2>5, <2>6 DEF Step
<1>3. ASSUME NEW q \in Requests, DbError(q)
      PROVE  IInv'
  BY <1>3, FailKeepsInv DEF DbError
<1>4. CASE Crash
  BY <1>4, CrashKeepsInv
<1>5. CASE UNCHANGED vars
  BY <1>5 DEF vars, IInv, TypeOK, RequestsSound, AppliedIsPast, AppliedLeaves,
              SnapsAdmitted, IdsReserved, DeleteIsFinal, CommitsAccounted,
              EventOf, Removed
<1> QED
  BY <1>1, <1>2, <1>3, <1>4, <1>5 DEF Next

(* The invariant holds in every reachable state.                           *)
THEOREM Invariance == Spec => []IInv
BY InitInv, StepKeepsInv, PTL DEF Spec

(* Every variable keeps its type, whatever the API definition and however  *)
(* the requests interleave (resource.service.ts:174-386, 495-538).         *)
THEOREM TypeCorrect == Spec => []TypeOK
<1>1. IInv => TypeOK
  BY DEF IInv
<1> QED
  BY <1>1, Invariance, PTL

(* A deletion that took effect is final: no interleaved update, section or *)
(* creation brings the document back (resource.service.ts:380, 526).       *)
THEOREM DeletionFinal == Spec => []DeleteIsFinal
<1>1. IInv => DeleteIsFinal
  BY DEF IInv
<1> QED
  BY <1>1, Invariance, PTL

(* Every operation that took effect is on its way, cut off, or announced   *)
(* by its own event, and every event belongs to a request past its write.  *)
THEOREM CommitsAnnounced == Spec => []CommitsAccounted
<1>1. IInv => CommitsAccounted
  BY DEF IInv
<1> QED
  BY <1>1, Invariance, PTL

(* What a request may count on between its steps: in particular it writes  *)
(* only what it was admitted to write on the copy it read.                 *)
THEOREM RequestsAreSound == Spec => []RequestsSound
<1>1. IInv => RequestsSound
  BY DEF IInv
<1> QED
  BY <1>1, Invariance, PTL

-----------------------------------------------------------------------------
(* How one step changes the documents: not at all, or by one of the three  *)
(* operations of the database.                                             *)
LEMMA StepOnDocuments ==
  ASSUME [Next]_vars
  PROVE  \/ db' = db /\ applied' \subseteq applied /\ applied \subseteq applied'
         \/ \E q \in Requests : Insert(q) \/ Write(q) \/ Remove(q)
BY DEF Next, vars, Step, Receive, RefuseCreate, NotFound, Deny, Read, DbError,
       Fail, Finish, Crash

(* One step of section persistence.                                        *)
LEMMA StepKeepsSections ==
  ASSUME IInv, [Next]_vars, NEW r \in Resources, NEW s \in Sections,
         db[r] # None, db'[r] # None, db[r].sec[s] # Absent
  PROVE  db'[r].sec[s] # Absent
<1>1. CASE db' = db
  BY <1>1
<1>2. ASSUME NEW q \in Requests, Insert(q)
      PROVE  db'[r].sec[s] # Absent
  <2>1. db[target[q]] = None
    BY <1>2 DEF IInv, RequestsSound, IdsReserved, Insert
  <2> QED
    BY <1>2, <2>1 DEF Insert, IInv, TypeOK
<1>3. ASSUME NEW q \in Requests, Write(q)
      PROVE  db'[r].sec[s] # Absent
  <2> DEFINE out == Outgoing(job[q], snap[q])
  <2>1. CASE r = target[q]
    <3>1. db'[r] = Overlay(db[r], out)
      BY <1>3, <2>1 DEF Write, IInv, TypeOK
    <3>2. db'[r].sec[s] = IF out.sec[s] = Absent THEN db[r].sec[s] ELSE out.sec[s]
      BY <3>1 DEF Overlay
    <3> QED
      BY <3>2
  <2>2. CASE r # target[q]
    BY <1>3, <2>2 DEF Write, IInv, TypeOK
  <2> QED
    BY <2>1, <2>2
<1>4. ASSUME NEW q \in Requests, Remove(q)
      PROVE  db'[r].sec[s] # Absent
  BY <1>4 DEF Remove, IInv, TypeOK
<1> QED
  BY <1>1, <1>2, <1>3, <1>4, StepOnDocuments

(* A section a live document has is never lost, not even to a request that *)
(* read the document before the section was there.                         *)
THEOREM SectionsStay == Spec => SectionsPersist
<1> DEFINE Keep == \A r \in Resources, s \in Sections :
                     db[r] # None /\ db'[r] # None /\ db[r].sec[s] # Absent
                       => db'[r].sec[s] # Absent
<1>1. IInv /\ [Next]_vars => Keep
  BY StepKeepsSections
<1>2. IInv /\ [Next]_vars => [Keep]_vars
  BY <1>1
<1>3. Spec => [][Keep]_vars
  BY <1>2, Invariance, PTL DEF Spec
<1> QED
  BY <1>3 DEF SectionsPersist

-----------------------------------------------------------------------------
(* A commit is Insert, Write on a live document, or Remove of one.         *)
LEMMA CommitIsOne ==
  ASSUME IInv, [Next]_vars, NEW q \in Requests, Commits(q), stage[q] = "accessed"
  PROVE  Write(q) \/ Remove(q)
<1>1. ASSUME NEW p \in Requests, Insert(p) \/ Write(p) \/ Remove(p)
      PROVE  p = q
  BY <1>1 DEF Commits, Insert, Write, Remove
<1>2. ~(db' = db /\ applied' \subseteq applied)
  BY DEF Commits
<1>3. ~Insert(q)
  BY DEF Insert
<1> QED
  BY <1>1, <1>2, <1>3, StepOnDocuments

LEMMA CleanCommit ==
  ASSUME IInv, [Next]_vars, NEW q \in Requests,
         Commits(q), stage[q] = "accessed", db[target[q]] = snap[q]
  PROVE  /\ Admissible(job[q], db[target[q]])
         /\ job[q].op # "delete" =>
              db'[target[q]] = Outgoing(job[q], db[target[q]])
              /\ db'[target[q]] \in ValidDocs
<1> DEFINE r == target[q]
<1>1. /\ Admissible(job[q], db[r]) /\ db[r] \in Doc /\ r \in Resources
      /\ job[q] \in Jobs
  BY DEF IInv, RequestsSound, SnapsAdmitted, TypeOK
<1>2. CASE Write(q)
  <2>1. job[q].op \in {"update", "section"}
    BY <1>2 DEF Write
  <2>2. db'[r] = Overlay(db[r], Outgoing(job[q], db[r]))
    BY <1>1, <1>2 DEF Write, Commits, IInv, TypeOK
  <2>3. db'[r] = Outgoing(job[q], db[r])
    BY <1>1, <2>1, <2>2, OverlayOfOutgoing
  <2>4. Outgoing(job[q], db[r]) \in ValidDocs
    BY <1>1, <2>1 DEF Admissible, Outgoing, UpdateAdmitted, SectionAdmitted
  <2> QED
    BY <1>1, <2>3, <2>4
<1>3. CASE Remove(q)
  BY <1>1, <1>3 DEF Remove
<1> QED
  BY <1>2, <1>3, CommitIsOne

(* A request that commits on the document it read stores exactly what the  *)
(* rules admit, and a valid document (resource.service.ts:225-262,         *)
(* 495-538): every departure from the rules needs a change by another      *)
(* request between the read and the write.                                 *)
THEOREM CleanCommitsSound == Spec => CleanCommitsFollowRules
<1> DEFINE Clean ==
      \A q \in Requests :
        Commits(q) /\ stage[q] = "accessed" /\ db[target[q]] = snap[q] =>
          /\ Admissible(job[q], db[target[q]])
          /\ job[q].op # "delete" =>
               db'[target[q]] = Outgoing(job[q], db[target[q]])
               /\ db'[target[q]] \in ValidDocs
<1>1. IInv /\ [Next]_vars => [Clean]_vars
  BY CleanCommit
<1>2. Spec => [][Clean]_vars
  BY <1>1, Invariance, PTL DEF Spec
<1> QED
  BY <1>2 DEF CleanCommitsFollowRules

-----------------------------------------------------------------------------
(* The rules of a section operation bind whom they name                    *)
(* (resource.service.ts:337-339): a rule that asks for anything either     *)
(* grants or throws, so who was not thrown out was let in.                 *)
LEMMA NamedAreGranted ==
  ASSUME IInv, NEW q \in Requests, stage[q] = "accessed", job[q].op = "section",
         NEW k \in Applicable(SectionApi[job[q].sec][job[q].how].let, job[q].grant.user),
         SectionApi[job[q].sec][job[q].how].let[k].form # "bare"
  PROVE  SectionGranted(q)
<1> DEFINE j == job[q]
           let == SectionApi[j.sec][j.how].let
           user == j.grant.user
<1>1. j \in Jobs /\ SectionAdmitted(j, snap[q])
  BY DEF IInv, TypeOK, RequestsSound, SnapsAdmitted, Admissible
<1>2. j.sec \in Sections /\ j.how \in DOMAIN SectionApi[j.sec]
  BY <1>1, SectionFields DEF SectionAdmitted
<1>3. let \in Seq(Rule) /\ ~AccessThrows(let, snap[q], user)
  BY <1>1, <1>2, ApiAssumption DEF SectionAdmitted
<1>4. Decides(let[k], snap[q], user)
  <2>1. k \in DOMAIN let
    BY DEF Applicable
  <2>2. let[k] \in Rule
    BY <1>3, <2>1
  <2> QED
    BY <2>2 DEF Rule, Decides, Throws, Grants
<1>5. k \in Applicable(let, user)
  OBVIOUS
<1> HIDE DEF let, user
<1>6. AccessGranted(let, snap[q], user)
  BY <1>3, <1>4, <1>5, DecidedIsGrantedOrThrown
<1> QED
  BY <1>6 DEF let, user, SectionGranted

(* Discarding the result of verifyAccess does no harm to those the         *)
(* operation's rules name (resource.service.ts:337-339).                   *)
THEOREM SectionRulesAreHeard == Spec => []SectionRulesHeard
<1>1. IInv => SectionRulesHeard
  BY NamedAreGranted DEF SectionRulesHeard
<1> QED
  BY <1>1, Invariance, PTL

(* README.md:55, "Does user user meets conditions to perform action on     *)
(* resource section?": every section request that is about to write was    *)
(* granted by the rules of its operation, when each role that may read a   *)
(* document is named by those rules (resource.service.ts:323-339).         *)
THEOREM NamedReadersAreHeard ==
  ASSUME \A s \in Sections : \A h \in DOMAIN SectionApi[s] : \A i \in DOMAIN GetLet :
           \E k \in DOMAIN SectionApi[s][h].let :
             /\ SectionApi[s][h].let[k].for = GetLet[i].for
             /\ SectionApi[s][h].let[k].form # "bare"
  PROVE  Spec => [](\A q \in Requests :
                      stage[q] = "accessed" /\ job[q].op = "section" => SectionGranted(q))
<1>1. ASSUME IInv, NEW q \in Requests, stage[q] = "accessed", job[q].op = "section"
      PROVE  SectionGranted(q)
  <2> DEFINE j == job[q]
             let == SectionApi[j.sec][j.how].let
             user == j.grant.user
  <2>1. j \in Jobs /\ SectionAdmitted(j, snap[q])
    BY <1>1 DEF IInv, TypeOK, RequestsSound, SnapsAdmitted, Admissible
  <2>2. j.sec \in Sections /\ j.how \in DOMAIN SectionApi[j.sec]
    BY <1>1, <2>1, SectionFields DEF SectionAdmitted
  <2>3. PICK r \in DOMAIN GetLet : GetLet[r].for \in DOMAIN user
    BY <2>1 DEF SectionAdmitted, MayRead, AccessGranted, Reached, Applicable
  <2>4. PICK k \in DOMAIN let : let[k].for = GetLet[r].for /\ let[k].form # "bare"
    BY <2>2
  <2>5. k \in Applicable(let, user) /\ let[k].form # "bare"
    BY <2>3, <2>4 DEF Applicable
  <2>6. ASSUME NEW i \in Applicable(let, user), let[i].form # "bare"
        PROVE  SectionGranted(q)
    BY <1>1, <2>6, NamedAreGranted
  <2> HIDE DEF let, user
  <2> QED
    BY <2>5, <2>6
<1>2. IInv => \A q \in Requests : stage[q] = "accessed" /\ job[q].op = "section"
                                   => SectionGranted(q)
  BY <1>1
<1> QED
  BY <1>2, Invariance, PTL

-----------------------------------------------------------------------------
(* The refinement of Lifecycle.                                            *)
Phase == [r \in Resources |-> IF db[r] # None THEN "live"
                              ELSE IF Removed(r) THEN "gone" ELSE "fresh"]

LEMMA LifecycleInit == Init => L!Init
BY DEF Init, L!Init, Removed

LEMMA LifecycleStep ==
  ASSUME IInv, [Next]_vars
  PROVE  [L!Next]_Phase
<1> USE DEF Phase
<1>1. ASSUME db' = db, applied' = applied,
             \A q \in applied : job'[q] = job[q] /\ target'[q] = target[q]
      PROVE  Phase' = Phase
  BY <1>1 DEF Removed
<1>2. ASSUME NEW q \in Requests, Insert(q)
      PROVE  L!Next
  <2> DEFINE r == target[q]
  <2>1. /\ r \in Resources /\ db[r] = None /\ ~Removed(r)
        /\ Created(job[q]) # None /\ db' = [db EXCEPT ![r] = Created(job[q])]
        /\ job' = job /\ target' = target /\ applied' = applied \cup {q}
        /\ job[q].op = "create"
    BY <1>2, CreatedType, NamesAssumption
       DEF Insert, Answered, IInv, RequestsSound, IdsReserved, AppliedIsPast,
           Ended, TypeOK, Removed
  <2>2. \A x \in Resources : Removed(x)' = Removed(x)
    BY <2>1 DEF Removed
  <2>3. Phase[r] = "fresh" /\ Phase' = [Phase EXCEPT ![r] = "live"]
    BY <2>1, <2>2 DEF IInv, TypeOK
  <2> QED
    BY <2>1, <2>3 DEF L!Next, L!Begin
<1>3. ASSUME NEW q \in Requests, Write(q)
      PROVE  Phase' = Phase
  <2> DEFINE r == target[q]
  <2>1. /\ job' = job /\ target' = target /\ applied' \subseteq applied \cup {q}
        /\ applied \subseteq applied' /\ job[q].op # "delete"
    BY <1>3 DEF Write, Answered
  <2>2. \A x \in Resources : Removed(x)' = Removed(x)
    BY <2>1 DEF Removed
  <2>3. \A x \in Resources : (db'[x] = None) <=> (db[x] = None)
    <3>1. /\ job[q] \in Jobs /\ job[q].op \in {"update", "section"}
          /\ snap[q] \in Doc /\ Admissible(job[q], snap[q]) /\ r \in Resources
      BY <1>3 DEF Write, IInv, TypeOK, RequestsSound, SnapsAdmitted
    <3>2. db[r] # None => Overlay(db[r], Outgoing(job[q], snap[q])) # None
      BY <3>1, OutgoingType, OverlayType, NamesAssumption DEF IInv, TypeOK
    <3> QED
      BY <1>3, <3>1, <3>2 DEF Write, IInv, TypeOK
  <2> QED
    BY <2>2, <2>3
<1>4. ASSUME NEW q \in Requests, Remove(q)
      PROVE  L!Next \/ Phase' = Phase
  <2> DEFINE r == target[q]
  <2>1. /\ r \in Resources /\ db' = [db EXCEPT ![r] = None]
        /\ job' = job /\ target' = target /\ job[q].op = "delete"
        /\ applied' = IF db[r] = None THEN applied ELSE applied \cup {q}
    BY <1>4 DEF Remove, Answered, IInv, TypeOK
  <2>2. CASE db[r] = None
    <3>1. \A x \in Resources : Removed(x)' = Removed(x) /\ db'[x] = db[x]
      BY <2>1, <2>2 DEF Removed, IInv, TypeOK
    <3> QED
      BY <3>1
  <2>3. CASE db[r] # None
    <3>1. /\ Removed(r)' /\ db'[r] = None
          /\ \A x \in Resources \ {r} : Removed(x)' = Removed(x) /\ db'[x] = db[x]
      BY <2>1, <2>3 DEF Removed, IInv, TypeOK
    <3>2. Phase[r] = "live" /\ Phase' = [Phase EXCEPT ![r] = "gone"]
      BY <2>1, <2>3, <3>1
    <3> QED
      BY <2>1, <3>2 DEF L!Next, L!End
  <2> QED
    BY <2>2, <2>3
<1>5. CASE ~\E q \in Requests : Insert(q) \/ Write(q) \/ Remove(q)
  <2>1. /\ db' = db /\ applied' = applied
        /\ \A q \in applied : job'[q] = job[q] /\ target'[q] = target[q]
    BY <1>5 DEF Next, vars, Step, Receive, RefuseCreate, NotFound, Deny, Read, DbError,
                Fail, Finish, Crash, IInv, RequestsSound, AppliedIsPast, Ended, TypeOK
  <2> QED
    BY <1>1, <2>1
<1> QED
  BY <1>2, <1>3, <1>4, <1>5

(* Under any interleaving, crashes and database errors included, an _id is *)
(* fresh, then live, then gone.                                            *)
THEOREM ServiceRefinesLifecycle == Spec => RefinesLifecycle
<1>1. IInv /\ [Next]_vars =>
        [L!Next]_([r \in Resources |-> IF db[r] # None THEN "live"
                                       ELSE IF Removed(r) THEN "gone" ELSE "fresh"])
  BY LifecycleStep DEF Phase
<1> QED
  BY <1>1, LifecycleInit, Invariance, PTL DEF Spec, RefinesLifecycle, L!Spec
=============================================================================
