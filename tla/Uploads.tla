------------------------------ MODULE Uploads ------------------------------
(***************************************************************************)
(* Files and the sections that refer to them: uploadFile, uploadFiles,     *)
(* deleteDocument and deleteSection of resource.service.ts on one          *)
(* document, over the storage providers.                                   *)
(*                                                                         *)
(* A file is stored under a key made of the section and the hash of the    *)
(* content, and a section holds the descriptors of its files: one for a    *)
(* `document` section, any number for a `documents` section.  Storage and  *)
(* database are separate.  An upload starts to write its files and goes on *)
(* without waiting; when anything fails later it unlinks them again.       *)
(*                                                                         *)
(* Stages of a request:                                                    *)
(*   idle -> received -> unlinking | accessed -> written -> done           *)
(* with `compensating` while the files of a failed upload are unlinked,    *)
(* `failed`, and `lost` when the instance died.                            *)
(***************************************************************************)
EXTENDS Naturals

CONSTANTS Sections,     \* the sections with files
          Multiple,     \* those of kind `documents`
          Versioned,    \* those declared `versioned`
          Contents,     \* what a file may contain
          Requests,     \* the requests, each made once
          Jobs,         \* what a request may ask for
          StartDocs,    \* the document as the requests may find it
          Local,        \* LocalProvider (TRUE) or S3Provider
          IdField,      \* do documents have an `id` of their own?
          MaxFaults,    \* bound: failures of database, storage or instance
          Absent, NoJob

Key == Sections \X Contents
Doc == [Sections -> {Absent} \cup SUBSET Contents]

(* `admitted`: the access rules let the client in; `ok`: what it makes of  *)
(* the document passes validation, and the section's update is defined     *)
UploadJob == [op : {"uploadFile", "uploadFiles"}, how : {"create", "update"},
              sec : Sections, files : SUBSET Contents,
              admitted : BOOLEAN, ok : BOOLEAN]
DeleteJob == [op : {"deleteDocument", "deleteSection"}, how : {"delete"},
              sec : Sections, files : SUBSET Contents,
              admitted : BOOLEAN, ok : BOOLEAN]
Job == UploadJob \cup DeleteJob

ASSUME UploadsAssumption ==
  /\ Multiple \subseteq Sections /\ Versioned \subseteq Sections
  /\ Jobs \subseteq Job /\ NoJob \notin Jobs
  /\ \A F \in SUBSET Contents : F # Absent
  /\ StartDocs \subseteq Doc
  /\ Local \in BOOLEAN /\ IdField \in BOOLEAN /\ MaxFaults \in Nat

VARIABLES doc,       \* the document
          disk,      \* the keys storage holds
          ops,       \* the storage operations under way, awaited or not
          stage, job, snap,  \* of each request; snap is its copy
          events,    \* what the event bus was given
          erased,    \* the keys unlinked since they were stored, and by whom
          cut,       \* the keys whose writing ended with the instance
          faults
store == <<disk, ops, erased, cut>>
vars == <<doc, disk, ops, stage, job, snap, events, erased, cut, faults>>

Open == {"received", "unlinking", "accessed", "written", "compensating"}
Ended == {"done", "failed", "lost"}
EventKinds == {"FileUploadedEvent", "ResourceUpdatedEvent"}
Op == [kind : {"put", "unlink", "probe"}, key : Key, req : Requests]

IsUpload(j) == j.op \in {"uploadFile", "uploadFiles"}
Refs(d) == {k \in Key : d[k[1]] # Absent /\ k[2] \in d[k[1]]}

TypeOK ==
  /\ doc \in Doc /\ disk \subseteq Key /\ ops \subseteq Op
  /\ stage \in [Requests -> {"idle"} \cup Open \cup Ended]
  /\ job \in [Requests -> Jobs \cup {NoJob}]
  /\ snap \in [Requests -> Doc]
  /\ events \subseteq [kind : EventKinds, req : Requests]
  /\ erased \subseteq Key \X Requests /\ cut \subseteq Key
  /\ faults \in 0 .. MaxFaults
  /\ \A q \in Requests : stage[q] # "idle" => job[q] \in Jobs
  /\ \A o \in ops : stage[o.req] # "idle"
  /\ \A e \in erased : stage[e[2]] # "idle"
  /\ \A q \in Requests : stage[q] = "accessed" => job[q].op # "deleteSection"
  /\ \A q \in Requests : stage[q] = "unlinking" => ~IsUpload(job[q])
  /\ \A q \in Requests : stage[q] = "compensating" => IsUpload(job[q])
  /\ \A q \in Requests : stage[q] \in {"unlinking", "accessed"} /\ ~IsUpload(job[q])
                         => snap[q][job[q].sec] # Absent

Init ==
  /\ doc \in StartDocs /\ disk = Refs(doc) /\ ops = {}
  /\ stage = [q \in Requests |-> "idle"]
  /\ job = [q \in Requests |-> NoJob]
  /\ snap = [q \in Requests |-> [s \in Sections |-> Absent]]
  /\ events = {} /\ erased = {} /\ cut = {} /\ faults = 0

-----------------------------------------------------------------------------
Keys(j) == {k \in Key : k[1] = j.sec /\ k[2] \in j.files}
Issue(kind, keys, q) == {[kind |-> kind, key |-> k, req |-> q] : k \in keys}
Event(kind, q) == [kind |-> kind, req |-> q]

Moves(q, s) == stage' = [stage EXCEPT ![q] = s]
Keeps(q) == snap' = [snap EXCEPT ![q] = doc]
Fault == faults < MaxFaults /\ faults' = faults + 1

(* accessResourceModifySection and, for a deletion, the look for the file  *)
(* (deleteSection and deleteDocument trip over a section that is missing)  *)
Present(j) ==
  /\ j.how = "create" <=> doc[j.sec] = Absent
  /\ j.op = "deleteDocument" => j.sec \in Multiple /\ Keys(j) \subseteq Refs(doc)

Receive(q, j) ==
  /\ stage[q] = "idle"
  /\ Moves(q, "received")
  /\ job' = [job EXCEPT ![q] = j]
  /\ UNCHANGED <<doc, store, snap, events, faults>>

Refuse(q) ==
  /\ stage[q] = "received"
  /\ ~job[q].admitted \/ ~Present(job[q])
  /\ Moves(q, "failed")
  /\ UNCHANGED <<doc, store, job, snap, events, faults>>

Accepts(q, op) ==
  /\ stage[q] = "received" /\ job[q].op = op
  /\ job[q].admitted /\ Present(job[q])

-----------------------------------------------------------------------------
(* The copy is read, storage is told to write every file, and in the same  *)
(* go of the event loop the document to be is validated.  When it is not   *)
(* valid the files are unlinked at once, whether or not they are written.  *)
Starts(q) ==
  /\ ops' = ops \cup Issue("put", Keys(job[q]), q)
                \cup IF job[q].ok THEN {} ELSE Issue("unlink", Keys(job[q]), q)
  /\ Moves(q, IF job[q].ok THEN "accessed" ELSE "compensating")
  /\ Keeps(q)
  /\ events' = events \cup {Event("FileUploadedEvent", q)}
  /\ UNCHANGED <<doc, disk, job, erased, cut, faults>>

UploadFile(q) == Accepts(q, "uploadFile") /\ Starts(q)

UploadFiles(q) ==
  /\ Accepts(q, "uploadFiles") /\ job[q].how = "create"
  /\ Starts(q)

(* An update with several files asks storage for each of them and takes    *)
(* the promise for the answer: it is always refused, and the questions     *)
(* stay open                                                               *)
ReplaceFiles(q) ==
  /\ Accepts(q, "uploadFiles") /\ job[q].how = "update"
  /\ ops' = ops \cup Issue("probe", Keys(job[q]), q)
  /\ Moves(q, "failed") /\ Keeps(q)
  /\ UNCHANGED <<doc, disk, job, events, erased, cut, faults>>

DeleteDocument(q) ==
  /\ Accepts(q, "deleteDocument")
  /\ IF job[q].sec \in Versioned
     THEN UNCHANGED ops /\ Moves(q, IF job[q].ok THEN "accessed" ELSE "failed")
     ELSE ops' = ops \cup Issue("unlink", Keys(job[q]), q) /\ Moves(q, "unlinking")
  /\ Keeps(q)
  /\ UNCHANGED <<doc, disk, job, events, erased, cut, faults>>

(* A faulty variant of DeleteSection: it unlinks versioned files too       *)
DeleteSectionAll(q) ==
  /\ Accepts(q, "deleteSection")
  /\ LET mine == {k \in Refs(doc) : k[1] = job[q].sec} IN
       ops' = ops \cup Issue("unlink", mine, q)
  /\ Moves(q, "failed") /\ Keeps(q)
  /\ UNCHANGED <<doc, disk, job, events, erased, cut, faults>>

(* deleteSection unlinks the files, waiting for the one of a `document`    *)
(* section and not for those of a `documents` section; then it validates   *)
(* null, which throws                                                      *)
DeleteSection(q) ==
  /\ Accepts(q, "deleteSection")
  /\ LET mine == {k \in Refs(doc) : k[1] = job[q].sec}
         unlinks == IF job[q].sec \in Versioned THEN {} ELSE Issue("unlink", mine, q)
     IN /\ ops' = ops \cup unlinks
        /\ Moves(q, IF unlinks = {} \/ job[q].sec \in Multiple
                    THEN "failed" ELSE "unlinking")
  /\ Keeps(q)
  /\ UNCHANGED <<doc, disk, job, events, erased, cut, faults>>

-----------------------------------------------------------------------------
(* The catch of an upload: its files are unlinked before the error goes on *)
Fails(q) ==
  IF IsUpload(job[q])
  THEN ops' = ops \cup Issue("unlink", Keys(job[q]), q) /\ Moves(q, "compensating")
  ELSE UNCHANGED ops /\ Moves(q, "failed")

(* $set of the whole copy with the section in it                           *)
Written(q) ==
  [s \in Sections |->
     IF s # job[q].sec THEN IF snap[q][s] = Absent THEN doc[s] ELSE snap[q][s]
     ELSE IF IsUpload(job[q]) THEN job[q].files ELSE snap[q][s] \ job[q].files]

Write(q) ==
  /\ stage[q] = "accessed"
  /\ doc' = Written(q)
  /\ Moves(q, "written")
  /\ UNCHANGED <<store, job, snap, events, faults>>

(* The database reports an error; it may have carried out the write        *)
DbError(q) ==
  /\ Fault
  /\ \/ stage[q] = "received" /\ Moves(q, "failed") /\ UNCHANGED <<doc, ops>>
     \/ stage[q] = "accessed" /\ Fails(q) /\ doc' \in {doc, Written(q)}
  /\ UNCHANGED <<disk, job, snap, events, erased, cut>>

(* notify(resource.id.toString()) throws for a document without an `id`,   *)
(* inside the `try` of an upload                                           *)
Finish(q) ==
  /\ stage[q] = "written"
  /\ events' = events \cup {Event("ResourceUpdatedEvent", q)}
  /\ IF IdField THEN UNCHANGED ops /\ Moves(q, "done") ELSE Fails(q)
  /\ UNCHANGED <<doc, disk, job, snap, erased, cut, faults>>

-----------------------------------------------------------------------------
(* The instance dies: what it had under way is not carried out any more    *)
Dies ==
  /\ stage' = [q \in Requests |-> IF stage[q] \in Open THEN "lost" ELSE stage[q]]
  /\ cut' = cut \cup {o.key : o \in {p \in ops : p.kind = "put"}}
  /\ ops' = {}
  /\ UNCHANGED <<doc, disk, job, snap, events, erased>>

Crash == Fault /\ (ops # {} \/ \E q \in Requests : stage[q] \in Open) /\ Dies

PutEnds(o) ==
  /\ o.kind = "put"
  /\ disk' = disk \cup {o.key} /\ ops' = ops \ {o}
  /\ erased' = {e \in erased : e[1] # o.key} /\ cut' = cut \ {o.key}
  /\ UNCHANGED <<doc, stage, job, snap, events, faults>>

(* A faulty variant of PutFails: the rejection is caught and forgotten     *)
PutFailsQuietly(o) ==
  /\ o.kind = "put" /\ Fault
  /\ ops' = ops \ {o}
  /\ UNCHANGED <<doc, disk, stage, job, snap, events, erased, cut>>

(* Nobody handles the rejection of a write: it ends the process            *)
PutFails(o) == o.kind = "put" /\ Fault /\ Dies

(* Nor the one of a `get` of a file that is not there or, on S3, the error  *)
(* of the stream it returns, which nobody listens to                       *)
ProbeEnds(o) ==
  /\ o.kind = "probe"
  /\ IF o.key \in disk
     THEN ops' = ops \ {o} /\ UNCHANGED <<doc, disk, stage, job, snap, events, erased, cut>>
     ELSE Dies
  /\ UNCHANGED faults

(* A faulty variant of AfterUnlink: deleteSection goes on as well          *)
AfterUnlinkAny(o) ==
  CASE stage[o.req] = "unlinking" -> IF job[o.req].ok THEN "accessed" ELSE "failed"
    [] stage[o.req] = "compensating" -> "failed"
    [] OTHER -> stage[o.req]

(* What its request does when an unlink has succeeded: another file may be *)
(* awaited, deleteDocument goes on, everything else throws                 *)
AfterUnlink(o) ==
  LET q == o.req IN
  CASE stage[q] = "unlinking" /\ job[q].op = "deleteDocument" /\ job[q].ok -> "accessed"
    [] stage[q] = "unlinking" /\ ~(job[q].op = "deleteDocument" /\ job[q].ok) -> "failed"
    [] stage[q] = "compensating" /\ \A p \in ops \ {o} :
                                      ~(p.kind = "unlink" /\ p.req = q) -> "failed"
    [] OTHER -> stage[q]

UnlinkEnds(o) ==
  /\ o.kind = "unlink" /\ (o.key \in disk \/ ~Local)
  /\ disk' = disk \ {o.key} /\ ops' = ops \ {o}
  /\ erased' = IF o.key \in disk THEN erased \cup {<<o.key, o.req>>} ELSE erased
  /\ Moves(o.req, AfterUnlink(o))
  /\ UNCHANGED <<doc, job, snap, events, cut, faults>>

(* An unlink has failed: its request fails, unless nobody waits for it.    *)
(* The unlinks of a `documents` section have no handler.                   *)
UnlinkRejects(o) ==
  IF job[o.req].op = "deleteSection" /\ job[o.req].sec \in Multiple
  THEN Dies
  ELSE /\ ops' = ops \ {o}
       /\ Moves(o.req, IF stage[o.req] \in {"unlinking", "compensating"}
                       THEN "failed" ELSE stage[o.req])
       /\ UNCHANGED <<doc, disk, job, snap, events, erased, cut>>

(* A faulty variant of UnlinkMisses: the missing file is waited for        *)
UnlinkWaits(o) ==
  /\ o.kind = "unlink" /\ Local /\ o.key \notin disk
  /\ stage[o.req] # "compensating"
  /\ UnlinkRejects(o) /\ UNCHANGED faults

(* ENOENT; S3 deletes what is not there without complaint                  *)
UnlinkMisses(o) ==
  /\ o.kind = "unlink" /\ Local /\ o.key \notin disk
  /\ UnlinkRejects(o) /\ UNCHANGED faults

UnlinkFails(o) == o.kind = "unlink" /\ Fault /\ UnlinkRejects(o)

-----------------------------------------------------------------------------
Step(q) == \/ Refuse(q) \/ UploadFile(q) \/ UploadFiles(q) \/ ReplaceFiles(q)
           \/ DeleteDocument(q) \/ DeleteSection(q) \/ Write(q) \/ Finish(q)

Settle(q) == \E o \in ops : /\ o.req = q
                            /\ PutEnds(o) \/ ProbeEnds(o) \/ UnlinkEnds(o) \/ UnlinkMisses(o)

Next == \/ \E q \in Requests : (\E j \in Jobs : Receive(q, j)) \/ Step(q) \/ Settle(q)
                               \/ DbError(q)
        \/ \E o \in ops : PutFails(o) \/ UnlinkFails(o)
        \/ Crash

(* The event loop runs every continuation and the operating system ends    *)
(* every file operation; faults may never happen.                          *)
Fairness == \A q \in Requests : WF_vars(Step(q)) /\ WF_vars(Settle(q))

Spec == Init /\ [][Next]_vars /\ Fairness
-----------------------------------------------------------------------------
Pending(k) == \E o \in ops : o.kind = "put" /\ o.key = k
Erased(k) == \E q \in Requests : <<k, q>> \in erased
Accounted(k) == k \in disk \/ Pending(k) \/ k \in cut \/ Erased(k)

(* A file the document refers to is stored, or is being written, or was    *)
(* being written when the instance died, or was stored and unlinked since; *)
(* and so are the files of every copy and every upload about to be written *)
(* to the document (resource.service.ts:443 starts the write before :484   *)
(* stores the reference).                                                  *)
FilesAccounted ==
  /\ \A k \in Refs(doc) : Accounted(k)
  /\ \A q \in Requests : stage[q] \in {"unlinking", "accessed"} =>
       \A k \in Refs(snap[q]) : Accounted(k)
  /\ \A q \in Requests : stage[q] = "accessed" /\ IsUpload(job[q]) =>
       \A k \in Keys(job[q]) : Accounted(k)

(* Whoever unlinks a file may do so: an upload only the files it brought,  *)
(* and then it is not answered with success; a deletion only files of its  *)
(* own section, and none of a versioned one (resource.service.ts:487, :567,*)
(* :614, :627, :631).                                                      *)
MayErase(q, k) ==
  IF IsUpload(job[q])
  THEN k \in Keys(job[q]) /\ stage[q] \in {"compensating", "failed", "lost"}
  ELSE k[1] = job[q].sec /\ k[1] \notin Versioned
ErasuresJustified ==
  /\ \A e \in erased : MayErase(e[2], e[1])
  /\ \A o \in ops : o.kind = "unlink" => MayErase(o.req, o.key)

(* Every request is answered, whatever becomes of its files, or its        *)
(* instance is gone.                                                       *)
UploadsEnd == \A q \in Requests : stage[q] \in Open ~> stage[q] \in Ended

-----------------------------------------------------------------------------
(* resource.service.ts:428, "we use hash256 as id to avoid collisions": no *)
(* failing upload takes away a file the document refers to.                *)
CollisionsAvoided ==
  \A e \in erased : IsUpload(job[e[2]]) => e[1] \notin Refs(doc)
=============================================================================
