--------------------------- MODULE UploadsProofs ---------------------------
(***************************************************************************)
(* The invariants of Uploads, for every set of sections, contents,         *)
(* requests and jobs, either provider, and any number of faults.           *)
(*                                                                         *)
(* FilesAccounted is about the document, but a request writes back what it *)
(* read earlier: the copies and the uploads under way are part of it for   *)
(* that reason.  What makes it inductive is that Accounted, once true of a *)
(* key, stays true.                                                        *)
(***************************************************************************)
EXTENDS Uploads, TLAPS

UInv == TypeOK /\ FilesAccounted /\ ErasuresJustified

Failing == {"compensating", "failed", "lost"}
Copying == {"unlinking", "accessed"}

LEMMA JobFields ==
  ASSUME NEW j \in Jobs
  PROVE  /\ j.op \in {"uploadFile", "uploadFiles", "deleteDocument", "deleteSection"}
         /\ IsUpload(j) <=> j.op \in {"uploadFile", "uploadFiles"}
         /\ j.sec \in Sections /\ j.files \in SUBSET Contents
         /\ j.ok \in BOOLEAN /\ Keys(j) \subseteq Key
         /\ \A k \in Keys(j) : k[1] = j.sec
         /\ ~IsUpload(j) => j.how = "delete"
BY UploadsAssumption DEF Job, UploadJob, DeleteJob, IsUpload, Keys

LEMMA IssueType ==
  ASSUME NEW kind \in {"put", "unlink", "probe"}, NEW K \in SUBSET Key,
         NEW q \in Requests
  PROVE  /\ Issue(kind, K, q) \subseteq Op
         /\ \A o \in Issue(kind, K, q) : o.kind = kind /\ o.key \in K /\ o.req = q
         /\ \A k \in K : \E o \in Issue(kind, K, q) : o.kind = kind /\ o.key = k
<1> DEFINE new(k) == [kind |-> kind, key |-> k, req |-> q]
<1>1. \A o \in Issue(kind, K, q) : \E k \in K : o = new(k)
  BY DEF Issue
<1>2. \A k \in K : new(k) \in Issue(kind, K, q)
  BY DEF Issue
<1>3. \A k \in K : /\ new(k).kind = kind /\ new(k).key = k /\ new(k).req = q
                  /\ new(k) \in Op
  BY DEF Op
<1> HIDE DEF new
<1>4. Issue(kind, K, q) \subseteq Op
  BY <1>1, <1>3
<1>5. \A o \in Issue(kind, K, q) : o.kind = kind /\ o.key \in K /\ o.req = q
  BY <1>1, <1>3
<1>6. \A k \in K : \E o \in Issue(kind, K, q) : o.kind = kind /\ o.key = k
  BY <1>2, <1>3
<1> QED
  BY <1>4, <1>5, <1>6

LEMMA InitU == Init => UInv
<1> SUFFICES ASSUME Init
             PROVE  UInv
  OBVIOUS
<1>1. TypeOK
  <2>1. Refs(doc) \subseteq Key
    BY DEF Refs
  <2> QED
    BY <2>1, UploadsAssumption DEF Init, TypeOK, Doc
<1>2. FilesAccounted
  BY DEF Init, FilesAccounted, Accounted
<1>3. ErasuresJustified
  BY DEF Init, ErasuresJustified
<1> QED
  BY <1>1, <1>2, <1>3 DEF UInv

-----------------------------------------------------------------------------
(* A step keeps FilesAccounted when no key loses its account and whatever  *)
(* becomes part of the document, a copy or an upload has one.              *)
LEMMA AccountedFrame ==
  ASSUME UInv,
         \A k \in Key : Accounted(k) => Accounted(k)',
         \A k \in Refs(doc') : Accounted(k),
         \A q \in Requests : stage'[q] \in Copying =>
           snap'[q] = doc \/ (snap'[q] = snap[q] /\ stage[q] \in Copying),
         \A q \in Requests : stage'[q] = "accessed" /\ IsUpload(job'[q]) =>
           \/ stage[q] = "accessed" /\ job'[q] = job[q]
           \/ \A k \in Keys(job'[q]) : Accounted(k)'
  PROVE  FilesAccounted'
<1>1. \A d : Refs(d) \subseteq Key
  BY DEF Refs
<1>2. \A j : Keys(j) \subseteq Key
  BY DEF Keys
<1>3. \A k \in Refs(doc') : Accounted(k)'
  BY <1>1
<1>4. ASSUME NEW q \in Requests, stage'[q] \in Copying, NEW k \in Refs(snap'[q])
      PROVE  Accounted(k)'
  BY <1>1, <1>4 DEF UInv, FilesAccounted, Copying
<1>5. ASSUME NEW q \in Requests, stage'[q] = "accessed", IsUpload(job'[q]),
             NEW k \in Keys(job'[q])
      PROVE  Accounted(k)'
  BY <1>2, <1>5 DEF UInv, FilesAccounted
<1> QED
  BY <1>3, <1>4, <1>5 DEF FilesAccounted, Copying

(* ErasuresJustified is kept when a failing request stays one, nobody's    *)
(* job changes, and new unlinks are justified.                             *)
LEMMA JustifiedFrame ==
  ASSUME UInv,
         \A q \in Requests : stage[q] # "idle" => job'[q] = job[q],
         \A q \in Requests : stage[q] \in Failing => stage'[q] \in Failing,
         \A e \in erased' : e \in erased \/ \E o \in ops : o.kind = "unlink" /\ e = <<o.key, o.req>>,
         \A o \in ops' : o.kind = "unlink" => o \in ops \/ MayErase(o.req, o.key)'
  PROVE  ErasuresJustified'
<1>1. ASSUME NEW q \in Requests, NEW k, stage[q] # "idle", MayErase(q, k)
      PROVE  MayErase(q, k)'
  BY <1>1 DEF MayErase, Failing
<1>2. \A o \in ops : o.kind = "unlink" => MayErase(o.req, o.key)'
  BY <1>1 DEF UInv, TypeOK, Op, ErasuresJustified
<1>3. \A e \in erased : MayErase(e[2], e[1])'
  BY <1>1 DEF UInv, TypeOK, ErasuresJustified
<1> QED
  BY <1>2, <1>3 DEF ErasuresJustified

(* Nothing loses its account while storage only gains.                     *)
LEMMA AccountedGrows ==
  ASSUME disk' = disk, erased' = erased, cut' = cut,
         \A o \in ops : o.kind = "put" => o \in ops'
  PROVE  \A k \in Key : Accounted(k) => Accounted(k)'
BY DEF Accounted, Pending, Erased

-----------------------------------------------------------------------------
LEMMA DiesKeepsInv ==
  ASSUME UInv, Dies, faults' \in 0 .. MaxFaults
  PROVE  UInv'
<1> USE DEF UInv, Dies
<1>1. \A q \in Requests : /\ stage'[q] = IF stage[q] \in Open THEN "lost" ELSE stage[q]
                          /\ stage'[q] \notin Open
  BY DEF TypeOK, Open, Ended
<1>2. TypeOK'
  <2>1. stage' \in [Requests -> {"idle"} \cup Open \cup Ended]
    BY DEF TypeOK, Ended
  <2>2. cut' \subseteq Key
    BY DEF TypeOK, Op
  <2>3. \A q \in Requests : stage'[q] \notin {"accessed", "unlinking", "compensating"}
    BY <1>1 DEF Open
  <2>4. \A q \in Requests : stage'[q] = "idle" <=> stage[q] = "idle"
    BY <1>1 DEF Open
  <2> QED
    BY <2>1, <2>2, <2>3, <2>4 DEF TypeOK
<1>3. FilesAccounted'
  <2>1. \A k \in Key : Accounted(k) => Accounted(k)'
    BY DEF Accounted, Pending, Erased
  <2>2. \A k \in Refs(doc') : Accounted(k)
    BY DEF FilesAccounted
  <2> QED
    BY <1>1, <2>1, <2>2, AccountedFrame DEF Open, Copying
<1>4. ErasuresJustified'
  BY <1>1, JustifiedFrame DEF Open, Failing
<1> QED
  BY <1>2, <1>3, <1>4

LEMMA PutEndsKeepsInv ==
  ASSUME UInv, NEW o \in ops, PutEnds(o)
  PROVE  UInv'
<1> USE DEF UInv, PutEnds
<1>1. TypeOK'
  BY DEF TypeOK, Op
<1>2. FilesAccounted'
  <2>1. \A k \in Key : Accounted(k) => Accounted(k)'
    BY DEF Accounted, Pending, Erased
  <2>2. \A k \in Refs(doc') : Accounted(k)
    BY DEF FilesAccounted
  <2> QED
    BY <2>1, <2>2, AccountedFrame DEF Copying
<1>3. ErasuresJustified'
  BY JustifiedFrame DEF Failing
<1> QED
  BY <1>1, <1>2, <1>3

(* The stages a request can get to when an unlink of its ends              *)
LEMMA AfterUnlinkStages ==
  ASSUME TypeOK, NEW o \in ops, o.kind = "unlink"
  PROVE  /\ o.req \in Requests /\ o.key \in Key
         /\ stage[o.req] # "idle"
         /\ AfterUnlink(o) \in {"accessed", "failed", stage[o.req]}
         /\ AfterUnlink(o) = "accessed" /\ stage[o.req] # "accessed" =>
              stage[o.req] = "unlinking" /\ job[o.req].op = "deleteDocument"
         /\ AfterUnlink(o) = "failed" /\ stage[o.req] # "failed" =>
              stage[o.req] \in {"unlinking", "compensating"}
<1>1. o.req \in Requests /\ o.key \in Key /\ stage[o.req] # "idle"
  BY DEF TypeOK, Op
<1> QED
  BY <1>1 DEF AfterUnlink

LEMMA UnlinkEndsKeepsInv ==
  ASSUME UInv, NEW o \in ops, UnlinkEnds(o)
  PROVE  UInv'
<1> USE DEF UInv, UnlinkEnds
<1> DEFINE q == o.req
<1>1. /\ q \in Requests /\ o.key \in Key /\ stage[q] # "idle"
      /\ AfterUnlink(o) \in {"accessed", "failed", stage[q]}
      /\ AfterUnlink(o) = "accessed" /\ stage[q] # "accessed" =>
           stage[q] = "unlinking" /\ job[q].op = "deleteDocument"
      /\ AfterUnlink(o) = "failed" /\ stage[q] # "failed" =>
           stage[q] \in {"unlinking", "compensating"}
  BY AfterUnlinkStages
<1>2. /\ stage'[q] = AfterUnlink(o)
      /\ \A p \in Requests \ {q} : stage'[p] = stage[p]
  BY <1>1 DEF Moves, TypeOK
<1>3. TypeOK'
  <2>1. stage' \in [Requests -> {"idle"} \cup Open \cup Ended]
    BY <1>1 DEF Moves, TypeOK, Open, Ended
  <2>2. erased' \subseteq Key \X Requests /\ disk' \subseteq Key /\ ops' \subseteq Op
    BY <1>1 DEF TypeOK
  <2>3. \A p \in Requests : stage'[p] = "idle" <=> stage[p] = "idle"
    BY <1>1, <1>2
  <2>4. /\ \A p \in ops' : stage'[p.req] # "idle"
        /\ \A e \in erased' : stage'[e[2]] # "idle"
    BY <1>1, <2>3 DEF TypeOK, Op
  <2>5. \A p \in Requests : /\ stage'[p] = "accessed" => job'[p].op # "deleteSection"
                            /\ stage'[p] = "unlinking" => ~IsUpload(job'[p])
                            /\ stage'[p] = "compensating" => IsUpload(job'[p])
    BY <1>1, <1>2 DEF TypeOK
  <2>6. \A p \in Requests : stage'[p] \in {"unlinking", "accessed"} /\ ~IsUpload(job'[p])
                           => snap'[p][job'[p].sec] # Absent
    BY <1>1, <1>2 DEF TypeOK
  <2> QED
    BY <2>1, <2>2, <2>3, <2>4, <2>5, <2>6 DEF TypeOK
<1>4. FilesAccounted'
  <2>1. \A k \in Key : Accounted(k) => Accounted(k)'
    BY <1>1 DEF Accounted, Pending, Erased
  <2>2. \A k \in Refs(doc') : Accounted(k)
    BY DEF FilesAccounted
  <2>3. \A p \in Requests : stage'[p] \in Copying => stage[p] \in Copying
    BY <1>1, <1>2 DEF Copying
  <2>4. \A p \in Requests : stage'[p] = "accessed" /\ IsUpload(job'[p]) => stage[p] = "accessed"
    BY <1>1, <1>2 DEF IsUpload
  <2> QED
    BY <2>1, <2>2, <2>3, <2>4, AccountedFrame
<1>5. ErasuresJustified'
  <2>1. \A p \in Requests : stage[p] \in Failing => stage'[p] \in Failing
    BY <1>1, <1>2 DEF Failing
  <2> QED
    BY <2>1, JustifiedFrame
<1> QED
  BY <1>3, <1>4, <1>5

LEMMA UnlinkRejectsKeepsInv ==
  ASSUME UInv, NEW o \in ops, o.kind = "unlink", UnlinkRejects(o),
         faults' \in 0 .. MaxFaults
  PROVE  UInv'
<1> USE DEF UInv
<1>1. CASE Dies
  BY <1>1, DiesKeepsInv
<1>2. CASE ~Dies
  <2> DEFINE q == o.req
  <2>1. q \in Requests /\ stage[q] # "idle"
    BY DEF TypeOK, Op
  <2>2. /\ ops' = ops \ {o}
        /\ Moves(q, IF stage[q] \in {"unlinking", "compensating"} THEN "failed" ELSE stage[q])
        /\ UNCHANGED <<doc, disk, job, snap, events, erased, cut>>
    BY <1>2 DEF UnlinkRejects
  <2>3. /\ stage'[q] \in {"failed", stage[q]}
        /\ stage'[q] # stage[q] => stage[q] \in {"unlinking", "compensating"}
        /\ \A p \in Requests \ {q} : stage'[p] = stage[p]
        /\ stage' \in [Requests -> {"idle"} \cup Open \cup Ended]
    BY <2>1, <2>2 DEF Moves, TypeOK, Ended
  <2>4. TypeOK'
    <3>1. \A p \in Requests : stage'[p] = "idle" <=> stage[p] = "idle"
      BY <2>1, <2>3
    <3>2. \A p \in ops' : stage'[p.req] # "idle"
      BY <2>2, <3>1 DEF TypeOK, Op
    <3>3. \A e \in erased' : stage'[e[2]] # "idle"
      BY <2>2, <3>1 DEF TypeOK
    <3> QED
      BY <2>2, <2>3, <3>1, <3>2, <3>3 DEF TypeOK
  <2>5. FilesAccounted'
    <3>1. \A k \in Key : Accounted(k) => Accounted(k)'
      BY <2>2, AccountedGrows
    <3>2. \A k \in Refs(doc') : Accounted(k)
      BY <2>2 DEF FilesAccounted
    <3> QED
      BY <2>2, <2>3, <3>1, <3>2, AccountedFrame DEF Copying
  <2>6. ErasuresJustified'
    BY <2>2, <2>3, JustifiedFrame DEF Failing
  <2> QED
    BY <2>4, <2>5, <2>6
<1> QED
  BY <1>1, <1>2

-----------------------------------------------------------------------------
(* A step of one request that only adds storage operations of its own      *)
LEMMA RequestStep ==
  ASSUME UInv, NEW q \in Requests, NEW s \in Open \cup Ended,
         stage[q] \in {"received", "accessed", "written"}, Moves(q, s),
         UNCHANGED <<disk, job, erased, cut>>,
         s = "accessed" => job[q].op # "deleteSection",
         s = "unlinking" => ~IsUpload(job[q]),
         s = "compensating" => IsUpload(job[q]),
         doc' \in Doc, \A k \in Refs(doc') : Accounted(k),
         Keeps(q) \/ (snap' = snap /\ s \notin Copying),
         s \in Copying /\ ~IsUpload(job[q]) => doc[job[q].sec] # Absent,
         NEW new \in SUBSET Op, ops' = ops \cup new,
         \A o \in new : o.req = q,
         \A o \in new : o.kind = "unlink" =>
           IF IsUpload(job[q])
           THEN o.key \in Keys(job[q]) /\ s = "compensating"
           ELSE o.key[1] = job[q].sec /\ o.key[1] \notin Versioned,
         s = "accessed" /\ IsUpload(job[q]) =>
           \A k \in Keys(job[q]) : \E o \in new : o.kind = "put" /\ o.key = k,
         events' \subseteq [kind : EventKinds, req : Requests],
         faults' \in 0 .. MaxFaults
  PROVE  UInv'
<1> USE DEF UInv
<1>1. /\ stage' \in [Requests -> {"idle"} \cup Open \cup Ended]
      /\ stage'[q] = s /\ \A p \in Requests \ {q} : stage'[p] = stage[p]
      /\ s # "idle" /\ stage[q] # "idle"
  BY DEF Moves, TypeOK, Open, Ended
<1>2. TypeOK'
  <2>1. snap' \in [Requests -> Doc]
    BY DEF TypeOK, Keeps
  <2>2. ops' \subseteq Op /\ \A o \in ops' : stage'[o.req] # "idle"
    BY <1>1 DEF TypeOK, Op
  <2>3. \A e \in erased' : stage'[e[2]] # "idle"
    BY <1>1 DEF TypeOK
  <2>4. \A p \in Requests : stage'[p] # "idle" => job'[p] \in Jobs
    BY <1>1 DEF TypeOK
  <2>5. \A p \in Requests : stage'[p] = "accessed" => job'[p].op # "deleteSection"
    BY <1>1 DEF TypeOK
  <2>6. \A p \in Requests : stage'[p] = "unlinking" => ~IsUpload(job'[p])
    BY <1>1 DEF TypeOK
  <2>7. \A p \in Requests : stage'[p] = "compensating" => IsUpload(job'[p])
    BY <1>1 DEF TypeOK
  <2>8. \A p \in Requests : stage'[p] \in Copying /\ ~IsUpload(job'[p])
                           => snap'[p][job'[p].sec] # Absent
    BY <1>1 DEF TypeOK, Keeps, Copying
  <2> QED
    BY <1>1, <2>1, <2>2, <2>3, <2>4, <2>5, <2>6, <2>7, <2>8 DEF TypeOK, Copying
<1>3. FilesAccounted'
  <2>1. \A k \in Key : Accounted(k) => Accounted(k)'
    BY AccountedGrows
  <2>2. \A p \in Requests : stage'[p] \in Copying =>
          snap'[p] = doc \/ (snap'[p] = snap[p] /\ stage[p] \in Copying)
    BY <1>1 DEF Keeps, TypeOK
  <2>3. ASSUME s = "accessed", IsUpload(job[q])
        PROVE  \A k \in Keys(job'[q]) : Accounted(k)'
    BY <2>3 DEF Accounted, Pending
  <2>4. \A p \in Requests : stage'[p] = "accessed" /\ IsUpload(job'[p]) =>
          \/ stage[p] = "accessed" /\ job'[p] = job[p]
          \/ \A k \in Keys(job'[p]) : Accounted(k)'
    BY <1>1, <2>3
  <2> QED
    BY <2>1, <2>2, <2>4, AccountedFrame
<1>4. ErasuresJustified'
  <2>1. \A p \in Requests : stage[p] \in Failing => stage'[p] \in Failing
    BY <1>1 DEF Failing
  <2>2. \A o \in ops' : o.kind = "unlink" => o \in ops \/ MayErase(o.req, o.key)'
    BY <1>1 DEF MayErase
  <2> QED
    BY <2>1, <2>2, JustifiedFrame
<1> QED
  BY <1>2, <1>3, <1>4

LEMMA ReceiveKeepsInv ==
  ASSUME UInv, NEW q \in Requests, NEW j \in Jobs, Receive(q, j)
  PROVE  UInv'
<1> USE DEF UInv, Receive, store
<1>1. /\ stage' \in [Requests -> {"idle"} \cup Open \cup Ended]
      /\ job' \in [Requests -> Jobs \cup {NoJob}]
      /\ stage'[q] = "received" /\ job'[q] = j
      /\ \A p \in Requests \ {q} : stage'[p] = stage[p] /\ job'[p] = job[p]
  BY DEF Moves, TypeOK, Open
<1>2. TypeOK'
  <2>1. /\ \A o \in ops' : stage'[o.req] # "idle"
        /\ \A e \in erased' : stage'[e[2]] # "idle"
    BY <1>1 DEF TypeOK, Op
  <2>2. \A p \in Requests : stage'[p] # "idle" => job'[p] \in Jobs
    BY <1>1 DEF TypeOK
  <2>3. \A p \in Requests : stage'[p] = "accessed" => job'[p].op # "deleteSection"
    BY <1>1 DEF TypeOK
  <2>4. \A p \in Requests : stage'[p] = "unlinking" => ~IsUpload(job'[p])
    BY <1>1 DEF TypeOK
  <2>5. \A p \in Requests : stage'[p] = "compensating" => IsUpload(job'[p])
    BY <1>1 DEF TypeOK
  <2>6. \A p \in Requests : stage'[p] \in {"unlinking", "accessed"} /\ ~IsUpload(job'[p])
                           => snap'[p][job'[p].sec] # Absent
    BY <1>1 DEF TypeOK
  <2> QED
    BY <1>1, <2>1, <2>2, <2>3, <2>4, <2>5, <2>6 DEF TypeOK
<1>3. FilesAccounted'
  <2>1. \A k \in Key : Accounted(k) => Accounted(k)'
    BY AccountedGrows
  <2>2. \A k \in Refs(doc') : Accounted(k)
    BY DEF FilesAccounted
  <2> QED
    BY <1>1, <2>1, <2>2, AccountedFrame DEF Copying
<1>4. ErasuresJustified'
  <2>1. \A p \in Requests : stage[p] \in Failing => stage'[p] \in Failing
    BY <1>1 DEF Failing
  <2>2. \A p \in Requests : stage[p] # "idle" => job'[p] = job[p]
    BY <1>1
  <2> QED
    BY <2>1, <2>2, JustifiedFrame
<1> QED
  BY <1>2, <1>3, <1>4

-----------------------------------------------------------------------------
(* What RequestStep asks of the parts no action of a request changes       *)
LEMMA Standing ==
  ASSUME UInv, NEW q \in Requests, stage[q] # "idle"
  PROVE  /\ job[q] \in Jobs /\ Keys(job[q]) \in SUBSET Key
         /\ doc \in Doc /\ Refs(doc) \in SUBSET Key
         /\ \A k \in Refs(doc) : Accounted(k)
         /\ events \subseteq [kind : EventKinds, req : Requests]
         /\ faults \in 0 .. MaxFaults
BY DEF UInv, TypeOK, FilesAccounted, Refs, Keys

LEMMA RefuseKeepsInv ==
  ASSUME UInv, NEW q \in Requests, Refuse(q)
  PROVE  UInv'
<1>1. /\ stage[q] = "received" /\ Moves(q, "failed")
      /\ UNCHANGED <<doc, disk, ops, erased, cut, job, snap, events, faults>>
  BY DEF Refuse, store
<1>2. PICK new \in SUBSET Op : new = {}
  OBVIOUS
<1>a. ops' = ops \cup new
  BY <1>1, <1>2
<1>3. PICK s \in Open \cup Ended : s = "failed"
  BY DEF Ended
<1>4. /\ \A k \in Refs(doc') : Accounted(k)
      /\ doc' \in Doc /\ faults' \in 0 .. MaxFaults
      /\ events' \subseteq [kind : EventKinds, req : Requests]
  BY <1>1, Standing
<1>5. snap' = snap /\ s \notin Copying /\ \A o \in new : FALSE
  BY <1>1, <1>2, <1>3 DEF Copying
<1> QED
  BY <1>1, <1>a, <1>3, <1>4, <1>5, RequestStep

LEMMA StartsKeepsInv ==
  ASSUME UInv, NEW q \in Requests, stage[q] = "received", IsUpload(job[q]), Starts(q)
  PROVE  UInv'
<1> DEFINE s == IF job[q].ok THEN "accessed" ELSE "compensating"
           K == Keys(job[q])
           new == Issue("put", K, q) \cup IF job[q].ok THEN {} ELSE Issue("unlink", K, q)
<1>1. /\ ops' = ops \cup new /\ Moves(q, s) /\ Keeps(q)
      /\ events' = events \cup {Event("FileUploadedEvent", q)}
      /\ UNCHANGED <<doc, disk, job, erased, cut, faults>>
  BY DEF Starts
<1>2. K \in SUBSET Key /\ events' \subseteq [kind : EventKinds, req : Requests]
  BY <1>1, Standing DEF Event, EventKinds
<1>3. /\ new \in SUBSET Op /\ \A o \in new : o.req = q
      /\ \A o \in new : o.kind = "unlink" => o.key \in K /\ s = "compensating"
      /\ \A k \in K : \E o \in new : o.kind = "put" /\ o.key = k
  BY <1>2, IssueType
<1>4. s \in Open \cup Ended /\ job[q].op # "deleteSection" /\ s # "unlinking"
  BY DEF Open, Ended, IsUpload
<1> HIDE DEF new, K, s
<1> QED
  BY <1>1, <1>2, <1>3, <1>4, Standing, RequestStep DEF K

LEMMA ReplaceFilesKeepsInv ==
  ASSUME UInv, NEW q \in Requests, ReplaceFiles(q)
  PROVE  UInv'
<1> DEFINE new == Issue("probe", Keys(job[q]), q)
<1>1. /\ stage[q] = "received" /\ ops' = ops \cup new /\ Moves(q, "failed") /\ Keeps(q)
      /\ UNCHANGED <<doc, disk, job, events, erased, cut, faults>>
  BY DEF ReplaceFiles, Accepts
<1>2. new \in SUBSET Op /\ \A o \in new : o.req = q /\ o.kind = "probe"
  BY <1>1, Standing, IssueType
<1>3. PICK s \in Open \cup Ended : s = "failed"
  BY DEF Ended
<1> HIDE DEF new
<1> QED
  BY <1>1, <1>2, <1>3, Standing, RequestStep DEF Copying

LEMMA DeleteDocumentKeepsInv ==
  ASSUME UInv, NEW q \in Requests, DeleteDocument(q)
  PROVE  UInv'
<1>1. /\ stage[q] = "received" /\ job[q].op = "deleteDocument" /\ Keeps(q)
      /\ UNCHANGED <<doc, disk, job, events, erased, cut, faults>>
      /\ ~IsUpload(job[q]) /\ job[q].op # "deleteSection" /\ Present(job[q])
  BY DEF DeleteDocument, Accepts, IsUpload
<1>a. doc[job[q].sec] # Absent
  BY <1>1, Standing, JobFields DEF Present
<1>2. CASE job[q].sec \in Versioned
  <2>1. {} \in SUBSET Op /\ ops' = ops \cup {}
    BY <1>2 DEF DeleteDocument
  <2>2. PICK s \in {"accessed", "failed"} : Moves(q, s)
    BY <1>2 DEF DeleteDocument
  <2> QED
    BY <1>1, <1>a, <2>1, <2>2, Standing, RequestStep DEF Open, Ended
<1>3. CASE job[q].sec \notin Versioned
  <2> DEFINE new == Issue("unlink", Keys(job[q]), q)
  <2>1. ops' = ops \cup new /\ Moves(q, "unlinking")
    BY <1>3 DEF DeleteDocument
  <2>2. /\ new \in SUBSET Op /\ \A o \in new : o.req = q
        /\ \A o \in new : o.key[1] = job[q].sec
    BY <1>1, Standing, IssueType DEF Keys
  <2> HIDE DEF new
  <2> QED
    BY <1>1, <1>a, <1>3, <2>1, <2>2, Standing, RequestStep DEF Open, Ended
<1> QED
  BY <1>2, <1>3

LEMMA DeleteSectionKeepsInv ==
  ASSUME UInv, NEW q \in Requests, DeleteSection(q)
  PROVE  UInv'
<1> DEFINE mine == {k \in Refs(doc) : k[1] = job[q].sec}
           new == IF job[q].sec \in Versioned THEN {} ELSE Issue("unlink", mine, q)
<1>1. /\ stage[q] = "received" /\ job[q].op = "deleteSection" /\ Keeps(q)
      /\ ops' = ops \cup new
      /\ UNCHANGED <<doc, disk, job, events, erased, cut, faults>>
      /\ ~IsUpload(job[q]) /\ Present(job[q])
  BY DEF DeleteSection, Accepts, IsUpload
<1>a. doc[job[q].sec] # Absent
  BY <1>1, Standing, JobFields DEF Present
<1>2. PICK s \in {"failed", "unlinking"} : Moves(q, s)
  BY DEF DeleteSection
<1>3. mine \in SUBSET Key
  BY DEF Refs
<1>4. /\ new \in SUBSET Op /\ \A o \in new : o.req = q
      /\ \A o \in new : o.key[1] = job[q].sec /\ o.key[1] \notin Versioned
  BY <1>3, IssueType
<1> HIDE DEF new, mine
<1> QED
  BY <1>1, <1>a, <1>2, <1>4, Standing, RequestStep DEF Open, Ended

(* The catch: a failure after the copy was read                            *)
LEMMA FailsKeepsInv ==
  ASSUME UInv, NEW q \in Requests, stage[q] \in {"accessed", "written"}, Fails(q),
         UNCHANGED <<disk, job, snap, erased, cut>>,
         doc' \in Doc, \A k \in Refs(doc') : Accounted(k),
         events' \subseteq [kind : EventKinds, req : Requests],
         faults' \in 0 .. MaxFaults
  PROVE  UInv'
<1>1. CASE IsUpload(job[q])
  <2> DEFINE new == Issue("unlink", Keys(job[q]), q)
  <2>1. ops' = ops \cup new /\ Moves(q, "compensating")
    BY <1>1 DEF Fails
  <2>2. new \in SUBSET Op /\ \A o \in new : o.req = q /\ o.key \in Keys(job[q])
    BY Standing, IssueType
  <2> HIDE DEF new
  <2> QED
    BY <1>1, <2>1, <2>2, RequestStep DEF Open, Ended, Copying
<1>2. CASE ~IsUpload(job[q])
  <2>1. ops' = ops \cup {} /\ {} \in SUBSET Op /\ Moves(q, "failed")
    BY <1>2 DEF Fails
  <2> QED
    BY <1>2, <2>1, RequestStep DEF Open, Ended, Copying
<1> QED
  BY <1>1, <1>2

LEMMA WrittenFacts ==
  ASSUME UInv, NEW q \in Requests, stage[q] = "accessed"
  PROVE  Written(q) \in Doc /\ \A k \in Refs(Written(q)) : Accounted(k)
<1>1. job[q] \in Jobs /\ snap[q] \in Doc /\ doc \in Doc /\ job[q].op # "deleteSection"
  BY DEF UInv, TypeOK
<1>2. job[q].sec \in Sections /\ job[q].files \in SUBSET Contents
  BY <1>1, JobFields
<1>3. Written(q) \in Doc
  <2>1. ASSUME NEW t \in Sections
        PROVE  Written(q)[t] \in {Absent} \cup SUBSET Contents
    BY <1>1, <1>2, <2>1 DEF Written, Doc, UInv, TypeOK
  <2> QED
    BY <2>1 DEF Written, Doc
<1>4. ASSUME NEW k \in Refs(Written(q))
      PROVE  Accounted(k)
  <2>1. PICK t \in Sections, c \in Contents : k = <<t, c>>
    BY DEF Refs, Key
  <2>2. k \in Key /\ Written(q)[t] # Absent /\ c \in Written(q)[t]
    BY <2>1 DEF Refs
  <2>3. CASE t = job[q].sec /\ IsUpload(job[q])
    <3>1. Written(q)[t] = job[q].files
      BY <2>3 DEF Written
    <3>2. k \in Keys(job[q])
      BY <2>1, <2>2, <2>3, <3>1 DEF Keys
    <3> QED
      BY <2>3, <3>2 DEF UInv, FilesAccounted
  <2>4. CASE t = job[q].sec /\ ~IsUpload(job[q])
    <3>1. snap[q][t] # Absent
      BY <2>4 DEF UInv, TypeOK
    <3>2. Written(q)[t] = snap[q][t] \ job[q].files
      BY <2>4 DEF Written
    <3>3. k \in Refs(snap[q])
      BY <2>1, <2>2, <3>1, <3>2 DEF Refs
    <3> QED
      BY <3>3 DEF UInv, FilesAccounted
  <2>5. CASE t # job[q].sec
    <3>1. Written(q)[t] = IF snap[q][t] = Absent THEN doc[t] ELSE snap[q][t]
      BY <2>5 DEF Written
    <3>2. k \in Refs(doc) \/ k \in Refs(snap[q])
      BY <2>1, <2>2, <3>1 DEF Refs
    <3> QED
      BY <3>2 DEF UInv, FilesAccounted
  <2> QED
    BY <2>3, <2>4, <2>5
<1> QED
  BY <1>3, <1>4

-----------------------------------------------------------------------------
LEMMA WriteKeepsInv ==
  ASSUME UInv, NEW q \in Requests, Write(q)
  PROVE  UInv'
<1>1. /\ stage[q] = "accessed" /\ Moves(q, "written") /\ doc' = Written(q)
      /\ UNCHANGED <<disk, ops, erased, cut, job, snap, events, faults>>
  BY DEF Write, store
<1>2. PICK new \in SUBSET Op : new = {}
  OBVIOUS
<1>3. ops' = ops \cup new /\ \A o \in new : FALSE
  BY <1>1, <1>2
<1>4. PICK s \in Open \cup Ended : s = "written"
  BY DEF Open
<1>5. doc' \in Doc /\ \A k \in Refs(doc') : Accounted(k)
  BY <1>1, WrittenFacts
<1>6. /\ faults' \in 0 .. MaxFaults
      /\ events' \subseteq [kind : EventKinds, req : Requests]
  BY <1>1, Standing
<1>7. snap' = snap /\ s \notin Copying /\ s # "compensating"
  BY <1>1, <1>4 DEF Copying
<1> QED
  BY <1>1, <1>3, <1>4, <1>5, <1>6, <1>7, RequestStep DEF Copying

LEMMA FaultBound ==
  ASSUME UInv, Fault
  PROVE  faults' \in 0 .. MaxFaults
BY UploadsAssumption DEF UInv, TypeOK, Fault

LEMMA DbErrorKeepsInv ==
  ASSUME UInv, NEW q \in Requests, DbError(q)
  PROVE  UInv'
<1>1. /\ faults' \in 0 .. MaxFaults
      /\ UNCHANGED <<disk, job, snap, events, erased, cut>>
  BY FaultBound DEF DbError
<1>2. CASE stage[q] = "received" /\ Moves(q, "failed") /\ UNCHANGED <<doc, ops>>
  <2>1. PICK new \in SUBSET Op : new = {}
    OBVIOUS
  <2>2. ops' = ops \cup new /\ \A o \in new : FALSE
    BY <1>2, <2>1
  <2>3. PICK s \in Open \cup Ended : s = "failed"
    BY DEF Ended
  <2>4. /\ doc' \in Doc /\ \A k \in Refs(doc') : Accounted(k)
        /\ events' \subseteq [kind : EventKinds, req : Requests]
    BY <1>1, <1>2, Standing
  <2>5. snap' = snap /\ s \notin Copying
    BY <1>1, <2>3 DEF Copying
  <2> QED
    BY <1>1, <1>2, <2>2, <2>3, <2>4, <2>5, RequestStep
<1>3. CASE stage[q] = "accessed" /\ Fails(q) /\ doc' \in {doc, Written(q)}
  <2>1. /\ doc' \in Doc /\ \A k \in Refs(doc') : Accounted(k)
        /\ events' \subseteq [kind : EventKinds, req : Requests]
    BY <1>1, <1>3, Standing, WrittenFacts
  <2> QED
    BY <1>1, <1>3, <2>1, FailsKeepsInv
<1> QED
  BY <1>2, <1>3 DEF DbError

LEMMA FinishKeepsInv ==
  ASSUME UInv, NEW q \in Requests, Finish(q)
  PROVE  UInv'
<1>1. /\ stage[q] = "written"
      /\ UNCHANGED <<doc, disk, job, snap, erased, cut, faults>>
  BY DEF Finish
<1>2. /\ doc' \in Doc /\ \A k \in Refs(doc') : Accounted(k)
      /\ faults' \in 0 .. MaxFaults
  BY <1>1, Standing
<1>3. events' \subseteq [kind : EventKinds, req : Requests]
  BY <1>1, Standing DEF Finish, Event, EventKinds
<1>4. CASE UNCHANGED ops /\ Moves(q, "done")
  <2>1. PICK new \in SUBSET Op : new = {}
    OBVIOUS
  <2>2. ops' = ops \cup new /\ \A o \in new : FALSE
    BY <1>4, <2>1
  <2>3. PICK s \in Open \cup Ended : s = "done"
    BY DEF Ended
  <2>4. snap' = snap /\ s \notin Copying
    BY <1>1, <2>3 DEF Copying
  <2> QED
    BY <1>1, <1>2, <1>3, <1>4, <2>2, <2>3, <2>4, RequestStep
<1>5. CASE Fails(q)
  BY <1>1, <1>2, <1>3, <1>5, FailsKeepsInv
<1> QED
  BY <1>4, <1>5 DEF Finish

LEMMA ProbeEndsKeepsInv ==
  ASSUME UInv, NEW o \in ops, ProbeEnds(o)
  PROVE  UInv'
<1> USE DEF UInv
<1>1. faults' = faults /\ faults' \in 0 .. MaxFaults
  BY DEF ProbeEnds, TypeOK
<1>2. CASE Dies
  BY <1>1, <1>2, DiesKeepsInv
<1>3. CASE /\ ops' = ops \ {o} /\ o.kind = "probe"
           /\ UNCHANGED <<doc, disk, stage, job, snap, events, erased, cut>>
  <2>1. TypeOK'
    BY <1>1, <1>3 DEF TypeOK
  <2>2. FilesAccounted'
    <3>1. \A k \in Key : Accounted(k) => Accounted(k)'
      BY <1>3, AccountedGrows
    <3>2. \A k \in Refs(doc') : Accounted(k)
      BY <1>3 DEF FilesAccounted
    <3> QED
      BY <1>3, <3>1, <3>2, AccountedFrame DEF Copying
  <2>3. ErasuresJustified'
    BY <1>3, JustifiedFrame DEF Failing
  <2> QED
    BY <2>1, <2>2, <2>3
<1> QED
  BY <1>2, <1>3 DEF ProbeEnds

(* One case per action.                                                    *)
LEMMA NextKeepsInv == UInv /\ [Next]_vars => UInv'
<1> SUFFICES ASSUME UInv, [Next]_vars
             PROVE  UInv'
  OBVIOUS
<1>1. ASSUME NEW q \in Requests, NEW j \in Jobs, Receive(q, j)
      PROVE  UInv'
  BY <1>1, ReceiveKeepsInv
<1>2. ASSUME NEW q \in Requests, Step(q)
      PROVE  UInv'
  <2>1. CASE UploadFile(q)
    BY <2>1, StartsKeepsInv DEF UploadFile, Accepts, IsUpload
  <2>2. CASE UploadFiles(q)
    BY <2>2, StartsKeepsInv DEF UploadFiles, Accepts, IsUpload
  <2> QED
    BY <1>2, <2>1, <2>2, RefuseKeepsInv, ReplaceFilesKeepsInv, DeleteDocumentKeepsInv,
       DeleteSectionKeepsInv, WriteKeepsInv, FinishKeepsInv DEF Step
<1>3. ASSUME NEW q \in Requests, Settle(q)
      PROVE  UInv'
  <2>1. PICK o \in ops : PutEnds(o) \/ ProbeEnds(o) \/ UnlinkEnds(o) \/ UnlinkMisses(o)
    BY <1>3 DEF Settle
  <2>2. CASE UnlinkMisses(o)
    <3>1. o.kind = "unlink" /\ UnlinkRejects(o) /\ faults' \in 0 .. MaxFaults
      BY <2>2 DEF UnlinkMisses, UInv, TypeOK
    <3> QED
      BY <3>1, UnlinkRejectsKeepsInv
  <2> QED
    BY <2>1, <2>2, PutEndsKeepsInv, ProbeEndsKeepsInv, UnlinkEndsKeepsInv
<1>4. ASSUME NEW q \in Requests, DbError(q)
      PROVE  UInv'
  BY <1>4, DbErrorKeepsInv
<1>5. ASSUME NEW o \in ops, PutFails(o)
      PROVE  UInv'
  BY <1>5, FaultBound, DiesKeepsInv DEF PutFails
<1>6. ASSUME NEW o \in ops, UnlinkFails(o)
      PROVE  UInv'
  BY <1>6, FaultBound, UnlinkRejectsKeepsInv DEF UnlinkFails
<1>7. CASE Crash
  BY <1>7, FaultBound, DiesKeepsInv DEF Crash
<1>8. CASE UNCHANGED vars
  <2>1. UNCHANGED <<doc, disk, ops, stage, job, snap, events, erased, cut, faults>>
    BY <1>8 DEF vars
  <2>2. TypeOK'
    BY <2>1 DEF UInv, TypeOK
  <2>3. FilesAccounted'
    BY <2>1 DEF UInv, FilesAccounted, Accounted, Pending, Erased
  <2>4. ErasuresJustified'
    BY <2>1 DEF UInv, ErasuresJustified, MayErase
  <2> QED
    BY <2>2, <2>3, <2>4 DEF UInv
<1> QED
  BY <1>1, <1>2, <1>3, <1>4, <1>5, <1>6, <1>7, <1>8 DEF Next

(* The three invariants hold together, in every behaviour.                 *)
THEOREM UInvariance == Spec => []UInv
<1> QED
  BY InitU, NextKeepsInv, PTL DEF Spec

(* Every variable keeps its type, and no request gets to a stage its job   *)
(* has no code for.                                                        *)
THEOREM UploadsTypeCorrect == Spec => []TypeOK
<1>1. UInv => TypeOK
  BY DEF UInv
<1> QED
  BY <1>1, UInvariance, PTL

(* No reference dangles without a cause: uploadFile, uploadFiles,          *)
(* deleteDocument and deleteSection never put into the document, or write  *)
(* back, a file that storage was not at least told to write.               *)
THEOREM FilesStayAccounted == Spec => []FilesAccounted
<1>1. UInv => FilesAccounted
  BY DEF UInv
<1> QED
  BY <1>1, UInvariance, PTL

(* Compensation never takes away files other than the upload's own, and a  *)
(* deletion none of another section or of a versioned one.                 *)
THEOREM ErasuresStayJustified == Spec => []ErasuresJustified
<1>1. UInv => ErasuresJustified
  BY DEF UInv
<1> QED
  BY <1>1, UInvariance, PTL

-----------------------------------------------------------------------------
(* When the hash does avoid collisions.  A file the document refers to was *)
(* brought by an upload that has not unlinked it: so another upload, which *)
(* takes that file away, has brought the same content to the same section. *)
Uploading(q) == stage[q] # "idle" /\ IsUpload(job[q])
Unshared ==
  \A p, q \in Requests : p # q /\ Uploading(p) /\ Uploading(q) =>
    Keys(job[p]) \cap Keys(job[q]) = {}

Settled == {"written", "done", "lost"}
GivenUp == {"compensating", "failed"}
Brought(q, k) ==
  /\ Uploading(q) /\ stage[q] \in Settled
  /\ k \in Keys(job[q]) /\ <<k, q>> \notin erased
Uploadable(k) == \E j \in Jobs : IsUpload(j) /\ k \in Keys(j)
Referred(k) == k \in Refs(doc) \/ \E q \in Requests : k \in Refs(snap[q])

BroughtInv ==
  /\ \A k \in Key : Uploadable(k) /\ Referred(k) => \E q \in Requests : Brought(q, k)
  /\ \A o \in ops : o.kind = "unlink" /\ IsUpload(job[o.req]) => stage[o.req] \in GivenUp

(* A database that reports an error has not carried out the write.         *)
HonestErrors == [][~ \E q \in Requests : DbError(q) /\ doc' # doc]_vars

(* What every step does to requests, erasures, references and unlinks      *)
Onward ==
  /\ \A q \in Requests : stage[q] # "idle" => stage'[q] # "idle" /\ job'[q] = job[q]
  /\ \A q \in Requests : Uploading(q) /\ stage[q] \in Settled => stage'[q] \in Settled
  /\ \A e \in erased' : e \in erased \/ \E o \in ops : o.kind = "unlink" /\ e = <<o.key, o.req>>
  /\ \A k \in Key : Referred(k)' =>
       \/ Referred(k)
       \/ \E q \in Requests : /\ Uploading(q) /\ k \in Keys(job[q])
                              /\ stage[q] = "accessed" /\ stage'[q] = "written"
  /\ \A o \in ops' : o.kind = "unlink" /\ IsUpload(job'[o.req]) => stage'[o.req] \in GivenUp

LEMMA OnwardKeepsInv ==
  ASSUME UInv, BroughtInv, Onward
  PROVE  BroughtInv'
<1>1. ASSUME NEW q \in Requests, NEW k \in Key, Brought(q, k)
      PROVE  Brought(q, k)'
  <2>1. stage'[q] \in Settled /\ stage'[q] # "idle" /\ job'[q] = job[q]
    BY <1>1 DEF Onward, Brought, Uploading
  <2>2. \A o \in ops : o.kind = "unlink" => o.req # q
    BY <1>1 DEF BroughtInv, Brought, Uploading, Settled, GivenUp
  <2>3. <<k, q>> \notin erased'
    BY <1>1, <2>2 DEF Onward, Brought
  <2> QED
    BY <1>1, <2>1, <2>3 DEF Brought, Uploading
<1>2. ASSUME NEW k \in Key, NEW q \in Requests, Uploading(q), k \in Keys(job[q]),
             stage[q] = "accessed", stage'[q] = "written"
      PROVE  Brought(q, k)'
  <2>1. job'[q] = job[q] /\ stage'[q] # "idle" /\ stage'[q] \in Settled
    BY <1>2 DEF Onward, Uploading, Settled
  <2>2. <<k, q>> \notin erased
    BY <1>2 DEF UInv, ErasuresJustified, MayErase, Uploading
  <2>3. \A o \in ops : o.kind = "unlink" => o.req # q
    BY <1>2 DEF BroughtInv, Uploading, GivenUp
  <2>4. <<k, q>> \notin erased'
    BY <2>2, <2>3 DEF Onward
  <2> QED
    BY <1>2, <2>1, <2>4 DEF Brought, Uploading
<1>3. ASSUME NEW k \in Key, Uploadable(k), Referred(k)'
      PROVE  \E q \in Requests : Brought(q, k)'
  <2>1. CASE Referred(k)
    BY <1>1, <1>3, <2>1 DEF BroughtInv
  <2>2. CASE ~Referred(k)
    BY <1>2, <1>3, <2>2 DEF Onward
  <2> QED
    BY <2>1, <2>2
<1>4. \A o \in ops' : o.kind = "unlink" /\ IsUpload(job'[o.req]) => stage'[o.req] \in GivenUp
  BY DEF Onward
<1> QED
  BY <1>3, <1>4 DEF BroughtInv, Uploadable

(* A step of one request that adds no reference but by writing its upload  *)
LEMMA OneGoesOn ==
  ASSUME UInv, BroughtInv, NEW q \in Requests, NEW s, s # "idle", stage[q] # "idle",
         Moves(q, s), job' = job, erased' = erased,
         stage[q] \in {"received", "accessed"} \/ s \in Settled,
         Keeps(q) \/ snap' = snap,
         \A k \in Refs(doc') : \/ Referred(k)
                               \/ /\ Uploading(q) /\ k \in Keys(job[q])
                                  /\ stage[q] = "accessed" /\ s = "written",
         \A o \in ops' : o \in ops \/ (o.req = q /\ (o.kind = "unlink" /\ IsUpload(job[q]) => s \in GivenUp)),
         stage[q] \notin GivenUp
  PROVE  Onward
<1>1. stage'[q] = s /\ \A p \in Requests \ {q} : stage'[p] = stage[p]
  BY DEF Moves, UInv, TypeOK
<1>2. \A p \in Requests : stage[p] # "idle" => stage'[p] # "idle" /\ job'[p] = job[p]
  BY <1>1
<1>3. \A p \in Requests : Uploading(p) /\ stage[p] \in Settled => stage'[p] \in Settled
  BY <1>1 DEF Settled
<1>4. ASSUME NEW k \in Key, Referred(k)'
      PROVE  \/ Referred(k)
             \/ \E p \in Requests : /\ Uploading(p) /\ k \in Keys(job[p])
                                    /\ stage[p] = "accessed" /\ stage'[p] = "written"
  <2>1. CASE k \in Refs(doc')
    BY <1>1, <2>1
  <2>2. CASE \E p \in Requests : k \in Refs(snap'[p])
    BY <2>2 DEF Keeps, UInv, TypeOK, Referred
  <2> QED
    BY <1>4, <2>1, <2>2 DEF Referred
<1>5. \A o \in ops' : o.kind = "unlink" /\ IsUpload(job'[o.req]) => stage'[o.req] \in GivenUp
  <2> SUFFICES ASSUME NEW o \in ops', o.kind = "unlink", IsUpload(job'[o.req])
               PROVE  stage'[o.req] \in GivenUp
    OBVIOUS
  <2>1. CASE o \in ops
    BY <1>1, <2>1 DEF BroughtInv, UInv, TypeOK, Op
  <2>2. CASE o \notin ops
    BY <1>1, <2>2
  <2> QED
    BY <2>1, <2>2
<1> QED
  BY <1>2, <1>3, <1>4, <1>5 DEF Onward

LEMMA IssuedByOne ==
  ASSUME NEW kind, NEW K, NEW q, NEW o \in Issue(kind, K, q)
  PROVE  o.req = q /\ o.kind = kind
BY DEF Issue

LEMMA StepIsOnward ==
  ASSUME UInv, BroughtInv, IdField, NEW q \in Requests, Step(q)
  PROVE  Onward
<1>1. \A k \in Refs(doc) : Referred(k)
  BY DEF Referred
<1>2. CASE Refuse(q)
  BY <1>1, <1>2, OneGoesOn DEF Refuse, store, GivenUp
<1>3. CASE UploadFile(q) \/ UploadFiles(q)
  <2> DEFINE s == IF job[q].ok THEN "accessed" ELSE "compensating"
  <2>1. stage[q] = "received" /\ Moves(q, s) /\ Keeps(q) /\ UNCHANGED <<doc, job, erased>>
    BY <1>3 DEF UploadFile, UploadFiles, Accepts, Starts
  <2>2. \A o \in ops' : o \in ops \/ (o.req = q /\ (o.kind = "unlink" => s \in GivenUp))
    <3> SUFFICES ASSUME NEW o \in ops', o \notin ops
                 PROVE  o.req = q /\ (o.kind = "unlink" => s \in GivenUp)
      OBVIOUS
    <3>1. o \in Issue("put", Keys(job[q]), q) \/ (~job[q].ok /\ o \in Issue("unlink", Keys(job[q]), q))
      BY <1>3 DEF UploadFile, UploadFiles, Starts
    <3> QED
      BY <3>1, IssuedByOne DEF GivenUp
  <2> QED
    BY <1>1, <2>1, <2>2, OneGoesOn DEF GivenUp
<1>4. CASE ReplaceFiles(q)
  <2>1. /\ stage[q] = "received" /\ Moves(q, "failed") /\ Keeps(q)
        /\ UNCHANGED <<doc, job, erased>>
        /\ ops' = ops \cup Issue("probe", Keys(job[q]), q)
    BY <1>4 DEF ReplaceFiles, Accepts
  <2>2. \A o \in ops' : o \in ops \/ (o.req = q /\ o.kind # "unlink")
    BY <2>1, IssuedByOne
  <2> QED
    BY <1>1, <2>1, <2>2, OneGoesOn DEF GivenUp
<1>5. CASE DeleteDocument(q) \/ DeleteSection(q)
  <2>1. PICK s \in {"accessed", "failed", "unlinking"} : Moves(q, s)
    BY <1>5 DEF DeleteDocument, DeleteSection
  <2>2. /\ stage[q] = "received" /\ Keeps(q) /\ UNCHANGED <<doc, job, erased>>
        /\ ~IsUpload(job[q])
    BY <1>5 DEF DeleteDocument, DeleteSection, Accepts, IsUpload
  <2>3. \A o \in ops' : o \in ops \/ o.req = q
    BY <1>5, IssuedByOne DEF DeleteDocument, DeleteSection
  <2> QED
    BY <1>1, <2>1, <2>2, <2>3, OneGoesOn DEF GivenUp
<1>6. CASE Write(q)
  <2>1. /\ stage[q] = "accessed" /\ Moves(q, "written") /\ doc' = Written(q)
        /\ UNCHANGED <<ops, erased, job, snap>>
    BY <1>6 DEF Write, store
  <2>2. ASSUME NEW k \in Refs(Written(q))
        PROVE  Referred(k) \/ (Uploading(q) /\ k \in Keys(job[q]))
    <3>1. PICK t \in Sections, c \in Contents : k = <<t, c>>
      BY DEF Refs, Key
    <3>2. k \in Key /\ Written(q)[t] # Absent /\ c \in Written(q)[t]
      BY <3>1 DEF Refs
    <3>3. CASE t = job[q].sec /\ IsUpload(job[q])
      <4>1. Written(q)[t] = job[q].files
        BY <3>3 DEF Written
      <4> QED
        BY <2>1, <3>1, <3>2, <3>3, <4>1 DEF Keys, Uploading
    <3>4. CASE t = job[q].sec /\ ~IsUpload(job[q])
      <4>1. snap[q][t] # Absent /\ Written(q)[t] = snap[q][t] \ job[q].files
        BY <2>1, <3>4 DEF Written, UInv, TypeOK
      <4>2. k \in Refs(snap[q])
        BY <3>1, <3>2, <4>1 DEF Refs
      <4> QED
        BY <4>2 DEF Referred
    <3>5. CASE t # job[q].sec
      <4>1. Written(q)[t] = IF snap[q][t] = Absent THEN doc[t] ELSE snap[q][t]
        BY <3>5 DEF Written
      <4>2. k \in Refs(doc) \/ k \in Refs(snap[q])
        BY <3>1, <3>2, <4>1 DEF Refs
      <4> QED
        BY <4>2 DEF Referred
    <3> QED
      BY <3>3, <3>4, <3>5
  <2> QED
    BY <2>1, <2>2, OneGoesOn DEF GivenUp, Settled
<1>7. CASE Finish(q)
  BY <1>1, <1>7, OneGoesOn DEF Finish, GivenUp, Settled
<1> QED
  BY <1>2, <1>3, <1>4, <1>5, <1>6, <1>7 DEF Step

LEMMA DiesIsOnward ==
  ASSUME UInv, Dies
  PROVE  Onward
<1>1. \A q \in Requests : stage'[q] = IF stage[q] \in Open THEN "lost" ELSE stage[q]
  BY DEF Dies
<1>2. \A k : Referred(k)' => Referred(k)
  BY DEF Dies, Referred
<1> QED
  BY <1>1, <1>2 DEF Dies, Onward, Settled, Uploading

LEMMA DbErrorIsOnward ==
  ASSUME UInv, BroughtInv, NEW q \in Requests, DbError(q), doc' = doc
  PROVE  Onward
<1>1. UNCHANGED <<job, snap, erased>> /\ \A k \in Refs(doc') : Referred(k)
  BY DEF DbError, Referred
<1>2. CASE stage[q] = "received" /\ Moves(q, "failed") /\ UNCHANGED <<doc, ops>>
  BY <1>1, <1>2, OneGoesOn DEF GivenUp
<1>3. CASE stage[q] = "accessed" /\ Fails(q)
  <2>1. CASE IsUpload(job[q])
    <3>1. /\ Moves(q, "compensating")
          /\ ops' = ops \cup Issue("unlink", Keys(job[q]), q)
      BY <1>3, <2>1 DEF Fails
    <3>2. \A o \in ops' : o \in ops \/ o.req = q
      BY <3>1, IssuedByOne
    <3> QED
      BY <1>1, <1>3, <3>1, <3>2, OneGoesOn DEF GivenUp
  <2>2. CASE ~IsUpload(job[q])
    <3>1. Moves(q, "failed") /\ ops' = ops
      BY <1>3, <2>2 DEF Fails
    <3> QED
      BY <1>1, <1>3, <3>1, OneGoesOn DEF GivenUp
  <2> QED
    BY <2>1, <2>2
<1> QED
  BY <1>2, <1>3 DEF DbError

LEMMA UnlinkEndsIsOnward ==
  ASSUME UInv, BroughtInv, NEW o \in ops, UnlinkEnds(o)
  PROVE  Onward
<1> DEFINE q == o.req
<1>1. /\ q \in Requests /\ stage[q] # "idle"
      /\ AfterUnlink(o) \in {"accessed", "failed", stage[q]}
      /\ AfterUnlink(o) = "accessed" /\ stage[q] # "accessed" => stage[q] = "unlinking"
      /\ AfterUnlink(o) = "failed" /\ stage[q] # "failed" =>
           stage[q] \in {"unlinking", "compensating"}
  BY AfterUnlinkStages DEF UnlinkEnds, UInv
<1>2. /\ stage'[q] = AfterUnlink(o)
      /\ \A p \in Requests \ {q} : stage'[p] = stage[p]
      /\ ops' = ops \ {o} /\ UNCHANGED <<doc, job, snap>>
      /\ erased' \subseteq erased \cup {<<o.key, o.req>>}
  BY <1>1 DEF UnlinkEnds, Moves, UInv, TypeOK
<1>3. \A p \in Requests : stage[p] \in GivenUp => stage'[p] \in GivenUp
  BY <1>1, <1>2 DEF GivenUp
<1>4. \A p \in ops' : p.kind = "unlink" /\ IsUpload(job'[p.req]) => stage'[p.req] \in GivenUp
  BY <1>2, <1>3 DEF BroughtInv, UInv, TypeOK, Op
<1>5. \A p \in Requests : stage[p] \in Settled => stage'[p] \in Settled
  BY <1>1, <1>2 DEF Settled
<1>6. \A p \in Requests : stage[p] # "idle" => stage'[p] # "idle" /\ job'[p] = job[p]
  BY <1>1, <1>2
<1>7. \A k : Referred(k)' => Referred(k)
  BY <1>2 DEF Referred
<1>8. \A e \in erased' : e \in erased \/ \E p \in ops : p.kind = "unlink" /\ e = <<p.key, p.req>>
  BY <1>2 DEF UnlinkEnds
<1> QED
  BY <1>4, <1>5, <1>6, <1>7, <1>8 DEF Onward

LEMMA UnlinkRejectsIsOnward ==
  ASSUME UInv, BroughtInv, NEW o \in ops, o.kind = "unlink", UnlinkRejects(o)
  PROVE  Onward
<1>1. CASE Dies
  BY <1>1, DiesIsOnward
<1>2. CASE ~Dies
  <2> DEFINE q == o.req
  <2>1. q \in Requests /\ stage[q] # "idle"
    BY DEF UInv, TypeOK, Op
  <2>2. /\ ops' = ops \ {o} /\ UNCHANGED <<doc, job, snap, erased>>
        /\ stage'[q] = IF stage[q] \in {"unlinking", "compensating"} THEN "failed" ELSE stage[q]
        /\ \A p \in Requests \ {q} : stage'[p] = stage[p]
    BY <1>2, <2>1 DEF UnlinkRejects, Moves, UInv, TypeOK
  <2>3. \A p \in Requests : stage[p] \in GivenUp => stage'[p] \in GivenUp
    BY <2>2 DEF GivenUp
  <2>4. \A p \in ops' : p.kind = "unlink" /\ IsUpload(job'[p.req]) => stage'[p.req] \in GivenUp
    BY <2>2, <2>3 DEF BroughtInv, UInv, TypeOK, Op
  <2>5. /\ \A p \in Requests : stage[p] \in Settled => stage'[p] \in Settled
        /\ \A p \in Requests : stage[p] # "idle" => stage'[p] # "idle" /\ job'[p] = job[p]
    BY <2>1, <2>2 DEF Settled
  <2>6. \A k : Referred(k)' => Referred(k)
    BY <2>2 DEF Referred
  <2> QED
    BY <2>2, <2>4, <2>5, <2>6 DEF Onward
<1> QED
  BY <1>1, <1>2

LEMMA NextIsOnward ==
  ASSUME UInv, BroughtInv, IdField, [Next]_vars,
         [~ \E q \in Requests : DbError(q) /\ doc' # doc]_vars
  PROVE  Onward
<1>1. ASSUME NEW q \in Requests, NEW j \in Jobs, Receive(q, j)
      PROVE  Onward
  <2>1. /\ stage[q] = "idle" /\ UNCHANGED <<doc, ops, erased, snap>>
        /\ \A p \in Requests \ {q} : stage'[p] = stage[p] /\ job'[p] = job[p]
    BY <1>1 DEF Receive, Moves, store, UInv, TypeOK
  <2>2. \A p \in Requests : stage[p] # "idle" => p # q
    BY <2>1
  <2>3. \A o \in ops' : o.kind = "unlink" /\ IsUpload(job'[o.req]) => stage'[o.req] \in GivenUp
    BY <2>1, <2>2 DEF BroughtInv, UInv, TypeOK, Op
  <2>4. \A k : Referred(k)' => Referred(k)
    BY <2>1 DEF Referred
  <2> QED
    BY <2>1, <2>2, <2>3, <2>4 DEF Onward, Uploading
<1>2. ASSUME NEW q \in Requests, Settle(q)
      PROVE  Onward
  <2>1. PICK o \in ops : PutEnds(o) \/ ProbeEnds(o) \/ UnlinkEnds(o) \/ UnlinkMisses(o)
    BY <1>2 DEF Settle
  <2>2. CASE /\ UNCHANGED <<doc, stage, job, snap>>
             /\ ops' \subseteq ops /\ erased' \subseteq erased
    <3>1. \A k : Referred(k)' => Referred(k)
      BY <2>2 DEF Referred
    <3> QED
      BY <2>2, <3>1 DEF Onward, BroughtInv
  <2>3. CASE UnlinkMisses(o)
    BY <2>3, UnlinkRejectsIsOnward DEF UnlinkMisses
  <2>4. CASE PutEnds(o)
    BY <2>2, <2>4 DEF PutEnds
  <2>5. CASE ProbeEnds(o)
    BY <2>2, <2>5, DiesIsOnward DEF ProbeEnds
  <2> QED
    BY <2>1, <2>3, <2>4, <2>5, UnlinkEndsIsOnward
<1>3. ASSUME NEW q \in Requests, DbError(q)
      PROVE  Onward
  <2>1. CASE doc' = doc
    BY <1>3, <2>1, DbErrorIsOnward
  <2>2. CASE doc' # doc
    BY <1>3, <2>2 DEF vars
  <2> QED
    BY <2>1, <2>2
<1>4. CASE UNCHANGED vars
  <2>1. UNCHANGED <<doc, ops, stage, job, snap, erased>>
    BY <1>4 DEF vars, store
  <2>2. \A k : Referred(k)' => Referred(k)
    BY <2>1 DEF Referred
  <2> QED
    BY <2>1, <2>2 DEF Onward, BroughtInv
<1> QED
  BY <1>1, <1>2, <1>3, <1>4, StepIsOnward, DiesIsOnward, UnlinkRejectsIsOnward
     DEF Next, Crash, PutFails, UnlinkFails

(* resource.service.ts:428, "we use hash256 as id to avoid collisions": it *)
(* does, wherever no two uploads bring the same content to a section.  No  *)
(* failing upload takes away a file that the document refers to, whatever  *)
(* crashes and storage failures happen, when documents have an `id` (the   *)
(* notification after the write would throw), no upload brings a file the  *)
(* document starts with, and the database tells the truth about its errors.*)
THEOREM UnsharedUploadsAvoidCollisions ==
  ASSUME IdField,
         \A d \in StartDocs : \A k \in Refs(d) : ~Uploadable(k)
  PROVE  Spec /\ HonestErrors => [](Unshared => CollisionsAvoided)
<1>1. Init => BroughtInv
  <2> SUFFICES ASSUME Init
               PROVE  BroughtInv
    OBVIOUS
  <2>1. \A q \in Requests : Refs(snap[q]) = {}
    BY DEF Init, Refs, Key
  <2> QED
    BY <2>1 DEF Init, BroughtInv, Referred
<1>2. /\ UInv /\ BroughtInv /\ [Next]_vars
      /\ [~ \E q \in Requests : DbError(q) /\ doc' # doc]_vars
      => BroughtInv'
  BY NextIsOnward, OnwardKeepsInv
<1>3. UInv /\ BroughtInv => (Unshared => CollisionsAvoided)
  <2> SUFFICES ASSUME UInv, BroughtInv, Unshared, NEW e \in erased,
                      IsUpload(job[e[2]]), e[1] \in Refs(doc)
               PROVE  FALSE
    BY DEF CollisionsAvoided
  <2>1. /\ e = <<e[1], e[2]>> /\ e[2] \in Requests /\ e[1] \in Key
        /\ Uploading(e[2]) /\ job[e[2]] \in Jobs /\ e[1] \in Keys(job[e[2]])
    BY DEF UInv, TypeOK, Uploading, ErasuresJustified, MayErase
  <2>2. PICK p \in Requests : Brought(p, e[1])
    BY <2>1 DEF BroughtInv, Uploadable, Referred
  <2>3. p # e[2] /\ Uploading(p) /\ e[1] \in Keys(job[p])
    BY <2>1, <2>2 DEF Brought
  <2> QED
    BY <2>1, <2>3 DEF Unshared
<1> QED
  BY <1>1, <1>2, <1>3, UInvariance, PTL DEF Spec, HonestErrors
=============================================================================
