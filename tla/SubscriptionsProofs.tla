------------------------ MODULE SubscriptionsProofs ------------------------
(***************************************************************************)
(* What listeners hear, for any number of listeners, requests, instances   *)
(* and documents.  The requests are those of ResourceService and are not   *)
(* disturbed by the listeners, so its inductive invariant holds here too;  *)
(* what is added to it says that a listener in place was let in, and that  *)
(* one that is not judged yet has heard nothing (Judged).                  *)
(***************************************************************************)
EXTENDS Subscriptions, ResourceServiceProofs

Judged ==
  \A l \in Listeners :
    /\ ear[l] \in {"accessed", "on"} => AccessGranted(GetLet, view[l], visitor[l].user)
    /\ ear[l] \in {"off", "received"} => heard[l] = {}

LInv == ListeningTypeOK /\ Judged /\ HeardIsDue /\ NothingMissed

-----------------------------------------------------------------------------
(* A step of the whole is a step of the service, or leaves it alone        *)
LEMMA ServiceStep ==
  ASSUME [ListeningNext]_all PROVE [Next]_vars
<1>1. ASSUME NEW q \in Requests, Work(q) \/ DbError(q) \/ Notify(q)
      PROVE  Next
  BY <1>1 DEF Work, Notify, Next, Step
<1>2. ASSUME NEW q \in Requests, NEW j \in Jobs, NEW r \in Resources, Receive(q, j, r)
      PROVE  Next
  BY <1>2 DEF Next
<1>3. ASSUME NEW l \in Listeners,
             \/ \E r \in Resources, v \in Visitors : Subscribe(l, r, v)
             \/ Attend(l) \/ ListenerError(l) \/ Leave(l)
      PROVE  UNCHANGED vars
  BY <1>3 DEF Subscribe, Attend, NotThere, TurnAway, Refuse, ReadAndJudge,
              Register, ListenerError, Leave
<1>4. CASE Down
  BY <1>4 DEF Down, Next
<1>5. CASE UNCHANGED all
  BY <1>5 DEF all
<1> QED  BY <1>1, <1>2, <1>3, <1>4, <1>5 DEF ListeningNext

LEMMA ServiceInvariance == ListeningSpec => []IInv
<1>1. ListeningInit => IInv
  BY InitInv DEF ListeningInit
<1>2. IInv /\ [ListeningNext]_all => IInv'
  BY ServiceStep, StepKeepsInv
<1> QED  BY <1>1, <1>2, PTL DEF ListeningSpec

(* What a step of the service does to requests other than idle ones        *)
LEMMA RequestsKeepOn ==
  ASSUME IInv, [Next]_vars, NEW q \in Requests, stage[q] # "idle"
  PROVE  /\ job'[q] = job[q] /\ target'[q] = target[q] /\ stage'[q] # "idle"
         /\ stage[q] = "done" => stage'[q] = "done"
         /\ q \in applied' \ applied => stage'[q] # "done"
         /\ q \in applied => q \in applied'
<1>1. TypeOK
  BY DEF IInv
<1>2. ASSUME NEW p \in Requests,
             \/ RefuseCreate(p) \/ NotFound(p) \/ Deny(p) \/ DbError(p)
      PROVE  /\ stage[p] \in {"received", "accessed"}
             /\ stage' = [stage EXCEPT ![p] = "failed"]
             /\ UNCHANGED <<job, target, applied>>
  BY <1>2 DEF RefuseCreate, NotFound, Deny, DbError, Fail
<1>3. ASSUME NEW p \in Requests, Read(p)
      PROVE  /\ stage[p] = "received"
             /\ stage' = [stage EXCEPT ![p] = "accessed"]
             /\ UNCHANGED <<job, target, applied>>
  BY <1>3 DEF Read
<1>4. ASSUME NEW p \in Requests, Insert(p) \/ Write(p) \/ Remove(p)
      PROVE  /\ stage[p] \in {"received", "accessed"}
             /\ \E s \in {"written", "lost"} : stage' = [stage EXCEPT ![p] = s]
             /\ UNCHANGED <<job, target>> /\ applied' \in {applied, applied \cup {p}}
  BY <1>4 DEF Insert, Write, Remove, Answered
<1>5. ASSUME NEW p \in Requests, Finish(p)
      PROVE  /\ stage[p] = "written"
             /\ stage' \in {[stage EXCEPT ![p] = "failed"], [stage EXCEPT ![p] = "done"]}
             /\ UNCHANGED <<job, target, applied>>
  BY <1>5 DEF Finish
<1>6. ASSUME NEW p \in Requests, NEW j \in Jobs, NEW r \in Resources, Receive(p, j, r)
      PROVE  /\ stage[p] = "idle" /\ stage' = [stage EXCEPT ![p] = "received"]
             /\ job' = [job EXCEPT ![p] = j] /\ target' = [target EXCEPT ![p] = r]
             /\ UNCHANGED applied
  BY <1>6 DEF Receive
<1>7. CASE Crash
  BY <1>1, <1>7 DEF Crash, TypeOK, Open
<1>8. CASE UNCHANGED vars
  BY <1>8 DEF vars
<1>9. ASSUME NEW p \in Requests, Step(p) \/ DbError(p)
      PROVE  /\ job'[q] = job[q] /\ target'[q] = target[q] /\ stage'[q] # "idle"
             /\ stage[q] = "done" => stage'[q] = "done"
             /\ q \in applied' \ applied => stage'[q] # "done"
             /\ q \in applied => q \in applied'
  BY <1>1, <1>2, <1>3, <1>4, <1>5, <1>9 DEF Step, TypeOK
<1>10. ASSUME NEW p \in Requests, NEW j \in Jobs, NEW r \in Resources, Receive(p, j, r)
       PROVE  /\ job'[q] = job[q] /\ target'[q] = target[q] /\ stage'[q] # "idle"
              /\ stage[q] = "done" => stage'[q] = "done"
              /\ q \in applied' \ applied => stage'[q] # "done"
              /\ q \in applied => q \in applied'
  BY <1>1, <1>6, <1>10 DEF TypeOK
<1> QED  BY <1>7, <1>8, <1>9, <1>10 DEF Next

(* An idle request has had no effect, and gets none in its first step      *)
LEMMA IdleIsNew ==
  ASSUME IInv, [Next]_vars, NEW q \in Requests, stage[q] = "idle"
  PROVE  q \notin applied /\ stage'[q] # "done" /\ q \notin applied'
<1>1. q \notin applied
  BY DEF IInv, RequestsSound, AppliedIsPast, Ended
<1>2. ASSUME NEW p \in Requests, Step(p) \/ DbError(p)
      PROVE  p # q /\ stage'[q] = stage[q] /\ applied' \subseteq applied \cup {p}
  BY <1>2 DEF Step, RefuseCreate, NotFound, Deny, DbError, Fail, Read, Insert, Write,
              Remove, Answered, Finish, IInv, TypeOK
<1>3. ASSUME NEW p \in Requests, NEW j \in Jobs, NEW r \in Resources, Receive(p, j, r)
      PROVE  stage'[q] # "done" /\ applied' = applied
  BY <1>3 DEF Receive, IInv, TypeOK
<1>4. CASE Crash
  BY <1>1, <1>4 DEF Crash, IInv, TypeOK, Open
<1>5. CASE UNCHANGED vars
  BY <1>1, <1>5 DEF vars
<1> QED  BY <1>1, <1>2, <1>3, <1>4, <1>5 DEF Next

(* Only notify ends a request well                                         *)
LEMMA OnlyFinishEnds ==
  ASSUME IInv, NEW q \in Requests, Work(q) \/ DbError(q)
  PROVE  \A p \in Requests : stage'[p] = "done" => stage[p] = "done"
<1>1. \E s \in {"failed", "accessed", "written", "lost"} : stage' = [stage EXCEPT ![q] = s]
  BY DEF Work, RefuseCreate, NotFound, Deny, DbError, Fail, Read, Insert, Write, Remove,
         Answered
<1> QED  BY <1>1 DEF IInv, TypeOK

-----------------------------------------------------------------------------
(* A service step that ends no request well, and no listener's business    *)
LEMMA QuietStep ==
  ASSUME IInv, LInv, [Next]_vars, UNCHANGED listening,
         \A p \in Requests : stage'[p] = "done" => stage[p] = "done"
  PROVE  LInv'
<1>1. UNCHANGED <<via, ear, channel, visitor, view, since, heard>>
  BY DEF listening
<1>2. ListeningTypeOK'
  BY <1>1 DEF LInv, ListeningTypeOK
<1>3. Judged'
  BY <1>1 DEF LInv, Judged
<1>4. HeardIsDue'
  <2> SUFFICES ASSUME NEW l \in Listeners, NEW q \in heard[l]
               PROVE  /\ stage'[q] = "done" /\ Concerns(q, l)'
                      /\ view[l] \in Doc /\ visitor[l] # NoGrant
                      /\ AccessGranted(GetLet, view[l], visitor[l].user)
    BY <1>1 DEF HeardIsDue
  <2>1. q \in Requests /\ stage[q] = "done" /\ Concerns(q, l)
    BY DEF LInv, ListeningTypeOK, HeardIsDue
  <2>2. job'[q] = job[q] /\ target'[q] = target[q] /\ stage'[q] = "done"
    BY <2>1, RequestsKeepOn
  <2> QED  BY <1>1, <2>1, <2>2 DEF LInv, HeardIsDue, Concerns
<1>5. NothingMissed'
  <2> SUFFICES ASSUME NEW l \in Listeners, NEW q \in applied' \ heard[l],
                      ear[l] = "on", stage'[q] = "done", Concerns(q, l)'
               PROVE  q \in since[l]
    BY <1>1 DEF NothingMissed
  <2>1. q \in Requests
    BY StepKeepsInv DEF IInv, TypeOK
  <2>2. stage[q] = "done"
    BY <2>1
  <2>3. q \in applied /\ job'[q] = job[q] /\ target'[q] = target[q]
    BY <2>1, <2>2, RequestsKeepOn
  <2>4. Concerns(q, l)
    BY <1>1, <2>2, <2>3 DEF Concerns
  <2> QED  BY <2>2, <2>3, <2>4 DEF LInv, NothingMissed
<1> QED  BY <1>2, <1>3, <1>4, <1>5 DEF LInv

LEMMA NotifyStep ==
  ASSUME IInv, LInv, NEW q \in Requests, Notify(q)
  PROVE  LInv'
<1>1. /\ stage[q] = "written" /\ UNCHANGED <<db, job, target, snap, applied>>
      /\ UNCHANGED <<via, ear, channel, visitor, view, since>>
      /\ stage' = [stage EXCEPT ![q] = IF job[q].op = "section" /\ ~IdField
                                       THEN "failed" ELSE "done"]
      /\ heard' = [l \in Listeners |-> IF l \in Told(q) THEN heard[l] \cup {q} ELSE heard[l]]
  BY DEF Notify, Finish
<1>2. stage \in [Requests -> {"idle"} \cup Open \cup Ended] /\ applied \subseteq Requests
  BY DEF IInv, TypeOK
<1>3. \A l \in Told(q) : l \in Listeners /\ ear[l] = "on" /\ Concerns(q, l) /\ stage'[q] = "done"
  BY <1>1, <1>2 DEF Told, Concerns
<1>4. ListeningTypeOK'
  <2>1. heard' \in [Listeners -> SUBSET Requests]
    BY <1>1 DEF LInv, ListeningTypeOK
  <2> QED  BY <1>1, <2>1 DEF LInv, ListeningTypeOK
<1>5. Judged'
  BY <1>1, <1>3 DEF LInv, Judged
<1>6. HeardIsDue'
  <2> SUFFICES ASSUME NEW l \in Listeners, NEW p \in heard'[l]
               PROVE  /\ stage'[p] = "done" /\ Concerns(p, l)'
                      /\ view[l] \in Doc /\ visitor[l] # NoGrant
                      /\ AccessGranted(GetLet, view[l], visitor[l].user)
    BY <1>1 DEF HeardIsDue
  <2>1. CASE p \in heard[l]
    <3>1. p \in Requests /\ stage[p] = "done" /\ Concerns(p, l)
      BY <2>1 DEF LInv, ListeningTypeOK, HeardIsDue
    <3>2. stage'[p] = "done"
      BY <1>1, <1>2, <3>1
    <3> QED  BY <1>1, <2>1, <3>1, <3>2 DEF LInv, HeardIsDue, Concerns
  <2>2. CASE p = q /\ l \in Told(q)
    <3>1. ear[l] = "on" /\ Concerns(q, l) /\ stage'[q] = "done"
      BY <1>3, <2>2
    <3>2. view[l] \in Doc /\ visitor[l] \in Grant
      BY <3>1 DEF LInv, ListeningTypeOK
    <3>3. AccessGranted(GetLet, view[l], visitor[l].user)
      BY <3>1 DEF LInv, Judged
    <3> QED  BY <1>1, <2>2, <3>1, <3>2, <3>3, SubscriptionsAssumption DEF Concerns
  <2> QED  BY <1>1, <2>1, <2>2
<1>7. NothingMissed'
  <2> SUFFICES ASSUME NEW l \in Listeners, NEW p \in applied \ heard'[l],
                      ear[l] = "on", stage'[p] = "done", Concerns(p, l)'
               PROVE  p \in since[l]
    BY <1>1 DEF NothingMissed
  <2>1. p \in Requests /\ p \notin heard[l]
    BY <1>1, <1>2
  <2>2. CASE p = q
    BY <1>1, <2>2 DEF Told, Concerns
  <2>3. CASE p # q
    BY <1>1, <1>2, <2>1, <2>3 DEF LInv, NothingMissed, Concerns
  <2> QED  BY <2>2, <2>3
<1> QED  BY <1>4, <1>5, <1>6, <1>7 DEF LInv

(* A step of a listener leaves the requests alone; what it must establish  *)
(* is that its document, grant and view stay once it has heard something,  *)
(* and that it starts to listen with all that has taken effect in `since`  *)
LEMMA ListenerMoves ==
  ASSUME IInv, LInv, ListeningTypeOK', Judged',
         UNCHANGED <<db, stage, job, target, snap, applied, events, via, heard>>,
         \A k \in Listeners : ear[k] \in {"accessed", "on", "closed", "refused"} =>
           channel'[k] = channel[k] /\ visitor'[k] = visitor[k] /\ view'[k] = view[k],
         \A k \in Listeners : ear'[k] = "on" =>
           \/ ear[k] = "on" /\ since'[k] = since[k]
           \/ since'[k] = applied
  PROVE  LInv'
<1>1. \A k \in Listeners : ear[k] \notin {"accessed", "on", "closed", "refused"} => heard[k] = {}
  BY DEF LInv, ListeningTypeOK, Judged, Waiting
<1>2. HeardIsDue'
  <2> SUFFICES ASSUME NEW l \in Listeners, NEW q \in heard[l]
               PROVE  /\ stage[q] = "done" /\ Concerns(q, l)'
                      /\ view'[l] \in Doc /\ visitor'[l] # NoGrant
                      /\ AccessGranted(GetLet, view'[l], visitor'[l].user)
    BY DEF HeardIsDue
  <2>1. channel'[l] = channel[l] /\ visitor'[l] = visitor[l] /\ view'[l] = view[l]
    BY <1>1
  <2> QED  BY <2>1 DEF LInv, HeardIsDue, Concerns
<1>3. NothingMissed'
  <2> SUFFICES ASSUME NEW l \in Listeners, NEW q \in applied \ heard[l],
                      ear'[l] = "on", stage[q] = "done", Concerns(q, l)'
               PROVE  q \in since'[l]
    BY DEF NothingMissed
  <2>1. CASE since'[l] = applied
    BY <2>1
  <2>2. CASE ear[l] = "on" /\ since'[l] = since[l]
    <3>1. Concerns(q, l)
      BY <2>2 DEF Concerns
    <3> QED  BY <2>2, <3>1 DEF LInv, NothingMissed
  <2> QED  BY <2>1, <2>2
<1> QED  BY <1>2, <1>3 DEF LInv

LEMMA SubscribeStep ==
  ASSUME IInv, LInv, NEW l \in Listeners, NEW r \in Resources, NEW v \in Visitors,
         Subscribe(l, r, v)
  PROVE  LInv'
<1>1. /\ ear[l] = "off" /\ ear' = [ear EXCEPT ![l] = "received"]
      /\ channel' = [channel EXCEPT ![l] = r] /\ visitor' = [visitor EXCEPT ![l] = v]
      /\ UNCHANGED <<db, stage, job, target, snap, applied, events, via, view, since, heard>>
  BY DEF Subscribe, Becomes, vars
<1>2. ListeningTypeOK'
  BY <1>1 DEF LInv, ListeningTypeOK, Waiting
<1>3. Judged'
  BY <1>1 DEF LInv, ListeningTypeOK, Judged
<1> QED  BY <1>1, <1>2, <1>3, ListenerMoves DEF LInv, ListeningTypeOK

LEMMA ReadAndJudgeStep ==
  ASSUME IInv, LInv, NEW l \in Listeners, ReadAndJudge(l)
  PROVE  LInv'
<1>1. /\ ear[l] = "received" /\ ear' = [ear EXCEPT ![l] = "accessed"]
      /\ db[channel[l]] # None /\ visitor[l] # NoGrant
      /\ AccessGranted(GetLet, db[channel[l]], visitor[l].user)
      /\ view' = [view EXCEPT ![l] = db[channel[l]]]
      /\ UNCHANGED <<db, stage, job, target, snap, applied, events, via, channel,
                     visitor, since, heard>>
  BY DEF ReadAndJudge, MayListen, Becomes, vars
<1>2. channel[l] \in Resources /\ db[channel[l]] \in Doc
  BY <1>1 DEF LInv, ListeningTypeOK, IInv, TypeOK
<1>3. ListeningTypeOK'
  BY <1>1, <1>2, SubscriptionsAssumption DEF LInv, ListeningTypeOK, Waiting
<1>4. Judged'
  BY <1>1, <1>2 DEF LInv, ListeningTypeOK, Judged
<1> QED  BY <1>1, <1>3, <1>4, ListenerMoves DEF LInv, ListeningTypeOK

(* Only the stage of a listener changes, and `since` when it registers     *)
LEMMA StageStep ==
  ASSUME IInv, LInv, NEW l \in Listeners,
         NotThere(l) \/ TurnAway(l) \/ ListenerError(l) \/ Register(l) \/ Leave(l)
  PROVE  LInv'
<1>1. /\ UNCHANGED <<db, stage, job, target, snap, applied, events, via, channel,
                     visitor, view, heard>>
      /\ \/ /\ ear' = [ear EXCEPT ![l] = "refused"] \/ ear' = [ear EXCEPT ![l] = "closed"]
            /\ since' = since
         \/ /\ ear[l] = "accessed" /\ ear' = [ear EXCEPT ![l] = "on"]
            /\ since' = [since EXCEPT ![l] = applied]
  BY DEF NotThere, TurnAway, ListenerError, Register, Leave, Refuse, Becomes, vars
<1>2. applied \subseteq Requests
  BY DEF IInv, TypeOK
<1>3. ListeningTypeOK'
  <2>1. ear[l] # "off"
    BY DEF NotThere, TurnAway, ListenerError, Register, Leave
  <2>2. CASE since' = since
    BY <1>1, <2>1, <2>2 DEF LInv, ListeningTypeOK, Waiting
  <2>3. CASE since' # since
    BY <1>1, <1>2, <2>1, <2>3 DEF LInv, ListeningTypeOK, Waiting
  <2> QED  BY <2>2, <2>3
<1>4. Judged'
  BY <1>1 DEF LInv, ListeningTypeOK, Judged
<1>5. \A k \in Listeners : ear'[k] = "on" =>
        (ear[k] = "on" /\ since'[k] = since[k]) \/ since'[k] = applied
  BY <1>1 DEF LInv, ListeningTypeOK
<1> QED  BY <1>1, <1>3, <1>4, <1>5, ListenerMoves

(* A crash closes every ear and ends no request well                       *)
LEMMA DownStep ==
  ASSUME IInv, LInv, Down
  PROVE  LInv'
<1>1. /\ [Next]_vars /\ UNCHANGED <<job, target, applied>>
      /\ \A p \in Requests : stage'[p] = "done" <=> stage[p] = "done"
      /\ \A p \in Requests : stage'[p] = "idle" <=> stage[p] = "idle"
  BY DEF Down, Crash, vars, Next, IInv, TypeOK, Open
<1>2. /\ ear' = [k \in Listeners |-> IF ear[k] \in Waiting \cup {"on"} THEN "closed" ELSE ear[k]]
      /\ UNCHANGED <<via, channel, visitor, view, since, heard>>
  BY DEF Down
<1>3. ListeningTypeOK'
  BY <1>2 DEF LInv, ListeningTypeOK, Waiting
<1>4. Judged'
  BY <1>2 DEF LInv, Judged, Waiting
<1>5. HeardIsDue'
  <2> SUFFICES ASSUME NEW l \in Listeners, NEW q \in heard[l]
               PROVE  /\ stage'[q] = "done" /\ Concerns(q, l)'
                      /\ view[l] \in Doc /\ visitor[l] # NoGrant
                      /\ AccessGranted(GetLet, view[l], visitor[l].user)
    BY <1>2 DEF HeardIsDue
  <2>1. q \in Requests /\ stage[q] = "done" /\ Concerns(q, l)
    BY DEF LInv, ListeningTypeOK, HeardIsDue
  <2> QED  BY <1>1, <1>2, <2>1 DEF LInv, HeardIsDue, Concerns
<1>6. NothingMissed'
  BY <1>2 DEF NothingMissed, Waiting
<1> QED  BY <1>3, <1>4, <1>5, <1>6 DEF LInv

-----------------------------------------------------------------------------
LEMMA ListeningInitHolds == ListeningInit => LInv
BY DEF ListeningInit, LInv, ListeningTypeOK, Judged, HeardIsDue, NothingMissed

LEMMA ListeningStep == IInv /\ LInv /\ [ListeningNext]_all => LInv'
<1> SUFFICES ASSUME IInv, LInv, [ListeningNext]_all PROVE LInv'
  OBVIOUS
<1>1. [Next]_vars
  BY ServiceStep
<1>2. ASSUME NEW q \in Requests, NEW j \in Jobs, NEW r \in Resources,
             Receive(q, j, r), UNCHANGED listening
      PROVE  LInv'
  <2>1. \A p \in Requests : stage'[p] = "done" => stage[p] = "done"
    BY <1>2 DEF Receive, IInv, TypeOK
  <2> QED  BY <1>1, <1>2, <2>1, QuietStep
<1>3. ASSUME NEW q \in Requests, Work(q) \/ DbError(q), UNCHANGED listening
      PROVE  LInv'
  BY <1>1, <1>3, OnlyFinishEnds, QuietStep
<1>4. ASSUME NEW q \in Requests, Notify(q) PROVE LInv'
  BY <1>4, NotifyStep
<1>5. ASSUME NEW l \in Listeners, NEW r \in Resources, NEW v \in Visitors,
             Subscribe(l, r, v)
      PROVE  LInv'
  BY <1>5, SubscribeStep
<1>6. ASSUME NEW l \in Listeners, Attend(l) \/ ListenerError(l) \/ Leave(l)
      PROVE  LInv'
  BY <1>6, ReadAndJudgeStep, StageStep DEF Attend
<1>7. CASE Down
  BY <1>7, DownStep
<1>8. CASE UNCHANGED all
  <2>1. UNCHANGED listening /\ \A p \in Requests : stage'[p] = stage[p]
    BY <1>8 DEF all, vars
  <2> QED  BY <1>1, <2>1, QuietStep
<1> QED  BY <1>2, <1>3, <1>4, <1>5, <1>6, <1>7, <1>8 DEF ListeningNext

LEMMA ListeningInvariance == ListeningSpec => []LInv
<1> QED  BY ListeningInitHolds, ListeningStep, ServiceInvariance, PTL DEF ListeningSpec

-----------------------------------------------------------------------------
(* The listeners' variables keep their types; a listener in place has a    *)
(* document, a view of it and a grant (resource.service.ts:652-660).       *)
THEOREM ListeningTypeCorrect == ListeningSpec => []ListeningTypeOK
<1>1. LInv => ListeningTypeOK
  BY DEF LInv
<1> QED  BY <1>1, ListeningInvariance, PTL

(* A listener is told only of what it subscribed to and was let in for,    *)
(* however many listeners and requests overlap (resource.service.ts:649).  *)
THEOREM HeardIsDueAlways == ListeningSpec => []HeardIsDue
<1>1. LInv => HeardIsDue
  BY DEF LInv
<1> QED  BY <1>1, ListeningInvariance, PTL

(* What a listener in place misses of the requests that concern it took    *)
(* effect before it registered: the gap between the read and the           *)
(* registration is the only one (resource.service.ts:659).                 *)
THEOREM NothingMissedAlways == ListeningSpec => []NothingMissed
<1>1. LInv => NothingMissed
  BY DEF LInv
<1> QED  BY <1>1, ListeningInvariance, PTL

(* Listeners do not disturb the requests: with any number of them, what    *)
(* the service does is what it may do without, an _id is fresh, then live, *)
(* then gone, and every operation that took effect is accounted for        *)
(* (resource.service.ts:636-660).                                          *)
THEOREM ServiceUndisturbed ==
  ListeningSpec => /\ Init /\ [][Next]_vars
                   /\ RefinesLifecycle
                   /\ []CommitsAccounted
<1>1. ListeningInit => Init /\ L!Init
  BY LifecycleInit DEF ListeningInit
<1>2. [ListeningNext]_all => [Next]_vars
  BY ServiceStep
<1>3. IInv /\ [ListeningNext]_all =>
        [L!Next]_([r \in Resources |-> IF db[r] # None THEN "live"
                                       ELSE IF Removed(r) THEN "gone" ELSE "fresh"])
  BY ServiceStep, LifecycleStep DEF Phase
<1>4. IInv => CommitsAccounted
  BY DEF IInv
<1> QED
  BY <1>1, <1>2, <1>3, <1>4, ServiceInvariance, PTL
     DEF ListeningSpec, RefinesLifecycle, L!Spec
=============================================================================
