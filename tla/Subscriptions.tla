---------------------------- MODULE Subscriptions ----------------------------
(***************************************************************************)
(* subscribe and notify of resource.service.ts: listeners of a document,   *)
(* next to the requests of ResourceService that change it.                 *)
(*                                                                         *)
(* The module factory makes three instances of a service (one of them for  *)
(* the controller, one for other modules), each with an emitter of its     *)
(* own.  A listener registers with the emitter of the instance it called,  *)
(* under the _id of the document, after the document was read and the      *)
(* `get` rules were judged on it.  A request tells the listeners when the  *)
(* database has answered it, in the same go as its event is published.     *)
(* A section operation names the channel after the document's `id`, which  *)
(* is not the _id: nobody listens there.                                   *)
(*                                                                         *)
(* A listener:  off -> received -> accessed -> on -> closed                *)
(* with `refused` when subscribe throws.                                   *)
(***************************************************************************)
EXTENDS ResourceService

CONSTANTS Listeners,
          Instances,   \* the instances of the service class
          Routings,    \* which instance each request may be made to
          At,          \* the instance each listener calls
          Visitors,    \* the grants listeners come with
          NoGrant      \* the one of the SSE route, which has no guard

ASSUME SubscriptionsAssumption ==
  /\ Routings \subseteq [Requests -> Instances] /\ At \in [Listeners -> Instances]
  /\ NoGrant \notin Grant /\ Visitors \subseteq Grant \cup {NoGrant}

VARIABLES via,      \* the instance each request is made to
          ear,      \* what has become of each listener
          channel,  \* the document it is about
          visitor,  \* its grant
          view,     \* the document as it read it
          since,    \* the requests that had taken effect when it registered
          heard     \* the requests it was told of
listening == <<via, ear, channel, visitor, view, since, heard>>
all == <<vars, listening>>

Waiting == {"received", "accessed"}

ListeningTypeOK ==
  /\ via \in Routings
  /\ ear \in [Listeners -> {"off", "on", "refused", "closed"} \cup Waiting]
  /\ channel \in [Listeners -> Resources \cup {NoResource}]
  /\ visitor \in [Listeners -> Visitors \cup {NoGrant}]
  /\ view \in [Listeners -> Doc \cup {None}]
  /\ since \in [Listeners -> SUBSET Requests]
  /\ heard \in [Listeners -> SUBSET Requests]
  /\ \A l \in Listeners : ear[l] # "off" => channel[l] \in Resources
  /\ \A l \in Listeners : ear[l] \in {"accessed", "on"} =>
       view[l] \in Doc /\ visitor[l] \in Grant

ListeningInit ==
  /\ Init /\ via \in Routings
  /\ ear = [l \in Listeners |-> "off"]
  /\ channel = [l \in Listeners |-> NoResource]
  /\ visitor = [l \in Listeners |-> NoGrant]
  /\ view = [l \in Listeners |-> None]
  /\ since = [l \in Listeners |-> {}]
  /\ heard = [l \in Listeners |-> {}]

-----------------------------------------------------------------------------
Becomes(l, e) == ear' = [ear EXCEPT ![l] = e]

Subscribe(l, r, v) ==
  /\ ear[l] = "off"
  /\ Becomes(l, "received")
  /\ channel' = [channel EXCEPT ![l] = r]
  /\ visitor' = [visitor EXCEPT ![l] = v]
  /\ UNCHANGED <<vars, via, view, since, heard>>

(* getActualUserRoles on the user of a request without one throws          *)
MayListen(l, doc) ==
  visitor[l] # NoGrant /\ AccessGranted(GetLet, doc, visitor[l].user)

Refuse(l) ==
  /\ Becomes(l, "refused")
  /\ UNCHANGED <<vars, via, channel, visitor, view, since, heard>>

(* accessResource finds nothing                                            *)
NotThere(l) == ear[l] = "received" /\ db[channel[l]] = None /\ Refuse(l)

(* The rules do not let the listener in                                    *)
TurnAway(l) ==
  /\ ear[l] = "received"
  /\ db[channel[l]] # None
  /\ ~MayListen(l, db[channel[l]])
  /\ Refuse(l)

(* The database reports an error                                           *)
ListenerError(l) == ear[l] = "received" /\ Refuse(l)

(* A faulty variant of ReadAndJudge: the document is read and not judged   *)
ReadOnly(l) ==
  /\ ear[l] = "received"
  /\ db[channel[l]] # None
  /\ Becomes(l, "accessed")
  /\ view' = [view EXCEPT ![l] = db[channel[l]]]
  /\ UNCHANGED <<vars, via, channel, visitor, since, heard>>

(* The database reads the document the rules will be judged on; its answer *)
(* is on its way                                                           *)
ReadAndJudge(l) ==
  /\ ear[l] = "received"
  /\ db[channel[l]] # None /\ MayListen(l, db[channel[l]])
  /\ Becomes(l, "accessed")
  /\ view' = [view EXCEPT ![l] = db[channel[l]]]
  /\ UNCHANGED <<vars, via, channel, visitor, since, heard>>

(* A faulty variant of Register: the observable is never subscribed to     *)
RegisterNever(l) ==
  /\ ear[l] = "accessed" /\ applied = Requests
  /\ Becomes(l, "on")
  /\ since' = [since EXCEPT ![l] = applied]
  /\ UNCHANGED <<vars, via, channel, visitor, view, heard>>

(* The answer is there: the rules are judged and fromEvent is subscribed   *)
(* to before anything else happens                                         *)
Register(l) ==
  /\ ear[l] = "accessed"
  /\ Becomes(l, "on")
  /\ since' = [since EXCEPT ![l] = applied]
  /\ UNCHANGED <<vars, via, channel, visitor, view, heard>>

Leave(l) ==
  /\ ear[l] = "on"
  /\ Becomes(l, "closed")
  /\ UNCHANGED <<vars, via, channel, visitor, view, since, heard>>

-----------------------------------------------------------------------------
(* Faulty variants of Told: whoever listens at the instance is told; and   *)
(* a deletion is not announced                                             *)
ToldEverybody(q) == {l \in Listeners : ear[l] = "on" /\ At[l] = via[q]}

ToldOfChanges(q) ==
  {l \in Listeners : /\ ear[l] = "on" /\ At[l] = via[q] /\ channel[l] = target[q]
                     /\ job[q].op \in {"create", "update"}}

(* emitter.emit(resourceId) of the request's own instance                  *)
Told(q) ==
  {l \in Listeners : /\ ear[l] = "on" /\ At[l] = via[q] /\ channel[l] = target[q]
                     /\ job[q].op # "section"}

(* A faulty variant of Notify: a listener is gone after its first message  *)
NotifyOnce(q) ==
  /\ Finish(q)
  /\ heard' = [l \in Listeners |-> IF l \in Told(q) /\ heard[l] = {} THEN {q} ELSE heard[l]]
  /\ UNCHANGED <<via, ear, channel, visitor, view, since>>

(* The end of a request, and notify with it                                *)
Notify(q) ==
  /\ Finish(q)
  /\ heard' = [l \in Listeners |-> IF l \in Told(q) THEN heard[l] \cup {q} ELSE heard[l]]
  /\ UNCHANGED <<via, ear, channel, visitor, view, since>>

Work(q) == \/ RefuseCreate(q) \/ NotFound(q) \/ Deny(q) \/ Read(q)
           \/ Insert(q) \/ Write(q) \/ Remove(q)

(* The process dies with the requests and the listeners of all instances   *)
Down ==
  /\ Crash \/ (InFlight = {} /\ UNCHANGED vars)
  /\ ear' = [l \in Listeners |-> IF ear[l] \in Waiting \cup {"on"} THEN "closed" ELSE ear[l]]
  /\ UNCHANGED <<via, channel, visitor, view, since, heard>>

Attend(l) == NotThere(l) \/ TurnAway(l) \/ ReadAndJudge(l) \/ Register(l)

ListeningNext ==
  \/ \E q \in Requests : \E j \in Jobs, r \in Resources :
       Receive(q, j, r) /\ UNCHANGED listening
  \/ \E q \in Requests : (Work(q) \/ DbError(q)) /\ UNCHANGED listening
  \/ \E q \in Requests : Notify(q)
  \/ \E l \in Listeners : \E r \in Resources, v \in Visitors : Subscribe(l, r, v)
  \/ \E l \in Listeners : Attend(l) \/ ListenerError(l) \/ Leave(l)
  \/ Down

(* As in ResourceService, and the same for the reads of the listeners      *)
ListeningFairness ==
  /\ \A q \in Requests : WF_all((Work(q) /\ UNCHANGED listening) \/ Notify(q))
  /\ \A l \in Listeners : WF_all(Attend(l))

ListeningSpec == ListeningInit /\ [][ListeningNext]_all /\ ListeningFairness

-----------------------------------------------------------------------------
(* Would the listener be told of what q does?                              *)
Concerns(q, l) ==
  stage[q] # "idle" /\ At[l] = via[q] /\ channel[l] = target[q] /\ job[q].op # "section"

(* A listener is told only of requests that ended well, on its document    *)
(* and at its instance, and only if the `get` rules let it see the         *)
(* document as it was when it subscribed (resource.service.ts:649, :657).  *)
HeardIsDue ==
  \A l \in Listeners : \A q \in heard[l] :
    /\ stage[q] = "done" /\ Concerns(q, l)
    /\ view[l] \in Doc /\ visitor[l] # NoGrant
    /\ AccessGranted(GetLet, view[l], visitor[l].user)

(* Nothing that takes effect after the registration and is answered with   *)
(* success escapes the listener, however requests overlap: what it can     *)
(* miss took effect before it registered (resource.service.ts:659).        *)
NothingMissed ==
  \A l \in Listeners : \A q \in applied \ heard[l] :
    ear[l] = "on" /\ stage[q] = "done" /\ Concerns(q, l) => q \in since[l]

(* A listener in place is told in the end of every change that concerns    *)
(* it, unless it goes away or the request was cut off                      *)
(* (resource.service.ts:210, :260, :384).                                  *)
ToldInTheEnd ==
  \A l \in Listeners, q \in Requests :
    ear[l] = "on" /\ q \in applied \ since[l] /\ Concerns(q, l)
      ~> q \in heard[l] \/ ear[l] = "closed" \/ stage[q] = "lost"

(* Whoever subscribes is let in or refused, whatever the requests do.      *)
SubscriptionsSettle ==
  \A l \in Listeners : ear[l] \in Waiting ~> ear[l] \in {"on", "refused", "closed"}
=============================================================================
