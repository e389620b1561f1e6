-------------------------- MODULE MCSubscriptions --------------------------
(* The user API of MCResourceService with one document; two requests from  *)
(* another module, or one from there and one through the controller; and a *)
(* listener at the service exported to other modules: the document's       *)
(* owner, another user, or a visitor of the SSE route.                     *)
EXTENDS Subscriptions, MCResourceService

CONSTANTS route, exported, q1, q2, l1

MCInstances == {route, exported}
MCRoutings == {(q1 :> exported) @@ (q2 :> exported), (q1 :> exported) @@ (q2 :> route)}
MCAt == l1 :> exported
MCVisitors == {AsUser(u1), AsUser(u2), NoGrant}

MCListeningJobs ==
  { [op |-> "create", grant |-> AsUser(u1), body |-> Body],
    Section(AsUser(u1), "create", profile, data),
    [op |-> "update", grant |-> AsAdmin, body |-> [Blank EXCEPT !.state = init]],
    [op |-> "update", grant |-> AsUser(u2), body |-> [Blank EXCEPT !.state = init]],
    [op |-> "delete", grant |-> AsAdmin] }

MCListeningDbs == {[r \in Resources |-> None], [r \in Resources |-> Live]}
=============================================================================
