------------------------- MODULE MCResourceService -------------------------
(* The user API of docs/ponteggio.md:171-212, with the user's own record   *)
(* in the read rule, an update operation on the profile and an update rule *)
(* for the admin.  Its state enumeration and its scheme are made up to     *)
(* match: contactsCreated requires contacts.                               *)
EXTENDS ResourceService, TLC

CONSTANTS admin, user, init, profileCreated, contactsCreated, u1, u2,
          profile, contacts, data, revised, rejected

MCRoles == {admin, user}
MCStates == {init, profileCreated, contactsCreated}
MCUserIds == {u1, u2}
MCSections == {profile, contacts}
MCPayloads == {data, revised, rejected}
MCRejections == {rejected}

Plain(role) == [for |-> role, form |-> "plain", states |-> MCStates,
                user |-> "none", validates |-> FALSE]
InState(role, states) == [Plain(role) EXCEPT !.form = "if", !.states = states]
Own(role) == [Plain(role) EXCEPT !.form = "if", !.user = "own"]
Validated(role) == [Plain(role) EXCEPT !.form = "tagged", !.validates = TRUE]

MCGetLet == <<Plain(admin), Own(user)>>
MCCreateLet == <<Validated(user), Validated(admin)>>
MCUpdateLet == <<Plain(admin)>>
MCDeleteLet == <<Plain(admin)>>
MCSectionApi ==
  LET start(to) == [let |-> <<Plain(admin), InState(user, {init})>>, set |-> to]
  IN (profile  :> ("create" :> start(profileCreated)
                   @@ "update" :> [let |-> <<Own(user)>>, set |-> NoState]))
  @@ (contacts :> ("create" :> start(contactsCreated)))

Blank == [state |-> NoState, owner |-> [r \in MCRoles |-> NoUser],
          sec |-> [s \in MCSections |-> Absent]]
Body == [Blank EXCEPT !.owner[user] = u1]
MCValidBodies == [r \in MCRoles |-> {Body}]
MCValidPayloads == (profile :> MCPayloads) @@ (contacts :> {data})
MCValidDocs == {d \in [state : MCStates,
                       owner : [MCRoles -> MCUserIds \cup {NoUser}],
                       sec   : [MCSections -> MCPayloads \cup {Absent}]] :
                  d.state = contactsCreated => d.sec[contacts] # Absent}

(* The tokens: the admin has no record of its own, u1 owns the documents   *)
AsAdmin == [groups |-> {admin}, user |-> admin :> NoUser]
AsUser(u) == [groups |-> {user}, user |-> user :> u]

Section(grant, how, s, payload) ==
  [op |-> "section", grant |-> grant, how |-> how, sec |-> s, payload |-> payload]

MCJobs ==
  { [op |-> "create", grant |-> AsUser(u1), body |-> Body],
    [op |-> "create", grant |-> AsUser(u1), body |-> Blank],
    Section(AsUser(u1), "create", profile, data),
    Section(AsUser(u1), "create", profile, rejected),
    Section(AsUser(u1), "update", profile, revised),
    Section(AsUser(u2), "update", profile, revised),
    Section(AsUser(u1), "create", contacts, data),
    Section(AsAdmin, "create", contacts, data),
    Section(AsUser(u1), "create", contacts, rejected),
    Section(AsUser(u1), "update", contacts, data),
    [op |-> "update", grant |-> AsAdmin, body |-> [Blank EXCEPT !.state = init]],
    [op |-> "update", grant |-> AsAdmin,
     body |-> [Blank EXCEPT !.state = contactsCreated]],
    [op |-> "delete", grant |-> AsAdmin],
    [op |-> "delete", grant |-> AsUser(u1)] }

(* An empty collection, or one with a document in its first state, or one  *)
(* that already has its profile                                            *)
Live == [Body EXCEPT !.state = init]
MCStartDbs == {[r \in Resources |-> None],
               [r \in Resources |-> Live],
               [r \in Resources |-> [Live EXCEPT !.state = profileCreated,
                                                 !.sec[profile] = data]]}

Symmetry == Permutations(Requests)
=============================================================================
