------------------------------- MODULE Access -------------------------------
(***************************************************************************)
(* The access rules of an API definition and the way a request is judged   *)
(* by them: resource.accces.ts, getActualUserRoles and applyListAccess of  *)
(* resource.service.ts, and the RolesGuard in front of the controllers.    *)
(*                                                                         *)
(* A `let` list is a sequence of rules.  A rule names the role it is `for` *)
(* and has one of four forms:                                              *)
(*   "plain"   the role name alone, 'admin'                                *)
(*   "if"      { for, if: {...} }: `states` is what `if` expects of the    *)
(*             state (all of States when it says nothing of it), `user`    *)
(*             what it expects of the user: "own" for { role: 'roleId' },  *)
(*             "peer" for { role: anotherField }, "none" for nothing       *)
(*   "tagged"  { for, validate } or { for, appendId }, no `if`             *)
(*   "bare"    { for } with none of the three                              *)
(* `validates` tells whether the rule has a `validate` key, whatever its   *)
(* form; only resource creation looks at it.                               *)
(*                                                                         *)
(* A document is seen through its state, the users its `<role>Id` fields   *)
(* name (`owner`) and the users its other user fields name (`peer`).  The  *)
(* authenticated user is a function from the user's groups to the user's   *)
(* record in the collection of that name, NoUser when there is none.       *)
(***************************************************************************)
EXTENDS Naturals, Sequences

CONSTANTS Roles,     \* the actors an API definition names
          States,    \* the values of a resource's `state`
          UserIds,   \* the identifiers of user records
          NoUser     \* no record, or a document without that field

ASSUME NoUserAssumption == NoUser \notin UserIds

Rule == [for : Roles, form : {"plain", "if", "tagged", "bare"},
         states : SUBSET States, user : {"none", "own", "peer"},
         validates : BOOLEAN]

(* grant.groups and grant.user: the groups the token names, and the record *)
(* of the user for each group that getUserGroups leaves                    *)
Grant == [groups : SUBSET Roles,
          user : UNION {[G -> UserIds \cup {NoUser}] : G \in SUBSET Roles}]

-----------------------------------------------------------------------------
(* A faulty variant of ConditionFails: the missing record is compared, too *)
ConditionFailsUnasked(rule, doc, user) ==
  \/ doc.state \notin rule.states
  \/ rule.user = "own"  /\ doc.owner[rule.for] # user[rule.for]

(* verifyCondition throws for a state or an owner that is not the expected *)
(* one, and for any user condition on a user without a record.  The result *)
(* of a "peer" comparison is returned and never looked at.                 *)
ConditionFails(rule, doc, user) ==
  \/ doc.state \notin rule.states
  \/ rule.user # "none" /\ user[rule.for] = NoUser
  \/ rule.user = "own"  /\ doc.owner[rule.for] # user[rule.for]

(* The three outcomes of verifyAccessRules: it throws, it returns          *)
(* something truthy (an array of results is, whatever they are), or false. *)
Throws(rule, doc, user) == rule.form = "if" /\ ConditionFails(rule, doc, user)

Grants(rule, doc, user) ==
  \/ rule.form \in {"plain", "tagged"}
  \/ rule.form = "if" /\ ~ConditionFails(rule, doc, user)

(* getActualUserRoles keeps the rules for a group the user has             *)
Applicable(let, user) == {i \in DOMAIN let : let[i].for \in DOMAIN user}

(* verifyAccess is a `some` over the applicable rules: a rule is looked at *)
(* only if every applicable rule before it returned false                  *)
Reached(let, i, doc, user) ==
  /\ i \in Applicable(let, user)
  /\ \A j \in Applicable(let, user) :
       j < i => ~Throws(let[j], doc, user) /\ ~Grants(let[j], doc, user)

AccessThrows(let, doc, user) ==
  \E i \in DOMAIN let : Reached(let, i, doc, user) /\ Throws(let[i], doc, user)

(* A faulty variant: the conditions as alternatives, whatever their order  *)
AccessGrantedUnordered(let, doc, user) ==
  \E i \in Applicable(let, user) : Grants(let[i], doc, user)

AccessGranted(let, doc, user) ==
  \E i \in DOMAIN let : Reached(let, i, doc, user) /\ Grants(let[i], doc, user)

(* RolesGuard.canActivate over getRoles(action): nothing to check when the *)
(* action lists no rule, else one of the token's groups must be listed     *)
GuardPasses(let, groups) ==
  let = <<>> \/ \E i \in DOMAIN let : let[i].for \in groups

-----------------------------------------------------------------------------
(* applyListAccess throws for a rule without an `if`, and for a user       *)
(* without a record; otherwise the rule becomes one filter on the search   *)
ListThrows(rule, user) ==
  rule.form # "plain" /\ (rule.form # "if" \/ user[rule.for] = NoUser)

(* What the filter of a rule lets through: `if[role]` is the field that    *)
(* must hold the user's id, and without it the filter is on a field named  *)
(* "undefined", which no document has                                      *)
ListFilter(rule, doc, user) ==
  \/ rule.form = "plain"
  \/ rule.user = "own"  /\ doc.owner[rule.for] = user[rule.for]
  \/ rule.user = "peer" /\ doc.peer[rule.for]  = user[rule.for]

(* A faulty variant: every filter is an alternative                        *)
ListedByAny(let, doc, user) ==
  \E i \in Applicable(let, user) :
    ~ListThrows(let[i], user) /\ ListFilter(let[i], doc, user)

(* list: every applicable rule must yield a filter, the first one is used  *)
Listed(let, doc, user) ==
  /\ \A i \in Applicable(let, user) : ~ListThrows(let[i], user)
  /\ \E i \in Applicable(let, user) :
       /\ \A j \in Applicable(let, user) : i <= j
       /\ ListFilter(let[i], doc, user)
=============================================================================
