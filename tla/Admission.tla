----------------------------- MODULE Admission -----------------------------
(***************************************************************************)
(* A request on its way to its handler: JwtStrategy.validate, AuthService  *)
(* makes the user out of the token, the RolesGuard looks at the token, and *)
(* then the rules are judged (AccessDecision) on the user that was made.   *)
(*                                                                         *)
(* For each group the token leaves, the subject's record is looked up in   *)
(* the collection of that name.  The lookups run side by side and take     *)
(* their time, during which records come and go; one that fails counts as  *)
(* "no record".  The guard tests the groups of the token as they are, the  *)
(* rules see only the effective ones.                                      *)
(*                                                                         *)
(* Phases:  arrived -> refused | judging, and then the verdict             *)
(***************************************************************************)
EXTENDS AccessDecision, FiniteSets

CONSTANTS Groups,        \* what a token may name
          SystemGroups,  \* the three of Keycloak, which are no actors
          DefaultGroup,  \* DEFAULT_GROUP of the configuration
          Supported,     \* SUPPORTED_RESOURCES: the groups with a collection
          Tokens         \* the groups of the tokens there are

ASSUME AdmissionAssumption ==
  /\ Roles \subseteq Groups /\ Supported \subseteq Groups
  /\ Tokens \subseteq SUBSET Groups /\ IsFiniteSet(Groups)
  /\ SystemGroups \subseteq Groups /\ Cardinality(SystemGroups) = 3
  /\ Lets \subseteq Seq(Rule)
  /\ \A d \in Docs : d.state \in States

VARIABLES token,    \* the groups of the request's token
          phase,
          people,   \* the subject's record in each collection, now
          records,  \* those it has had since the request arrived
          lost      \* the groups whose lookup failed
request == <<token, phase, people, records, lost>>
vars == <<judgement, request>>

Record == UserIds \cup {NoUser}

TypeOK ==
  /\ let \in Seq(Rule) /\ doc \in Docs
  /\ at \in 1 .. Len(let) + 1 /\ verdict \in {"pending", "granted", "denied"}
  /\ token \in Tokens /\ phase \in {"arrived", "refused", "judging"}
  /\ DOMAIN user \subseteq Groups /\ user \in [DOMAIN user -> Record]
  /\ people \in [Supported -> Record]
  /\ records \subseteq Supported \X UserIds
  /\ lost \subseteq DOMAIN user

-----------------------------------------------------------------------------
(* A faulty variant of Dropped: the default group goes as soon as there is *)
(* anything besides the system groups (the comment of auth.service.ts:53,  *)
(* without its condition)                                                  *)
DroppedEarly(groups) ==
  SystemGroups \cup IF Cardinality(SystemGroups) < Cardinality(groups)
                    THEN {DefaultGroup} ELSE {}

(* otherGroups of getUserGroups: the default group is one of them when the *)
(* token has more than four groups                                         *)
Dropped(groups) ==
  SystemGroups \cup IF Cardinality(SystemGroups) + 1 < Cardinality(groups)
                    THEN {DefaultGroup} ELSE {}

Effective(groups) == groups \ Dropped(groups)

Init ==
  /\ let \in Lets /\ doc \in Docs /\ token \in Tokens
  /\ at = 1 /\ verdict = "pending" /\ phase = "arrived"
  /\ user = [g \in {} |-> NoUser] /\ lost = {}
  /\ people \in [Supported -> Record]
  /\ records = {gu \in Supported \X UserIds : people[gu[1]] = gu[2]}

(* validate returns false for a token without groups                       *)
Unauthorized ==
  /\ phase = "arrived" /\ token = {}
  /\ phase' = "refused"
  /\ UNCHANGED <<judgement, token, people, records, lost>>

Learn(g, r) ==
  user' = [h \in DOMAIN user \cup {g} |-> IF h = g THEN r ELSE user[h]]

Awaited == {g \in Effective(token) : phase = "arrived" /\ g \notin DOMAIN user}

(* A faulty variant of Lookup: the record of the group looked up before    *)
LookupAny(g) ==
  /\ g \in Awaited
  /\ \E r \in IF g \in Supported THEN Record ELSE {NoUser} : Learn(g, r)
  /\ UNCHANGED <<let, doc, at, verdict, request>>

(* getUserInfo: findOne({ authId }) answers; a group without a collection  *)
(* throws and is caught                                                    *)
Lookup(g) ==
  /\ g \in Awaited
  /\ Learn(g, IF g \in Supported THEN people[g] ELSE NoUser)
  /\ UNCHANGED <<let, doc, at, verdict, request>>

(* A faulty variant of LookupFails: the group is left out of the user      *)
LookupForgets(g) ==
  /\ g \in Awaited \cap Supported
  /\ lost' = lost \cup {g}
  /\ UNCHANGED <<judgement, token, phase, people, records>>

(* The database does not: the error is caught and stands for no record     *)
LookupFails(g) ==
  /\ g \in Awaited \cap Supported
  /\ Learn(g, NoUser)
  /\ lost' = lost \cup {g}
  /\ UNCHANGED <<let, doc, at, verdict, token, phase, people, records>>

(* The subject's record in a collection is created, deleted or another     *)
PeopleChange(g, r) ==
  /\ phase = "arrived" /\ people[g] # r
  /\ people' = [people EXCEPT ![g] = r]
  /\ records' = records \cup ({<<g, r>>} \cap (Supported \X UserIds))
  /\ UNCHANGED <<judgement, token, phase, lost>>

(* A faulty variant of Guard: every role listed must be among the groups   *)
GuardEvery ==
  /\ phase = "arrived" /\ token # {} /\ Awaited = {}
  /\ phase' = IF \A i \in DOMAIN let : let[i].for \in token
              THEN "judging" ELSE "refused"
  /\ UNCHANGED <<judgement, token, people, records, lost>>

(* RolesGuard.canActivate, once the user is there                          *)
Guard ==
  /\ phase = "arrived" /\ token # {} /\ Awaited = {}
  /\ phase' = IF GuardPasses(let, token) THEN "judging" ELSE "refused"
  /\ UNCHANGED <<judgement, token, people, records, lost>>

Judge == phase = "judging" /\ Judgement /\ UNCHANGED request

Progress == Unauthorized \/ (\E g \in Groups : Lookup(g)) \/ Guard \/ Judge

Next ==
  \/ Progress
  \/ \E g \in Groups : LookupFails(g)
  \/ \E g \in Supported, r \in Record : PeopleChange(g, r)

(* A lookup is answered in the end, and the rest is one go after another   *)
(* of the event loop; records need never change and lookups never fail     *)
Spec == Init /\ [][Next]_vars /\ WF_vars(Progress)

-----------------------------------------------------------------------------
(* Whoever is let in is so by a rule for one of the token's groups whose   *)
(* conditions hold on the document, and where the rule asks for the user's *)
(* own documents, the document names a record the user has had since the   *)
(* request arrived: not another group's, nor one of an earlier request     *)
(* (auth.service.ts:75, resource.accces.ts:89).                            *)
AdmissionJustified ==
  verdict = "granted" =>
    \E i \in Applicable(let, user) :
      /\ let[i].for \in token /\ Met(let[i])
      /\ let[i].form = "if" /\ let[i].user = "own" =>
           <<let[i].for, doc.owner[let[i].for]>> \in records

(* Leaving out the default group never leaves a user without a group: a    *)
(* token with a group of its own keeps one (auth.service.ts:54, the + 1).  *)
SomeGroupStays ==
  phase = "judging" /\ ~(token \subseteq SystemGroups) => DOMAIN user # {}

(* A failed lookup never lets in: had the lookups answered, with whatever  *)
(* records, the user would be let in as well (auth.service.ts:68 turns the *)
(* error into `undefined`).                                                *)
Answering(answers) ==
  [g \in DOMAIN user |-> IF g \in lost THEN answers[g] ELSE user[g]]
LookupLossFailsClosed ==
  verdict = "granted" =>
    \A answers \in [lost -> Record] : AccessGranted(let, doc, Answering(answers))

(* The guard, which sees the token's groups, keeps out nobody the rules,   *)
(* which see the effective ones, would let in (roles.guard.ts:27).         *)
GuardKeepsOutNobody ==
  phase = "refused" => \A d \in Docs : ~AccessGranted(let, d, user)

(* Every request is refused or judged to the end.                          *)
RequestDecided == <>(phase = "refused" \/ Decided)
=============================================================================
