--------------------------- MODULE AccessDecision ---------------------------
(***************************************************************************)
(* The judgement of one request, rule by rule, as the `some` of            *)
(* verifyAccess runs it: `at` is the rule to be looked at, `verdict` what  *)
(* grantGetResourceAccess makes of it.                                     *)
(***************************************************************************)
EXTENDS Access

CONSTANTS Lets,      \* the `let` lists an API definition may have
          Docs       \* the documents a request may be about

VARIABLES let, doc, user, at, verdict
judgement == <<let, doc, user, at, verdict>>

(* getActualUserRoles: a rule for a group the user does not have is no     *)
(* part of the evaluation                                                  *)
Skip ==
  /\ verdict = "pending" /\ at <= Len(let)
  /\ let[at].for \notin DOMAIN user
  /\ at' = at + 1
  /\ UNCHANGED <<let, doc, user, verdict>>

(* verifyAccessRules on the next applicable rule                           *)
Evaluate ==
  /\ verdict = "pending" /\ at <= Len(let)
  /\ let[at].for \in DOMAIN user
  /\ at' = at + 1
  /\ verdict' = CASE Throws(let[at], doc, user) -> "denied"
                  [] Grants(let[at], doc, user) -> "granted"
                  [] OTHER -> "pending"
  /\ UNCHANGED <<let, doc, user>>

(* A faulty variant of Exhaust: it is never taken for a list with rules    *)
ExhaustEarly ==
  /\ verdict = "pending" /\ at = Len(let) /\ let = <<>>
  /\ verdict' = "denied"
  /\ UNCHANGED <<let, doc, user, at>>

(* grantGetResourceAccess: no applicable rule, or none that granted        *)
Exhaust ==
  /\ verdict = "pending" /\ at = Len(let) + 1
  /\ verdict' = "denied"
  /\ UNCHANGED <<let, doc, user, at>>

Judgement == Skip \/ Evaluate \/ Exhaust

Decided == verdict # "pending"

-----------------------------------------------------------------------------
(* What the endpoint rules are meant to say, without the order of          *)
(* evaluation: a rule is met when its conditions hold                      *)
Met(rule) == Grants(rule, doc, user)

(* A rule list about ownership alone: every rule is a role name or an `if` *)
(* on the user's own id                                                    *)
OwnershipOnly ==
  \A i \in DOMAIN let :
    let[i].form = "plain" \/ (let[i].form = "if" /\ let[i].user = "own"
                              /\ let[i].states = States)

(* The loop decides what AccessGranted and AccessThrows say it does, for   *)
(* every list, document and user: the operators the services are modelled  *)
(* with summarise verifyAccess (resource.accces.ts:22).                    *)
LoopAgrees ==
  Decided => (verdict = "granted") = AccessGranted(let, doc, user)

(* Two paths judge the same rules: list turns them into a search filter    *)
(* (resource.service.ts:101), get evaluates them on the document           *)
(* (resource.service.ts:97).  For lists about ownership alone they agree:  *)
(* a document is listed exactly when it may be read, provided the user has *)
(* a record for each of the groups the rules name.                         *)
ListMatchesGet ==
  Decided /\ OwnershipOnly
          /\ (\A i \in Applicable(let, user) : user[let[i].for] # NoUser)
    => (verdict = "granted") = Listed(let, doc, user)
=============================================================================
