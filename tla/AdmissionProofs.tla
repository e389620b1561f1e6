-------------------------- MODULE AdmissionProofs --------------------------
(***************************************************************************)
(* What holds of every request, for any tokens, groups, rule lists and     *)
(* documents.                                                              *)
(*                                                                         *)
(* The strengthening (Judging and Asked below) says what the loop has      *)
(* found out so far, and where the user's records come from: a rule behind *)
(* `at` neither threw nor granted; the groups of the user are the          *)
(* effective ones; a record is one the subject has had, and a group whose  *)
(* lookup failed has none.                                                 *)
(***************************************************************************)
EXTENDS Admission, FiniteSetTheorems, TLAPS

Judging ==
  /\ phase # "judging" => at = 1 /\ verdict = "pending"
  /\ verdict = "pending" =>
       \A i \in Applicable(let, user) :
         i < at => ~Throws(let[i], doc, user) /\ ~Grants(let[i], doc, user)
  /\ LoopAgrees

Asked ==
  /\ DOMAIN user \subseteq Effective(token)
  /\ phase = "judging" => DOMAIN user = Effective(token)
  /\ phase = "refused" => token = {} \/ ~GuardPasses(let, token)
  /\ \A g \in Supported : people[g] # NoUser => <<g, people[g]>> \in records
  /\ \A g \in DOMAIN user : user[g] # NoUser => <<g, user[g]>> \in records
  /\ \A g \in lost : user[g] = NoUser

IInv == TypeOK /\ Judging /\ Asked

-----------------------------------------------------------------------------
(* A record where there was none takes away no access (resource.accces.ts: *)
(* 54): a rule that grants without one does not look at the record.        *)
LEMMA RecordsOnlyHelp ==
  ASSUME NEW list, NEW d, NEW U, NEW V, DOMAIN U = DOMAIN V,
         \A g \in DOMAIN U : U[g] # NoUser => V[g] = U[g],
         AccessGranted(list, d, U)
  PROVE  AccessGranted(list, d, V)
<1>1. PICK i \in DOMAIN list : Reached(list, i, d, U) /\ Grants(list[i], d, U)
  BY DEF AccessGranted
<1>2. Applicable(list, U) = Applicable(list, V)
  BY DEF Applicable
<1>3. ASSUME NEW j \in Applicable(list, V), j < i
      PROVE  ~Throws(list[j], d, V) /\ ~Grants(list[j], d, V)
  <2>1. ~Throws(list[j], d, U) /\ ~Grants(list[j], d, U)
    BY <1>1, <1>2, <1>3 DEF Reached
  <2>2. list[j].form \notin {"plain", "tagged", "if"}
    BY <2>1 DEF Throws, Grants
  <2> QED  BY <2>2 DEF Throws, Grants
<1>4. Grants(list[i], d, V)
  <2>1. i \in Applicable(list, U)
    BY <1>1 DEF Reached
  <2>2. list[i].for \in DOMAIN U
    BY <2>1 DEF Applicable
  <2> QED  BY <1>1, <2>2 DEF Grants, ConditionFails
<1> QED  BY <1>1, <1>2, <1>3, <1>4 DEF AccessGranted, Reached

(* A list of rules about ownership alone is settled by its first applicable *)
(* rule, whether it is evaluated on a document or made into a filter        *)
(* (resource.service.ts:101, resource.accces.ts:22).                        *)
LEMMA OwnershipSettles ==
  ASSUME NEW list, NEW d, NEW U, DOMAIN list \subseteq Nat, d.state \in States,
         \A i \in DOMAIN list :
           list[i].form = "plain" \/ (list[i].form = "if" /\ list[i].user = "own"
                                      /\ list[i].states = States),
         \A i \in Applicable(list, U) : U[list[i].for] # NoUser
  PROVE  AccessGranted(list, d, U) = Listed(list, d, U)
<1>1. ASSUME NEW i \in Applicable(list, U)
      PROVE  /\ Throws(list[i], d, U) \/ Grants(list[i], d, U)
             /\ Grants(list[i], d, U) <=> ListFilter(list[i], d, U)
             /\ ~ListThrows(list[i], U)
  <2>1. /\ i \in DOMAIN list /\ U[list[i].for] # NoUser
        /\ list[i].form = "plain" \/ (list[i].form = "if" /\ list[i].user = "own"
                                      /\ list[i].states = States)
    BY <1>1 DEF Applicable
  <2> QED  BY <2>1 DEF Throws, Grants, ConditionFails, ListFilter, ListThrows
<1>2. ASSUME NEW i \in DOMAIN list
      PROVE  Reached(list, i, d, U) <=>
               i \in Applicable(list, U) /\ \A j \in Applicable(list, U) : i <= j
  <2>1. \A j \in Applicable(list, U) : j \in Nat
    BY DEF Applicable
  <2>2. Reached(list, i, d, U) <=>
          i \in Applicable(list, U) /\ \A j \in Applicable(list, U) : ~(j < i)
    BY <1>1 DEF Reached
  <2> QED  BY <2>1, <2>2
<1>3. ASSUME AccessGranted(list, d, U) PROVE Listed(list, d, U)
  BY <1>1, <1>2, <1>3 DEF AccessGranted, Listed
<1>4. ASSUME Listed(list, d, U) PROVE AccessGranted(list, d, U)
  <2>1. PICK i \in Applicable(list, U) :
          (\A j \in Applicable(list, U) : i <= j) /\ ListFilter(list[i], d, U)
    BY <1>4 DEF Listed
  <2>2. i \in DOMAIN list
    BY DEF Applicable
  <2> QED  BY <1>1, <1>2, <2>1, <2>2 DEF AccessGranted
<1> QED  BY <1>3, <1>4 DEF AccessGranted, Listed

(* The default group is left out only where another group remains          *)
(* (auth.service.ts:54).                                                   *)
LEMMA EffectiveRemains ==
  ASSUME NEW T \in SUBSET Groups, ~(T \subseteq SystemGroups)
  PROVE  Effective(T) # {}
<1> SUFFICES ASSUME Effective(T) = {} PROVE FALSE
  OBVIOUS
<1>1. IsFiniteSet(SystemGroups) /\ IsFiniteSet(T) /\ Cardinality(SystemGroups) = 3
  BY AdmissionAssumption, FS_Subset
<1>2. CASE Cardinality(SystemGroups) + 1 < Cardinality(T)
  <2> DEFINE D == SystemGroups \cup {DefaultGroup}
  <2>1. T \subseteq D
    BY <1>2 DEF Effective, Dropped
  <2>2. IsFiniteSet(D) /\ Cardinality(D) \in {3, 4}
    BY <1>1, FS_AddElement
  <2>3. Cardinality(T) <= Cardinality(D) /\ Cardinality(T) \in Nat
    BY <1>1, <2>1, <2>2, FS_Subset, FS_CardinalityType
  <2> QED  BY <1>1, <1>2, <2>2, <2>3
<1>3. CASE ~(Cardinality(SystemGroups) + 1 < Cardinality(T))
  BY <1>3 DEF Effective, Dropped
<1> QED  BY <1>2, <1>3

-----------------------------------------------------------------------------
LEMMA InitHolds == Init => IInv
<1> SUFFICES ASSUME Init PROVE IInv
  OBVIOUS
<1>1. let \in Seq(Rule) /\ Len(let) \in Nat
  BY AdmissionAssumption DEF Init
<1>2. TypeOK
  BY <1>1 DEF Init, TypeOK, Record
<1>3. Judging
  BY <1>1 DEF Init, Judging, LoopAgrees, Decided, Applicable
<1>4. Asked
  BY DEF Init, Asked, Record
<1> QED  BY <1>2, <1>3, <1>4 DEF IInv

(* The user grows by one group; the judgement has not begun                *)
LEMMA LearnStep ==
  ASSUME IInv, NEW g \in Awaited, NEW r \in Record, Learn(g, r),
         UNCHANGED <<let, doc, at, verdict, token, phase, people, records>>
  PROVE  /\ Judging'
         /\ DOMAIN user' \subseteq Groups /\ user' \in [DOMAIN user' -> Record]
         /\ DOMAIN user' \subseteq Effective(token)
         /\ user'[g] = r /\ g \notin DOMAIN user /\ phase = "arrived"
         /\ \A h \in DOMAIN user : user'[h] = user[h]
         /\ DOMAIN user' = DOMAIN user \cup {g}
<1>1. g \in Effective(token) /\ g \notin DOMAIN user /\ phase = "arrived"
  BY DEF Awaited
<1>2. Effective(token) \subseteq Groups
  BY AdmissionAssumption DEF IInv, TypeOK, Effective
<1>3. at = 1 /\ verdict = "pending"
  BY <1>1 DEF IInv, Judging
<1>4. Judging'
  BY <1>3 DEF Judging, LoopAgrees, Decided, Applicable, IInv, TypeOK
<1> QED  BY <1>1, <1>2, <1>4 DEF Learn, IInv, TypeOK, Asked

LEMMA LookupStep ==
  ASSUME IInv, NEW g \in Groups, Lookup(g) PROVE IInv'
<1> DEFINE r == IF g \in Supported THEN people[g] ELSE NoUser
<1>1. g \in Awaited /\ Learn(g, r)
      /\ UNCHANGED <<let, doc, at, verdict, token, phase, people, records, lost>>
  BY DEF Lookup, request
<1>2. r \in Record /\ (r # NoUser => <<g, r>> \in records)
  BY DEF IInv, TypeOK, Asked, Record
<1> HIDE DEF r
<1>3. /\ Judging'
      /\ DOMAIN user' \subseteq Groups /\ user' \in [DOMAIN user' -> Record]
      /\ DOMAIN user' \subseteq Effective(token)
      /\ user'[g] = r /\ g \notin DOMAIN user /\ phase = "arrived"
      /\ \A h \in DOMAIN user : user'[h] = user[h]
      /\ DOMAIN user' = DOMAIN user \cup {g}
  BY <1>1, <1>2, LearnStep
<1>4. TypeOK'
  BY <1>1, <1>3 DEF IInv, TypeOK
<1>5. Asked'
  BY <1>1, <1>2, <1>3 DEF IInv, TypeOK, Asked, Effective, Dropped, GuardPasses
<1> QED  BY <1>3, <1>4, <1>5 DEF IInv

LEMMA LookupFailsStep ==
  ASSUME IInv, NEW g \in Groups, LookupFails(g) PROVE IInv'
<1>1. g \in Awaited /\ Learn(g, NoUser) /\ lost' = lost \cup {g}
      /\ UNCHANGED <<let, doc, at, verdict, token, phase, people, records>>
  BY DEF LookupFails
<1>2. NoUser \in Record
  BY DEF Record
<1>3. /\ Judging'
      /\ DOMAIN user' \subseteq Groups /\ user' \in [DOMAIN user' -> Record]
      /\ DOMAIN user' \subseteq Effective(token)
      /\ user'[g] = NoUser /\ g \notin DOMAIN user /\ phase = "arrived"
      /\ \A h \in DOMAIN user : user'[h] = user[h]
      /\ DOMAIN user' = DOMAIN user \cup {g}
  BY <1>1, <1>2, LearnStep
<1>4. TypeOK'
  BY <1>1, <1>3 DEF IInv, TypeOK
<1>5. Asked'
  BY <1>1, <1>3 DEF IInv, TypeOK, Asked, Effective, Dropped, GuardPasses
<1> QED  BY <1>3, <1>4, <1>5 DEF IInv

LEMMA PeopleChangeStep ==
  ASSUME IInv, NEW g \in Supported, NEW r \in Record, PeopleChange(g, r) PROVE IInv'
<1>1. /\ people' = [people EXCEPT ![g] = r]
      /\ records' = records \cup ({<<g, r>>} \cap (Supported \X UserIds))
      /\ UNCHANGED <<let, doc, user, at, verdict, token, phase, lost>>
  BY DEF PeopleChange, judgement
<1>2. TypeOK'
  BY <1>1 DEF IInv, TypeOK
<1>3. Judging'
  BY <1>1 DEF IInv, Judging, LoopAgrees, Decided
<1>4. \A h \in Supported : people'[h] # NoUser => <<h, people'[h]>> \in records'
  BY <1>1 DEF IInv, TypeOK, Asked, Record
<1>5. Asked'
  BY <1>1, <1>4 DEF IInv, Asked, Effective, Dropped, GuardPasses
<1> QED  BY <1>2, <1>3, <1>5 DEF IInv

(* Only the phase changes: the request is refused, or past the guard       *)
LEMMA PhaseStep ==
  ASSUME IInv, Unauthorized \/ Guard PROVE IInv'
<1>1. /\ phase = "arrived" /\ phase' \in {"refused", "judging"}
      /\ UNCHANGED <<let, doc, user, at, verdict, token, people, records, lost>>
  BY DEF Unauthorized, Guard, judgement
<1>2. /\ phase' = "refused" => token = {} \/ ~GuardPasses(let, token)
      /\ phase' = "judging" => Awaited = {}
  BY DEF Unauthorized, Guard
<1>3. TypeOK'
  BY <1>1 DEF IInv, TypeOK
<1>4. Judging'
  BY <1>1 DEF IInv, Judging, LoopAgrees, Decided
<1>5. phase' = "judging" => DOMAIN user = Effective(token)
  BY <1>1, <1>2 DEF IInv, Asked, Awaited
<1>6. Asked'
  BY <1>1, <1>2, <1>5 DEF IInv, Asked, Effective, Dropped, GuardPasses
<1> QED  BY <1>3, <1>4, <1>6 DEF IInv

LEMMA JudgeStep ==
  ASSUME IInv, Judge PROVE IInv'
<1>1. /\ phase = "judging" /\ verdict = "pending"
      /\ UNCHANGED <<let, doc, user, token, phase, people, records, lost>>
  BY DEF Judge, Judgement, Skip, Evaluate, Exhaust, request
<1>2. Asked'
  BY <1>1 DEF IInv, Asked, Effective, Dropped, GuardPasses
<1>3. let \in Seq(Rule) /\ Len(let) \in Nat /\ DOMAIN let = 1 .. Len(let)
      /\ at \in 1 .. Len(let) + 1
  BY DEF IInv, TypeOK
<1>4. \A i \in Applicable(let, user) :
        i < at => ~Throws(let[i], doc, user) /\ ~Grants(let[i], doc, user)
  BY <1>1 DEF IInv, Judging
<1>5. Applicable(let, user) \subseteq 1 .. Len(let)
  BY <1>3 DEF Applicable
<1>6. CASE Skip
  <2>1. at' = at + 1 /\ at <= Len(let) /\ verdict' = "pending" /\ at \notin Applicable(let, user)
    BY <1>1, <1>6 DEF Skip, Applicable
  <2>2. TypeOK'
    BY <1>1, <1>3, <2>1 DEF IInv, TypeOK
  <2>3. \A i \in Applicable(let, user) : i < at' => i < at
    BY <1>3, <1>5, <2>1
  <2>4. Judging'
    BY <1>1, <1>4, <2>1, <2>3 DEF Judging, LoopAgrees, Decided
  <2> QED  BY <1>2, <2>2, <2>4 DEF IInv
<1>7. CASE Evaluate
  <2>1. /\ at' = at + 1 /\ at <= Len(let) /\ at \in Applicable(let, user)
        /\ verdict' = CASE Throws(let[at], doc, user) -> "denied"
                        [] Grants(let[at], doc, user) -> "granted"
                        [] OTHER -> "pending"
    BY <1>3, <1>7 DEF Evaluate, Applicable
  <2>2. Reached(let, at, doc, user)
    BY <1>4, <2>1 DEF Reached
  <2>3. Throws(let[at], doc, user) => ~Grants(let[at], doc, user)
    BY DEF Throws, Grants
  <2>4. TypeOK'
    BY <1>1, <1>3, <2>1, <2>3 DEF IInv, TypeOK
  <2>5. \A i \in Applicable(let, user) : i < at' => i < at \/ i = at
    BY <1>3, <1>5, <2>1
  <2>6. CASE Throws(let[at], doc, user)
    <3>1. verdict' = "denied"
      BY <2>1, <2>3, <2>6
    <3>2. ~AccessGranted(let, doc, user)
      <4> SUFFICES ASSUME NEW i \in DOMAIN let, Reached(let, i, doc, user),
                          Grants(let[i], doc, user)
                   PROVE  FALSE
        BY DEF AccessGranted
      <4>1. i \in Applicable(let, user) /\ i \in Nat /\ at \in Nat
        BY <1>3, <1>5 DEF Reached
      <4>2. ~(at < i)
        BY <2>1, <2>6 DEF Reached
      <4>3. ~(i < at)
        BY <1>4, <4>1
      <4>4. i = at
        BY <4>1, <4>2, <4>3
      <4> QED  BY <2>3, <2>6, <4>4
    <3>3. AccessGranted(let, doc, user) \in BOOLEAN
      BY DEF AccessGranted
    <3> QED  BY <1>1, <1>2, <2>4, <3>1, <3>2, <3>3 DEF IInv, Judging, LoopAgrees, Decided
  <2>7. CASE Grants(let[at], doc, user)
    <3>1. verdict' = "granted" /\ AccessGranted(let, doc, user)
      BY <1>3, <2>1, <2>2, <2>3, <2>7 DEF AccessGranted
    <3> QED  BY <1>1, <1>2, <2>4, <3>1 DEF IInv, Judging, LoopAgrees, Decided
  <2>8. CASE ~Throws(let[at], doc, user) /\ ~Grants(let[at], doc, user)
    <3>1. verdict' = "pending"
      BY <2>1, <2>8
    <3>2. Judging'
      BY <1>1, <1>4, <2>5, <2>8, <3>1 DEF Judging, LoopAgrees, Decided
    <3> QED  BY <1>2, <2>4, <3>2 DEF IInv
  <2> QED  BY <2>6, <2>7, <2>8
<1>8. CASE Exhaust
  <2>1. at = Len(let) + 1 /\ at' = at /\ verdict' = "denied"
    BY <1>8 DEF Exhaust
  <2>2. ~AccessGranted(let, doc, user)
    BY <1>3, <1>4, <1>5, <2>1 DEF AccessGranted, Reached
  <2>3. AccessGranted(let, doc, user) \in BOOLEAN
    BY DEF AccessGranted
  <2>4. TypeOK'
    BY <1>1, <1>3, <2>1 DEF IInv, TypeOK
  <2>5. Judging'
    BY <1>1, <2>1, <2>2, <2>3 DEF Judging, LoopAgrees, Decided
  <2> QED  BY <1>2, <2>4, <2>5 DEF IInv
<1> QED  BY <1>6, <1>7, <1>8 DEF Judge, Judgement

LEMMA StepHolds == IInv /\ [Next]_vars => IInv'
<1> SUFFICES ASSUME IInv, [Next]_vars PROVE IInv'
  OBVIOUS
<1>1. CASE Unauthorized \/ Guard
  BY <1>1, PhaseStep
<1>2. ASSUME NEW g \in Groups, Lookup(g) PROVE IInv'
  BY <1>2, LookupStep
<1>3. CASE Judge
  BY <1>3, JudgeStep
<1>4. ASSUME NEW g \in Groups, LookupFails(g) PROVE IInv'
  BY <1>4, LookupFailsStep
<1>5. ASSUME NEW g \in Supported, NEW r \in Record, PeopleChange(g, r) PROVE IInv'
  BY <1>5, PeopleChangeStep
<1>6. CASE UNCHANGED vars
  <2>1. UNCHANGED <<let, doc, user, at, verdict, token, phase, people, records, lost>>
    BY <1>6 DEF vars, judgement, request
  <2>2. TypeOK'
    BY <2>1 DEF IInv, TypeOK
  <2>3. Judging'
    BY <2>1 DEF IInv, Judging, LoopAgrees, Decided
  <2>4. Asked'
    BY <2>1 DEF IInv, Asked, Effective, Dropped, GuardPasses
  <2> QED  BY <2>2, <2>3, <2>4 DEF IInv
<1> QED  BY <1>1, <1>2, <1>3, <1>4, <1>5, <1>6 DEF Next, Progress

LEMMA Inductive == Spec => []IInv
<1> QED  BY InitHolds, StepHolds, PTL DEF Spec

-----------------------------------------------------------------------------
(* Every state is of the expected shape; in particular `at` never leaves   *)
(* the list and the user has only groups of the token.                     *)
THEOREM TypeCorrect == Spec => []TypeOK
<1>1. IInv => TypeOK
  BY DEF IInv
<1> QED  BY <1>1, Inductive, PTL

(* The evaluation of the rules one by one, for a list of any length,       *)
(* decides what AccessGranted says (resource.accces.ts:22).                *)
THEOREM LoopAgreesAlways == Spec => []LoopAgrees
<1>1. IInv => LoopAgrees
  BY DEF IInv, Judging
<1> QED  BY <1>1, Inductive, PTL

(* Nobody is let in without a rule that is met, for a group of the token   *)
(* and, where the rule is about ownership, by a record the subject had     *)
(* while the request was on its way (resource.accces.ts:89).               *)
THEOREM AdmissionJustifiedAlways == Spec => []AdmissionJustified
<1>1. IInv => AdmissionJustified
  <2> SUFFICES ASSUME IInv, verdict = "granted" PROVE
        \E i \in Applicable(let, user) :
          /\ let[i].for \in token /\ Met(let[i])
          /\ let[i].form = "if" /\ let[i].user = "own" =>
               <<let[i].for, doc.owner[let[i].for]>> \in records
    BY DEF AdmissionJustified
  <2>1. AccessGranted(let, doc, user)
    BY DEF IInv, Judging, LoopAgrees, Decided
  <2>2. PICK i \in DOMAIN let : Reached(let, i, doc, user) /\ Grants(let[i], doc, user)
    BY <2>1 DEF AccessGranted
  <2>3. i \in Applicable(let, user) /\ let[i].for \in DOMAIN user
    BY <2>2 DEF Reached, Applicable
  <2>4. let[i].for \in token
    BY <2>3 DEF IInv, Asked, Effective
  <2>5. ASSUME let[i].form = "if", let[i].user = "own"
        PROVE  <<let[i].for, doc.owner[let[i].for]>> \in records
    <3>1. ~ConditionFails(let[i], doc, user)
      BY <2>2, <2>5 DEF Grants
    <3>2. user[let[i].for] # NoUser /\ doc.owner[let[i].for] = user[let[i].for]
      BY <2>5, <3>1 DEF ConditionFails
    <3> QED  BY <2>3, <3>2 DEF IInv, Asked
  <2> QED  BY <2>2, <2>3, <2>4, <2>5 DEF Met
<1> QED  BY <1>1, Inductive, PTL

(* What a user finds in a list is what the user may read, for rule lists   *)
(* about ownership of any length (resource.service.ts:101).                *)
THEOREM ListMatchesGetAlways == Spec => []ListMatchesGet
<1>1. IInv => ListMatchesGet
  <2> SUFFICES ASSUME IInv, Decided, OwnershipOnly,
                      \A i \in Applicable(let, user) : user[let[i].for] # NoUser
               PROVE  (verdict = "granted") = Listed(let, doc, user)
    BY DEF ListMatchesGet
  <2>1. DOMAIN let \subseteq Nat /\ doc.state \in States
    BY AdmissionAssumption DEF IInv, TypeOK
  <2>2. AccessGranted(let, doc, user) = Listed(let, doc, user)
    BY <2>1, OwnershipSettles DEF OwnershipOnly
  <2> QED  BY <2>2 DEF IInv, Judging, LoopAgrees
<1> QED  BY <1>1, Inductive, PTL

(* Whatever the system groups and the default group are, a user with a     *)
(* group of its own is judged with at least one (auth.service.ts:54).      *)
THEOREM SomeGroupStaysAlways == Spec => []SomeGroupStays
<1>1. IInv => SomeGroupStays
  <2> SUFFICES ASSUME IInv, phase = "judging", ~(token \subseteq SystemGroups)
               PROVE  DOMAIN user # {}
    BY DEF SomeGroupStays
  <2>1. token \in SUBSET Groups
    BY AdmissionAssumption DEF IInv, TypeOK
  <2>2. DOMAIN user = Effective(token)
    BY DEF IInv, Asked
  <2> QED  BY <2>1, <2>2, EffectiveRemains
<1> QED  BY <1>1, Inductive, PTL

(* A lookup that failed opens nothing the user's record would have closed, *)
(* for rule lists of any length and any records (auth.service.ts:68).      *)
THEOREM LookupLossFailsClosedAlways == Spec => []LookupLossFailsClosed
<1>1. IInv => LookupLossFailsClosed
  <2> SUFFICES ASSUME IInv, verdict = "granted", NEW answers \in [lost -> Record]
               PROVE  AccessGranted(let, doc, Answering(answers))
    BY DEF LookupLossFailsClosed
  <2>1. AccessGranted(let, doc, user)
    BY DEF IInv, Judging, LoopAgrees, Decided
  <2>2. DOMAIN user = DOMAIN Answering(answers)
    BY DEF Answering
  <2>3. \A g \in DOMAIN user : user[g] # NoUser => Answering(answers)[g] = user[g]
    BY DEF IInv, Asked, Answering
  <2> QED  BY <2>1, <2>2, <2>3, RecordsOnlyHelp
<1> QED  BY <1>1, Inductive, PTL

(* The guard in front of the handlers never refuses a request the rules    *)
(* would grant, whichever document it is about (roles.guard.ts:27).        *)
THEOREM GuardKeepsOutNobodyAlways == Spec => []GuardKeepsOutNobody
<1>1. IInv => GuardKeepsOutNobody
  <2> SUFFICES ASSUME IInv, phase = "refused", NEW d \in Docs,
                      AccessGranted(let, d, user)
               PROVE  FALSE
    BY DEF GuardKeepsOutNobody
  <2>1. PICK i \in DOMAIN let : i \in Applicable(let, user)
    BY DEF AccessGranted, Reached
  <2>2. let[i].for \in token
    BY <2>1 DEF Applicable, IInv, Asked, Effective
  <2> QED  BY <2>1, <2>2 DEF IInv, Asked, GuardPasses
<1> QED  BY <1>1, Inductive, PTL
=============================================================================
