---------------------------- MODULE AccessProofs ----------------------------
(* What a list of access rules comes to, for lists of any length: when its *)
(* conditions are the alternatives the documentation calls them, and when  *)
(* their order decides.                                                    *)
EXTENDS Access, FiniteSetTheorems, TLAPS

(* A finite set of numbers has a first one.  Among the sets of those that  *)
(* come before a member one is minimal, and it must be empty.              *)
LEMMA FirstOne ==
  ASSUME NEW T, T \subseteq Nat, IsFiniteSet(T), T # {}
  PROVE  \E i \in T : \A j \in T : i <= j
<1> DEFINE Before(t) == {y \in T : y < t}
           Befores == {Before(t) : t \in T}
<1>1. IsWellFoundedOn(StrictSubsetOrdering(T), SUBSET T)
  BY FS_StrictSubsetOrderingWellFounded, FS_FiniteSubsetsOfFinite
<1>2. Befores \subseteq SUBSET T /\ Befores # {}
  OBVIOUS
<1>3. PICK B \in Befores : \A C \in Befores : ~(<<C, B>> \in StrictSubsetOrdering(T))
  <2> HIDE DEF Befores
  <2> QED
    BY <1>1, <1>2, WFMin
<1>4. PICK i \in T : B = Before(i)
  OBVIOUS
<1>5. ASSUME NEW j \in T, j < i
      PROVE  FALSE
  <2>1. j \in Before(i) /\ j \notin Before(j)
    BY <1>5
  <2>2. Before(j) \subseteq Before(i)
    <3>1. \A y \in T : y < j => y < i
      BY <1>5
    <3> QED
      BY <3>1
  <2>3. <<Before(j), B>> \in StrictSubsetOrdering(T)
    BY <1>4, <2>1, <2>2 DEF StrictSubsetOrdering
  <2> QED
    BY <1>3, <2>3
<1> QED
  BY <1>5

LEMMA RulesAreFinite ==
  ASSUME NEW let \in Seq(Rule), NEW T \in SUBSET (DOMAIN let)
  PROVE  T \subseteq Nat /\ IsFiniteSet(T)
<1>1. DOMAIN let = 1 .. Len(let) /\ Len(let) \in Nat
  OBVIOUS
<1>2. IsFiniteSet(1 .. Len(let))
  BY <1>1, FS_Interval
<1> QED
  BY <1>1, <1>2, FS_Subset

Decides(rule, doc, user) == Throws(rule, doc, user) \/ Grants(rule, doc, user)

(* The first applicable rule that throws or grants is the one that counts. *)
LEMMA FirstDecides ==
  ASSUME NEW let \in Seq(Rule), NEW doc, NEW user,
         NEW k \in Applicable(let, user), Decides(let[k], doc, user)
  PROVE  \E i \in DOMAIN let : Reached(let, i, doc, user) /\ Decides(let[i], doc, user)
<1> DEFINE T == {i \in Applicable(let, user) : Decides(let[i], doc, user)}
<1>1. T \in SUBSET (DOMAIN let) /\ T # {}
  BY DEF Applicable
<1>2. T \subseteq Nat /\ IsFiniteSet(T)
  BY <1>1, RulesAreFinite
<1>3. PICK i \in T : \A j \in T : i <= j
  <2> HIDE DEF T
  <2> QED
    BY <1>1, <1>2, FirstOne
<1>4. ASSUME NEW j \in Applicable(let, user), j < i
      PROVE  ~Decides(let[j], doc, user)
  <2>1. j \in DOMAIN let /\ i \in DOMAIN let
    BY DEF Applicable
  <2> QED
    BY <1>3, <1>4, <2>1
<1> QED
  BY <1>3, <1>4 DEF Reached, Decides, Applicable

(* verifyAccess either grants, throws or returns false: never two of them  *)
(* (resource.accces.ts:22-52).                                             *)
LEMMA GrantsOrThrows ==
  ASSUME NEW let \in Seq(Rule), NEW doc, NEW user
  PROVE  ~(AccessGranted(let, doc, user) /\ AccessThrows(let, doc, user))
<1> SUFFICES ASSUME NEW i \in DOMAIN let, NEW j \in DOMAIN let,
                    Reached(let, i, doc, user), Grants(let[i], doc, user),
                    Reached(let, j, doc, user), Throws(let[j], doc, user)
             PROVE  FALSE
  BY DEF AccessGranted, AccessThrows
<1>1. i \in Nat /\ j \in Nat
  OBVIOUS
<1>2. ~(i < j) /\ ~(j < i)
  BY DEF Reached
<1>3. i = j
  BY <1>1, <1>2
<1> QED
  BY <1>3 DEF Grants, Throws

(* A user with an applicable rule that decides is let in exactly when      *)
(* nothing is thrown (resource.accces.ts:22-52).                           *)
THEOREM DecidedIsGrantedOrThrown ==
  ASSUME NEW let \in Seq(Rule), NEW doc, NEW user,
         \E k \in Applicable(let, user) : Decides(let[k], doc, user)
  PROVE  AccessGranted(let, doc, user) <=> ~AccessThrows(let, doc, user)
<1>1. PICK i \in DOMAIN let : Reached(let, i, doc, user) /\ Decides(let[i], doc, user)
  BY FirstDecides
<1>2. AccessGranted(let, doc, user) \/ AccessThrows(let, doc, user)
  BY <1>1 DEF Decides, AccessGranted, AccessThrows
<1> QED
  BY <1>2, GrantsOrThrows DEF AccessGranted, AccessThrows

(* README.md:252, "at least one condition is met then the action is        *)
(* allowed": so it is if no applicable rule's condition fails.  A rule     *)
(* that fails takes the request away from those behind it                  *)
(* (resource.accces.ts:27, 54-87).                                         *)
THEOREM AlternativesUnlessThrown ==
  ASSUME NEW let \in Seq(Rule), NEW doc, NEW user,
         \A i \in Applicable(let, user) : ~Throws(let[i], doc, user)
  PROVE  AccessGranted(let, doc, user) <=> AccessGrantedUnordered(let, doc, user)
<1>1. ASSUME AccessGranted(let, doc, user)
      PROVE  AccessGrantedUnordered(let, doc, user)
  BY <1>1 DEF AccessGranted, AccessGrantedUnordered, Reached
<1>2. ASSUME NEW k \in Applicable(let, user), Grants(let[k], doc, user)
      PROVE  AccessGranted(let, doc, user)
  <2>1. PICK i \in DOMAIN let : Reached(let, i, doc, user) /\ Decides(let[i], doc, user)
    BY <1>2, FirstDecides DEF Decides
  <2> QED
    BY <2>1 DEF Decides, AccessGranted, Reached
<1> QED
  BY <1>1, <1>2 DEF AccessGrantedUnordered, AccessGranted

(* The order of the rules takes access away and never gives any: whoever   *)
(* is let in meets a condition of an applicable rule.                      *)
THEOREM OrderOnlyTakesAway ==
  ASSUME NEW let, NEW doc, NEW user, AccessGranted(let, doc, user)
  PROVE  AccessGrantedUnordered(let, doc, user)
BY DEF AccessGranted, AccessGrantedUnordered, Reached

(* A rule added at the end of a list takes no access away; one added in    *)
(* front may (resource.accces.ts:27).                                      *)
THEOREM AppendingTakesNothingAway ==
  ASSUME NEW let \in Seq(Rule), NEW rule \in Rule, NEW doc, NEW user,
         AccessGranted(let, doc, user)
  PROVE  AccessGranted(Append(let, rule), doc, user)
<1> DEFINE more == Append(let, rule)
<1>1. /\ DOMAIN let = 1 .. Len(let) /\ Len(let) \in Nat
      /\ DOMAIN more = 1 .. (Len(let) + 1)
      /\ \A i \in DOMAIN let : more[i] = let[i]
  OBVIOUS
<1>2. PICK i \in DOMAIN let : Reached(let, i, doc, user) /\ Grants(let[i], doc, user)
  BY DEF AccessGranted
<1>3. ASSUME NEW j \in Applicable(more, user), j < i
      PROVE  j \in Applicable(let, user) /\ more[j] = let[j]
  BY <1>1, <1>3 DEF Applicable
<1>4. i \in DOMAIN more /\ i \in Applicable(more, user) /\ more[i] = let[i]
  BY <1>1, <1>2 DEF Reached, Applicable
<1>5. AccessGranted(more, doc, user)
  <2> HIDE DEF more
  <2> QED
    BY <1>2, <1>3, <1>4 DEF Reached, AccessGranted
<1> QED
  BY <1>5
=============================================================================
