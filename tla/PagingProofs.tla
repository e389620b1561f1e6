---------------------------- MODULE PagingProofs ----------------------------
(* What a walk through a changing collection returns, for any collection,  *)
(* any page size and any number of changes.                                *)
EXTENDS Paging, FiniteSetTheorems, TLAPS

(* An item the end of the walk may leave out                               *)
Excused(i) ==
  kind # "s3" /\ (items[i] \in stops \/ items[i] = Missing \/ kind = "date")

(* Nothing has been returned before the first page                         *)
Fresh == phase = "start" => returned = {} /\ again = {} /\ ~restarted

Unique == kind = "s3" => Names(items)

(* What is still to come lies behind the cursor ...                        *)
Ahead == phase = "walking" /\ ~restarted =>
           \A i \in steady \ returned : Unbound \/ Behind(items[i]) \/ Excused(i)

(* ... and what has come does not                                          *)
Passed == phase = "walking" /\ ~restarted =>
            \A i \in steady \cap returned : ~Behind(items[i])

Walked == TypeOK /\ Fresh /\ Unique /\ Ahead /\ Passed /\ NoRepeats /\ NothingSkipped

-----------------------------------------------------------------------------
(* The first n items of all, when all there are fit in, are all            *)
LEMMA WholeSubset ==
  ASSUME NEW S, IsFiniteSet(S), NEW P \in SUBSET S, Cardinality(P) = Cardinality(S)
  PROVE  P = S
  BY FS_Subset

(* What a page is: a first part of what can be returned, and all of it     *)
(* when the client is told that there is no more                           *)
FirstOf(page, more) ==
  /\ page \subseteq Eligible
  /\ \A p \in page, e \in Eligible \ page : ~Before(e, p)
  /\ ~more => page = Eligible

LEMMA EligibleFinite == Eligible \subseteq Ids /\ IsFiniteSet(Eligible)
  BY FS_Subset, PagingAssumption DEF Eligible

LEMMA FetchedFirst ==
  ASSUME TypeOK, NEW found \in Prefixes(Eligible, limit + 1),
         NEW page \in Prefixes(found, limit)
  PROVE  FirstOf(page, Cardinality(found) > limit)
  <1>1. limit \in Nat \ {0}
    BY PagingAssumption DEF TypeOK
  <1>2. /\ found \subseteq Eligible /\ page \subseteq found
        /\ \A p \in found, e \in Eligible \ found : ~Before(e, p)
        /\ \A p \in page, e \in found \ page : ~Before(e, p)
    BY DEF Prefixes
  <1>3. IsFiniteSet(Eligible) /\ IsFiniteSet(found)
    BY <1>2, EligibleFinite, FS_Subset
  <1>4. Cardinality(Eligible) \in Nat /\ Cardinality(found) \in Nat
    BY <1>3, FS_CardinalityType
  <1>5. ASSUME ~(Cardinality(found) > limit) PROVE page = Eligible
    <2>1. Cardinality(found) = Cardinality(Eligible)
      BY <1>1, <1>4, <1>5 DEF Prefixes
    <2>2. Cardinality(page) = Cardinality(found)
      BY <1>1, <1>4, <1>5 DEF Prefixes
    <2>3. found = Eligible
      BY <1>2, <1>3, <2>1, WholeSubset
    <2>4. page = found
      BY <1>2, <1>3, <2>2, WholeSubset
    <2> QED BY <2>3, <2>4
  <1> QED
    BY <1>2, <1>5 DEF FirstOf

LEMMA ListedFirst ==
  ASSUME NEW n, NEW page \in Prefixes(Eligible, n)
  PROVE  FirstOf(page, page # Eligible)
  BY DEF FirstOf, Prefixes

-----------------------------------------------------------------------------
LEMMA RankOrders ==
  ASSUME NEW u \in Values, NEW v \in Values
  PROVE  /\ Rank(u) \in Int /\ (Rank(u) = Rank(v) => u = v)
         /\ (Rank(u) > Rank(v) => u # Missing)
  BY PagingAssumption DEF Rank, Values

LEMMA ReturnPreserves ==
  ASSUME Walked, phase \in {"start", "walking"},
         NEW page, NEW more \in BOOLEAN, FirstOf(page, more), Return(page, more)
  PROVE  Walked'
  <1> USE DEF Walked
  <1>1. PICK last \in page : /\ \A i \in page : ~Before(last, i)
                             /\ from' = items[last]
                             /\ stops' = stops \cup {items[last]}
    BY DEF Return
  <1>2. /\ kind' = kind /\ limit' = limit /\ items' = items
        /\ steady' = steady /\ changes' = changes
        /\ returned' = returned \cup page
        /\ again' = again \cup (returned \cap page)
        /\ phase' = IF more THEN "walking" ELSE "ended"
        /\ restarted' = (restarted \/ (phase = "walking" /\ Unbound))
    BY DEF Return
  <1>3. /\ page \subseteq Ids /\ last \in Eligible
        /\ \A i \in page : items[i] # Gone /\ items[i] \in Values
    BY <1>1 DEF FirstOf, Eligible, TypeOK
  <1>4. \A i \in steady : i \in Ids /\ items[i] # Gone /\ items[i] \in Values
    BY DEF TypeOK
  <1>5. TypeOK'
    <2>1. Unbound \in BOOLEAN /\ restarted' \in BOOLEAN
      BY <1>2 DEF Unbound, TypeOK
    <2>2. from' \in Values /\ stops' \subseteq Values
      BY <1>1, <1>3 DEF TypeOK
    <2> QED BY <1>2, <1>3, <2>1, <2>2 DEF TypeOK
  <1>6. Fresh' /\ Unique'
    BY <1>2 DEF Fresh, Unique, Names
  <1>7. ASSUME ~restarted' PROVE ~restarted /\ (phase = "start" \/ ~Unbound)
    BY <1>2, <1>7
  <1>8. ASSUME ~restarted' PROVE \A i \in page : phase = "start" \/ Behind(items[i])
    BY <1>7, <1>8 DEF FirstOf, Eligible
  <1>9. NoRepeats'
    <2> SUFFICES ASSUME ~restarted', NEW i \in again', i \in steady PROVE FALSE
      BY <1>2 DEF NoRepeats
    <2>1. i \in returned \cap page
      BY <1>2, <1>7 DEF NoRepeats
    <2>2. phase = "walking"
      BY <2>1 DEF Fresh
    <2> QED BY <1>7, <1>8, <2>1, <2>2 DEF Passed
  <1>10. Passed'
    <2> SUFFICES ASSUME phase' = "walking", ~restarted', NEW i \in steady,
                        i \in returned \cup page
                 PROVE  ~Behind(items[i])'
      BY <1>2 DEF Passed
    <2>1. /\ Rank(items[i]) \in Int /\ Rank(items[last]) \in Int /\ Rank(from) \in Int
      BY <1>3, <1>4, <1>1, RankOrders DEF TypeOK
    <2>2. CASE i \in page
      BY <1>1, <1>2, <2>1, <2>2 DEF Before, Behind, Rank
    <2>3. CASE i \notin page
      <3>1. phase = "walking" /\ ~Behind(items[i]) /\ Behind(items[last])
        BY <1>1, <1>7, <1>8, <2>3 DEF Fresh, Passed
      <3> QED BY <1>1, <1>2, <2>1, <3>1 DEF Behind, Rank
    <2> QED BY <2>2, <2>3
  <1>11. ASSUME NEW i \in steady, ~restarted'
         PROVE  \/ i \in returned \/ Excused(i)
                \/ i \in Eligible
    <2>1. CASE phase = "start"
      BY <1>4, <2>1 DEF Eligible, Unbound
    <2>2. CASE phase = "walking"
      BY <1>4, <1>7, <1>11, <2>2 DEF Ahead, Eligible
    <2> QED BY <2>1, <2>2
  <1>12. ASSUME NEW i \in Ids, Excused(i) PROVE Excused(i)'
    BY <1>1, <1>2, <1>12 DEF Excused
  <1>13. Ahead'
    <2> SUFFICES ASSUME phase' = "walking", ~restarted', NEW i \in steady,
                        i \notin returned, i \notin page, ~Excused(i)
                 PROVE  Behind(items[i])' \/ Excused(i)'
      BY <1>2, <1>4, <1>12 DEF Ahead
    <2>1. i \in Eligible \ page /\ ~Before(i, last)
      BY <1>1, <1>11 DEF FirstOf
    <2>2. /\ Rank(items[i]) \in Int /\ Rank(items[last]) \in Int
          /\ Rank(items[i]) = Rank(items[last]) => items[i] = items[last]
          /\ Rank(items[i]) > Rank(items[last]) => items[i] # Missing
      BY <1>1, <1>3, <1>4, RankOrders
    <2>3. kind = "s3" => items[i] # items[last]
      BY <1>1, <1>3, <1>4, <2>1 DEF Unique, Names
    <2>4. CASE kind \in {"name", "s3"}
      BY <1>1, <1>2, <2>1, <2>2, <2>3, <2>4 DEF Before, Behind, Rank, Excused
    <2>5. CASE kind = "other"
      BY <1>1, <1>2, <2>1, <2>2, <2>5 DEF Before, Behind, Rank, Excused
    <2>6. CASE kind = "date"
      BY <1>2, <2>6 DEF Excused
    <2> QED BY <2>4, <2>5, <2>6 DEF TypeOK, Kinds
  <1>14. NothingSkipped'
    <2> SUFFICES ASSUME phase' = "ended", ~restarted', NEW i \in steady,
                        i \notin returned, i \notin page
                 PROVE  Excused(i)'
      BY <1>2 DEF NothingSkipped, Excused
    <2>1. page = Eligible
      BY <1>2 DEF FirstOf
    <2> QED BY <1>4, <1>11, <1>12, <2>1
  <1> QED BY <1>5, <1>6, <1>9, <1>10, <1>13, <1>14

LEMMA EmptyPreserves ==
  ASSUME Walked, EmptyPage
  PROVE  Walked'
  <1> USE DEF Walked
  <1>1. /\ phase # "ended" /\ Eligible = {} /\ phase' = "ended"
        /\ kind' = kind /\ limit' = limit /\ items' = items /\ from' = from
        /\ returned' = returned /\ again' = again /\ stops' = stops
        /\ restarted' = restarted /\ steady' = steady /\ changes' = changes
    BY DEF EmptyPage, Stop
  <1>2. TypeOK'
    BY <1>1 DEF TypeOK
  <1>3. Fresh' /\ Unique' /\ Ahead' /\ Passed' /\ NoRepeats'
    BY <1>1 DEF Fresh, Unique, Names, Ahead, Passed, NoRepeats
  <1>4. ASSUME ~restarted, NEW i \in steady, i \notin returned PROVE Excused(i)
    <2>1. i \in Ids /\ items[i] # Gone /\ ~Unbound /\ ~Behind(items[i])
      BY <1>1 DEF Eligible, TypeOK
    <2>2. phase = "walking"
      BY <1>1, <2>1 DEF Unbound, TypeOK
    <2> QED BY <1>4, <2>1, <2>2 DEF Ahead
  <1>5. NothingSkipped'
    BY <1>1, <1>4 DEF NothingSkipped, Excused
  <1> QED BY <1>2, <1>3, <1>5

LEMMA ChangePreserves ==
  ASSUME Walked, NEW i \in Ids, NEW value \in Values \cup {Gone}, Change(i, value)
  PROVE  Walked'
  <1> USE DEF Walked
  <1>1. /\ phase = "walking" /\ phase' = phase /\ kind' = kind /\ limit' = limit
        /\ from' = from /\ returned' = returned /\ again' = again
        /\ stops' = stops /\ restarted' = restarted /\ steady' = steady \ {i}
        /\ items' = [items EXCEPT ![i] = value]
    BY DEF Change, progress
  <1>2. /\ items' \in [Ids -> Values \cup {Gone}]
        /\ \A j \in steady' : j \in steady /\ items'[j] = items[j]
    BY <1>1 DEF TypeOK
  <1>3. Unique'
    BY <1>1 DEF Change, Unique, Names
  <1>4. TypeOK'
    <2>1. changes' \in 0 .. MaxChanges
      BY PagingAssumption DEF TypeOK, Change
    <2>2. kind' = "s3" => \A j \in Ids : items'[j] # Missing
      BY <1>3 DEF Unique, Names
    <2> QED BY <1>1, <1>2, <2>1, <2>2 DEF TypeOK
  <1>5. Unbound' = Unbound
    BY <1>1 DEF Unbound
  <1>6. Ahead' /\ Passed'
    BY <1>1, <1>2, <1>5 DEF Ahead, Passed, Behind, Excused, Rank
  <1>7. Fresh' /\ NoRepeats' /\ NothingSkipped'
    BY <1>1 DEF Fresh, NoRepeats, NothingSkipped
  <1> QED BY <1>3, <1>4, <1>6, <1>7

-----------------------------------------------------------------------------
LEMMA InitWalked == Init => Walked
  <1> SUFFICES ASSUME Init PROVE Walked
    OBVIOUS
  <1>1. TypeOK
    <2>1. kind = "s3" => \A i \in Ids : items[i] # Missing
      BY DEF Init, Names
    <2>2. steady \subseteq Ids /\ \A i \in steady : items[i] # Gone
      BY DEF Init
    <2>3. changes \in 0 .. MaxChanges /\ from \in Values
      BY PagingAssumption DEF Init, Values
    <2> QED BY <2>1, <2>2, <2>3 DEF Init, TypeOK
  <1>2. /\ Fresh /\ Unique /\ Ahead /\ Passed /\ NoRepeats /\ NothingSkipped
    BY DEF Init, Fresh, Unique, Ahead, Passed, NoRepeats, NothingSkipped
  <1> QED BY <1>1, <1>2 DEF Walked

LEMMA StepWalked == Walked /\ [Next]_vars => Walked'
  <1> SUFFICES ASSUME Walked, [Next]_vars PROVE Walked'
    OBVIOUS
  <1>0. phase # "ended" => phase \in {"start", "walking"}
    BY DEF Walked, TypeOK
  <1>1. CASE FetchPage
    <2>1. PICK found \in Prefixes(Eligible, limit + 1) :
            \E page \in Prefixes(found, limit) :
              Return(page, Cardinality(found) > limit)
      BY <1>1 DEF FetchPage
    <2>2. PICK page \in Prefixes(found, limit) :
            Return(page, Cardinality(found) > limit)
      BY <2>1
    <2>3. FirstOf(page, Cardinality(found) > limit)
      BY FetchedFirst DEF Walked
    <2>4. (Cardinality(found) > limit) \in BOOLEAN /\ phase \in {"start", "walking"}
      BY <1>0, <1>1 DEF FetchPage
    <2> QED BY <2>2, <2>3, <2>4, ReturnPreserves
  <1>2. CASE ListPage
    <2>1. PICK n \in 1 .. limit : \E page \in Prefixes(Eligible, n) :
            Return(page, page # Eligible)
      BY <1>2 DEF ListPage
    <2>2. PICK page \in Prefixes(Eligible, n) : Return(page, page # Eligible)
      BY <2>1
    <2>3. FirstOf(page, page # Eligible)
      BY ListedFirst
    <2>4. (page # Eligible) \in BOOLEAN /\ phase \in {"start", "walking"}
      BY <1>0, <1>2 DEF ListPage
    <2> QED BY <2>2, <2>3, <2>4, ReturnPreserves
  <1>3. CASE EmptyPage
    BY <1>3, EmptyPreserves
  <1>4. ASSUME NEW i \in Ids, NEW value \in Values \cup {Gone}, Change(i, value)
        PROVE  Walked'
    BY <1>4, ChangePreserves
  <1>5. CASE UNCHANGED vars
    BY <1>5 DEF vars, progress, Walked, TypeOK, Fresh, Unique, Names, Ahead, Passed,
       NoRepeats, NothingSkipped, Unbound, Behind, Excused, Rank
  <1> QED BY <1>1, <1>2, <1>3, <1>4, <1>5 DEF Next, Turn

LEMMA AlwaysWalked == Spec => []Walked
  BY InitWalked, StepWalked, PTL DEF Spec

-----------------------------------------------------------------------------
(* The types, for any collection (Paging.TypeOK).                          *)
THEOREM TypeCorrect == Spec => []TypeOK
  BY AlwaysWalked, PTL DEF Walked

(* No walk returns an item twice that stayed as it was, as long as no      *)
(* cursor value is falsy (resource.query.service.ts:228).                  *)
THEOREM NoRepeatsAlways == Spec => []NoRepeats
  BY AlwaysWalked, PTL DEF Walked

(* A walk that ended has returned every item that stayed as it was, but    *)
(* those whose value a page ended with, those without the field, and those *)
(* behind the first page of dates (resource.query.service.ts:224, 243,     *)
(* 254; S3Provider.ts:119).                                                *)
THEOREM NothingSkippedAlways == Spec => []NothingSkipped
  BY AlwaysWalked, PTL DEF Walked

-----------------------------------------------------------------------------
(* A walk during which nothing changes                                     *)
Present == {i \in Ids : items[i] # Gone}
Distinct == \A i, j \in Present : items[i] # Missing /\ (i # j => items[i] # items[j])

Quiet ==
  /\ kind = "s3" => ~restarted
  /\ changes = 0 => /\ steady = Present /\ returned \subseteq Present
                    /\ \A v \in stops : \E i \in returned : items[i] = v

LEMMA StepQuiet == Walked /\ Quiet /\ [Next]_vars => Quiet'
  <1> SUFFICES ASSUME Walked, Quiet, [Next]_vars PROVE Quiet'
    OBVIOUS
  <1>0. kind \in Kinds /\ changes \in Nat /\ items \in [Ids -> Values \cup {Gone}]
    BY PagingAssumption DEF Walked, TypeOK
  <1>1. ASSUME NEW page \in SUBSET Eligible, NEW more, Return(page, more)
        PROVE  Quiet'
    <2>1. /\ kind' = kind /\ items' = items /\ steady' = steady /\ changes' = changes
          /\ returned' = returned \cup page
          /\ restarted' = (restarted \/ (phase = "walking" /\ Unbound))
      BY <1>1 DEF Return
    <2>2. PICK last \in page : stops' = stops \cup {items[last]}
      BY <1>1 DEF Return
    <2>3. page \subseteq Present
      BY DEF Eligible, Present
    <2>4. kind = "s3" /\ phase = "walking" => ~Unbound
      BY DEF Unbound
    <2>5. kind' = "s3" => ~restarted'
      BY <2>1, <2>4 DEF Quiet
    <2>6. changes = 0 => /\ returned' \subseteq Present
                         /\ \A v \in stops' : \E i \in returned' : items[i] = v
      BY <2>1, <2>2, <2>3 DEF Quiet
    <2> QED BY <2>1, <2>5, <2>6 DEF Quiet, Present
  <1>2. CASE FetchPage
    <2>1. PICK found \in Prefixes(Eligible, limit + 1) :
            \E page \in Prefixes(found, limit) : Return(page, Cardinality(found) > limit)
      BY <1>2 DEF FetchPage
    <2>2. \A page \in Prefixes(found, limit) : page \subseteq Eligible
      BY <2>1 DEF Prefixes
    <2> QED BY <1>1, <2>1, <2>2
  <1>3. CASE ListPage
    <2>1. PICK n \in 1 .. limit : \E page \in Prefixes(Eligible, n) :
            Return(page, page # Eligible)
      BY <1>3 DEF ListPage
    <2> QED BY <1>1, <2>1 DEF Prefixes
  <1>4. CASE EmptyPage
    BY <1>4 DEF EmptyPage, Stop, Quiet, Present
  <1>5. ASSUME NEW i \in Ids, NEW value \in Values \cup {Gone}, Change(i, value)
        PROVE  Quiet'
    BY <1>0, <1>5 DEF Change, progress, Quiet
  <1>6. CASE UNCHANGED vars
    BY <1>6 DEF vars, progress, Quiet, Present
  <1> QED BY <1>2, <1>3, <1>4, <1>5, <1>6 DEF Next, Turn

(* A collection nothing changes, whose values are all there and differ, is *)
(* returned whole and each item once, when the field is no date and no     *)
(* cursor value falsy (resource.query.service.ts:224-255); a bucket always *)
(* is (S3Provider.ts:117-130).                                             *)
THEOREM QuietWalkReturnsEachOnce ==
  Spec => [](/\ phase = "ended" /\ changes = 0
             /\ kind = "s3" \/ (kind # "date" /\ ~restarted /\ Distinct)
             => returned = Present /\ again = {})
  <1>1. Init => Quiet
    BY DEF Init, Quiet, Present
  <1>2. Walked /\ Quiet =>
          (/\ phase = "ended" /\ changes = 0
           /\ kind = "s3" \/ (kind # "date" /\ ~restarted /\ Distinct)
           => returned = Present /\ again = {})
    <2> SUFFICES ASSUME Walked, Quiet, phase = "ended", changes = 0,
                        kind = "s3" \/ (kind # "date" /\ ~restarted /\ Distinct)
                 PROVE  returned = Present /\ again = {}
      OBVIOUS
    <2>1. ~restarted /\ steady = Present /\ returned \subseteq Present
      BY DEF Quiet
    <2>2. again \subseteq returned /\ again \cap steady = {}
      BY <2>1 DEF Walked, TypeOK, NoRepeats
    <2>3. ASSUME NEW i \in Present \ returned PROVE FALSE
      <3>1. kind # "s3" /\ (items[i] \in stops \/ items[i] = Missing \/ kind = "date")
        BY <2>1 DEF Walked, NothingSkipped
      <3>2. Distinct /\ items[i] \in stops
        BY <3>1 DEF Distinct
      <3>3. PICK j \in returned : items[j] = items[i]
        BY <3>2 DEF Quiet
      <3> QED BY <2>1, <3>2, <3>3 DEF Distinct
    <2> QED BY <2>1, <2>2, <2>3
  <1> QED BY <1>1, <1>2, AlwaysWalked, StepQuiet, PTL DEF Spec
=============================================================================
