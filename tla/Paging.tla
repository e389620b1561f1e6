------------------------------- MODULE Paging -------------------------------
(***************************************************************************)
(* Walking through a collection page by page while it changes: paginate of *)
(* resource.query.service.ts, called with the cursor it returned for as    *)
(* long as it says hasMore, and the listing of a bucket in S3Provider.     *)
(*                                                                         *)
(* A walk is over one field.  "name" is walked upwards, any other field    *)
(* downwards; equal values (under the collation, for names) come in any    *)
(* order.  The cursor holds the last value of the page and the next page   *)
(* starts strictly behind it.  A falsy cursor value (0, '', or a missing   *)
(* field) is no bound at all, and a Date has become a string by then,      *)
(* which no Date is compared with.  "s3" stands for the bucket: object     *)
(* names are unique, and the token says where to go on.                    *)
(***************************************************************************)
EXTENDS Integers, FiniteSets

CONSTANTS Ids,          \* items, or objects of a bucket
          Numbers,      \* the values of the field, by rank; 0 is falsy
          Limits,       \* the `limit` of a cursor
          MaxChanges,   \* bound: changes to the collection during the walk
          Missing,      \* an item without the field
          Gone          \* no such item

Values == Numbers \cup {Missing}
Falsy == {0, Missing}
Kinds == {"name", "other", "date", "s3"}

ASSUME PagingAssumption ==
  /\ Numbers \subseteq Nat /\ Limits \subseteq Nat \ {0} /\ MaxChanges \in Nat
  /\ IsFiniteSet(Ids)
  /\ Missing \notin Int /\ Gone \notin Int /\ Gone # Missing

VARIABLES kind, limit,
          items,      \* the collection: the value of each item's field
          from,       \* cursor.from, or the continuation token
          phase,      \* "start", "walking", "ended"
          returned,   \* the items of the pages so far
          again,      \* those that came more than once
          stops,      \* the values pages ended with
          restarted,  \* has a falsy cursor value been taken for none?
          steady,     \* the items that have not been touched since the start
          changes
progress == <<from, phase, returned, again, stops, restarted>>
vars == <<kind, limit, items, progress, steady, changes>>

TypeOK ==
  /\ kind \in Kinds /\ limit \in Limits
  /\ items \in [Ids -> Values \cup {Gone}]
  /\ from \in Values /\ phase \in {"start", "walking", "ended"}
  /\ returned \subseteq Ids /\ again \subseteq returned
  /\ stops \subseteq Values /\ restarted \in BOOLEAN
  /\ steady \subseteq Ids /\ changes \in 0 .. MaxChanges
  /\ kind = "s3" => \A i \in Ids : items[i] # Missing
  /\ \A i \in steady : items[i] # Gone

(* Object names are unique and never missing                               *)
Names(field) ==
  \A i, j \in Ids : /\ field[i] # Missing
                    /\ i # j /\ field[i] = field[j] => field[i] = Gone

Init ==
  /\ kind \in Kinds /\ limit \in Limits
  /\ items \in [Ids -> Values \cup {Gone}] /\ (kind = "s3" => Names(items))
  /\ from = Missing /\ phase = "start"
  /\ returned = {} /\ again = {} /\ stops = {} /\ restarted = FALSE
  /\ steady = {i \in Ids : items[i] # Gone} /\ changes = 0

-----------------------------------------------------------------------------
Rank(value) == IF value = Missing THEN -1 ELSE value

Before(i, j) ==
  IF kind \in {"name", "s3"} THEN Rank(items[i]) < Rank(items[j])
                             ELSE Rank(items[i]) > Rank(items[j])

(* A faulty variant of Behind: $gte and $lte                               *)
BehindOrAt(value) ==
  CASE kind = "date" -> FALSE
    [] kind \in {"name", "s3"} -> value # Missing /\ Rank(value) >= Rank(from)
    [] OTHER -> value # Missing /\ Rank(value) <= Rank(from)

(* $gt and $lt: only values of the type of the operand compare with it     *)
Behind(value) ==
  CASE kind = "date" -> FALSE
    [] kind \in {"name", "s3"} -> value # Missing /\ Rank(value) > Rank(from)
    [] OTHER -> value # Missing /\ Rank(value) < Rank(from)

(* A date in a cursor is a string, and not an empty one                    *)
Unbound ==
  \/ phase = "start"
  \/ kind \in {"name", "other"} /\ from \in Falsy
  \/ kind = "date" /\ from = Missing

Eligible == {i \in Ids : items[i] # Gone /\ (Unbound \/ Behind(items[i]))}

(* sort and limit: the first n of the items                                *)
Prefixes(set, n) ==
  {P \in SUBSET set : /\ Cardinality(P) = IF Cardinality(set) < n
                                          THEN Cardinality(set) ELSE n
                      /\ \A p \in P, e \in set \ P : ~Before(e, p)}

(* slice and getLastValue; `more` is what the client is told               *)
Return(page, more) ==
  /\ \E last \in page :
       /\ \A i \in page : ~Before(last, i)
       /\ from' = items[last] /\ stops' = stops \cup {items[last]}
  /\ returned' = returned \cup page
  /\ again' = again \cup (returned \cap page)
  /\ phase' = IF more THEN "walking" ELSE "ended"
  /\ restarted' = (restarted \/ (phase = "walking" /\ Unbound))
  /\ UNCHANGED <<kind, limit, items, steady, changes>>

(* A faulty variant of FetchPage: no item is asked for beyond the page     *)
FetchExactly ==
  /\ phase # "ended" /\ kind # "s3" /\ Eligible # {}
  /\ \E page \in Prefixes(Eligible, limit) :
       Return(page, Cardinality(page) > limit)

(* paginate: limit + 1 items are found, `limit` of them returned           *)
FetchPage ==
  /\ phase # "ended" /\ kind # "s3" /\ Eligible # {}
  /\ \E found \in Prefixes(Eligible, limit + 1) :
       \E page \in Prefixes(found, limit) :
         Return(page, Cardinality(found) > limit)

Stop ==
  /\ phase' = "ended"
  /\ UNCHANGED <<kind, limit, items, returned, again, stops, restarted,
                 steady, changes>>

(* Faulty variants of EmptyPage: the last value of an empty page is taken; *)
(* the client is not told that there is no more                            *)
EmptyPageValued == phase # "ended" /\ Eligible = {} /\ Stop /\ from' = Gone
EmptyPageKept == phase = "start" /\ Eligible = {} /\ Stop /\ UNCHANGED from

(* Nothing is found: the cursor is null                                    *)
EmptyPage == phase # "ended" /\ Eligible = {} /\ Stop /\ UNCHANGED from

(* list of S3Provider: S3 returns as many objects as it sees fit, and a    *)
(* token when there are more                                               *)
ListPage ==
  /\ phase # "ended" /\ kind = "s3" /\ Eligible # {}
  /\ \E n \in 1 .. limit : \E page \in Prefixes(Eligible, n) :
       Return(page, page # Eligible)

Turn == FetchPage \/ EmptyPage \/ ListPage

(* Between two pages an item is created, deleted, or given another value;  *)
(* an object is created or deleted                                         *)
Change(i, value) ==
  /\ phase = "walking" /\ changes < MaxChanges /\ value # items[i]
  /\ kind = "s3" => (items[i] = Gone \/ value = Gone)
                    /\ Names([items EXCEPT ![i] = value])
  /\ items' = [items EXCEPT ![i] = value]
  /\ steady' = steady \ {i} /\ changes' = changes + 1
  /\ UNCHANGED <<kind, limit, progress>>

Next == Turn \/ \E i \in Ids, value \in Values \cup {Gone} : Change(i, value)

(* The client of paginate goes on as long as it is told to                 *)
Spec == Init /\ [][Next]_vars /\ WF_vars(Turn)

-----------------------------------------------------------------------------
(* A walk that never ran into a falsy cursor value returns no item twice,  *)
(* unless it was moved or made anew meanwhile (resource.query.service.ts:  *)
(* 228, the strict comparison).                                            *)
NoRepeats == ~restarted => again \cap steady = {}

(* At its end such a walk has returned every item that was there all the   *)
(* time, with three exceptions: an item that shares its value with the     *)
(* last of a page, an item without the field, and everything behind the    *)
(* first page when the field is a date (resource.query.service.ts:224, 243,*)
(* 254).  A bucket is listed without exception (S3Provider.ts:119).        *)
NothingSkipped ==
  phase = "ended" /\ ~restarted =>
    \A i \in steady \ returned :
      kind # "s3" /\ (items[i] \in stops \/ items[i] = Missing \/ kind = "date")

(* Every page gets the walk on: it ends, however the collection changes,   *)
(* unless a page ends with a falsy value and it starts again               *)
(* (resource.query.service.ts:228, 247; S3Provider.ts:124).                *)
WalkEnds == <>(phase = "ended" \/ restarted)
=============================================================================
