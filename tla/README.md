# pontegg.io in TLA+

`pontegg.io` is a NestJS server that builds REST resources from API
definitions. A *resource* is a MongoDB document with sections; an *API
definition* says which roles may read, create, update and delete it, which
sections it has, who may write each of them in which state, and the state a
write moves the document to. This directory holds TLA+ models of the server,
the TLC configurations that check them on small instances, and proofs of the
most important properties for instances of any size.

All source paths below are relative to the repository; `src/resource/` is
shortened to its file name.

## 1. The system

| Component | State it keeps | Operations | Talks to |
|---|---|---|---|
| Access rules (`resource.accces.ts`, `getActualUserRoles` and `applyListAccess` of `resource.service.ts`, `RolesGuard`) | none | judge a request by the `let` lists | called by the service |
| Resource service (`resource.service.ts`) | an event emitter | create, update, delete, upsertSection, get, list | query service, event bus, emitter |
| Files of a resource (same file) | none | uploadFile, uploadFiles, deleteDocument, deleteSection, download | storage and query service |
| Query service (`resource.query.service.ts`) | none of its own; the database | findOne, insertOne, findOneAndUpdate with `$set`, deleteOne, pagination | MongoDB |
| Controller (`resource.controller.ts`) | the routes of one API definition | one handler per route | the service |
| Subscriptions (`notify`, `subscribe`) | listeners of an emitter; three emitters, as `module-factory.ts` instantiates the service three times | notify, subscribe | SSE clients |
| Authentication (`src/auth/`) | none | check the token, drop system groups, look the user's records up | Keycloak, query service |
| Storage (`src/storage/`) | files | put, get, delete, copy, list, writeVerified | disk or S3 |
| Validator, events, logger, configuration, shell | — | validation, declarations, wiring | — |

**What is hard.** Every request is a chain of `await`s on one event loop.
Requests of different clients interleave at each `await`, and nothing
(neither a lock, nor a version, nor a filter on the state) ties the write of
a request to the copy it judged. Several server instances share one database.
Files and documents live in different stores without a transaction; files are
written, and some are deleted, by promises nobody awaits, and a promise that
rejects unhandled ends the Node.js process. There are no retries and nothing is
recovered at start-up: what a crash cuts off stays cut off.

What makes each component correct, in one line each:

- *access*: nobody gets in without a rule that is met; the loop ends; the two
  ways of reading the same rules, `get` and `list`, agree;
- *authentication*: who is let in is so on a record of their own, a database in
  trouble lets nobody in, and guard and rules, which see different groups, do
  not contradict each other;
- *service*: a document follows its API definition when requests come one at
  a time; whatever the interleaving, a deletion is final, no section gets
  lost, a request whose document has not changed does what the rules say,
  every change is announced, every request is answered;
- *subscriptions*: a listener with access is told of what goes through its
  instance of the service, of nothing else, and misses only what happened
  before it was registered;
- *files*: a reference to a file never dangles without a reason; nobody
  unlinks a file that is not theirs; every request is answered;
- *storage*: a file whose last write ended well is whole, a download nobody
  got in the way of is whole, and disk and bucket are the same store to their
  callers;
- *pagination*: what stays in place is returned once.

## 2. Modules

| Module | Models | Kind |
|---|---|---|
| `Access` | rules, their three outcomes, guard, list filter | operators |
| `AccessDecision` | the evaluation of one request, rule by rule | actions over `Access` |
| `Admission` | token, user records, guard, and then `AccessDecision` | composition |
| `ResourceApi` | what the service does with one copy of a document | operators over `Access` |
| `Workflow` | the documents an API definition describes, each request one step | abstract specification |
| `Lifecycle` | fresh, live, gone: what an `_id` goes through | abstract specification |
| `ResourceService` | requests in flight on shared documents | detailed specification |
| `Subscriptions` | listeners next to those requests | composition, extends `ResourceService` |
| `Uploads` | file operations of requests on one document | detailed specification |
| `FileStore` | calls on a store of files, each with one moment of effect | abstract specification |
| `Storage` | `StorageService` over disk or bucket, chunk by chunk | detailed specification of `FileStore` |
| `Paging` | a walk through a collection or bucket that changes | detailed specification |
| `AccessProofs`, `AdmissionProofs`, `ResourceServiceProofs`, `WorkflowProofs`, `SubscriptionsProofs`, `UploadsProofs`, `StorageProofs`, `PagingProofs` | theorems | proofs |
| `MCAdmission`, `MCResourceService`, `MCSubscriptions`, `MCUploads`, `MCStorage`, `MCPaging` | instances for TLC | model checking |

### Access, AccessDecision and Admission

A `let` list is a sequence of rules. `verifyAccessRules` has three outcomes:
it throws (`Throws`), returns something truthy (`Grants`; note that an array of
results is truthy whatever is in it), or returns false. `getActualUserRoles`
drops the rules for groups the user has not (`Applicable`), and the `some` of
`verifyAccess` visits what is left in order (`Reached`). `AccessGranted` and
`AccessThrows` summarise the loop; `AccessDecision` is the loop itself, one
step per rule, and `LoopAgrees` ties the two together. `Listed` is `list`: every
applicable rule has to yield a filter, and then the first filter alone is used.
`AccessGrantedUnordered` is the OR of conditions the documentation describes; the
theorems of `AccessProofs` relate the two.

A document is seen through `state`, `owner` (its `<role>Id` fields) and `peer`
(other user fields); a user is a function from groups to user records.

`Admission` puts in front of the loop what makes the user. `Effective` is
`getUserGroups`; `Lookup` and `LookupFails` are the parallel `getUserInfo` calls of
`getUser`, each of which ends on its own, `PeopleChange` what other requests do to
the subject's records meanwhile, and `Guard` is `RolesGuard.canActivate` on the
groups of the token. `records` remembers the records the subject has had since
the request arrived.

### ResourceApi and ResourceService

`ResourceApi` translates the parts of a handler that run without an `await`:
`CreateAdmitted`, `UpdateAdmitted`, `DeleteAdmitted` and `SectionAdmitted` are
the guards of the routes, the access checks and the validations in the order
in which they must all pass; `Created`, `Updated` and `SectionWritten` are what
is sent to the database. Validation schemes are the sets of what they accept.

`ResourceService` cuts each handler at its `await`s:

| Stage, action | Code |
|---|---|
| `idle` → `received`: `Receive` | the controller calls the service |
| `received` → `accessed`: `Read`; → `failed`: `NotFound`, `Deny`, `RefuseCreate` | `accessResource`, then access and validation up to the next `await` |
| `received`/`accessed` → `written` or `lost`: `Insert`, `Write`, `Remove` | `_create`, `_updateOne`, `_delete`; `lost` when the answer does not arrive |
| `written` → `done` or `failed`: `Finish` | publish, then notify, which throws in `doUpsertSection` for a document without an `id` |
| `DbError`, `Crash` | the driver rejects the call; the instance dies |

`snap` is the request's own copy of the document, the local variable `resource`.
`Overlay` is both the object spread and MongoDB's `$set`: a field the copy does
not have is left alone. The `_id` of a creation is chosen in `Receive` although
the driver makes it up in `insertOne`; nobody can name it before that, which
`IdsReserved` states.

What goes wrong between requests has one form: a `StaleCommit`, the write of a request
whose document is no longer the copy that was judged. `OnlyStaleCommitsStray` says
that nothing else takes a document off its `Workflow`.

### Uploads

One document, seen as the set of contents each section refers to; a key is a
section and a content, as `handleFileUpload` builds it. `ops` holds storage
operations that have been started and have not ended, whether or not anybody
awaits them; `erased` and `cut` remember the keys that were unlinked, and by
whom, and those whose writing a crash interrupted. `Starts` is an upload up to
its first wait after `accessResourceModifySection`: the writes are started, the
event is out, and when validation fails the unlinks are started in the same go.
`Fails` is the `catch`. `Dies` is the process ended by a crash or an unhandled
rejection: the write of an upload (`PutFails`), the probe of an update with
several files (`ProbeEnds`), and the unlinks of `deleteSection` for a `documents`
section (`UnlinkRejects`) are handled by nobody.

### Subscriptions

`via` says which instance of the service a request is made to, `At` which one a
listener calls: `module-factory.ts` makes three of the same class, the controller
uses one, other modules another, and each has an emitter of its own. A listener
goes from `received` (`subscribe` called) to `accessed` (the database has read the
document the rules are judged on) to `on` (the answer is there, the rules are
judged, `fromEvent` registers). `Notify` is `ResourceService!Finish` together with
`emit`; `Work` and the rest are the actions of `ResourceService` unchanged. A
section operation emits under the document's `id` and not its `_id`: nobody hears
it (`Told`). A listener comes with no grant through the SSE route, and with one from
another module that calls `subscribe`. `since` remembers what had taken effect at the registration.

### Storage and FileStore

`Storage` is `put`, `get` and `delete` of either provider at the grain at which they
can meet: on disk a put opens the file, which empties it, writes its chunks and
ends; a get looks (`isReadable`) and hands out a stream that opens the file later
and is read by `download`; an unlink takes the name away, and who has the file open
goes on. In a bucket objects are replaced as a whole. A file is an inode, not a
name: `file` maps a key to its inode, `fill` an inode to the chunks it holds, and
`owner` to the call that emptied it last. The key is made of the hash of the content,
so all puts of one key write the same; chunks therefore are numbers.
`disturbed` remembers the downloads that met a put or a deletion.

`FileStore` is what callers take either provider for: a call takes effect at one
moment or fails, and a failed call may or may not have. A put takes effect when
its file is opened, a get when its stream opens, a deletion with the unlink.
It is also what `Uploads` assumes of its storage operations: there a put or an
unlink is one step. That a file which is present need not be whole is the
difference, and `LastPutCounts` and `ReadsWhole` say when it is.

### Paging

`paginate` is called with the cursor it returned, for as long as it says `hasMore`.
`Eligible` is the filter, `Prefixes` what sort and limit may return when values are
equal, `Return` the slice and the next cursor. The field's kind matters: `name`
upwards, other fields downwards, dates, whose cursor is a string no date compares
with, and `s3`, the walk of `S3Provider.list` through a bucket with tokens. A
falsy cursor is no bound: the walk starts again (`restarted`). `Change` creates,
deletes or moves an item between two pages, and `steady` are the items it has not
touched.

## 3. What TLC checks

| Run | Instance | Shows |
|---|---|---|
| `access` | all lists of up to two rules, two roles, eight tokens, documents in two states (873 024 states) | `AdmissionJustified`, `LookupLossFailsClosed`, `SomeGroupStays`, `GuardKeepsOutNobody`; `LoopAgrees`; `list` and `get` agree on ownership rules; every request is decided |
| `service_three` | three requests in flight, two documents, fourteen jobs (1.2 million states) | `RequestsSound`, `DeleteIsFinal`, `CommitsAccounted`, `SectionRulesHeard`, `SectionsPersist`, `CleanCommitsFollowRules`, `OnlyStaleCommitsStray`, and `Lifecycle` implemented |
| `service_serial` | three requests, one at a time | `Workflow` implemented, `EventsFollowChange`, `ValidityKept` |
| `subscriptions` | two requests in flight, one document, one listener, two instances (44 840 states) | `HeardIsDue`, `NothingMissed`, `ToldInTheEnd`, `SubscriptionsSettle`, `RequestsEnd` |
| `uploads` | three requests, three sections, two contents, one fault (1.7 million states) | `FilesAccounted`, `ErasuresJustified` |
| `uploads_end` | two requests, documents without an `id`, one fault | `UploadsEnd` |
| `storage` | three calls on one key, two chunks, one fault, both providers (92 299 states) | `LastPutCounts`, `ReadsWhole`, `CallsEnd`, and `FileStore` implemented |
| `paging` | four items, three values or none, pages of one or two, one change (261 946 states) | `NoRepeats`, `NothingSkipped`, `WalkEnds` |
| `stale_rules`, `lost_update`, `collision`, `missing` | one or two requests | a sentence of the documentation, a comment or a test that the code does not keep, see section 5 |

**Bounds.** A hazard between requests needs two of them, a creation, a deletion
and a late write three; two documents show that requests on one do not touch
the other. The jobs of `MCResourceService` are those of the user API in
`docs/ponteggio.md:171-212` with an update operation and an admin rule added, and
include a rejected payload, a request that is not admitted, a scheme that a late
write can violate, and a client without a record. Requests are interchangeable,
so they are symmetric in the runs without liveness. Every request is made once:
a client that repeats a request is another request with the same job.
`MaxInFlight` is 1 in `service_serial` and otherwise no restriction. `MaxFaults` is 1
in `uploads`: database, storage and instance may fail once, at any moment; the
proofs are for any number. The document starts empty, or with sections that
other requests have filled before. `MCUploads` checks local storage; the proofs
cover both providers.

`MCAdmission` has two of the roles (one with a collection) that rules can be for,
one group no rule names, and Keycloak's three; its tokens lie on either side of the
count at `auth.service.ts:54`. Two rules make an order; the proofs are for lists of
any length. In `MCSubscriptions` both requests go through the listener's
instance, or one of them through another; one listener is enough, since listeners
do not see each other. Three calls on one key make a reader, a writer and a
second writer or a deletion; a file of two chunks can be half full. With four
items and pages of at most two a walk has a page in the middle, with ties
across its end; one change is enough to move an item over the cursor.

Deadlock is not checked: when every request has been made and answered,
the models stop, as the server does when no request comes.

**Fairness.** `WF(Step(q))` for each request: a pending database call is
answered in the end and the event loop runs every continuation. In `Uploads`
also `WF(Settle(q))`: the operating system ends every file operation, and so it
does in `Storage` with `WF(Step(c))`. `Admission` is fair to the request as a whole
(`WF(Progress)`), `Subscriptions` to each request and to what a listener waits for,
`Paging` to the client that asks for the next page. Failures
and crashes are never required to happen, and nothing is required to be
received.

## 4. What is proved

The proofs are for every API definition, any sets of documents, requests,
users, sections and contents, under the assumptions named in the modules
(`NoUserAssumption`, `NamesAssumption`, `ApiAssumption`, `ServiceAssumption`,
`AdmissionAssumption`, `SubscriptionsAssumption`, `UploadsAssumption`,
`StorageAssumption`, `PagingAssumption`): sentinels differ from what they stand in
for, constants have their type, rule lists are sequences, what has to be counted
is finite.

**ResourceServiceProofs.** `RequestsSound` is what makes the other invariants
inductive. `DeleteIsFinal` alone is not: a pending creation might insert under
the `_id` of a deleted document, so `IdsReserved` says that a pending creation's
`_id` is nobody else's. `CommitsAccounted` needs that a request in `applied` is past its write
(`AppliedIsPast`), and the refinement of `Lifecycle` needs that the document of
an applied operation is there until a deletion removes it (`AppliedLeaves`).
`CleanCommitsFollowRules` needs that a copy was admitted when it was read
(`SnapsAdmitted`). `SectionRulesHeard` hangs on a rule that asks for anything either granting or
throwing (`DecidedIsGrantedOrThrown` of `AccessProofs`), so that a result nobody looks at
is not missed; `NamedReadersAreHeard` draws the conclusion for API definitions whose section
operations name every role that may read. Theorems: `TypeCorrect`,
`RequestsAreSound`, `DeletionFinal`, `CommitsAnnounced`, `SectionsStay`, `CleanCommitsSound`,
`SectionRulesAreHeard`, `NamedReadersAreHeard`, `ServiceRefinesLifecycle`.

**AccessProofs.** What a list of rules means, for lists of any length. The heart is
`FirstDecides`: when a rule for the user decides (grants or throws), the first such
rule is reached. That a first one exists is argued on strict subsets of the finite set
of rules (`FirstOne`), because the library's induction theorems take an operator.
From it: the documented OR of conditions is exact as long as nothing throws
(`AlternativesUnlessThrown`), the order of a list never gives access
(`OrderOnlyTakesAway`), a rule at the end takes none away
(`AppendingTakesNothingAway`).

**UploadsProofs.** `FilesAccounted` for the document alone is not inductive,
since a request writes back references it read earlier; the invariant therefore
covers every copy and every upload that has not been written yet. The argument is
that a key once accounted for (stored, being written, cut off, or unlinked) stays so,
whatever step is taken (`AccountedFrame`, `AccountedGrows`), and that a step
brings only accounted keys into the document or a copy. `ErasuresJustified` holds because a
compensating upload never becomes successful again (`JustifiedFrame`).
`RequestStep` states once what a step of a request has to satisfy; there is one
lemma per action. `UnsharedUploadsAvoidCollisions` says when hashes do avoid collisions:
when no two uploads bring the same content to a section (`Unshared`), none brings a file
the document starts with, documents have an `id`, and a database that reports an error has
not carried out the write (`HonestErrors`). Its invariant, `BroughtInv`, is that every
uploadable key the document or a copy refers to was brought by an upload that has not unlinked it, so
whoever unlinks it is another upload with that key. `Onward` says what every step does
to the state the invariant is about. Theorems: `UploadsTypeCorrect`, `FilesStayAccounted`,
`ErasuresStayJustified`, `UnsharedUploadsAvoidCollisions`.

**WorkflowProofs.** How far the service implements `Workflow`, in three steps.
*Any interleaving*: each action is one step of `Workflow`, none, or a `StaleCommit`
(`WorkflowOrStale`, over one lemma per kind of commit), hence `OnlyStaleCommits`; and a service
without stale commits, such as one whose write compares, implements `Workflow` whatever else
overlaps (`ComparingServiceIsWorkflow`). *One request at a time on each document*, any
number on others (`Apart`, a hypothesis on the behaviour): the invariant `PInv` says that
the copy of a request is the document (`Current`) and what it sent took effect
(`Effective`), so there are no stale commits and all that fails under
interleaving holds: `ApartServiceIsWorkflow`, `ApartEventsFollowChange`,
`ApartTransitionsGoverned`, `ApartSectionsIsolated`, `ApartKeepsValidity`.
`OverlayOfOutgoing` is the reason: a whole copy laid over the document it is a copy of
stores the copy. *One request at a time*: `MaxInFlight = 1` implies `Apart`
(`SerialIsApart`), which gives `SerialServiceIsWorkflow` and `EventsFollowChangeAlways`.

**AdmissionProofs.** The invariant says what the loop has found out so far (no
rule behind `at` threw or granted) and where the user's records come from (each
is one the subject has had; a group whose lookup failed has none).
`LookupLossFailsClosed` rests on `RecordsOnlyHelp`: a record where there was none
takes no access away. `ListMatchesGet` rests on `OwnershipSettles`: a list about
ownership alone is settled by its first applicable rule. `SomeGroupStays` is a
matter of counting (`EffectiveRemains`): without the `+ 1` of
`auth.service.ts:54` it fails. Theorems: one per invariant of the run.

**SubscriptionsProofs.** Every step of the composition is a step of
`ResourceService` or leaves it alone (`ServiceStep`), so what is proved there holds
here (`ServiceUndisturbed`). For the listeners the invariant adds that whoever was
let in was judged (`Judged`); `NothingMissed` is inductive because a request ends
well only by `Notify`, which tells everybody it concerns, and nobody registers and
is told late. Theorems: `ListeningTypeCorrect`, `HeardIsDueAlways`,
`NothingMissedAlways`, `ServiceUndisturbed`.

**StorageProofs.** The invariant says who
owns a file and how far its owner has got (`Owned`: the chunks behind the owner's
position are there), that a key's file has an owner, and that an undisturbed reader
holds a settled file whole (`Reads`). `ProvidersAreStores` maps stages to what a
caller sees; every action is one step of `FileStore` or none. `LocalFindsOut` shows
that what `missing` finds is a matter of S3 alone. Theorems: `TypeCorrect`,
`LastPutCountsAlways`, `ReadsWholeAlways`, `LocalFindsOut`, `ProvidersAreStores`.

**PagingProofs.** `NothingSkipped` speaks of the end of a walk; on the way it is
`Ahead`: an untouched item that has not been returned is still to come, or is
excused. `NoRepeats` likewise needs `Passed`: what has been returned is not to come
again. Both hang on a page being a prefix of what is eligible (`FetchedFirst`,
`ListedFirst`).
When nothing changes and the values are there and differ, the exceptions fall away
and each item is returned once (`QuietWalkReturnsEachOnce`): a page then ends with the value of
an item it has returned (`Quiet`).
Theorems: `TypeCorrect`, `NoRepeatsAlways`, `NothingSkippedAlways`, for any page
size and any number of changes, and `QuietWalkReturnsEachOnce`.

**Only model-checked.** Liveness (`RequestDecided`, `RequestsEnd`, `ToldInTheEnd`,
`SubscriptionsSettle`, `UploadsEnd`, `CallsEnd`, `WalkEnds`), since the proof system
does not reason about fairness and `ENABLED` here. The theorems about `RefinesWorkflow`,
`RefinesLifecycle` and `RefinesStore` are complete, since those three abstract
specifications ask for no fairness.

**Where the broken sentences hold.** What section 5 finds broken has a theorem saying
under which condition it is kept: one request at a time on each document for
`TransitionsGoverned`, `SectionIsolation` and the validity of what is stored; an API definition that
names its readers for the conditions on a section; no two uploads of one content to one
section for `CollisionsAvoided`; local storage for `MissingIsNotFound`.

## 5. Where documentation and code part

- *Transitions are governed by rules* (`README.md:59`): the rules are judged
  on a copy, and the write does not ask for the state it was judged in
  (`stale_rules`).
- *Actors commit particular sections* (`README.md:37`): the write carries the
  whole copy and undoes what happened to other sections (`lost_update`). What
  is guaranteed is `SectionsPersist`: no section disappears.
- *Hashes avoid collisions* (`resource.service.ts:428`): two uploads of the
  same content have one key (`collision`).
- *A missing file is not found* (`storage/providers/S3Provider.spec.ts:91`):
  `checkFileExists` answers true in its `catch`, and the test passes because it
  expects the exception inside a `catch` that is never entered (`missing`). The
  caller gets a stream that breaks.

What follows is visible in the modules and has no run of its own:

- *OR of conditions* (`README.md:252`): a condition that is not met throws, and a
  later rule that is met is never looked at (`Reached`). As long as nothing throws it
  is an OR, which is proved (`AlternativesUnlessThrown`).
- *Events after a change* (`README.md:347`): with requests in flight together an
  event is also published when the write found no document (`Write`, `Remove`,
  `Finish`); with one request at a time on each document it is not, which is proved
  (`ApartEventsFollowChange`).
- *The whole resource is validated in any case* (`resource.service.ts:517`): the copy is;
  what the write makes of it with a section another request has added need not be
  valid (`Write`, `Overlay`). Apart from that a valid document stays valid
  (`ValidityKept`, `ApartKeepsValidity`).
- *Conditions on a section* (`README.md:55`, `test/testHelpers.ts:831`): the result of
  `verifyAccess` at `resource.service.ts:339` is discarded, so that the rules of a section
  operation keep a reader out only by throwing. They bind those they name
  (`SectionRulesHeard`); a reader none of them names is let in (`SectionAdmitted`), where the
  tests expect 403.
- *201 for a stored section* (`test/testHelpers.ts:442`): for a document without an
  `id` of its own, `resource.id.toString()` throws after the change is stored and
  announced, and the client gets an error (`Finish`).
- *SSE* (`README.md:33`): the route has no guard, so nothing has made a user when
  `subscribe` looks for one, and it is always refused (`MayListen`); and section
  operations, which throw or emit under `id`, reach no listener (`Told`).
- *The default group* (the comment at `auth.service.ts:53`, "if we know there is a
  more specific one"): the code counts the groups, whichever they are. A customer's
  token with one more group nobody looks at loses the customer; one without the
  system groups keeps it. A token may thus pass the guard as a customer whose rules
  then see no customer (`Effective`, `Guard`).
- *Pagination* (`docs/ponteggio.md:18` has it checked, `README.md:353` not):
  `paginate` has no caller. A walk over a date field ends with its first page, since
  `getLastValue` makes the date a string; items without the field are left out, and
  a page that ends with 0 or '' starts the walk again. A `limit` of 0, which the model
  leaves out, makes `getLastValue` throw on the empty slice.
- `getSection` reads `apiDef.get.access`, which no API definition has.
- An update with several files is always refused, because `handleFileUpload` tests
  the promise of `getFile` (`ReplaceFiles`), where `test/testHelpers.ts:588` expects
  200.
- `deleteSection` validates `null`, which throws after the files are unlinked
  (`DeleteSection`), where `test/testHelpers.ts:488` expects 201.
- `writeVerified` takes its digest before anything has been hashed, and compares the
  hash of a string with the hash of an object (`test/testdata.ts:121-131`). The file is
  stored either way. It has no caller.

## 6. Not modelled

- What `set` (`resource.service.ts:500-515`) writes besides `state`: the code can set any
  property and notes `createdAt` and `createdByAuthId`; `SectionWritten` has the state,
  the one the rules of the API definition look at.
- The moment between the read of an upload (`resource.service.ts:473`) and the start of
  its file writes (`:475`): `Starts` is both. Nothing of the request is visible in
  between, so that the two commute with every step of another request.
- Roles named like the resource class: `create` overwrites `<resource>Id` with
  a number.
- A `_id` sent by the client in a body.
- The order in which one bulk of storage operations is started; they are a set.
- A second storage operation of one request on the same key while the first is
  under way; operations are identified by kind, key and request.
- `getSection`, `insertSection`, `writeVerified`, `copy`, `copyFile`, `listFiles` and
  `LocalProvider.list`, `AuthenticationGuard`, `hasAnyRole` and `request`: no route or
  service calls them.
- What `download` answers when its stream breaks after the response has begun
  (`resource.controller.ts:272`): the wording of an answer.
- Descriptors: the stream `resource.service.ts:441` opens and nobody reads has no effect
  on documents, storage or answers.
- Which routes the controller takes away at start-up (`resource.controller.ts:413-441`), and
  the moment between start-up and the loading of the validation schemes: the models
  begin with a server that is ready, and a request without a route is no job.
- Messages of one emitter in the order of the answers: `emit` is synchronous, and what
  a listener is told of is kept as a set.
- The transport of a token: signature, expiry and the key server are passport's.
- Validation and date coercion as such; logging, documentation and
  configuration.

## 7. What could follow

- `Uploads` and `ResourceService` on one document, so that section requests and
  uploads meet. Each of them already contains what the other can do to it (the copy
  that is written back late), which is why they are apart.
- `Admission` in front of `ResourceService`: the grants of `ResourceService` are any
  grants, and `Admission` says which ones a token can become; a record that changes
  after it was looked up is a grant of its own.
- Several listeners and the order of their messages, if a client comes to rely on it.
