# A verification development for apoci

apoci is a federated container and package registry: every node stores images
and packages and is an ActivityPub actor that tells its followers about what is
pushed. This directory models the federation core of a node, its image and package
registries with their caches and collectors, and its schema migrations in TLA+,
checks the models with TLC and proves the main safety properties of all parts but
the migrations with TLAPS.

Paths below are relative to the repository's `internal/` unless they start with `configs/`,
`cmd/` or `README.md`.

## 1. Inventory

### Components

| Component | Source | State it keeps | Operations |
|---|---|---|---|
| In-memory work queue | `queue/simple.go` | a slice under a mutex, a condition variable, one watcher goroutine per blocked `PopCtx` | `Push`, `TryPush`, `Pop`, `PopCtx`, `Drain`, `Len` |
| Inbox worker pool | `activitypub/inbox_worker.go` | one `SimpleQueue`, N services with a run loop each | `Enqueue`, `Start`, `Stop`, run, process, drain |
| Outgoing delivery queue | `activitypub/delivery_queue.go`, `delivery.go`, `database/delivery.go` | rows of `delivery_queue`, the circuit breaker's two maps | enqueue, processBatch, deliver, cleanup, drainRemaining, PreWarmCircuit |
| Peer health checks | `peering/health.go` | `is_healthy` of the actors | checkAll |
| Federation inbox | `activitypub/inbox.go`, `database/activities.go` | ids in `activities`, block sets, rate limiters, key cache | ServeHTTP, dispatch, pause and resume |
| Follow relationships | `federation/federation.go`, `activitypub/inbox_follow.go`, `follow.go`, `database/actors.go` | the actor rows (`they_follow_us`, `we_follow_them`, `we_follow_status`), `follow_requests` | AddFollow, AcceptFollow, RejectFollow, RemoveFollow, processFollow/Accept/Reject/Undo, expiry |
| Federated content | `activitypub/inbox_content.go` | repositories, manifests, tags, peer blob references, tombstones | processCreate/Update/Announce/Delete, the ingest functions |
| Publisher and outbox | `activitypub/publisher.go`, `outbox.go` | outbound rows of `activities` | publish*, createAndDeliver |
| Database schema | `database/{database,models}.go` | `schema_version`, the tables | migrate, V1 to V9 |
| OCI registry | `oci/`, `database/{blobs,uploads}.go` | repositories, manifests, tags, blobs, upload sessions | push, pull, delete, chunked upload |
| Blob storage | `blobstore/` | files or S3 objects | put (temporary file, rename), get, delete |
| Garbage collector | `peering/gc.go` | none of its own | sweeps of uploads, orphaned blobs, files, tombstones, retention |
| Blob replication | `peering/{replicator,fetcher}.go` | in-flight set | replicate on announce, fetch from a peer |
| Outbound replication | `replication/` | a queue and a worker per target | replicate to an external registry |
| Pull-through cache | `upstream/` | a circuit per upstream, tokens, challenges, flights | fetch, resolve |
| Package backends | `registry/`, `database/packages.go` | packages, versions, files | publish, yank, delete, ingest of federated packages |
| Vulnerability scanner | `scanner/` | a `SimpleQueue`, scan results | scan |
| Signatures and identity | `activitypub/{httpsig,keys,actor,actor_cache,webfinger,resolver,urlcheck,nodeinfo}.go` | keys, cached actors | sign, verify, fetch |
| Server lifecycle | `server/server.go`, `workers/` | contexts, wait groups | Start, shutdown, periodic tasks |
| Admin API, web UI, middleware | `server/{admin,ui,middleware,routes}.go`, `admin/` | none | calls of the services above |
| Command line, configuration, metrics, notifications | `cmd/apoci/main.go`, `config/`, `metrics/`, `notify/`, `validate/`, `apidocs/` | none | |

### How they interact

A push writes the registry's tables and calls the publisher, which records an
outbound activity and enqueues one delivery row per follower. The delivery
queue's single run loop fetches due rows in batches, starts a goroutine for each
and POSTs to the peers' inboxes. A peer's inbox checks and deduplicates the
activity, hands it to the worker pool (an in-memory queue) and answers 202; a
worker dispatches it, which changes the follow tables or the registry's tables
and may itself enqueue deliveries (an Accept) or replication. The breaker of the
delivery queue and the health checker write the same `is_healthy` column.
Operators act on the follow tables at the same time through the admin API.

A pushed manifest is also shown to the registry's observers: the scanner, whose
report is pushed as another manifest, and the outbound replication, which copies
it to external registries. What is not stored here is fetched from the peer that
owns it or from an upstream, and kept. The collector removes, in one cycle after
the other, expired uploads, tags by retention, untagged manifests, orphaned rows
and files. The package backends share the tables of the OCI registry, publish
through the same publisher and ingest through the same inbox.

### What is hard here

- goroutines that park and are woken (`PopCtx`), against contexts that end;
- a graceful shutdown that has to end everything in the right order, and crashes
  at any point, over a queue that is half in the database and half in memory;
- rows read once and decided on later (`attempts`, `followGone`, the requests);
- at-least-once delivery into an inbox that has to process at most once;
- two nodes that change the same relationship from both ends with messages that
  overtake each other, get repeated or get lost;
- a collector that lists rows, files, tags and references at different times,
  without a lock that pushes, copies and deletions would respect;
- activities about one repository or package, ingested by several workers in any
  order, next to a second sender that claims the same name;
- handlers that look first and write later, and that publish after they wrote;
- two kinds of mutex in the chunked uploads, with a reaper, a purge and repeated
  requests on one writer;
- tokens shared, dropped and replaced by overlapping pulls;
- migrations without a transaction, which the next start runs again.

`PROJECT.json` lists these as hazards, each at its line, with the properties
that catch them.

### What makes each component correct

| Component | Properties |
|---|---|
| Work queue | no consumer sleeps while an item is queued; an item is returned once |
| Worker pool | an accepted task is dispatched exactly once, also through a shutdown; Stop returns |
| Delivery queue | delivered means the peer said OK; failed means the attempts are used up; nothing pending is dropped; everything is settled; the breaker opens when it should |
| Inbox | at most one dispatch per activity; what was acknowledged is not lost |
| Follows | once quiet, the two databases agree; mutual nodes end up following each other |
| Content | a copy holds its owner's content only; what is gone has its tombstone; the copy is complete in whatever order activities arrive; what is withdrawn is retracted |
| Packages | a published version is not replaced; a name belongs to one owner; the follower serves what the publisher does; dist-tags resolve |
| Uploads | no deadlock of the mutexes; what was verified is what is stored; staging files go |
| Pull-through | nobody waits for a leader that left; overlapping pulls cost no pull its answer; a private repository is marked before it can be read |
| Observers | a target holds whole images; its tag follows; one report per image |
| Retention | nothing is left dangling; keepLastN tags stay; followers are told what is stored |
| Schema | no row is lost and no start fails for having been interrupted |
| Blobs | a stored image keeps its bytes; an unreferenced blob eventually loses them; rows and files come to agree |

## 2. The modules and the code

`SimpleQueue` — `queue/simple.go`. Each critical section of the mutex is one
action, and `cond.Wait` cuts `PopCtx` in two (`PopCtx`, `Resume`). `watcher` holds
the watcher goroutines: several can be left over from earlier calls, but all
those whose call is over do the same, so they are one element. The context of a
consumer is a member of `cancelled` or not.

`InboxWorker` — `activitypub/inbox_worker.go` on top of `SimpleQueue`, with the part
of `server.Start` that stops it: the server's context ends, `Shutdown` waits for the
handlers, `Stop` ends the services one after the other, waits and drains.

`ReliableDelivery` — the abstract specification: what a publisher may rely on. Its
`accepted` is what the peer did, `status` and `attempts` are the row.

`DeliveryQueue` — `activitypub/delivery_queue.go` and `database/delivery.go`. A row is
its `(activity_id, inbox_url)` pair. The run loop is `loop`; each row of a batch has
a goroutine (`pc`) with the attempts it was fetched with (`snap`). Each step of a
goroutine is a call whose effect another goroutine can see: two methods of the
breaker are two steps, even where the code calls them one after the other. Time
is reduced to the comparisons the code makes with it: a row is due, a row is old
enough for cleanup, an open circuit has expired. A shutdown makes every further
statement of the running batch fail and is followed by the last batch of
`drainRemaining` under its own context; a crash may come anywhere.
`CheckHealth` is the health checker, as another writer of `is_healthy`.

`Inbox` — `activitypub/inbox.go`: concurrent requests of one sender from the first
block-list check to the answer, the bounded queue, the workers' dispatch and the
part of its effect that `ServeHTTP` reads back (`followGone`). Signature, actor match,
rate limit and id checks are one nondeterministic refusal.

`ActivityDelivery` — composes a sender that behaves as `ReliableDelivery` allows with
`Inbox` as the receiver: POSTs, answers that come late, timeouts and retries.

`FollowHandshake` — two nodes with the follow tables of each, an operator who runs
one command at a time, one inbox task per kind of activity, and the activities
between them. Activities other than Follows carry fresh ids and are counted per
kind, without order; a Follow's id is a function of the two actors, so its row in
the delivery queue is a variable of its own (`followRow`). Every database
statement and every send is one step. The modes of the nodes are part of the
initial state (`scenario`).

`BlobLifecycle` — the rows of `blobs` (`row`, with `stored_locally`, and `rowOld` for `created_at`),
`peer_blobs`, the manifests with their references (`refs`) and the files of
`blobstore/store.go`. Clients upload or mount layers and store a manifest
(`oci/handler.go`), a peer's announcement is ingested and its blob copied
(`activitypub/inbox_content.go`, `peering/replicator.go`), operators delete
(`server/admin.go`), and the collector goes through its cycle (`peering/gc.go`). Each
statement, transaction and file operation is a step. Time is young or old, as
compared with `blobGCGracePeriod`; the cutoff of the file sweep is taken once, so files
that grow old later are still spared (`oldFiles`). The history variable `damaged`
collects the digests whose bytes were lost, deleted as a blob, or whose removal
was under way when somebody stored them.

`FederatedContent` — one repository on its owner and its copy on a mirror. On the
owner: pushes, deletes of a manifest, a tag or the repository (`oci/handler.go`,
`server/admin.go`), exclusion and the withdrawal sweep (`server/server.go`), and the
publications in between (`activitypub/publisher.go`), each of which can be lost. On
the mirror: workers that ingest the activities (`activitypub/inbox_content.go`) in any
order, a second sender (`Rival`) that announces the same name, pulls that fetch from
the owner, and evictions. A repository is its id, since ids are not reused and
what a request looked up may be gone. `ever`, `deleted`, `exposed`, `unsent` and `tagLost`
are history.

`Packages` — one package in one of the five formats, on its publisher and a
follower. A handler (`registry/*/handlers.go`, `federation.go`) is the sequence of its
steps, each an operator named after the database function or publication it
calls, so that the formats differ only in their sequences; a step that refuses
ends the handler. Publishes, dist-tags, yanks, deletes, fills of the cache from
the public index, ingests, downloads and indexes of both nodes.

`UploadSession` — chunked uploads: the writers with their staging files
(`oci/blobwriter.go`), the map of writers, the requests, the reaper of expired sessions,
the sweep of the staging directory and a purge (`oci/handler.go`), the
`upload_sessions` rows. The two mutexes are variables.

`PullThrough` — pulls of a tag, a manifest or a blob through an upstream registry
(`upstream/fetcher.go`): the anonymous probe, the challenge, the token exchange, its
cache, a 401 that drops it, singleflight, the circuit, and what the handlers then
store and mark private; and the index fetches of PyPI and Go over a list of bases.

`ManifestObservers` — what `pushManifest` sets off: the scanner with its queue,
`HasReferrer` and `AttachReferrer`, and per target of the outbound replication a queue
and a worker whose recursion over the entries of an index is a stack.

`Retention` — `retentionSweep` and `pruneUntaggedManifests` (`peering/gc.go`) with
`EffectiveRetention`, tombstones and publications, against pushes, repeated pushes and
deletions of tags; each of the statements that follow a prune may fail.

`Migration` — `migrate` (`database/database.go`) on an empty database and on those that
versions 1, 5 and 8 left, on SQLite and Postgres. A migration is the sequence of
its statements; a table is the columns that migrations change and the set of
earlier tables whose rows it holds. The process stops between any two statements.

The `MC*` modules give the constants that are functions (which domain a delivery
goes to, which kind an activity has, which layers an image has) and the
scenarios that a run starts from. `MCServices` puts five modules that share no
state next to each other; `part` says whose behaviour it is. It
extends `Services`, which has the first four, with variables renamed where they
share a name, and instantiates the migrations; `ServicesSpec` is its specification.
A module `X_proofs` has the theorems about `X`; `InboxWorker_proofs` has
those about `SimpleQueue` too, `Inbox_proofs` those about `ActivityDelivery`, and
`Services_proofs` those about `UploadSession`, `ManifestObservers`, `PullThrough` and
`Retention`, each for the component's own specification.

## 3. The runs

| Run | Instance | What it shows |
|---|---|---|
| `worker_pool` | 2 workers, 3 tasks, queue of 2 | `NoLostWakeup`, `TaskConservation`, `DrainComplete`; with fairness `EveryTaskHandled`, `StopTerminates` |
| `delivery_queue` | 2 deliveries to one domain, 2 attempts, threshold 2, a restart, a database error | `SnapshotFresh`, `BreakerCoherent`, and that the queue implements `ReliableDelivery` (`LedgerSpec`) |
| `delivery_settles` | a delivery to a peer and one to an inbox without host, threshold 1, a restart | `EventuallySettled` |
| `inbox` | a Follow, an Undo, a content activity; 2 requests, 2 workers, queue of 1, a crash, a database error | `AtMostOnce` |
| `activity_delivery` | a Follow and a content activity, 2 requests, 4 POSTs, a database error, a queue with room | `DeliveredNotLost`, `ProcessedOrFailed` |
| `follow_handshake` | a node with operator approval and a mutual one with one event; two mutual nodes; one that accepts everybody; 2 follows each, 3 in the last | `Agreement`, `MutualConverges` |
| `blob_lifecycle` | one layer shared by 2 images, 2 clients that upload it, 3 pushes, 2 events | `ImageKept` |
| `blob_collection` | an image of one layer, a client that uploads or mounts it, 2 pushes, 2 events | `DriftHeals`, `OrphansCollected` |
| `federated_content` | 2 manifests, a tag, 2 requests, 2 workers, a rival; 2 pushes and a delete, or a push with a delete and an event, or pushes with events | `NoOrphans`, `GoneIsTombstoned`, `SourceIsOwner`, `MirrorComplete`, `WithdrawnIsRetracted` |
| `packages` | five formats, 2 versions, 2 contents, 3 goroutines; 2 publications with another request or a failure, or one with two others | `AckedImmutable`, `OwnedContent`, `MirrorAgrees`, `TagsResolve` |
| `registry_services`, uploads | an upload, 2 requests at a time, a cleaner; 3 requests, or 2 and an event | `NoLockCycle`, `CommitUndisturbed`, `StagingReclaimed` |
| `registry_services`, pulls | 2 pulls at a time; six combinations of authentication, kinds, faults and expiry | `NobodyStranded`, `FaultlessServed`, `PrivateBeforeReadable` |
| `registry_services`, pushes | an image and an index of it, 2 targets, queues of 2; a client with 3 pushes and a fault, or with 2 pushes, scanner and target; 2 clients with 2 pushes and a fault | `TargetComplete`, `TagFollows`, `OneReport` |
| `registry_services`, retention | an image, an index, a referrer, 3 tags, 2 clients; three policies, 2 or 3 pushes, an event | `NothingDangles`, `LastNKept`, `PublishedAsStored` |
| `registry_services`, migration | 4 databases, 2 dialects, 3 starts | `UpgradeLosesNothing` |

One run states what the repository says of the program and finds a behaviour of
the code that contradicts it, `delivery_busy`: an inbox whose worker queue is full
answers 503 "busy, retry later" after it has recorded the id. The retry is
answered 202 as a duplicate; the sender has the activity as delivered and nobody
ever dispatches it.

Further disagreements between the code and what its comments and documents say
were met while modelling. The model does what the code does, and where a
property is concerned it sets the case apart, by name:

- the server launches `PreWarmCircuit` after `Start` (`server/server.go:440`), its comment wants
  it before: after a restart a batch can go out to a dead peer first;
- the first Follow of a peer leaves no dedup row (`activitypub/inbox.go:338`), so a replay of
  it is dispatched once more although "duplicates and replays are rejected";
- AddFollow after a rejection or a removal meets the settled row of the first
  Follow, which has the same id, and sends nothing for up to a week
  (`activitypub/follow.go:99`; after a Reject the run reaches it and `Agreement` sets it apart
  through `unsent`; after a removal `Agreement` claims nothing);
- content is accepted from those who follow this node (`activitypub/inbox.go:535`), so a node
  that follows a peer and is not followed back ignores what the peer sends it;
- the file sweep reads a file's mtime and deletes it in two steps
  (`peering/gc.go:546-557`): an upload of the same digest in between loses its bytes. A
  purge that removes files after its transaction (`server/admin.go:432`, `447`, `512`) has
  the same window. `ImageKept` sets both apart through `damaged`; everything else it keeps;
- the grace period counts from `created_at`, not from when a blob lost its last
  reference (`configs/apoci.yaml:55` says "newly-unreferenced"), so a mounted layer may be
  collected before its manifest is stored. `ImageKept` is stated for uploads;
- a pull through a mirror stores a manifest for which the mirror has a tombstone
  (`oci/handler.go:761-785`, before the check at 808);
- the publish handlers of nuget, goproxy and pypi look first and upsert later, so
  that two publications of a version can both succeed; `AckedImmutable` is stated for
  npm and cargo;
- a nuget activity carries its metadata as base64 text that the follower cannot
  decode (`registry/nuget/federation.go:28`), and a federated Go module comes without its
  `.mod` (`registry/goproxy/federation.go:102`); `MirrorAgrees` exempts nuget and models the `.zip`;
- a repository delete that takes an expired upload session leaves its writer and
  staging file until the next start (`oci/handler.go:318`; `unlisted` in `StagingReclaimed`);
- `IsRepoPrivate` asks about the token that is cached now, which another pull may
  have replaced (`upstream/fetcher.go:115`; `history.overlap` in `PrivateBeforeReadable`);
- retention has no "DB column overrides" (`README.md:182`), and deletes by name what it
  listed before: a tag pushed again in between goes with it (`peering/gc.go:367`).
  `LastNKept` therefore counts the tags that are left and does not say that they are
  the newest;
- a manifest pushed again keeps its `created_at` and can be pruned before its tag
  is put (`reused` in `NothingDangles`); one pushed again between the transaction that
  pruned it and its Delete is stored here and deleted at the followers (`crossed` in
  `PublishedAsStored`), and a tombstone or a publication that fails or that a crash cuts
  off is not repeated (`cut`);
- `migrateV5`'s INSERT ... SELECT ... ON CONFLICT without WHERE is a syntax error in
  SQLite (`database/database.go:636`): an old SQLite database is not lost, but does not
  open. `UpgradeLosesNothing` allows a failing start for these alone.

### Bounds

The goroutines of the delivery queue meet only through a row, a domain and the
database, so two deliveries to one domain give every kind of interference; with
two attempts there is one that is retried and one that is the last, and with a
threshold of two one failure that does not open the circuit and one that does. In
the worker pool two consumers are enough for one to steal what the other was
woken for, three tasks against a queue of two for a refusal. Two requests in the
inbox make a retry overtake its first POST. In the follow handshake a third
follow makes an operator ask again after an answer (a second one after a Reject
does so too), and an event is a removal, an
expiry, a loss or a repeated delivery; one of them at a time keeps each case
readable, and after a removal, an expiry or a loss the databases may
legitimately differ (`disturbed`). For the blobs, every interference is on
one digest, which all steps name, so one layer is enough; two images make a
reference outlive a deletion, two clients make uploads of it overlap, and a third
push follows an abandoned one. An event is an announcement, a copy, a deletion, a
loss or a crash; two of them give a crash in the middle of a deletion.

In `FederatedContent` two requests make a push overlap a delete, two workers two
first announcements, two digests a tag that moves; the budgets share out what
happens in one behaviour, because two of everything at once is out of reach. In
`Packages` three goroutines are two publications and an ingest or a fill. Two pulls
are a leader and a waiter. An index over an image is the smallest recursion, two targets one that
matches and one that does not. A keepLastN of one or two among three tags, one of them pinned,
leaves a tag to keep and one to delete, a batch of one cuts a cycle short, a third push pushes again
what the collector has listed, and two clients make pushes of one manifest overlap. For the
observers a setup names the clients that push: one with three pushes, or two whose two pushes
overlap, tagged or not, of which `TagFollows` excludes the tagged ones only. A migration runs at most three times: one start stops in the middle, one stops in the
repetition, one ends.

The counters `MaxRestarts`, `MaxErrors`, `MaxPosts`, `MaxCrashes`, `MaxPushes`, `MaxEvents`,
`MaxStarts` and the fields of the budgets, scenarios, setups and policies bound a
behaviour and stand in the guards; the theorems do not depend on them.

The type invariant of `InboxWorker` is checked and proved, those of `DeliveryQueue`, `Inbox`
and `Packages` are proved. In the other modules `TypeOK` describes the state for the reader.

Deadlock is checked for the delivery queue and the blobs. The other models may stop: after
`Stop`, and when the POSTs, follows, pushes or starts a behaviour may have are used
up. A deadlock of the upload mutexes is `NoLockCycle`.

### Fairness

- Goroutines that can run do run (weak fairness of each worker, watcher,
  delivery goroutine, handler and task): the Go scheduler.
- The poll ticker of the delivery queue fires and backoffs end: `ProcessBatch` and
  `BackoffOver` are weakly fair. That `notify` may be full is therefore harmless.
- The shutdown goroutine goes through once the context is over, and a node that
  went down is started again (`delivery_settles` only).
- In the composed model the sender retries and times out: this is what
  `EventuallySettled` shows for the delivery queue.
- In `FollowHandshake` some step of a command or task that was begun, or some
  delivery, goes on as long as there is one; operators need not act.
- In `UploadSession` requests are strongly fair, because each of their steps waits
  for a mutex that others keep taking (Go's mutexes do not starve a waiter);
  the reaper's ticker, its goroutine and the passing of the TTL are weakly fair.
  `MCServices` repeats this for its part.
- In `BlobLifecycle` the collector keeps running (its ticker) and gets on with a cycle, the
  grace period passes, and a purge, a copy (5 minutes) and a push come to an end;
  a push may always be abandoned, and the client's steps are not fair.
- No fairness is assumed for publishers, operators, the passing of a week, health
  checks or the start of a shutdown.

## 4. What is proved

All proofs are for any constants that satisfy the named assumptions of the
modules: any number of tasks, consumers, deliveries, domains, attempts, restarts,
requests, workers, uploads, images, layers, manifests, tags, versions. The
assumptions only keep names apart (a digest is not `NoDigest`, a request not the
sweep, a node neither the public index nor nobody), say of which kind the
functions among the constants are, and that a queue or a batch is not empty; none
excludes an instance that a deployment could be. `ObserversAssumption`,
`PullAssumption` and `RetentionAssumption` are hypotheses of the theorems that need
them; `MCServices` assumes all three for its instance, so that TLC evaluates them.

Two theorems have a further hypothesis. `TargetsComplete` takes a `rank` of the images
that is lower for the entries of an index (`Ranked`): a digest covers the digests of
the entries, so no index can contain itself. TLC finds such a rank for the
instance it runs. `DeliveredIsKept` is about behaviours in which no POST finds the
workers' queue full (`NeverBusy`); without it the statement is false, which is what
`delivery_busy` shows. The queue of the run `activity_delivery` has room for everything.

`InboxWorker_proofs` — `NoWakeupIsLost` for the queue alone, `PoolLosesNoWakeup` for the pool.
While no context has ended, the woken consumers are at least as many as the
queued items as long as somebody is parked. The statement is inductive with the
types: a push wakes one for the one it adds, a fast-path pop takes an item
without using a wakeup, and a consumer parks again only when the queue is empty.
`WokenCount` has the cardinalities. A step of the pool is a step of the queue or
parks and wakes nobody.

`TypeCorrect`, `NoTaskLost`, `StopLeavesNothing`: a worker's result is only meaningful in some
places of its loop, so the types are strengthened by `Places` (only a worker in
"pop" has a call in progress; one in "process" has a task). Conservation is
inductive with that; `AppendElems` and `TailElems` say what a push and a pop do to the
set of queued tasks and to their being distinct. `StopOrder` (no pushes once Stop has
begun, all workers gone before the drain, an empty queue after it) turns
conservation into `DrainComplete`.

`DeliveryQueue_proofs` — `TypeCorrect`, `SnapshotIsFresh`, `BreakerIsCoherent`,
`ImplementsReliableDelivery`. The inductive invariant `QueueInv` adds to the types and the
fresh snapshots: no goroutine outside a batch (`Quiescent`: otherwise a second fetch or
a cleanup could touch a row in work), a pending row has an attempt left
(`AttemptsLeft`: otherwise the counter could pass the maximum), and a goroutine on
the success path has the peer's OK (`SuccessEarned`: otherwise `MarkDelivered` would not
be a `Confirm`). The breaker's coherence needs only the types. For the refinement
every action is mapped to the abstract one of the same meaning or to a stutter;
`MarkDeliveryFailed` is a `FailAttempt` because the snapshot it decides on is fresh.

`Inbox_proofs` — `TypeCorrect`, `DispatchedAtMostOnce`. For an activity other than a Follow, as
long as its id is not in `activities` nothing of it is past the insert (`Unseen`), and
afterwards it has one place at most: a request past the insert, the queue, a
worker, or the dispatches (`OnePlace`, stated with sets that have at most one element,
so that nothing is counted). `Routed` says which kinds take which path, as a Follow may
skip the insert.

The other half of `Inbox_proofs` is about `ActivityDelivery`: `LinkDispatchesOnce`, because every
step of the link is a step of the inbox or none of it; and `DeliveredIsKept`, by
`LinkInv`: an activity with a dedup row is kept (claimed by a request, queued, with a
worker or dispatched), and so is one whose POST was answered with success or that
the sender has as delivered. A claim turns into a place in the queue, that into a
task, that into a dispatch; only a full queue gives one up.

`FollowHandshake_proofs` — `TypeCorrect`, `DatabasesAgree`, for any modes and any number of
follows and events. `FollowInv` follows one direction: without a trace of the follow nobody acts on
it (`NotAsked`), an Accept is sent after the promotion (`Promoted`), a Reject by an operator
(`Refused`), a follower whose follow is pending is told or was refused (`Told`), and a pending
follow is on its way, with the operator, or being answered, or the case of one of the exceptions
(`Pending`). `AddFollow` has no guard: an operator asks as often as he likes, also while the settled
row of an earlier Follow is there. After a Reject nothing is then sent, which the history `unsent`
records until a Follow is enqueued again. The attempt to prove `Agreement` as it stood before showed
that it failed with three follows: an operator may reject a node that is a follower by an earlier
Follow, and the Follow sent again is then taken for a duplicate. The property names this case too
and the run has a third follow.

`Services_proofs`, uploads — `LocksAcyclic`, `CommitStable`. `UploadInv` says who holds which mutex
where: somebody in the middle of a `Write` holds the writer's mutex and the upload
is not done (`WriterHolds`), whoever holds it is at one of the places that do
(`HolderWrites`), and a request past the comparison in `Commit` has what it compared, on
an upload that is done (`Compared`). Only the sweep ever waits for a writer while it
holds the map, and no holder of a writer waits for the map.

`Services_proofs`, observers — `TargetsComplete`, `OneReportEach`, `TagsFollow`. The first is about
the recursion of `replicate`. What a frame of the stack has read and no longer has
to do is at the target, or is the frame above it (`FrameDone`); a frame is of an
entry of the one below (`Nested`); and what was visited is at the target or on the
stack (`VisitedSent`). The last is where ranks are needed: an entry that is skipped
because it was visited could otherwise be one whose frame is still open further
down, and its index would be put before it. `OneReportEach` needs that reports are
pushed by the scanner alone, for the image it scans, and that the image has no
report from the check to the push (`ReportInv`). `TagsFollow`: for every target that has
dropped nothing, the last tag is with a push that is still to queue its job
(`Pending`), with the last job in the queue that sets a tag (`LastQueued`), with the worker
(`AtWork`), or at the target (`Settled`), and no job behind it sets another. Reports and
untagged pushes may stand in between, and without a fault a job finds all it
needs (`StoredInv`).

`Services_proofs`, pulls — `NobodyIsStranded`, `NoFaultNoFailure`, `MarkedBeforeReadable`, all from
`PullInv`. `FlightInv` ties the steps of a pull to the flights: who is at a step of a
flight leads it (`Led`), who leads one is at such a step, or leads a token flight and
waits for the discovery (`Leaders`), and who waits is in one flight that has a leader
(`Waiters`). `Serving` is about behaviours without a fault: circuits stay closed, no pull
has an error in its hands, and a pull that a 401 has sent back holds a token
which upstream takes (`Good`). That holds because a retry asks for its token in a
flight of its own, which it shares with other retries only. `Marking`, for pulls
that do not overlap: what upstream let in with credentials is known to the token
cache, or has no entry there any more, until the repository is marked.

`Services_proofs`, retention — `CollectorLeavesNothingDangling`, `LastTagsAreKept`,
`FollowersAreTold`. For the first, a push that is not exempt has an old row neither for its manifest nor for
an entry, the entries are stored, and so is the manifest once the push has
stored it (`PushedOK`); pruning takes old rows only, none that is tagged or an entry.
The proof attempt failed on `reused`, the history of what `NothingDangles` exempts:
with two clients the end of one push cleared it while another push of the same
old manifest was under way, which a run with one client could not show. It is
now cleared by the last such push, and the run has two clients. For the second,
either all unpinned tags that were pushed are there or keepLastN of them, less
those that clients deleted (`Enough`), and as long as something is listed for deletion
this is so without what is listed (`Spared`): a tag pushed after the listing comes
on top, and deleting by name takes nothing else. When the list is made, keepLastN
unpinned tags come before the first candidate (`CandidatesSpare`). Which positions a
tag list has after a push or a deletion (`PrependFacts`, `RemovedFacts`) is argued
position by position, without induction over the list. For the third, `PruneOK` says
that what is between its prune and its Delete is in the collector's hands, with
the tombstone before the publication, and not stored again unless it crossed;
everything else is `Told`. It uses the first's `PushedOK`: a push that is not exempt has
its manifest stored when it publishes.

`FederatedContent_proofs` — `OrphanFree`, `GoneForGood`, `WithdrawalComplete` from the owner's invariant
(`OwnerInv`: what a request knows at each of its steps, what is stored was stored by
somebody, and what the withdrawal sweep has still to retract is in its list);
`CopyHasOneSource` from the mirror's (`MirrorInv`: a task or pull that has passed the owner
check works for the owner of the repository it looked up, for as long as that id
exists); and `CopyComplete` from both with `AllAnnounced`: everything that is stored and not
exempt is on its way or has arrived. For that, each place an announcement can be
at (a request still to send it, the network, a task before each of its steps,
the copy) is a disjunct, and a step moves it from one to a later one; `Traced` says
that deletions on their way were asked for, so that they undo nothing else.

`BlobLifecycle_proofs` — `ImagesKept`, for clients that upload their layers (`~Reuse`; a mounted
layer has no grace period, see section 3). What an upload in progress has
written is young, not among the files the sweep has listed as old, and not in
anybody's hands for removal (`UploadSafe`); a stored image's layers have their files, and
a collector that has looked at the references before the image was stored will
not find the file old (`PushedSafe`).

`Packages_proofs` — `TypeCorrect`, `ContentIsOwned`, `PublicationImmutable`, `DistTagsResolve`,
`MirrorServesSame`. A handler is a
sequence of steps, so the argument is about their order: `Follows`, `Free` and `NoneAfter` are
checked once per handler and shown to survive each step. `OwnInv`: a handler that
is still to write has compared its owner or will do so first, and the owner of a
package never changes. `ClaimInv`, for the two formats that claim a version by an
insert: the row in the hands of a publication is its own claim, claims are distinct,
ingestions claim nothing, and the file is written before anything is sent or
answered. `TagInv`, for npm: the version a tag step names was found by the same
handler before, and every version of the publisher is announced (still to be
sent, on the network, in an ingestion that is to store it, or there), unless the
follower has the package from elsewhere; `NoTags`, for the other formats. `CopyInv`, for
all formats but nuget: a handler stores a file only for a version row it has in
its hands and is refused by nothing afterwards, so the content of a file or of an
activity is one the publisher has accepted or is past refusing (`Accepting`), and
the file of a version it has accepted is on its way to the follower or there
(`OnItsWay`); where one publication was accepted, both nodes therefore have its
content. `MirrorServesSame` needs that no upload is the placeholder `None`.

The inductive invariants were checked with TLC on the instances of the runs
before they were proved.

Only model-checked: everything temporal (`EveryTaskHandled`, `StopTerminates`,
`EventuallySettled`, `ProcessedOrFailed`, `MutualConverges`, `DriftHeals`, `OrphansCollected`,
`StagingReclaimed`), which is out of this prover's reach with fairness; and
`UpgradeLosesNothing`, because `Migration` has few parameters that a theorem would range
over: its run covers it completely up to the number of starts.

## 5. What is left out

- Inbox: the synchronous path without a worker pool, which the server never
  uses. Two senders: nothing `ServeHTTP` decides depends on another sender apart from
  room in the queue, which the sender's other activities stand for.
- Inbox: a crash after the 202 loses the task, which was only in memory. The code
  promises nothing else, so `ActivityDelivery` follows a receiver that stays up.
- Delivery queue: an inbox without host may answer in the model; in the code its
  POST always fails.
- Follows: the command line's direct sends when the server is down
  (`cmd/apoci/main.go`), database errors, `RefreshActors` (keys and aliases only), paused
  peers, blocked domains.
- Blobs: in `BlobLifecycle` statements that fail within a sweep, more than one copy or
  purge at a time, the S3 store. A push is assumed to be over within the grace
  period. Which manifest retention deletes is `Retention`'s; here it only goes.
- Content: a repository delete, with its checks, is one atomic step. That is so on
  SQLite, where it is an immediate transaction; on Postgres, as
  `database/packages.go:802-811` says, a push can interleave with it under READ COMMITTED
  and leave a row the delete does not see. `NoOrphans` and `GoneIsTombstoned` are
  claimed for SQLite.
- Content: the gate `isFollowed` (both nodes follow each other), Announce, the alias
  of a moved actor, failing statements of the mirror.
- Packages: documents and names; request authentication; a second follower.
- Uploads: ranges, and the blob store behind `Put`.
- Pull-through: name parsing, document rewriting, time beyond "expired or not".
- Observers: glob matching (a set of targets), `Status`; trivy succeeds or fails.
- Migration: indexes, and the values that the merge of V5 gives to an actor that is
  in several tables.
- Server: the 30 s limits on `Shutdown` and `Stop`; with them a stop may give up early.
- Signatures, parsing, rate limits, metrics, notifications, the web UI.

Observations that no property states, because the code accepts them or nothing
depends on them:

- a cancelled consumer can swallow a Signal (`queue/simple.go:94`): the item waits for
  the next push or for the drain, so `NoLostWakeup` speaks of contexts that live;
- the breaker counts failures since the circuit last closed, not consecutive
  ones: a success in between does not reset the count
  (`activitypub/delivery_queue.go:68-78`);
- a delivery skipped by an open circuit uses up an attempt; the whole backoff is
  shorter than the hour a circuit stays open, so most of a row's attempts can
  pass without a POST;
- an Undo that overtakes its Follow removes nothing and the Follow then applies;
- RemoveFollow clears both directions locally, while its Undo clears only the
  peer's follower flag;
- `setYanked`, `distTagPut` and nuget's delete do not look at the owner, and nuget's delete is
  not published; npm's deletion handler for activities is never triggered;
- a publish that fails half way leaves a version without file, and its repetition
  is refused with 409; an Update of a tag or yank that overtakes its Create is
  dropped;
- a failing `SetRepositoryPrivate` is only logged;
- the leader of a token flight uses its own request's context, so that a client
  that goes away fails the pulls that wait with it, and counts as a failure of
  the upstream;
- a blob with a row but no local file is asked for at peers only
  (`oci/handler.go:410-455`); a cached upstream tag is never looked up again; a token
  endpoint that refuses the anonymous request is not asked with credentials;
- jobs of the outbound replication are in memory and are not repeated when they
  fail; overlapping pushes of a tag may be queued in the other order;
- `oci/blobwriter.go:89-91` says that the two locks never nest; the sweep nests them, in
  one order only (`NoLockCycle`);
- a purge's sweep can remove the file of a writer that is not registered yet;
  the upload then fails;
- referrers of tagged images are pruned like any untagged manifest;
- `repository_owners` is dropped by V6 without a copy; on Postgres `isMissingTableErr` would
  take a missing column for a missing table, which V4 prevents;
- a Reject also deletes the request of the one who was rejected, as
  `TestInboxRejectCleansBothDirections` wants it.

## 6. Plan

Done, in this order: `SimpleQueue`, `InboxWorker`, `ReliableDelivery`, `DeliveryQueue`, `Inbox`,
`ActivityDelivery` (composes the two ends), `FollowHandshake`, `BlobLifecycle`, `FederatedContent`,
`Packages`, `UploadSession`, `PullThrough`, `ManifestObservers`, `Retention`, `Migration`; proofs for the
first four, then for `Inbox`, `UploadSession`, `FederatedContent`, `BlobLifecycle` and `Packages`,
then for `ActivityDelivery`, `FollowHandshake`, `ManifestObservers`, `PullThrough` and `Retention`.

What would come next: in `FollowHandshake` a second peer, and what the nodes agree on
after a removal; in `BlobLifecycle` statements that fail within a sweep.

Not modelled, and why: signatures, keys and identity are cryptography, parsing
and static documents; the command line, configuration, metrics, notifications
and validation keep no protocol state; the admin API and the web UI are request
parsing around operator actions that the modules have. The periodic scheduler
and the limits of the shutdown are left as section 5 says.
