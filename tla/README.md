# Chirp Space: a TLA+ verification project

Chirp Space is a single-owner ActivityPub server. One database holds everything; an
asynchronous web process and any number of command-line processes
(`chirp-space deliver`, `retry-delivery`, ...) work on it at once. Every method of
`store.py` is one transaction and so one atomic step; the SQLite and the PostgreSQL
stores agree at this granularity. What can go wrong between processes goes wrong
*between* two store calls of one service, and that is where these models put their step
boundaries.

*Which interleavings are real.* As configured there is one web worker (`web.py:110-111`)
whose handlers do not wait between two store calls: they interleave with the delivery
worker and the commands, with other servers and with their own death, but not with each
other. `Relationships` keeps to that. The repository also says what the stores are made
for: "multiple workers, and free-threaded execution" (`README.md:94-95`), with
compare-and-set updates, unique indexes and locks between processes, and `workers` is one
setting. The modules whose code carries such guards (`Ownership`, `Lifecycle`, `Keys`,
`Budgets`, `Publishing`, `Guestbook`, `Feed`) let handlers of several processes
interleave at every store call: that is what the guards are there for, and the only way
to see whether they suffice. With one worker and the command line, two processes remain,
and with them `rotate`, export and restore racing the web.

*Two stores.* `SQLiteStore` and `PostgresStore` make the same transactions. A definition is
mapped to one of them: guards and helpers mostly to the PostgreSQL class, where a locking
clause or a `WHERE` says what is compared, actions mostly to the SQLite class or to the
service that makes the calls.

## Inventory

| part | state it keeps | operations | what is hard | what makes it right |
| --- | --- | --- | --- | --- |
| Delivery queue and worker (`delivery.py`, `store.py`) | `deliveries`, `delivery_peers`, outbound rows of `federation_leases` | enqueue, run_once, retry, discard | parallel workers, crash after the POST, results computed from an old row, claims and leases that expire | exclusive claims, order per inbox, one send per inbox, final outcomes, bounded retries and queue, draining |
| Federation safety (`safety.py`) | `federation_controls`, `federation_leases`, `federation_rate_buckets` | pause/resume, begin_inbound, begin_outbound, release, budgets | compare-and-set of the control, leases of dead processes, clocks that step back | limits hold, nothing is held for ever |
| Inbox admission (`federation.py`, `web.py`) | `inbox_receipts` | verify, record receipt, dispatch | replays, a duplicate racing the original, a crash between receipt and dispatch | one activity takes effect once |
| Relationships and circles (`relationships.py`) | `relationships`, `circles`, `circle_members`, `domain_blocks` | follow, accept, reject, remove, block, unblock, circles | rows read, changed and written back around a concurrent block | a blocked actor has no relationship; an Accept counts only for a Follow that is pending |
| Keys and signing (`federation.py`) | `federation_keys` | ensure, rotate, sign | rotation while signatures are in flight | one active key, retired keys verifiable for 30 days |
| Feed and interactions (`feed.py`) | `remote_objects`, `interactions`, `notifications` | receive Create/Update/Delete/Like/Announce/Undo, like, repost, reply | late, repeated and reordered activities | tombstones stay, repeated activities change nothing |
| Publishing and media (`content.py`, `media.py`) | `content_items`, `media_assets`, object storage | create, update, delete, media cleanup | revisions, cleanup outside the transaction | no lost update, no orphan that is never cleaned |
| Ownership (`services.py`) | `owners`, `site_settings`, `owner_sessions`, `recovery_codes` | claim, login, recover, customize | first claim, revoke-all against login | one owner, codes used once |
| Guestbook (`content.py`) | `guestbook_entries` | submit, moderate | rate limit and deduplication | limits hold |
| Lifecycle (`lifecycle.py`) | everything | export, restore, migrate, delete | files and rows change in many steps, any of which may fail | archives give back what was there; restores and deletions are whole |
| Web, CLI, configuration, row converters | none of their own | call one service each | none | none |

The parts call each other as follows: routes and commands call services; services call
the store; `relationships` and `feed` queue activities through `DeliveryService.enqueue`;
an inbox request passes `safety.begin_inbound`, signature verification and the receipt,
and is then handed to `relationships.receive` and `feed.receive`; a block in
`relationships` cancels queued deliveries inside the store's transaction; the worker
reads the blocks and the pause before each POST. The hazards of every part are in
`PROJECT.json`, each with the properties that would catch it going wrong, or the reason
why none does.

## Modules

| module | what it is |
| --- | --- |
| `RetrySchedule` | `_failure` and `_retry_after` of `delivery.py` as functions: what one failed attempt leads to |
| `DeliveryQueue` | the queue: publishers, workers and the owner over the store's rows; extends `RetrySchedule` |
| `Outbox` | what the queue promises for each delivery, without clocks, rows, leases and backoff |
| `Channel` | what the queue promises to peers: a line per inbox, and what was taken out of it |
| `MCDeliveryQueue` | values for model checking |
| `Relationships` | spaces that follow, answer, remove and block each other: `relationships.py`, the inbox route and the tables behind them, on every node |
| `Handshake` | what two owners are promised of a follow, without rows, activities, queues and receipts |
| `MCRelationships` | values for model checking |
| `RelationshipsProofs` | theorems about `Relationships` |
| `Ownership` | who owns a Space: `SpaceService` of `services.py`, several browsers at once |
| `Lifecycle` | export, restore, migration and deletion while `Ownership`, publishing and the owner's controls go on; extends `Ownership` |
| `Keys` | `ensure_key`, `rotate_key`, `key_document` and signing, several processes |
| `Budgets` | inbox rates and leases, and the budget of Follows: `safety.py` |
| `Publishing` | content items, their images in rows and in the storage: `content.py` |
| `Shelf` | what publishing promises of items, without handlers, forms, storage and failures |
| `Guestbook` | submissions and moderation |
| `Feed` | what deliveries and the owner do to posts, interactions and notices: `feed.py` |
| `Archive` | the rows an export reads table by table and what a restore makes of them |
| `MCHouse` | values and scenes for `Lifecycle` with `Ownership`, `Keys`, `Budgets` |
| `MCAuthoring` | values and scenes for `Publishing`, `Guestbook`, `Feed`, `Archive` |
| `LifecycleProofs`, `KeysProofs`, `BudgetsProofs`, `ArchiveProofs` | theorems about `Lifecycle` with `Ownership`, `Keys`, `Budgets` and `Archive` |
| `AuthoringProofs` | theorems about `Guestbook`, `Feed` and `Publishing` |
| `DeliveryQueueProofs`, `DeliveryPromiseProofs` | theorems about `DeliveryQueue`, the second extending the first |

### DeliveryQueue against the code

*State.* `row` is the table `deliveries`, keyed by its `UNIQUE(activity_id, inbox_url)`;
`circuit` is `delivery_peers.circuit_open_until`; `leases` the outbound leases;
`outboundPaused` and `blocked` what local policy says. `pc`, `runNow`, `jobs`, `job` and
`outcome` are the local variables of one `run_once` per worker, `draft` those of one
`enqueue` per publisher. `accepted`, `overridden` and `aborts` are history.

*Actions.* `BeginEnqueue` stamps `created_at` and `CommitEnqueue` is the transaction
`enqueue_activity`. A run is `BeginRun` (one `now` for the whole run, the pause),
`Claim` (`due_delivery_jobs`), and for each job `CheckPolicy`, then `SkipJob` or
`BeginSend` (`begin_outbound`), `Accepted` or `Failed` (the POST), `Release` (the
`finally` clause) and `Record` (`update_delivery`, no condition on the row).
`Abort` ends a run anywhere: an exception or a dead process. The owner may `Pause`,
`Resume`, `Discard`, `RetryDead`, `Block`, `UnblockActor` (which passes through
`_apply_actor_block` like a block and cancels too) and `UnblockDomain` (which does not).
`Tick` moves the clock; it waits for runs that have lasted `Patience`.

*What is abstracted.*
- `serial` is the order of insertion, the UUIDv7 that breaks ties of `created_at`. All
  rows of one commit share one, since they go to different inboxes; ties that remain in
  the order of a batch are resolved either way.
- `blocked` is one flag per inbox: its domain or its actor is blocked.
- The limit of two sends per domain is left out: each inbox stands for its own domain,
  where the limit of one per inbox is the stricter one.
- `consecutive_failures`, texts and bodies are left out: no decision reads them. So are
  the refusals that change nothing (fan-out over 500, foreign identifiers, a follow
  over budget, an activity re-enqueued for inboxes that have it).
- Several steps that read without writing are joined with the write that follows
  (`control()` with the lease): the pause may come right after, which is another
  behaviour of the model.

### Relationships against the code

*State.* A pair <<n, m>> is what node n keeps of m's actor: `rel` is its row of
`relationships` (the two states, the two follow identifiers, the flag), `circles` its
`circle_members`, `known` says that `remote_actors` has it, `domainBlocked` that its
domain is in `domain_blocks`. `receipts` is `inbox_receipts`. `queue` holds the deliveries
from n to m that wait their turn, oldest first, and `strays` what was taken out of it
and may still reach m at any time. `web` is what a node's web process has begun. `granted`, `applied`,
`reapplied` and `cut` are history.

*Actions.* `SendFollow`, `Answer` (accept or reject) and `Unfollow` queue an activity and
leave the row, read before, to be saved by `FinishSave`: two store calls. `Discover`,
`RemoveFollower`, `SetCircle` and the four block operations are one call each. `Admit` is
`receive_inbox` up to the receipt, `Dispatch` the `relationships.receive` that follows and
the worker's record of the answer, or its loss. `AdmitStray` is the same for an activity out
of turn. `Crash` ends a handler between two calls:
a dead process, or a remote document that could not be fetched. `GiveUp` is a dead
letter, or a delivery that the owner discards, anywhere in the queue. `Leave` is external: other software announces deleted accounts with a `Delete`,
which `receive` handles and a Space never sends.

*What is abstracted.* Each actor has its own domain and inbox. `follow` stands for the
Follow that an activity is or embeds. Signatures are valid; a replayed one is refused
without effect. Flags and texts that no decision here reads (`pinned`, `muted`,
`unavailable`, notes) are left out.

*The channel between the nodes* is what module `Channel` describes and `DeliveryQueue` is
shown to implement, with these counterparts:

| `Channel` | `DeliveryQueue` | `Relationships` |
| --- | --- | --- |
| `Join` | `CommitEnqueue` | an activity appended to `queue` |
| `Hear` | `Accepted` | `Admit`, or `AdmitStray` for what is astray |
| `Delivered` | `Record` of a success | `Acknowledge` |
| `GivenUp` | `Record` of a final failure or of a blocked peer | `GiveUp` |
| `Divert` | `Block`, `UnblockActor`, `Discard`, `RetryDead` | `Cancel`, `GiveUp` |

`Relationships` lets more happen than `Channel`: what is given up may be heard without being
requeued, and what has left a queue may be heard for ever. A peer that is not a Space
and sends in another order is not covered by it, nor are two publishing processes of one
Space (finding 2), for which the queue is no line.

### Ownership and Lifecycle against the code

*State.* `site` stands for the rows of `owners`, `site_settings` and `profile_modules`,
which come and go together; `codes` and `sessions` are the unused recovery codes and the
live sessions. A client is a browser with the handler that serves it: `task` is what the
handler holds between two store calls, `cookie` and `form` what the browser shows.
`Lifecycle` adds `rows` and `objects` (the image rows and the storage, each image a picture
and a variant), `control` (the federation controls) with the `page` that edits it, one
`archive` and one operation `op` under way. Everything else is history and is read by no guard
of the code: `fence`, `told`, `era`, `promised` and the like.

*Actions.* A handler's calls are actions of their own, in the order of the code:
`BeginSetup`, `Bootstrap`, `IssueSession`; `BeginRecovery`, `Redeem`, `RevokeAll`,
`IssueSession`; `OpenForm`, `BeginSave`, `CommitSave`. `BeginSave` reads the settings that
the form does not carry and `CommitSave` writes them back under the revision the *form*
carried. An export reads owner, codes and image rows one after the other and then the
objects; a restore writes the objects (`PutObject`), then the database in one transaction
(`ReplaceSnapshot`), or fails anywhere and deletes what it wrote (`RestoreFails`,
`DeleteWritten`); a migration reads the controls, pauses, and moves the origin; a deletion
lists the images, purges, erases. `OperationDies` is the death of the process anywhere.

*What is abstracted.* Passwords, claim token and form checks refuse before the first write.
One lifecycle operation at a time; `Damage` is a member that is lost from an archive file
between export and restore. A version of the customization is a number (`look`). Rows of
the other tables in an archive are `Archive`'s.

### Keys and Budgets against the code

`Keys`: `active` and `retiredAt` are `federation_keys`; a process is between two calls of
`ensure_key`, of `rotate_key` or of `sign_request`, with a key in hand since `since`.
`Create` looks for an active key again inside its transaction (`NoneActive`), and the loser of
a race reads the winner's (`LookAgain`). A rotation stamps the retirement when it begins and
commits at most `Lag` later.

`Budgets`: a request goes through buckets (`ip`, `domain`, `actor`, or the two of a Follow)
and then the lease with its four limits, each a transaction with the clock read *once* at
the beginning; so a bucket's `updated_at` may step back. Tokens are counted in units of
`1/Cost`, where the code has floats: refills are then whole numbers, and rounding is not
modelled. Leases expire by the clock; a dead request leaves its lease behind.

### Publishing, Guestbook, Feed and Archive against the code

`Publishing`: `items` and `status` are the rows, `stored` the storage. A handler's `job`
holds the row it read (`base`), the revision of its form and the image it brought; objects
are stored and deleted one by one, each call may fail (`MaxFaults`), and a handler may
die. A visitor's read may write `missing` over a row whose object it did not find.
`adrift` records images that the code loses track of, and in which way.

`Guestbook`: a submission is stamped, then stored in one transaction that counts and
looks for a duplicate; entries may therefore be stored in another order than stamped.

`Feed`: a delivery or an owner's form reads rows in one call and writes whole rows in the
next. Remote actors publish one object each; `bond` is what `Relationships` says of them,
changing freely. `HomeFeed` is the query of the default feed.

`Archive`: the snapshot reads in the order of `build_snapshot` (`Reads`) while rows are
written; `Restore` fills the tables or is refused by a foreign key (`Loadable`). Tables
read with a limit keep their latest rows. It covers relationships, circles, domain blocks,
content, images, remote objects and interactions.

## Runs

All have `CHECK_DEADLOCK FALSE`: in `DeliveryQueue` the clock stops at `MaxTime` and
publishers, owner and failures stop at `Horizon`, and in `Relationships` at most `MaxId`
activities are queued, and the other modules bound their calls, faults and clocks, so
behaviours end. For the queue, the backoff table is <<1, 3>>, a claim
lasts 2, a lease 1, a delivery lives 1 or 2, and a run lasts at most 1: short enough that
expiry of claims, leases, circuits and lifetime all happen within the clock's range.

| run | instance | shows |
| --- | --- | --- |
| `delivery_safety` | 2 workers, 2 activities, 1 inbox, requeues, discards and blocks, 1 interruption (1.7 M states) | `TypeOK`, `ClaimExclusive`, `AcceptedOnce`, `InboxSendsSerial`, `RetriesEnd`, `KeepsPromise` (refinement of `Outbox`), `KeepsTurns` (of `Channel`) |
| `delivery_liveness` | 2 workers, 2 activities, pauses, 1 interruption (380 k) | `QueueDrains` |
| `delivery_fanout` | 1 worker, 2 activities to 2 inboxes, batches of 2, room for 2 (300 k) | `QueueBounded`, `BatchSpreads` |
| `delivery_cancel` | 1 worker, 1 delivery, blocks | `CancelledStaysOut` is violated: finding 1 |
| `delivery_order` | 2 publishers, 1 worker | `CreationOrder` is violated: finding 2 |
| `relationships_safety` | 2 nodes, all operations of the owners but circles, 3 activities and their strays, 1 fault (1.2 M) | `TypeOK`, `FollowsAreEarned`, `BlockedIsOut`, `Converged`, `KeepsHandshake` (refinement of `Handshake`) |
| `relationships_circles` | 2 nodes, 1 circle, follows, removals and blocks, 4 activities and their strays (3.3 M) | `CirclesAreFriends` |
| `relationships_liveness` | 2 nodes that follow, unfollow and leave, 4 activities, 1 fault (270 k) | `AcceptArrives` |
| `relationships_replay` | 2 nodes that follow and answer, 3 activities, 1 fault | `AppliedOnce` is violated: finding 3 |
| `house_safety` | scenes of `MCHouse`, 2 of each kind of process (1.4 M) | `OneClaim`, `CodesWorkOnce`, `OldSessionsDead`, `NoLostEdit`, `OriginSticks`, `RestoredIsWhole`, `PauseKept`, `DeletedSpaceIsGone`, `OneActiveKey`, `SignedKeysAreStored`, `VerifiableInFlight`, `BudgetHolds`, `LeaseLimits` |
| `authoring_safety` | scenes of `MCAuthoring`, 2 handlers of each kind (1.8 M) | `LiveMediaIsThere`, `DeletedIsGone`, `NoOrphans`, `KeepsShelf` (refinement of `Shelf`), `SubmissionsBounded`, `CountedOnce`, `TombstonesStay`, `FeedIsClean`, `RoundTrip`, `TornArchivesHold` |
| `house_restore` | 1 browser, 1 image, 1 failure | `FailedRestoreKeepsMedia` is violated: finding 4 |

One inbox and two workers are the smallest instance in which two actors meet at one
row; two deliveries to it make order observable; two inboxes make a batch and a full
queue. Symmetry is over workers or nodes, and only in runs without liveness.

Two nodes are enough for `Relationships`, whose rows, queues and circles concern one pair
each; the proofs cover more. Three activities are a Follow, its answer and an Undo, or two
Follows and a late answer to the first; one fault is a repeated delivery, a dead
letter or a crash, each of which the properties meet alone, and a block makes strays without
a fault. Four activities let both nodes follow and answer, which a circle needs. Deleted
accounts (`Leave`) are in `relationships_liveness`, and in the proofs of the safety properties.

*Scenes.* `MCHouse` and `MCAuthoring` put modules that share no variable side by side, and
cut `Lifecycle`, which is too large for one instance, along its questions. The initial
state chooses a scene, and only the steps of that scene are taken: `people` (claims,
logins and recoveries while the database is replaced or purged), `edits` (two browsers edit
while the origin migrates or a backup returns), `images` (media under exports, restores and
deletions, with failures), `controls` (the owner's page while a migration pauses), `keys`,
`budgets`; `posts`, `guestbook`, `feed`, `archive`. A run checks the union of its scenes. What
crosses the scenes of `Lifecycle` (an edit during a failing restore with new sessions, say)
is left to the proofs, which speak of the whole module. Within a scene the bounds allow what its
properties are about: a second owner after a deletion, a code used before and after a
restore, two edits and a migration, an export and two more operations with failures
between, three keys, a rotation as late as `Lag`, two actors of one domain behind one
address, a clock that reaches the end of leases and keys.

`Converged` and `AcceptArrives` excuse a pair once an activity between its nodes was
cancelled, given up, never queued or announced the end of an account (`cut`): the peer is
not told of a block or of a removal, and the code has no other way to find out. They
also excuse a Follow that was applied twice (finding 3).

**Fairness.** `FairSpec` assumes weak fairness of the clock and of each worker's steps:
`chirp-space deliver` is meant to be run again and again, and a process that runs makes
progress. Nothing is assumed of the owner, of publishers or of peers: a worker's attempt
may fail for ever, and it is the deadline that ends it. `QueueDrains` is conditional on
delivery not being left paused. With `Discard` or blocks added to that run, a claim that
is skipped late would fall due beyond the clock's last instant; that is an artefact of
the bound, so the run exercises pauses and interruptions only.
For `Relationships`, `FairSpec` assumes that a handler that was begun ends and that the
head of a queue is posted in the end; faults are bounded, and nothing is assumed of owners.

**Findings.**
1. *A late result undoes a cancellation.* `update_delivery` writes by identifier alone.
   A delivery that a block discards while its POST is in flight is put back into the
   queue when the attempt fails retryably (or becomes delivered or dead). While the block lasts the
   next attempt is marked dead unsent; after an unblock it is sent. Nothing else brings a
   discarded delivery back: `CancelledIsOut` is proved of all that no worker holds.
2. *Creation order is the order of stamps, not of commits.* Of two concurrent publishers
   the one stamped first may commit after the other's delivery has been claimed.
   `OrderPerInbox` is what does hold (theorem `InboxOrder`): order among deliveries that are
   both created and inserted one before the other, as long as the owner does not requeue
   them. With one publisher that is all of them, and the queue is a `Channel`. It takes a
   second publishing process, for which the stores are written, or a wall clock that steps
   back: the one web worker of the shipped configuration publishes one after the other.
3. *A duplicate is dispatched again.* The inbox route hands duplicates to
   `relationships.receive`, which does not know what it has seen. A Follow whose answer
   was lost is delivered again; if the owner rejected it meanwhile it is pending again,
   though the requester is told Reject. The same dispatch is what repairs a crash between
   receipt and dispatch: the mutant that drops it breaks `AcceptArrives`.
   It takes a lost answer, a crash or an activity out of turn (`TwiceTakesAMishap`).
4. *A failed restore deletes images of the Space.* Archives of the same Space carry the
   keys of images that are still there. A restore writes over them, and when a later step
   fails it deletes every key it wrote; the database is rolled back to rows whose objects
   are gone. `lifecycle.py:276-278` says "Stage media to temporary keys", which it does not.

Not findings, since no text says otherwise, but reachable. Images: a refused update, a
creation that fails after its variants, and a visitor's read during cleanup leave objects
that nothing retries (`NoOrphans` names them). Feed: a Delete that overtakes its Create
is dropped and not remembered; a handler that had read the row before a Delete brings its
text back; a second reply is stored as a post although its interaction is refused.
Customization: a page opened before a restore may meet the same revision number again
(`NoLostEdit` leaves it out). And after a block and an unblock
the peer still shows its follower, answers a new Follow not at all
(`relationships.py:188`), and ignores its Undo. The request stays pending until the
peer's owner removes the follower by hand.

## Proofs

All theorems are for any sets of activities, inboxes, workers and publishers, any backoff
table, limits and bounds that satisfy the two named assumptions (`ScheduleAssumption`,
`QueueAssumption`).

- `TypeCorrect` proves `TypeOK` through `TypeInv`, which adds that a worker's step, job,
  batch and outcome belong together. `SerialSends` proves `InboxSendsSerial`; neither
  needs an assumption about speed.
- `ExclusiveClaims` assumes `Patience < ClaimTTL`: no run lasts as long as a claim. The
  inductive invariant `HeldInv` says that the row of every held job is either no longer
  active or postponed to the end of its claim, that a run is not older than `Patience`,
  and that batches are disjoint; a second worker's claim reads rows due by its own
  `now`, which the first worker's postponement excludes.
- `FinalOutcomes`, `RetriesBounded`, `BoundedRepetition`, `InboxOrder`, `BatchesSpread` and
  `BoundedQueue` build on it (`QueueInv`). They share one case analysis, `RowStep`: what
  a step may do to one row. `BoundedRepetition` counts interruptions against a delivery
  that is not settled; `InboxOrder` needs that a held job is a copy of its row;
  `BatchesSpread` needs that rows of one inbox differ in their serials (`SerialInv`), so
  only one is due; `BoundedQueue` also assumes finitely many activities and inboxes.
- `ImplementsOutbox` proves the refinement: the initial state maps to the initial state
  and each step to one step of `Outbox` or a stutter. `FinalOutcomes` proves
  `OutcomesStay`, which is in no run because `KeepsPromise` says as much.
- `ImplementsChannel` proves `KeepsTurns`, the refinement of `Channel`, and also assumes
  `OnePublisher`: with two, the line has no order (finding 2). `TurnInv` says that stamps and
  serials agree in every inbox, also with what the publisher is about to insert, and that
  what the owner took out of turn is in the table. `HeardInv` says that a delivery about to
  be recorded as delivered was accepted. The sender is the first of its line because
  `HeldInv` keeps a held row postponed and `Due` lets no later one of its inbox pass.
- `CancelledIsOut` proves `OutForGood`, the boundary of finding 1: a discarded delivery that
  no worker holds stays discarded until the owner requeues it.
- `RunsAreShort` proves `RunsEnd`, with finitely many activities and inboxes: a measure,
  `StepsLeft`, is at most five for each claimed job and one more, and every step of a run
  lowers it. It is the half of `QueueDrains` that is not fairness: a worker that goes on comes
  to the end of its run, however long its batch and whatever the others do. The proof needs
  the batch to be finite (`Sized`) and what is taken from it to make it smaller.

*The assumption `Patience < ClaimTTL`.* A run handles at most 16 jobs with timeouts
of 15 seconds on connecting and reading, and name resolution without a bound of its own;
a claim lasts five minutes. Nothing in the code stops a run that overstays, so the
assumption is about the deployment; what rests on it is named by the theorems that
assume it. `InboxSendsSerial` does not rest on it, and speaks of unexpired leases: a
worker whose lease of 30 seconds has run out may still be sending.

The theorems about `Relationships` hold for any nodes, circles and bounds; its one
assumption types the bounds.

- `RelationshipTypes` proves `TypeOK`, with the shape of a web process's task.
- `EarnedStates` proves `FollowsAreEarned` through `EarnedInv`: what a row claims was
  granted, and so was every Accept that waits in a queue or a process and every row that
  waits to be saved. Grants are never withdrawn; only the four facts together are inductive.
- `BlocksHold` proves `BlockedIsOut` through `BlockInv`, which treats an unknown actor like
  a blocked one (a domain may be blocked before its actor is known) and says that a row
  that waits to be saved concerns nobody blocked. That is where one handler at a time per
  node is needed: with two, a save could write back what a block removed.
- `FriendCircles` proves `CirclesAreFriends`, which is inductive given the types.
- All of these hold with activities out of turn. What they need of them is that an Accept
  that is astray was granted (`StraysEarned`) and that only a pair that is `cut` has any
  (`StrayInv`); nothing is asked of when they arrive.
- `TwiceTakesAMishap` proves `OnceUndisturbed`, the boundary of finding 3: a Follow is applied
  twice only after a fault or with an activity out of turn. `Once` says that the identifiers in
  the queues are distinct and drawn (`Numbered`, `Distinct`), that what is being dispatched is
  the head of its queue, and that a Follow once applied is in no queue (`Consumed`).
- `NodesAgree` proves `Converged` through `ConvInv`, which says for each direction how what
  the follower claims, what the other shows and what waits in the two queues fit together: a
  Follow on its way is the follower's open request, or has been a request there already (a
  repetition), or its Undo comes behind it; an answer on
  its way is the last word on its Follow; what is shown is claimed, or its end is on its way;
  and what is being dispatched is still the head of its queue. It rests on `BlockInv`.
- `ImplementsHandshake` proves `KeepsHandshake`: each step maps to one step of `Handshake` or
  to a stutter. `TasksFollow` says that a row that waits to be saved is one step away from
  the saved one, and `EarnedInv` that what it claims was granted.

`LifecycleProofs` is about `Lifecycle` as a whole, with `Ownership` in it: any clients,
origins, images and bounds, every interleaving with every operation, failure and crash.
`OwnershipBounds` types the constants and says that `NoOne` is no row.
- `Types` proves the types of all rows and local variables (`OwnTypeOK`, `LifeTypeOK`), with
  `Carried`: the codes an export has read, and those in an archive, are the owner's in it.
- `ClaimedOnce` proves `OneClaim`, which is inductive given the types: nobody has been
  told anything while there is no owner.
- `CodesAreOneTime` proves `CodesWorkOnce`: an *unused* code was redeemed at most as often
  as restores brought it back, any code once more; a later owner's codes are new because
  owners in rows, in exports and in archives were all drawn before.
- `RecoverySignsOut` proves `OldSessionsDead`. The work is done by `YoungerThanMarks`: while
  a handler is about to issue a session for the present owner, all live sessions are younger
  than the mark it took when its code was redeemed, also those of logins in between.
- `EditsAreKept` and `OriginIsKept` share one invariant: a page of the present era shows
  the version of the revision it carries, and a handler about to save carries the origin
  of that revision; migrations count a revision, so an older save is refused.
- `PauseIsKept` relates the page of controls to the row in the same way.
- `RestoresAreWhole` says of a restore under way that what it wrote is there unless the
  owner removed it, and that the archive lists no more than it has.
- `DeletionIsComplete` says where an image that must go is while a deletion runs (in the rows,
  then in the list of keys) and that a new image is never one of them.

`KeysProofs` proves the three properties of `Keys` for any processes, keys, `Ttl` and `Lag`:
a key in hand that was read while it was active can only have been retired with a stamp at
most `Lag` before. `BudgetsProofs` proves `BudgetHolds` by an account of what each bucket
was ever given, and `LeaseLimits` for the leases unexpired at the clock, from the fact that
a request counts with a clock no later than that. `KeyTypeOK`, `BudgetTypeOK` and
`BookTypeOK` are proved with them; like `OwnTypeOK` and `LifeTypeOK` they are in no run.

`AuthoringProofs` proves `SubmissionsBounded` by strengthening it to spans that begin at any
time, and of `Feed` `CountedOnce`, `TombstonesStay` and `FeedIsClean`. The last holds of any rows,
since the feed is built from them when it is asked for (`FeedStaysClean`). Of
`Publishing`, with any number of items, images, handlers and failures, it proves all
properties:
- `PublicationSticks` proves `PublishedOnce` through `ItemInv`: the row a handler read is the
  item's row or an older version, and an equal revision means an equal row, so that a
  compare-and-set that succeeds writes over exactly what was read. It is in no run, since
  `KeepsShelf` says more.
- `ImplementsShelf` proves `KeepsShelf`: every step maps to one change of one item or to a
  stutter, though its handler read the row some calls before. It needs `ItemInv` for what a
  row is changed from, `ImageInv` for the image it gets, and `Dated`: no publication time is
  later than the latest.
- `LiveImagesStay` proves `LiveMediaIsThere` through `ImageInv`: an image that is being brought
  is known to one handler alone, and what is being discarded no live item shows.
- `DeletedImagesAreGone` proves `DeletedIsGone`, and `NobodyIsOrphaned` proves `NoOrphans`,
  through `CleanInv`: a handler knows which objects of its image are left unless a call has
  failed, and each object belongs to an image that is shown, marked for cleanup, in a
  handler's hands, or adrift because a failure or a death left it so.

`ArchiveProofs` proves both properties of `Archive`, for any actors, items, images, limit and
number of writes. `TornButSound` (`TornArchivesHold`) rests on the order of `Reads`: images are
read after the items that show them and never removed meanwhile, ties before circles and
objects, so what is read later can only name actors whom the export lacks if somebody became
known since. `UndisturbedExportsReturn` (`RoundTrip`) adds that each table read so far is a
copy while nothing was written, and what a limit leaves of a table are its latest rows.
That `None` is no row is an assumption (`ArchiveAssumption`).

*Only model-checked:* `QueueDrains` and `AcceptArrives` (liveness, beyond the prover). *Only
proved:* `OutcomesStay`, `OrderPerInbox`, `OutForGood`, `RunsEnd`, `OnceUndisturbed` and
`PublishedOnce`, which follow from what the runs check or refine a finding. *Refuted:*
`CancelledStaysOut`, `CreationOrder`, `AppliedOnce`, `FailedRestoreKeepsMedia`. No module
has a recursive operator. `ArchiveTypeOK`, `PubTypeOK` and `FeedTypeOK` state the types of
their modules and are not in a run.

## What is left

`Relationships` with two handlers per node, as the other modules have it: `BlocksHold` does
not survive that (a save writes back what a block removed), and the README of the repository
does not say whether it should. `Ownership`, `Lifecycle` and `Feed` have invariants but no
abstract specification; `Outbox`, `Channel`, `Handshake` and `Shelf` are those of the others.

## Not modelled

Cryptography, TLS and address checks, archive formats, rendering, HTML sanitizing and
schema migrations are conversions or I/O without state that interleaves. Routes and
commands are single calls of services that appear as actions.

Of modelled parts these are left out, because no decision modelled here reads them: security
events, bookmarks and read marks, previews, listings and cursors, flags and notes of
preferences, guestbook and bookmark rows of archives, the `Undo` activities that a deletion
queues in the transaction that also purges the queue, and what the feed enqueues, which is
`DeliveryQueue`'s.
