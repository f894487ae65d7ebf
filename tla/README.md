# Verification of the nack JetStream controller

nack is a Kubernetes controller. It keeps NATS JetStream streams and consumers on a NATS server in step with custom resources (`Stream`, `Consumer`) declared in the cluster. This directory holds TLA+ models of the parts of it that are in `src/`, TLC configurations that check them, and TLAPS proofs.

## 1. The system (inventory)

| Part | Source | State it owns or changes | Operations |
|---|---|---|---|
| Consumer reconciliation engine | `src/controllers/jetstream/consumer.go` | Consumer objects (finalizers, `status.conditions`, `status.observedGeneration`), remote consumers | `runConsumerQueue`, `processConsumer`, `consumerExists`, `createConsumer`, `deleteConsumer`, `setConsumerOK`, `setConsumerErrored`, `setConsumerFinalizer`, `clearConsumerFinalizer` |
| Consumer tests | `src/unnamed/part_000` (`consumer_test.go`) | fixtures: Consumer objects with `consumerFinalizerKey` | create, create with credentials, update, delete, process error |
| Stream reconciliation engine | not under `src/`; tests in `src/controllers/jetstream/stream_test.go` | Stream objects, remote streams | `processStream` (create, update in place, delete) |
| Work queue and controller wiring | `runConsumerQueue` (consumer.go:23–27); `processQueueNext` and `NewController` are not under `src/` | the queue of keys, retry counts | dequeue, Forget, AddRateLimited, drop after the retry bound |
| API server, watches and informer cache | external; `src/pkg/.../informers/.../streamtemplate.go` is a generated informer | stored objects, the cache the listers read | get, update, update status, delete with finalizers, watch events |
| JetStream server (backend adapter) | `jsmClient` as called from consumer.go | remote consumers | load, create, delete |
| Credentials lookup | `getCreds` (not under `src/`) | none | read a Secret, which may fail |

How they interact:

1. The informer watches Consumer objects and enqueues their namespace/name keys.
2. A worker takes a key from the queue. `processConsumer` reads the object from the lister cache, obtains credentials, connects, and asks the server whether the consumer exists.
3. The worker then takes exactly one branch, in this order of precedence:
   - **create** (not found, not deleting, generation ≠ observedGeneration): `NewConsumer`, then add the finalizer with `Update`, then `UpdateStatus` Ready=True/Created with observedGeneration := generation;
   - **update** (found, new generation): a warning event only, because consumers are immutable;
   - **delete** (deletion timestamp set): `LoadConsumer` and `Delete` (NotFound counts as success), then remove the finalizer with `Update`;
   - **no-op**.
4. A deferred handler writes Ready=False/Errored when any step returned an error. `processQueueNext` then requeues the key with rate limiting, and drops it after the retry bound.

Every API write runs under a 5-second context. A write that the server applied can still return an error to the controller.

What is hard here, beyond what a unit test reaches:

- A remote call or a write succeeds on the server and still reports an error to the controller.
- The cache lags the API server.
- A user edits or deletes the object between two of the controller's steps.
- A retry starts from a state that a failed or partly failed attempt left behind.
- The order in which the remote consumer and the finalizer are created and removed decides whether a remote consumer can be orphaned.
- The finalizer token must be the same one on add and on remove, or deletion never completes.

## 2. Modules

### `ConsumerReconcile.tla`: the Consumer controller and its environment

**State**

| Variable | Meaning in the code |
|---|---|
| `store[k]` | the object the API server holds (or `Absent`) |
| `cache[k]` | the informer cache's copy, read by `ConsumerLister.Get` |
| `events` | keys with a watch event not yet delivered |
| `queue` | the work queue |
| `retries[k]` | `NumRequeues` |
| `pc[k]`, `obj[k]` | where the worker processing `k` is in `processConsumer`, and its copy `cns` |
| `remote` | consumers on the JetStream server |

An object is abstracted to:
- generation and observedGeneration;
- whether it is being deleted;
- its finalizer set, over the two tokens `streamFinalizerKey` and `consumerFinalizerKey`;
- the remote identity its spec names (stream, durable name), a model value;
- the reason of its Ready condition.

`upsertCondition` keeps one condition per type, and only the Ready type is written, so one reason is the whole list.

**Actions.** `processConsumer` is cut at each point where it touches shared state:

| Action | Code |
|---|---|
| `GetConsumer` | `runConsumerQueue`, the dequeue, `ConsumerLister.Get` (a missing object returns nil) |
| `ConnectAndLoad` | `getCreds`, `Connect` and `consumerExists` (any may fail), then the switch (`ConsumerAction`); the update and no-op branches succeed at once |
| `createConsumer` | `NewConsumer` |
| `setConsumerFinalizer` | `setConsumerFinalizer` |
| `setConsumerOK` | `setConsumerOK` |
| `deleteConsumer` | `deleteConsumer` |
| `clearConsumerFinalizer` | `clearConsumerFinalizer` |
| `setConsumerErrored` | the deferred `setConsumerErrored` together with the failure path of `processQueueNext` |

`Succeed` and `Fail` are `processQueueNext`, modelled from the spec.

Writes:
- `UpdateObject` and `UpdateStatus` are `Update` and `UpdateStatus`.
- `WriteOutcome` says which outcomes a write can have:
  - it applies only if the stored object is still the copy it was made from (optimistic concurrency, modelled by content equality);
  - a success was applied;
  - an error with no conflict happens only when calls may fail, and may come with the write applied (the deadline expired).
- `Persist` is the API server's garbage collection: it removes an object that is being deleted and has no finalizers left.

Environment actions:
- `UserCreate`, `UserEdit` (bumps the generation, may rename) and `UserDelete`;
- `InformerSync`: delivers the latest version to the cache and enqueues the key.

### `ConsumerReconcileProofs.tla`: the TLAPS proofs for `ConsumerReconcile` (section 5)

### `ConsumerLifecycle.tla`: what the Consumer controller promises

The abstract specification keeps only the objects on the API server (`store`) and the remote consumers (`remote`). It has the user steps, plus the only steps a correct controller may take:
- `Protect` adds the finalizer to a live object (`setConsumerFinalizer`);
- `MarkReady` writes Ready/Created for the current generation, only on a live, finalized object whose remote consumer exists (`setConsumerOK`);
- `MarkErrored` writes Ready=False/Errored (`setConsumerErrored`);
- `Release` removes the finalizer from a deleting object, only once its remote consumer is gone (`clearConsumerFinalizer`);
- `CreateRemote` may create any remote consumer (`NewConsumer`);
- `DeleteRemote` may delete a remote consumer unless a live object holding the finalizer names it (`deleteConsumer`).

`LifecycleSafety` proves that any controller keeping to these steps keeps `ReadyHolds`. That is: observedGeneration never runs ahead of the generation, a live Ready object holds the finalizer, and a live object Ready for its current generation has its remote consumer.

### `ConsumerRefinement.tla`: the refinement mapping

`Lifecycle == INSTANCE ConsumerLifecycle WITH store <- store, remote <- remote`: the identity mapping on `store` and `remote`. The queue, the cache, the retry counters and the workers' `pc` and `obj` are hidden. `LifecycleSpec` is checked as a PROPERTY.

`RefinementAssumption` states two conditions of the deployment:
- objects under different keys name disjoint remote consumers;
- users never put `streamFinalizerKey` on an object themselves.

Without the first, one object's delete branch removes the consumer another reports Ready (run `consumer_shared_name`). Without the second, the user step of creating an object would already "protect" it.

`RInv` is the invariant the refinement step needs. It is `IInv` plus:
- `NamesOwned`: every copy of an object names one of its key's consumers;
- `CreatePathLive`: the create branch runs on a live copy;
- `CreatedRemote` and `DeletedRemote`: after `NewConsumer` the consumer exists, and after `deleteConsumer` it does not;
- `LiveCopyStaleCache` and `DeletingCopyUnprotected`: a deleting copy, in the cache or held by a worker about to delete, never stands for a live object holding the finalizer.

The last two are why `deleteConsumer` is a `DeleteRemote` step. A worker deletes the remote consumer only from a deleting copy, and the stored object it names cannot have become live and protected again in between.

### `ConsumerRefinementProofs.tla`: the refinement proofs (section 5)

### `MC_ConsumerReconcile.tla`: the model values and finite instances for TLC

`MC_ConsumerRefinement.tla` extends it and `ConsumerRefinement` for the refinement run.

## 3. Runs

| Run | cfg | Expect | What it shows |
|---|---|---|---|
| `consumer_safety` | `MC_ConsumerReconcile.cfg` | pass | `TypeOK`, `ReadyImpliesFinalizer`, `ReconciledImpliesRemote`, `RetriesOnlyWhilePending` (a key whose failures are counted is still queued or in progress, so a key dropped at the retry bound is forgotten), and the action properties `FinalizerReleasedAfterRemoteDeleted`, `ControllerKeepsUserFields` (no controller write changes a user-owned field) and `ProtectedConsumerKept` (no protected remote consumer is deleted), under every interleaving of user edits, renames and deletes, stale cache reads, and failed or timed-out calls and writes |
| `consumer_orphan` | `MC_ConsumerOrphan.cfg` | violation | `NoOrphanedConsumer` fails (see below) |
| `consumer_finalizer_key` | `MC_ConsumerFinalizerKey.cfg` | violation | `DeletionCompletes` fails (see below) |
| `consumer_liveness` | `MC_ConsumerLiveness.cfg` | pass | `DeletionCompletes` under `FairSpec`, for objects created without finalizers, with renames and write conflicts but no failing call |
| `consumer_unprotected` | `MC_ConsumerUnprotected.cfg` | violation | `RemoteEventuallyProtected` fails (see below) |
| `consumer_refinement` | `MC_ConsumerRefinement.cfg` | pass | `RInv` and `LifecycleSpec`: two keys, two workers, every failure; the controller implements `ConsumerLifecycle` |
| `consumer_rename_orphan` | `MC_ConsumerRenameOrphan.cfg` | violation | `OrphanEventuallyRemoved` fails (see below) |
| `consumer_shared_name` | `MC_ConsumerSharedName.cfg` | violation | `ReconciledImpliesRemote` fails when two keys share a remote name (see below) |

### `consumer_orphan`

The object is created without a finalizer. The user then deletes it while the worker still sees it in its cache, so the API server removes it at once. The worker creates the remote consumer, `setConsumerFinalizer` gets NotFound, and the next reconcile finds no object. The remote consumer stays forever.

A failed `setConsumerFinalizer` followed by a delete gives the same result. The root cause is that `NewConsumer` (consumer.go:85) runs before the finalizer is added (consumer.go:89).

### `consumer_finalizer_key`

Objects carry `consumerFinalizerKey`, as the tests' fixtures do, and no call fails. The code adds and removes `streamFinalizerKey` (consumer.go:218, 232) instead of the `consumerFinalizerKey` it declares at line 20. The token the object does carry is never removed, so the deleted object is never released.

This run uses `FairSpec`. The weak fairness is per key: on the informer delivering events, on a worker taking a queued key, and on the steps of `processConsumer`. It is justified because:
- `runConsumerQueue` loops forever;
- a worker that has dequeued a key runs `processConsumer` to its end;
- the informer keeps delivering events.

Users are under no fairness obligation.

The passing liveness run `consumer_liveness` also sets `CallsMayFail = FALSE`. Weak fairness on a worker step cannot exclude a call that fails on every retry, and the code gives no such guarantee, so the run asks what happens when the server answers. Write conflicts with user edits still occur. The mutant that treats NotFound in `deleteConsumer` as an error (a timed-out Delete that took effect then fails forever) breaks `DeletionCompletes`.

### `consumer_unprotected`

One object, no failing call. The sequence is:
1. The worker runs `NewConsumer`.
2. The user edits the object, so `setConsumerFinalizer` gets a conflict and the error path runs.
3. The retry finds the remote consumer existing and observedGeneration behind the generation, so it takes the update branch (consumer.go:78), which only emits a warning.

The finalizer is never added while the object lives, so `RemoteEventuallyProtected` fails. Deleting the object then orphans the consumer, as in `consumer_orphan`. The spec (line 98) says a conflict is recovered by re-reading and recomputing. Here the recomputed action is "update", and for consumers that is deliberately a no-op (spec line 137), so the create path is never resumed.

### `consumer_rename_orphan`

One object, no failing call, and users who edit but never delete (`NoDeleteSpec` in `MC_ConsumerReconcile.tla`, with `Fairness`). Without deletes, an orphan cannot come from the deletion race of `consumer_orphan`.

The object is created naming `n2`, and the controller creates `n2`. The user renames it to `n1`, so `setConsumerFinalizer` conflicts. The retry finds no consumer `n1` and a new generation, so it creates `n1` and reports Ready. `n2` is named by no object and stays on the server forever.

`consumerExists` looks only at the current spec's stream and durable (consumer.go:74), and no branch ever deletes a consumer under an earlier name. The same happens after a rename of a Ready object.

### `consumer_shared_name`

Two keys both name `n1`, with two workers and no failing call. k1 and k2 both become Ready on `n1`. The user deletes k1, whose delete branch removes `n1` while k2's worker writes Ready. k2 is then Ready for its generation with no remote consumer. The code identifies a consumer only by stream and durable name (consumer.go:74). The spec does not say that names are unique across objects.

### Bounds

The passing run has:
- one key, with two remote names, so a rename can happen;
- both initial finalizer lists (none, or `consumerFinalizerKey`);
- `MaxGen = 3`: create, then two edits;
- `MaxRetries = 2`;
- one worker.

That is 527,834 distinct states. Each operation can fail at each step, and a timed-out write can be applied, so every error path and every retry from a partial result is reached.

One key is enough for these properties because:
- the worker for a key only touches that key's object and the names that key may use;
- with disjoint names, keys are independent.

Sharing a remote name between two keys is a separate question (`consumer_shared_name`). A second worker adds nothing for one key, because the queue never hands out a key that is being processed.

The refinement run uses two keys with disjoint names and two workers, so a delete of one key's consumer interleaves with the other key's create path. It has `MaxGen = 1`, `MaxRetries = 1`, no initial finalizers and every failure enabled: 1,633,284 distinct states in about a minute. With `MaxGen = 2` it does not finish within 15 minutes. Renames and repeated edits are covered by the one-key runs and, for every bound, by the proof.

The liveness runs have one key, `MaxGen = 3`, and no failing call (31,692 states).

Deadlock checking is off in every cfg. A controller with an empty queue and users who do nothing simply waits, which is correct behaviour.

## 4. Abstractions and what is not modelled

**Resource versions.** These are replaced by content equality. Two versions with the same content cannot be told apart, so a write from a copy whose content came back to the stored one is accepted where the real server would answer Conflict. This adds behaviours and removes none from the safety checks.

**The informer cache** jumps to the latest stored version. The real cache goes through every version in order. Intermediate versions only delay the cache further, and any stale value is already reachable because delivery may be postponed.

**`deleteConsumer`'s Load and Delete** are one step. Between them only the remote consumer can change, and only this worker touches it.

**`setConsumerFinalizer` and `clearConsumerFinalizer` mutate the cached object in place** (`SetFinalizers` on the lister's copy, no DeepCopy). This is not modelled. The mutation only adds or removes the controller's own token in the cache. No write is made from the cache copy before the informer replaces it: every write uses the copy the worker already holds, which the model tracks as `obj`. A concurrent reader of the cache (other workers never hold the same key) is not affected.

**Events** sent to the recorder are not modelled yet.

**Credentials, connection, and load errors** are merged into one failure outcome.

**Not modelled at all:**
- streams, because `processStream` is not under `src/`; a Stream module modelled from the spec is planned;
- StreamTemplate, for which only a generated informer exists;
- controller start and stop, backoff timing, and leader election.

## 5. Proofs (TLAPS)

`ConsumerReconcileProofs.tla` proves, for every value of the constants satisfying `ConstantsAssumption` and `AbsentAssumption`:

**`TypeCorrect`: `Spec => []TypeInv`.**
- `TypeInv` is `TypeOK` plus the fact that a busy worker holds an object, not `Absent`.
- `TypeStep` has one step per action.
- The lemmas `PersistType`, `FinalizerEditType` and `StatusEditType` say that the record updates the actions make stay in `Object`.

**`ReadyFinalizerSafety`: `Spec => []ReadyImpliesFinalizer`.**

`ReadyImpliesFinalizer` alone is not inductive: a worker at `setOK` could write Ready over any object. The strengthening `IInv` adds two facts:
- `FinalizerBeforeReady`: a worker about to write Ready holds a copy carrying the finalizer, because `setConsumerFinalizer` succeeded and its copy became the written one.
- `DeleteBranchDeleting`: a worker in the delete branch holds a copy that is being deleted, so the object `clearConsumerFinalizer` writes back without the finalizer is never a live one.

A status write applies only to the copy the worker holds, by optimistic concurrency. So a Ready status always lands on an object that has the finalizer. `IInv` is a proof device, not a property of its own: TLC checks it as part of `RInv` in `consumer_refinement`. `IInvInit` and `IInvStep` prove it inductive, one step per action, and PTL closes the argument.

**`TypeOKSafety`** states `[]TypeOK` as a theorem.

**`RetriesPendingSafety`: `Spec => []RetriesOnlyWhilePending`.** This is about the queue's retry bound (spec line 87). A key dropped after its last retry must be forgotten, or its next watch event would start with the retry budget already spent. The invariant is inductive together with `TypeInv`. The lemmas `SucceedPending`, `FailPending` and `GotoPending` cover the three ways a worker ends or continues a step: Forget, requeue-or-forget, and staying busy. `RetriesStep` has one step per action.

**`UserFieldsSafety`: `Spec => ControllerKeepsUserFields`.** Spec line 47 says that the spec, the deletion timestamp and foreign finalizers belong to users and the store. Every write of processConsumer starts from a copy that may be stale, above all `setConsumerErrored` writing `cns` back (consumer.go:51). The proof rests on two facts:
- `WriteKeepsUserFields`: a write lands only while the worker's copy is the stored object (`WriteOutcome`), and the copy written differs from it only in the status or in `streamFinalizerKey`. The API server's garbage collection removes only objects being deleted.
- `UserFieldsStep`: the other controller steps leave the store alone.

The mutant that drops the conflict check (`WriteOutcomeNoConflictCheck`) lets `setConsumerErrored` undo a user's edit, and TLC finds it. This property needs only `TypeInv`, not the refinement, so it holds even for shared names.

`ConsumerLifecycle.tla` proves `LifecycleSafety`: `Spec => []LifecycleInv` for the abstract specification, under `LifecycleAssumption`. There is one step per action; `LifecycleInv` is inductive as it stands.

`ConsumerRefinementProofs.tla` additionally assumes `RefinementAssumption` and proves the following.

**`Refinement`: `Spec => LifecycleSpec`.**
- `RInvInit` and `RInvStep` show `RInv` inductive. The step reuses `IInvStep`, then has one step per action and, under it, one per conjunct.
- `Init` maps to `Lifecycle!Init`.
- `RefinementStep` shows `RInv /\ [Next]_vars => [Lifecycle!Next]_Lifecycle!vars`.
  - A write that does not apply, and every step on queue, cache or worker state, is a stutter (`Hidden`).
  - An applied write is `Protect`, `MarkReady`, `Release` or `MarkErrored`.
  - `createConsumer` is `CreateRemote`, and `deleteConsumer` is `DeleteRemote`, whose guard comes from `DeletingCopyUnprotected` and the disjoint names.

**`ReconciledRemoteSafety`: `Spec => []ReconciledImpliesRemote`.** The instantiated `Lifecycle!LifecycleSafety` gives `[]LifecycleInv`, and `LifecycleInv` implies `ReconciledImpliesRemote`.

**`FinalizerReleaseSafety`: `Spec => FinalizerReleasedAfterRemoteDeleted`.** `ReleaseStepLemma` shows that every lifecycle step satisfies `FinalizerReleaseStep`, and `RefinementStep` carries this over to the controller.

**`ProtectedKeptSafety`: `Spec => ProtectedConsumerKept`.** `ProtectedKeptStepLemma` shows that only `DeleteRemote` shrinks `remote`, and its guard spares a protected object's consumer. `RefinementStep` carries this over to the controller.

**`RInvSafety`: `Spec => []RInv`**, the invariant `consumer_refinement` checks.

`ReconciledImpliesRemote` is not inductive for the controller, even with `IInv`. The refinement is how it is proved: the invariant lives on the abstract specification, where it is inductive, and `RInv` is only what is needed to show that each controller step is a lifecycle step.

**Only model-checked:**
- the liveness properties `DeletionCompletes`, `RemoteEventuallyProtected` and `OrphanEventuallyRemoved` (a liveness property under fairness, which TLAPS does not reach);
- the refinement and the invariants in instances that break `RefinementAssumption` (`consumer_shared_name`).

No module uses RECURSIVE.

## 6. Plan

Done so far:
- sitting 1: the controller model, the safety runs and `ReadyFinalizerSafety`;
- sitting 2: the liveness runs, the shared-name run, the abstract `ConsumerLifecycle`, and the proved refinement;
- sitting 3: every invariant and action property of the passing runs stated as a proved theorem, including the new `ControllerKeepsUserFields` and `ProtectedConsumerKept`;
- sitting 4: after review, `IInv` is no longer a run property (it repeated `TypeOK` and `ReadyImpliesFinalizer`). It is replaced by `RetriesOnlyWhilePending`, which is proved, and the rename orphan is exhibited by `consumer_rename_orphan`.

Next:
- Model events and the consumer test scenarios (`part_000`), with fixture initial states and the expected event sequences and conditions as properties. A property that a failed reconcile is eventually visible as Errored belongs there.
- Write a `StreamReconcile` module from the spec (`processStream`: create, update in place, delete; finalizers; Ready Updated), with fixtures from `stream_test.go`.
- Compose both controllers over one JetStream server: a consumer requires its stream.
