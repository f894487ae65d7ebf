------------------------- MODULE ConsumerReconcile -------------------------
(***************************************************************************)
(* The Consumer reconciliation of the JetStream controller                *)
(* (src/controllers/jetstream/consumer.go) together with the collaborators *)
(* it drives: the Kubernetes API server that stores Consumer objects, the  *)
(* informer cache the controller reads them from, the work queue of keys, *)
(* and the JetStream server that holds the remote consumers.               *)
(*                                                                         *)
(* processConsumer is cut into the steps at which it touches shared state: *)
(* the cache read, the existence check, each remote call and each write to *)
(* the API server.  A key is processed by one worker at a time (the work   *)
(* queue never hands out a key that is being processed), so pc[k] and      *)
(* obj[k] are that worker's program counter and its copy `cns` of the      *)
(* object.  Every remote call and every write may fail; a write whose      *)
(* 5-second context expires may have been applied even though the caller   *)
(* sees an error.                                                          *)
(*                                                                         *)
(* Optimistic concurrency is modelled by content: a write made from the    *)
(* snapshot old is applied only while the stored object still equals old.  *)
(***************************************************************************)
EXTENDS Naturals, FiniteSets

CONSTANTS
    Keys,                 \* namespace/name keys of Consumer objects
    Names,                \* remote consumer identities (stream, durable name)
    KeyNames,             \* KeyNames[k]: the identities a spec of key k may name
    InitFinalizers,       \* finalizer lists a user may create an object with
    streamFinalizerKey,   \* the token consumer.go adds and removes
    consumerFinalizerKey, \* the token consumer.go declares (line 20)
    MaxGen,               \* bound on metadata.generation (spec edits)
    MaxRetries,           \* rate-limited requeues before a key is dropped
    Workers,              \* parallel queue workers
    CallsMayFail,         \* whether remote calls and API writes may fail
    Absent                \* no object under the key

Finalizers == {streamFinalizerKey, consumerFinalizerKey}

\* Reason of the Ready condition in status.conditions; "None" before the
\* first status write.  upsertCondition keeps one entry per type, and only
\* the Ready type is written, so the list is this one entry.
Reasons == {"None", "Created", "Errored"}

ASSUME ConstantsAssumption ==
    /\ KeyNames \in [Keys -> SUBSET Names]
    /\ \A k \in Keys : KeyNames[k] # {}
    /\ InitFinalizers \subseteq SUBSET Finalizers
    /\ InitFinalizers # {}
    /\ streamFinalizerKey # consumerFinalizerKey
    /\ MaxGen \in Nat \ {0}
    /\ MaxRetries \in Nat
    /\ Workers \in Nat \ {0}
    /\ CallsMayFail \in BOOLEAN

\* A Consumer object as the controller sees it: metadata.generation,
\* status.observedGeneration, deletionTimestamp # nil, metadata.finalizers,
\* the remote identity its spec names, and the Ready condition's reason.
Object == [gen : 1..MaxGen, obsGen : 0..MaxGen, deleting : BOOLEAN,
           fin : SUBSET Finalizers, name : Names, ready : Reasons]

ObjOrAbsent == Object \cup {Absent}

ASSUME AbsentAssumption == Absent \notin Object

\* Program counter of the worker processing a key.
PCs == {"idle", "load", "create", "setFin", "setOK", "delete", "clearFin",
        "errored"}

VARIABLES
    store,    \* store[k]: the object kept by the API server
    cache,    \* cache[k]: the informer cache's copy (read by the lister)
    events,   \* keys with a watch event not yet delivered to the informer
    queue,    \* keys waiting in the work queue
    retries,  \* retries[k]: rate-limited requeues of k so far
    pc,       \* pc[k]: step of processConsumer the worker for k is at
    obj,      \* obj[k]: the worker's copy `cns` of the object
    remote    \* remote consumers that exist on the JetStream server

vars == <<store, cache, events, queue, retries, pc, obj, remote>>

TypeOK ==
    /\ store \in [Keys -> ObjOrAbsent]
    /\ cache \in [Keys -> ObjOrAbsent]
    /\ events \subseteq Keys
    /\ queue \subseteq Keys
    /\ retries \in [Keys -> 0..MaxRetries]
    /\ pc \in [Keys -> PCs]
    /\ obj \in [Keys -> ObjOrAbsent]
    /\ remote \subseteq Names

Init ==
    /\ store = [k \in Keys |-> Absent]
    /\ cache = [k \in Keys |-> Absent]
    /\ events = {}
    /\ queue = {}
    /\ retries = [k \in Keys |-> 0]
    /\ pc = [k \in Keys |-> "idle"]
    /\ obj = [k \in Keys |-> Absent]
    /\ remote = {}

-----------------------------------------------------------------------------
(***************************************************************************)
(* Helpers translated from the code.                                       *)
(***************************************************************************)

\* consumerExists: LoadConsumer succeeds iff the remote consumer exists; a
\* NotFound API error means it does not.
consumerExists(o) == o.name \in remote

\* Mutant of ConsumerAction: an update is carried out as delete and
\* recreate, so the update branch takes the delete path.
ConsumerActionUpdateRecreates(o, exists) ==
    LET deleteOK      == o.deleting
        newGeneration == o.gen # o.obsGen
        updateOK      == exists /\ ~deleteOK /\ newGeneration
        createOK      == ~exists /\ ~deleteOK /\ newGeneration
    IN  IF createOK THEN "create"
        ELSE IF updateOK \/ deleteOK THEN "delete"
        ELSE "noop"

\* The switch of processConsumer: create wins over update over delete.
ConsumerAction(o, exists) ==
    LET deleteOK      == o.deleting
        newGeneration == o.gen # o.obsGen
        updateOK      == exists /\ ~deleteOK /\ newGeneration
        createOK      == ~exists /\ ~deleteOK /\ newGeneration
    IN  IF createOK THEN "create"
        ELSE IF updateOK THEN "update"
        ELSE IF deleteOK THEN "delete"
        ELSE "noop"

\* What the API server keeps after a write of o: an object being deleted
\* whose last finalizer is gone is removed at once.
Persist(o) == IF o.deleting /\ o.fin = {} THEN Absent ELSE o

\* The outcomes of a write made from obj[k]: applied only while the stored
\* object is still obj[k] (otherwise Conflict or NotFound), and reported as
\* an error when it failed or when the deadline expired after it applied.
\* A write without a conflict fails only when calls may fail.
\* Mutant of WriteOutcome: no optimistic concurrency, a write made from a
\* stale copy is applied.
WriteOutcomeNoConflictCheck(k, applied, ok) ==
    /\ ok => applied
    /\ (~ok /\ store[k] = obj[k]) => CallsMayFail

WriteOutcome(k, applied, ok) ==
    /\ ok => applied
    /\ applied => store[k] = obj[k]
    /\ (~ok /\ store[k] = obj[k]) => CallsMayFail

\* i.Update(ctx, s): writes the object's metadata.  The API server skips an
\* update that changes nothing, so only a real change yields a watch event.
UpdateObject(k, new, applied) ==
    /\ store' = IF applied THEN [store EXCEPT ![k] = Persist(new)] ELSE store
    /\ events' = IF applied /\ Persist(new) # store[k] THEN events \cup {k}
                 ELSE events

\* i.UpdateStatus(ctx, sc): writes status; the condition's
\* LastTransitionTime is time.Now(), so an applied write always changes
\* the object and yields a watch event.
UpdateStatus(k, new, applied) ==
    /\ store' = IF applied THEN [store EXCEPT ![k] = new] ELSE store
    /\ events' = IF applied THEN events \cup {k} ELSE events

Busy == {k \in Keys : pc[k] # "idle"}

\* processQueueNext after processConsumer returned nil: Forget and Done.
Succeed(k) ==
    /\ pc' = [pc EXCEPT ![k] = "idle"]
    /\ obj' = [obj EXCEPT ![k] = Absent]
    /\ retries' = [retries EXCEPT ![k] = 0]
    /\ UNCHANGED queue

\* Mutant of Fail: the retry bound checked with <= (one retry too many).
FailOffByOne(k) ==
    /\ pc' = [pc EXCEPT ![k] = "idle"]
    /\ obj' = [obj EXCEPT ![k] = Absent]
    /\ IF retries[k] <= MaxRetries
         THEN /\ retries' = [retries EXCEPT ![k] = @ + 1]
              /\ queue' = queue \cup {k}
         ELSE /\ retries' = [retries EXCEPT ![k] = 0]
              /\ UNCHANGED queue

\* Mutant of Fail: a key dropped at the retry bound is not forgotten, so it
\* keeps its spent retry count.
FailNoForget(k) ==
    /\ pc' = [pc EXCEPT ![k] = "idle"]
    /\ obj' = [obj EXCEPT ![k] = Absent]
    /\ IF retries[k] < MaxRetries
         THEN /\ retries' = [retries EXCEPT ![k] = @ + 1]
              /\ queue' = queue \cup {k}
         ELSE UNCHANGED <<retries, queue>>

\* processQueueNext after an error: AddRateLimited while under the retry
\* bound, otherwise Forget (the key is dropped), then Done.
Fail(k) ==
    /\ pc' = [pc EXCEPT ![k] = "idle"]
    /\ obj' = [obj EXCEPT ![k] = Absent]
    /\ IF retries[k] < MaxRetries
         THEN /\ retries' = [retries EXCEPT ![k] = @ + 1]
              /\ queue' = queue \cup {k}
         ELSE /\ retries' = [retries EXCEPT ![k] = 0]
              /\ UNCHANGED queue

Goto(k, step) ==
    /\ pc' = [pc EXCEPT ![k] = step]
    /\ UNCHANGED <<obj, retries, queue>>

-----------------------------------------------------------------------------
(***************************************************************************)
(* Environment: users and the API server, and the informer.               *)
(***************************************************************************)

\* A user applies a new Consumer object under a free key.
UserCreate(k, n, f) ==
    /\ store[k] = Absent
    /\ store' = [store EXCEPT ![k] = [gen |-> 1, obsGen |-> 0,
                   deleting |-> FALSE, fin |-> f, name |-> n, ready |-> "None"]]
    /\ events' = events \cup {k}
    /\ UNCHANGED <<cache, queue, retries, pc, obj, remote>>

\* A user edits the spec; the API server bumps the generation.
UserEdit(k, n) ==
    /\ store[k] # Absent
    /\ store[k].gen < MaxGen
    /\ store' = [store EXCEPT ![k].gen = @ + 1, ![k].name = n]
    /\ events' = events \cup {k}
    /\ UNCHANGED <<cache, queue, retries, pc, obj, remote>>

\* A user deletes the object: it is removed at once when it has no
\* finalizer, otherwise it gets a deletion timestamp.
UserDelete(k) ==
    /\ store[k] # Absent
    /\ ~store[k].deleting
    /\ store' = [store EXCEPT ![k] = Persist([store[k] EXCEPT !.deleting = TRUE])]
    /\ events' = events \cup {k}
    /\ UNCHANGED <<cache, queue, retries, pc, obj, remote>>

\* The informer applies the latest watch event to its cache and the event
\* handler adds the key to the queue.
InformerSync(k) ==
    /\ k \in events
    /\ cache' = [cache EXCEPT ![k] = store[k]]
    /\ events' = events \ {k}
    /\ queue' = queue \cup {k}
    /\ UNCHANGED <<store, retries, pc, obj, remote>>

-----------------------------------------------------------------------------
(***************************************************************************)
(* The worker: processQueueNext and the steps of processConsumer.          *)
(***************************************************************************)

\* A free worker takes k from the queue and reads it from the lister; a
\* key that is not in the cache is done (return nil).
GetConsumer(k) ==
    /\ k \in queue
    /\ pc[k] = "idle"
    /\ Cardinality(Busy) < Workers
    /\ queue' = queue \ {k}
    /\ IF cache[k] = Absent
         THEN /\ retries' = [retries EXCEPT ![k] = 0]
              /\ UNCHANGED <<pc, obj>>
         ELSE /\ obj' = [obj EXCEPT ![k] = cache[k]]
              /\ pc' = [pc EXCEPT ![k] = "load"]
              /\ UNCHANGED retries
    /\ UNCHANGED <<store, cache, events, remote>>

\* getCreds, Connect and consumerExists, then the switch.  Any of the three
\* calls may fail; the update and no-op branches only emit an event.
ConnectAndLoad(k) ==
    /\ pc[k] = "load"
    /\ \/ CallsMayFail /\ Goto(k, "errored")
       \/ LET act == ConsumerAction(obj[k], consumerExists(obj[k])) IN
            IF act \in {"create", "delete"} THEN Goto(k, act) ELSE Succeed(k)
    /\ UNCHANGED <<store, cache, events, remote>>

\* Mutant of createConsumer: the error of NewConsumer is not checked.
createConsumerNoErrCheck(k) ==
    /\ pc[k] = "create"
    /\ \E applied \in BOOLEAN :
         /\ remote' = IF applied THEN remote \cup {obj[k].name} ELSE remote
         /\ Goto(k, "setFin")
    /\ UNCHANGED <<store, cache, events>>

\* Mutant of createConsumer: the finalizer step is skipped, the status is
\* set right after the remote consumer is created.
createConsumerNoFinalizer(k) ==
    /\ pc[k] = "create"
    /\ \E applied, ok \in BOOLEAN :
         /\ ok => applied
         /\ remote' = IF applied THEN remote \cup {obj[k].name} ELSE remote
         /\ Goto(k, IF ok THEN "setOK" ELSE "errored")
    /\ UNCHANGED <<store, cache, events>>

\* createConsumer: NewConsumer; a call that timed out may still have created
\* the remote consumer.
createConsumer(k) ==
    /\ pc[k] = "create"
    /\ \E applied, ok \in BOOLEAN :
         /\ ok => applied
         /\ ~ok => CallsMayFail
         /\ remote' = IF applied THEN remote \cup {obj[k].name} ELSE remote
         /\ Goto(k, IF ok THEN "setFin" ELSE "errored")
    /\ UNCHANGED <<store, cache, events>>

\* setConsumerFinalizer: add streamFinalizerKey and Update; on success
\* cns becomes the returned object.
setConsumerFinalizer(k) ==
    /\ pc[k] = "setFin"
    /\ LET new == [obj[k] EXCEPT !.fin = @ \cup {streamFinalizerKey}] IN
         \E applied, ok \in BOOLEAN :
           /\ WriteOutcome(k, applied, ok)
           /\ UpdateObject(k, new, applied)
           /\ pc' = [pc EXCEPT ![k] = IF ok THEN "setOK" ELSE "errored"]
           /\ obj' = IF ok THEN [obj EXCEPT ![k] = new] ELSE obj
    /\ UNCHANGED <<cache, queue, retries, remote>>

\* setConsumerOK: observedGeneration := generation, Ready=True/Created.
setConsumerOK(k) ==
    /\ pc[k] = "setOK"
    /\ LET new == [obj[k] EXCEPT !.obsGen = obj[k].gen, !.ready = "Created"] IN
         \E applied, ok \in BOOLEAN :
           /\ WriteOutcome(k, applied, ok)
           /\ UpdateStatus(k, new, applied)
           /\ IF ok THEN Succeed(k) ELSE Goto(k, "errored")
    /\ UNCHANGED <<cache, remote>>

\* Mutant of deleteConsumer: the error of Delete is not checked.
deleteConsumerNoErrCheck(k) ==
    /\ pc[k] = "delete"
    /\ LET n == obj[k].name IN
         \/ /\ n \notin remote
            /\ Goto(k, "clearFin")
            /\ UNCHANGED remote
         \/ /\ n \in remote
            /\ remote' \in {remote, remote \ {n}}
            /\ Goto(k, "clearFin")
    /\ UNCHANGED <<store, cache, events>>

\* Mutant of deleteConsumer: NotFound from LoadConsumer is reported as an
\* error instead of being treated as already deleted.
deleteConsumerNotFoundIsError(k) ==
    /\ pc[k] = "delete"
    /\ LET n == obj[k].name IN
         \/ /\ n \notin remote
            /\ Goto(k, "errored")
            /\ UNCHANGED remote
         \/ /\ n \in remote
            /\ remote' = remote \ {n}
            /\ Goto(k, "clearFin")
    /\ UNCHANGED <<store, cache, events>>

\* deleteConsumer: LoadConsumer (NotFound is success), then Delete; a
\* Delete that timed out may still have removed the remote consumer.
deleteConsumer(k) ==
    /\ pc[k] = "delete"
    /\ LET n == obj[k].name IN
         \/ /\ n \notin remote
            /\ Goto(k, "clearFin")
            /\ UNCHANGED remote
         \/ /\ n \in remote
            /\ remote' = remote \ {n}
            /\ Goto(k, "clearFin")
         \/ /\ CallsMayFail
            /\ remote' \in {remote, remote \ {n}}
            /\ Goto(k, "errored")
    /\ UNCHANGED <<store, cache, events>>

\* clearConsumerFinalizer: remove streamFinalizerKey and Update.
clearConsumerFinalizer(k) ==
    /\ pc[k] = "clearFin"
    /\ LET new == [obj[k] EXCEPT !.fin = @ \ {streamFinalizerKey}] IN
         \E applied, ok \in BOOLEAN :
           /\ WriteOutcome(k, applied, ok)
           /\ UpdateObject(k, new, applied)
           /\ IF ok THEN Succeed(k) ELSE Goto(k, "errored")
    /\ UNCHANGED <<cache, remote>>

\* The deferred error handler: setConsumerErrored writes Ready=False/Errored
\* from cns (best effort), and the error goes back to processQueueNext.
setConsumerErrored(k) ==
    /\ pc[k] = "errored"
    /\ LET new == [obj[k] EXCEPT !.ready = "Errored"] IN
         \E applied, ok \in BOOLEAN :
           /\ WriteOutcome(k, applied, ok)
           /\ UpdateStatus(k, new, applied)
    /\ Fail(k)
    /\ UNCHANGED <<cache, remote>>

-----------------------------------------------------------------------------

Environment ==
    \E k \in Keys :
        \/ \E n \in KeyNames[k], f \in InitFinalizers : UserCreate(k, n, f)
        \/ \E n \in KeyNames[k] : UserEdit(k, n)
        \/ UserDelete(k)
        \/ InformerSync(k)

Controller ==
    \E k \in Keys :
        \/ GetConsumer(k)
        \/ ConnectAndLoad(k)
        \/ createConsumer(k)
        \/ setConsumerFinalizer(k)
        \/ setConsumerOK(k)
        \/ deleteConsumer(k)
        \/ clearConsumerFinalizer(k)
        \/ setConsumerErrored(k)

Next == Environment \/ Controller

Spec == Init /\ [][Next]_vars

\* Workers loop on the queue forever (runConsumerQueue) and the informer
\* keeps delivering watch events; users are under no obligation to act.
Fairness ==
    \A k \in Keys :
        /\ WF_vars(InformerSync(k))
        /\ WF_vars(GetConsumer(k))
        /\ WF_vars(ConnectAndLoad(k) \/ createConsumer(k)
                   \/ setConsumerFinalizer(k) \/ setConsumerOK(k)
                   \/ deleteConsumer(k) \/ clearConsumerFinalizer(k)
                   \/ setConsumerErrored(k))

FairSpec == Spec /\ Fairness

-----------------------------------------------------------------------------
(***************************************************************************)
(* Properties.                                                             *)
(***************************************************************************)

\* A Consumer that the controller reports Ready (Reason Created) and that is
\* not being deleted carries the controller's finalizer: setConsumerOK runs
\* only after setConsumerFinalizer succeeded, so no Ready consumer can be
\* deleted without the controller removing its remote consumer first.
ReadyImpliesFinalizer ==
    \A k \in Keys :
        (/\ store[k] # Absent
         /\ ~store[k].deleting
         /\ store[k].ready = "Created")
        => streamFinalizerKey \in store[k].fin

\* A Consumer reported Ready for its current generation, and not being
\* deleted, has its remote consumer on the server (status never claims a
\* consumer that a failed createConsumer did not create, or that a stale
\* delete removed).
ReconciledImpliesRemote ==
    \A k \in Keys :
        (/\ store[k] # Absent
         /\ ~store[k].deleting
         /\ store[k].ready = "Created"
         /\ store[k].obsGen = store[k].gen)
        => store[k].name \in remote

\* The controller's finalizer leaves an object (removed from the list, or
\* the object garbage-collected) only in a step after which the remote
\* consumer that object names is gone: deleteConsumer runs, and succeeds,
\* before clearConsumerFinalizer.
FinalizerReleaseStep ==
    \A k \in Keys :
        (/\ store[k] # Absent
         /\ streamFinalizerKey \in store[k].fin
         /\ \/ store'[k] = Absent
            \/ streamFinalizerKey \notin store'[k].fin)
        => store[k].name \notin remote'

FinalizerReleasedAfterRemoteDeleted == [][FinalizerReleaseStep]_vars

\* A step of the controller changes only what the controller owns: never
\* the spec (generation, durable and stream name), never the deletion
\* timestamp, never a finalizer other than its own token, and it never
\* removes a live object.  Every write starts from a copy that may be stale:
\* processConsumer keeps cns from the lister (consumer.go:36) for its whole
\* run, through setConsumerErrored (consumer.go:51), and the copy returned
\* by a timed-out write is lost.  A write may land only while that copy is
\* still the stored object, or a user's edit or delete is undone.
ControllerStepKeepsUserFields ==
    \A k \in Keys :
        /\ (store[k] # Absent /\ store'[k] = Absent) => store[k].deleting
        /\ store'[k] # Absent =>
              /\ store[k] # Absent
              /\ store'[k].gen = store[k].gen
              /\ store'[k].name = store[k].name
              /\ store'[k].deleting = store[k].deleting
              /\ store'[k].fin \ {streamFinalizerKey}
                   = store[k].fin \ {streamFinalizerKey}

ControllerKeepsUserFields == [][Controller => ControllerStepKeepsUserFields]_vars

\* The remote consumer of a live Consumer that holds the controller's
\* finalizer is never deleted: deleteConsumer runs only in the branch for
\* an object being deleted, and a worker that read a deleting copy from a
\* stale cache or before a rename can only meet an object that is still
\* being deleted, never one that is live again.
ProtectedConsumerKeptStep ==
    \A k \in Keys :
        (/\ store[k] # Absent
         /\ ~store[k].deleting
         /\ streamFinalizerKey \in store[k].fin
         /\ store[k].name \in remote)
        => store[k].name \in remote'

ProtectedConsumerKept == [][ProtectedConsumerKeptStep]_vars

\* The queue counts failures only of a key that is still pending, waiting
\* in the queue or being processed.  When a reconcile fails at the retry
\* bound the key is dropped and forgotten, and after a success or a vanished
\* object it is forgotten too.  So the next watch event for a dropped key
\* starts it again with the whole retry budget, never with a spent one that
\* would drop it after its first failure.
RetriesOnlyWhilePending ==
    \A k \in Keys : retries[k] > 0 => (k \in queue \/ pc[k] # "idle")

\* No remote consumer is left without a Consumer object naming it: the
\* controller must not orphan a remote consumer (it creates one only for an
\* object, and removes it before releasing the object).
NoOrphanedConsumer ==
    \A n \in remote : \E k \in Keys : store[k] # Absent /\ store[k].name = n

\* A remote consumer that no Consumer object names any more is eventually
\* deleted: the controller does not leave behind, for good, a consumer that
\* an edit of the object's stream or durable name has replaced.
OrphanEventuallyRemoved ==
    \A n \in Names :
        (n \in remote /\ \A k \in Keys : store[k] = Absent \/ store[k].name # n)
        ~> n \notin remote

\* A Consumer object being deleted is eventually removed from the API
\* server: processConsumer's delete branch releases the finalizer that
\* holds it, so no finalizer blocks its deletion forever.
DeletionCompletes ==
    \A k \in Keys :
        (store[k] # Absent /\ store[k].deleting) ~> store[k] = Absent

\* Once the remote consumer that a live Consumer names exists, the object
\* eventually carries the controller's finalizer (or is deleted): a create
\* interrupted after NewConsumer, by a conflict or a failure, is retried to
\* the point where setConsumerFinalizer succeeds.
RemoteEventuallyProtected ==
    \A k \in Keys :
        (store[k] # Absent /\ ~store[k].deleting /\ store[k].name \in remote)
        ~> (store[k] = Absent \/ store[k].deleting
            \/ streamFinalizerKey \in store[k].fin)

-----------------------------------------------------------------------------
(***************************************************************************)
(* The inductive invariant behind ReadyImpliesFinalizer.  A busy worker    *)
(* holds a copy of an object; a worker about to write Ready holds a copy   *)
(* that already carries the finalizer (setConsumerFinalizer succeeded);    *)
(* a worker in the delete branch holds a copy that is being deleted, so    *)
(* the object clearConsumerFinalizer writes back is one being deleted.     *)
(***************************************************************************)

WorkerCopyTyped == \A k \in Keys : pc[k] # "idle" => obj[k] \in Object

TypeInv == TypeOK /\ WorkerCopyTyped

FinalizerBeforeReady ==
    \A k \in Keys : pc[k] = "setOK" => streamFinalizerKey \in obj[k].fin

DeleteBranchDeleting ==
    \A k \in Keys : pc[k] \in {"delete", "clearFin"} => obj[k].deleting

\* The conjunction is preserved by every step: checked by TLC on the
\* instance and proved in ConsumerReconcileProofs.
IInv ==
    /\ TypeInv
    /\ ReadyImpliesFinalizer
    /\ FinalizerBeforeReady
    /\ DeleteBranchDeleting

=============================================================================
