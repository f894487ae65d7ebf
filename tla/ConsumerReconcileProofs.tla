---------------------- MODULE ConsumerReconcileProofs ----------------------
(***************************************************************************)
(* Proofs about ConsumerReconcile for every value of the constants:       *)
(* the type invariant, and that a Consumer reported Ready and not being    *)
(* deleted carries the controller's finalizer.                             *)
(***************************************************************************)
EXTENDS ConsumerReconcile, TLAPS

\* The object the API server keeps after a write is an object or Absent.
LEMMA PersistType ==
    ASSUME NEW o \in Object
    PROVE  Persist(o) \in ObjOrAbsent
BY DEF Persist, ObjOrAbsent

\* Adding or removing a finalizer keeps an object an object.
LEMMA FinalizerEditType ==
    ASSUME NEW o \in Object, NEW F \in SUBSET Finalizers
    PROVE  /\ [o EXCEPT !.fin = @ \cup F] \in Object
           /\ [o EXCEPT !.fin = @ \ F] \in Object
BY DEF Object

\* Writing the status fields keeps an object an object.
LEMMA StatusEditType ==
    ASSUME NEW o \in Object, NEW r \in Reasons
    PROVE  /\ [o EXCEPT !.ready = r] \in Object
           /\ [o EXCEPT !.obsGen = o.gen, !.ready = r] \in Object
<1>1. o.gen \in 0..MaxGen
  BY DEF Object
<1>2. QED
  BY <1>1 DEF Object

-----------------------------------------------------------------------------

LEMMA TypeInit == Init => TypeInv
BY ConstantsAssumption DEF Init, TypeInv, TypeOK, WorkerCopyTyped, ObjOrAbsent, PCs

\* Each step keeps the state well typed and keeps a busy worker's copy an
\* object.
LEMMA TypeStep == TypeInv /\ [Next]_vars => TypeInv'
<1> SUFFICES ASSUME TypeInv, [Next]_vars PROVE TypeInv'
  OBVIOUS
<1> USE DEF TypeInv, TypeOK, WorkerCopyTyped, PCs, ObjOrAbsent
<1>1. ASSUME NEW k \in Keys, NEW n \in KeyNames[k], NEW f \in InitFinalizers,
             UserCreate(k, n, f)
      PROVE  TypeInv'
  <2>1. n \in Names /\ f \in SUBSET Finalizers
    BY ConstantsAssumption
  <2>2. [gen |-> 1, obsGen |-> 0, deleting |-> FALSE, fin |-> f, name |-> n,
         ready |-> "None"] \in Object
    BY <2>1, ConstantsAssumption DEF Object, Reasons
  <2>3. QED
    BY <1>1, <2>2 DEF UserCreate
<1>2. ASSUME NEW k \in Keys, NEW n \in KeyNames[k], UserEdit(k, n)
      PROVE  TypeInv'
  <2>1. store[k] \in Object
    BY <1>2 DEF UserEdit
  <2>2. store[k].gen + 1 \in 1..MaxGen
    BY <1>2, <2>1, ConstantsAssumption DEF UserEdit, Object
  <2>3. [store[k] EXCEPT !.gen = store[k].gen + 1, !.name = n] \in Object
    BY <2>1, <2>2, ConstantsAssumption DEF Object
  <2>4. QED
    BY <1>2, <2>3 DEF UserEdit
<1>3. ASSUME NEW k \in Keys, UserDelete(k)
      PROVE  TypeInv'
  <2>1. store[k] \in Object
    BY <1>3 DEF UserDelete
  <2>2. [store[k] EXCEPT !.deleting = TRUE] \in Object
    BY <2>1 DEF Object
  <2>3. QED
    BY <1>3, <2>2, PersistType DEF UserDelete
<1>4. ASSUME NEW k \in Keys, InformerSync(k)
      PROVE  TypeInv'
  BY <1>4 DEF InformerSync
<1>5. ASSUME NEW k \in Keys, GetConsumer(k)
      PROVE  TypeInv'
  BY <1>5, ConstantsAssumption DEF GetConsumer
<1>6. ASSUME NEW k \in Keys, ConnectAndLoad(k)
      PROVE  TypeInv'
  BY <1>6, ConstantsAssumption DEF ConnectAndLoad, Goto, Succeed
<1>7. ASSUME NEW k \in Keys, createConsumer(k)
      PROVE  TypeInv'
  BY <1>7 DEF createConsumer, Goto, Object
<1>8. ASSUME NEW k \in Keys, setConsumerFinalizer(k)
      PROVE  TypeInv'
  <2>1. pc[k] = "setFin" /\ obj[k] \in Object
    BY <1>8 DEF setConsumerFinalizer
  <2> DEFINE new == [obj[k] EXCEPT !.fin = @ \cup {streamFinalizerKey}]
  <2>2. new \in Object /\ Persist(new) \in ObjOrAbsent
    BY <2>1, FinalizerEditType, PersistType DEF Finalizers
  <2>3. PICK applied, ok \in BOOLEAN :
              /\ UpdateObject(k, new, applied)
              /\ pc' = [pc EXCEPT ![k] = IF ok THEN "setOK" ELSE "errored"]
              /\ obj' = IF ok THEN [obj EXCEPT ![k] = new] ELSE obj
              /\ UNCHANGED <<cache, queue, retries, remote>>
    BY <1>8 DEF setConsumerFinalizer
  <2>4. store' \in [Keys -> ObjOrAbsent] /\ events' \subseteq Keys
    BY <2>2, <2>3 DEF UpdateObject
  <2>5. pc' \in [Keys -> PCs] /\ obj' \in [Keys -> ObjOrAbsent]
    BY <2>2, <2>3 DEF PCs, ObjOrAbsent
  <2>6. WorkerCopyTyped'
    BY <2>1, <2>2, <2>3 DEF WorkerCopyTyped
  <2>7. QED
    BY <2>3, <2>4, <2>5, <2>6 DEF TypeInv, TypeOK
<1>9. ASSUME NEW k \in Keys, setConsumerOK(k)
      PROVE  TypeInv'
  <2>1. pc[k] = "setOK" /\ obj[k] \in Object
    BY <1>9 DEF setConsumerOK
  <2> DEFINE new == [obj[k] EXCEPT !.obsGen = obj[k].gen, !.ready = "Created"]
  <2>2. new \in Object
    BY <2>1, StatusEditType DEF Reasons
  <2>3. QED
    BY <1>9, <2>1, <2>2, ConstantsAssumption DEF setConsumerOK, UpdateStatus, Succeed, Goto
<1>10. ASSUME NEW k \in Keys, deleteConsumer(k)
       PROVE  TypeInv'
  BY <1>10 DEF deleteConsumer, Goto
<1>11. ASSUME NEW k \in Keys, clearConsumerFinalizer(k)
       PROVE  TypeInv'
  <2>1. pc[k] = "clearFin" /\ obj[k] \in Object
    BY <1>11 DEF clearConsumerFinalizer
  <2> DEFINE new == [obj[k] EXCEPT !.fin = @ \ {streamFinalizerKey}]
  <2>2. new \in Object /\ Persist(new) \in ObjOrAbsent
    BY <2>1, FinalizerEditType, PersistType DEF Finalizers
  <2>3. QED
    BY <1>11, <2>1, <2>2, ConstantsAssumption DEF clearConsumerFinalizer, UpdateObject,
       Succeed, Goto
<1>12. ASSUME NEW k \in Keys, setConsumerErrored(k)
       PROVE  TypeInv'
  <2>1. pc[k] = "errored" /\ obj[k] \in Object
    BY <1>12 DEF setConsumerErrored
  <2> DEFINE new == [obj[k] EXCEPT !.ready = "Errored"]
  <2>2. new \in Object
    BY <2>1, StatusEditType DEF Reasons
  <2>3. QED
    BY <1>12, <2>1, <2>2, ConstantsAssumption DEF setConsumerErrored, UpdateStatus, Fail
<1>13. CASE UNCHANGED vars
  BY <1>13 DEF vars
<1>14. QED
  BY <1>1, <1>2, <1>3, <1>4, <1>5, <1>6, <1>7, <1>8, <1>9, <1>10, <1>11,
     <1>12, <1>13 DEF Next, Environment, Controller

\* The state is always well typed (TypeOK), and a worker that is processing
\* a key holds an object, never Absent.
THEOREM TypeCorrect == Spec => []TypeInv
BY TypeInit, TypeStep, PTL DEF Spec

-----------------------------------------------------------------------------

LEMMA IInvInit == Init => IInv
BY TypeInit DEF Init, IInv, ReadyImpliesFinalizer, FinalizerBeforeReady,
   DeleteBranchDeleting

\* Every step preserves the inductive invariant.
LEMMA IInvStep == IInv /\ [Next]_vars => IInv'
<1> SUFFICES ASSUME IInv, [Next]_vars PROVE IInv'
  OBVIOUS
<1>1. TypeInv'
  BY TypeStep DEF IInv
<1> DEFINE Rest == ReadyImpliesFinalizer /\ FinalizerBeforeReady
                   /\ DeleteBranchDeleting
<1> USE DEF IInv, TypeInv, TypeOK, WorkerCopyTyped, ObjOrAbsent,
            ReadyImpliesFinalizer, FinalizerBeforeReady, DeleteBranchDeleting
<1>2. ASSUME NEW k \in Keys, NEW n \in KeyNames[k], NEW f \in InitFinalizers,
             UserCreate(k, n, f)
      PROVE  Rest'
  BY <1>2 DEF UserCreate
<1>3. ASSUME NEW k \in Keys, NEW n \in KeyNames[k], UserEdit(k, n)
      PROVE  Rest'
  BY <1>3 DEF UserEdit
<1>4. ASSUME NEW k \in Keys, UserDelete(k)
      PROVE  Rest'
  BY <1>4 DEF UserDelete, Persist
<1>5. ASSUME NEW k \in Keys, InformerSync(k)
      PROVE  Rest'
  BY <1>5 DEF InformerSync
<1>6. ASSUME NEW k \in Keys, GetConsumer(k)
      PROVE  Rest'
  BY <1>6 DEF GetConsumer
<1>7. ASSUME NEW k \in Keys, ConnectAndLoad(k)
      PROVE  Rest'
  BY <1>7 DEF ConnectAndLoad, Goto, Succeed, ConsumerAction
<1>8. ASSUME NEW k \in Keys, createConsumer(k)
      PROVE  Rest'
  BY <1>8 DEF createConsumer, Goto
<1>9. ASSUME NEW k \in Keys, setConsumerFinalizer(k)
      PROVE  Rest'
  BY <1>9 DEF setConsumerFinalizer, UpdateObject, WriteOutcome, Persist
<1>10. ASSUME NEW k \in Keys, setConsumerOK(k)
       PROVE  Rest'
  BY <1>10 DEF setConsumerOK, UpdateStatus, WriteOutcome, Succeed, Goto
<1>11. ASSUME NEW k \in Keys, deleteConsumer(k)
       PROVE  Rest'
  BY <1>11 DEF deleteConsumer, Goto
<1>12. ASSUME NEW k \in Keys, clearConsumerFinalizer(k)
       PROVE  Rest'
  BY <1>12 DEF clearConsumerFinalizer, UpdateObject, WriteOutcome, Persist,
     Succeed, Goto
<1>13. ASSUME NEW k \in Keys, setConsumerErrored(k)
       PROVE  Rest'
  BY <1>13 DEF setConsumerErrored, UpdateStatus, WriteOutcome, Fail
<1>14. CASE UNCHANGED vars
  BY <1>14 DEF vars
<1>15. QED
  BY <1>1, <1>2, <1>3, <1>4, <1>5, <1>6, <1>7, <1>8, <1>9, <1>10, <1>11,
     <1>12, <1>13, <1>14 DEF Next, Environment, Controller

\* A Consumer that is reported Ready (Reason Created) and is not being
\* deleted always carries streamFinalizerKey: processConsumer writes the
\* Ready status only after setConsumerFinalizer succeeded, whatever the
\* failures, timeouts, stale cache reads and user edits in between.
THEOREM ReadyFinalizerSafety == Spec => []ReadyImpliesFinalizer
<1>1. Spec => []IInv
  BY IInvInit, IInvStep, PTL DEF Spec
<1>2. QED
  BY <1>1, PTL DEF IInv


\* The type invariant checked by every run holds in every reachable state.
THEOREM TypeOKSafety == Spec => []TypeOK
BY TypeCorrect, PTL DEF TypeInv

-----------------------------------------------------------------------------
(***************************************************************************)
(* The queue forgets every key it stops tracking (RetriesOnlyWhilePending). *)
(***************************************************************************)

\* The three ways a worker leaves or continues a step keep a counted key
\* pending: Succeed forgets the key, Fail requeues it below the bound and
\* forgets it at the bound, and Goto keeps the worker busy.
LEMMA SucceedPending ==
    ASSUME TypeInv, RetriesOnlyWhilePending, NEW k \in Keys, Succeed(k)
    PROVE  RetriesOnlyWhilePending'
BY DEF Succeed, RetriesOnlyWhilePending, TypeInv, TypeOK

LEMMA FailPending ==
    ASSUME TypeInv, RetriesOnlyWhilePending, NEW k \in Keys, Fail(k)
    PROVE  RetriesOnlyWhilePending'
BY DEF Fail, RetriesOnlyWhilePending, TypeInv, TypeOK

LEMMA GotoPending ==
    ASSUME TypeInv, RetriesOnlyWhilePending, NEW k \in Keys, NEW step,
           step # "idle", Goto(k, step), queue' = queue
    PROVE  RetriesOnlyWhilePending'
BY DEF Goto, RetriesOnlyWhilePending, TypeInv, TypeOK

LEMMA RetriesInit == Init => RetriesOnlyWhilePending
BY DEF Init, RetriesOnlyWhilePending

LEMMA RetriesStep ==
    TypeInv /\ RetriesOnlyWhilePending /\ [Next]_vars => RetriesOnlyWhilePending'
<1> SUFFICES ASSUME TypeInv, RetriesOnlyWhilePending, [Next]_vars
             PROVE  RetriesOnlyWhilePending'
  OBVIOUS
<1>1. ASSUME NEW k \in Keys,
             \/ \E n \in KeyNames[k], f \in InitFinalizers : UserCreate(k, n, f)
             \/ \E n \in KeyNames[k] : UserEdit(k, n)
             \/ UserDelete(k) \/ InformerSync(k)
      PROVE  RetriesOnlyWhilePending'
  BY <1>1 DEF UserCreate, UserEdit, UserDelete, InformerSync, RetriesOnlyWhilePending
<1>2. ASSUME NEW k \in Keys, GetConsumer(k)
      PROVE  RetriesOnlyWhilePending'
  BY <1>2 DEF GetConsumer, RetriesOnlyWhilePending, TypeInv, TypeOK
<1>3. ASSUME NEW k \in Keys, ConnectAndLoad(k)
      PROVE  RetriesOnlyWhilePending'
  <2>1. CASE Succeed(k)
    BY <2>1, SucceedPending
  <2>2. CASE \E step \in {"errored", "create", "delete"} : Goto(k, step)
    BY <2>2, <1>3, GotoPending DEF Goto
  <2>3. QED
    BY <1>3, <2>1, <2>2 DEF ConnectAndLoad
<1>4. ASSUME NEW k \in Keys,
             createConsumer(k) \/ deleteConsumer(k) \/ setConsumerFinalizer(k)
      PROVE  RetriesOnlyWhilePending'
  <2>1. CASE createConsumer(k)
    <3>1. /\ retries' = retries /\ queue' = queue
          /\ \E step \in {"setFin", "errored"} : pc' = [pc EXCEPT ![k] = step]
      BY <2>1 DEF createConsumer, Goto
    <3>2. QED
      BY <3>1 DEF RetriesOnlyWhilePending, TypeInv, TypeOK
  <2>2. CASE deleteConsumer(k)
    <3>1. /\ retries' = retries /\ queue' = queue
          /\ \E step \in {"clearFin", "errored"} : pc' = [pc EXCEPT ![k] = step]
      BY <2>2 DEF deleteConsumer, Goto
    <3>2. QED
      BY <3>1 DEF RetriesOnlyWhilePending, TypeInv, TypeOK
  <2>3. CASE setConsumerFinalizer(k)
    <3>1. /\ retries' = retries /\ queue' = queue
          /\ \E step \in {"setOK", "errored"} : pc' = [pc EXCEPT ![k] = step]
      BY <2>3 DEF setConsumerFinalizer
    <3>2. QED
      BY <3>1 DEF RetriesOnlyWhilePending, TypeInv, TypeOK
  <2>4. QED
    BY <1>4, <2>1, <2>2, <2>3
<1>5. ASSUME NEW k \in Keys, setConsumerOK(k) \/ clearConsumerFinalizer(k)
      PROVE  RetriesOnlyWhilePending'
  <2>1. Succeed(k) \/ Goto(k, "errored")
    BY <1>5 DEF setConsumerOK, clearConsumerFinalizer
  <2>2. QED
    BY <2>1, SucceedPending, GotoPending DEF Goto
<1>6. ASSUME NEW k \in Keys, setConsumerErrored(k)
      PROVE  RetriesOnlyWhilePending'
  BY <1>6, FailPending DEF setConsumerErrored
<1>7. CASE UNCHANGED vars
  BY <1>7 DEF vars, RetriesOnlyWhilePending
<1>8. QED
  BY <1>1, <1>2, <1>3, <1>4, <1>5, <1>6, <1>7 DEF Next, Environment, Controller

\* A key whose failures the queue counts is always waiting in the queue or
\* being processed: processQueueNext forgets a key it drops at the retry
\* bound, so a later watch event gets the whole retry budget.
THEOREM RetriesPendingSafety == Spec => []RetriesOnlyWhilePending
<1>1. TypeInv /\ RetriesOnlyWhilePending /\ [Next]_vars
        => (TypeInv /\ RetriesOnlyWhilePending)'
  BY TypeStep, RetriesStep
<1>2. QED
  BY <1>1, TypeInit, RetriesInit, PTL DEF Spec

-----------------------------------------------------------------------------
(***************************************************************************)
(* The controller never changes what users own (ControllerKeepsUserFields). *)
(* A write lands only while the worker's copy is the stored object, and    *)
(* each write edits only the status or the controller's own finalizer.     *)
(***************************************************************************)

\* A step that leaves the stored objects alone keeps every user field.
LEMMA StoreUnchangedKeeps ==
    ASSUME TypeInv, store' = store
    PROVE  ControllerStepKeepsUserFields
BY DEF ControllerStepKeepsUserFields

\* A write from obj[k] of a copy that differs from obj[k] at most in the
\* status and the controller's own finalizer keeps every user field, with
\* or without the API server's garbage collection.
LEMMA WriteKeepsUserFields ==
    ASSUME TypeInv, NEW k \in Keys, NEW applied \in BOOLEAN, NEW ok \in BOOLEAN,
           NEW new \in Object, obj[k] \in Object,
           new.gen = obj[k].gen, new.name = obj[k].name,
           new.deleting = obj[k].deleting,
           new.fin \ {streamFinalizerKey} = obj[k].fin \ {streamFinalizerKey},
           WriteOutcome(k, applied, ok),
           \/ store' = IF applied THEN [store EXCEPT ![k] = Persist(new)] ELSE store
           \/ store' = IF applied THEN [store EXCEPT ![k] = new] ELSE store
    PROVE  ControllerStepKeepsUserFields
<1>1. CASE ~applied
  BY <1>1, StoreUnchangedKeeps
<1>2. CASE applied
  <2>1. store[k] = obj[k]
    BY <1>2 DEF WriteOutcome
  <2>2. \A j \in Keys \ {k} : store'[j] = store[j]
    BY <1>2 DEF TypeInv, TypeOK
  <2>3. store'[k] = new \/ (store'[k] = Absent /\ new.deleting)
    BY <1>2 DEF TypeInv, TypeOK, Persist
  <2>4. QED
    BY <2>1, <2>2, <2>3, AbsentAssumption DEF ControllerStepKeepsUserFields
<1>3. QED
  BY <1>1, <1>2

\* Each step of processConsumer keeps every user field.
LEMMA UserFieldsStep == TypeInv /\ Controller => ControllerStepKeepsUserFields
<1> SUFFICES ASSUME TypeInv, Controller PROVE ControllerStepKeepsUserFields
  OBVIOUS
<1>1. ASSUME NEW k \in Keys,
             \/ GetConsumer(k) \/ ConnectAndLoad(k)
             \/ createConsumer(k) \/ deleteConsumer(k)
      PROVE  ControllerStepKeepsUserFields
  <2>1. store' = store
    BY <1>1 DEF GetConsumer, ConnectAndLoad, createConsumer, deleteConsumer
  <2>2. QED
    BY <2>1, StoreUnchangedKeeps
<1>2. ASSUME NEW k \in Keys, setConsumerFinalizer(k)
      PROVE  ControllerStepKeepsUserFields
  <2>1. obj[k] \in Object
    BY <1>2 DEF setConsumerFinalizer, TypeInv, WorkerCopyTyped
  <2> DEFINE new == [obj[k] EXCEPT !.fin = @ \cup {streamFinalizerKey}]
  <2>2. new \in Object
    BY <2>1, FinalizerEditType DEF Finalizers
  <2>3. PICK applied, ok \in BOOLEAN :
          WriteOutcome(k, applied, ok) /\ UpdateObject(k, new, applied)
    BY <1>2 DEF setConsumerFinalizer
  <2>4. /\ new.gen = obj[k].gen /\ new.name = obj[k].name
        /\ new.deleting = obj[k].deleting
        /\ new.fin \ {streamFinalizerKey} = obj[k].fin \ {streamFinalizerKey}
    BY <2>1 DEF Object
  <2>5. store' = IF applied THEN [store EXCEPT ![k] = Persist(new)] ELSE store
    BY <2>3 DEF UpdateObject
  <2>6. QED
    BY <2>1, <2>2, <2>3, <2>4, <2>5, WriteKeepsUserFields
<1>3. ASSUME NEW k \in Keys, clearConsumerFinalizer(k)
      PROVE  ControllerStepKeepsUserFields
  <2>1. obj[k] \in Object
    BY <1>3 DEF clearConsumerFinalizer, TypeInv, WorkerCopyTyped
  <2> DEFINE new == [obj[k] EXCEPT !.fin = @ \ {streamFinalizerKey}]
  <2>2. new \in Object
    BY <2>1, FinalizerEditType DEF Finalizers
  <2>3. PICK applied, ok \in BOOLEAN :
          WriteOutcome(k, applied, ok) /\ UpdateObject(k, new, applied)
    BY <1>3 DEF clearConsumerFinalizer
  <2>4. /\ new.gen = obj[k].gen /\ new.name = obj[k].name
        /\ new.deleting = obj[k].deleting
        /\ new.fin \ {streamFinalizerKey} = obj[k].fin \ {streamFinalizerKey}
    BY <2>1 DEF Object
  <2>5. store' = IF applied THEN [store EXCEPT ![k] = Persist(new)] ELSE store
    BY <2>3 DEF UpdateObject
  <2>6. QED
    BY <2>1, <2>2, <2>3, <2>4, <2>5, WriteKeepsUserFields
<1>4. ASSUME NEW k \in Keys, setConsumerOK(k)
      PROVE  ControllerStepKeepsUserFields
  <2>1. obj[k] \in Object
    BY <1>4 DEF setConsumerOK, TypeInv, WorkerCopyTyped
  <2> DEFINE new == [obj[k] EXCEPT !.obsGen = obj[k].gen, !.ready = "Created"]
  <2>2. new \in Object
    BY <2>1, StatusEditType DEF Reasons
  <2>3. PICK applied, ok \in BOOLEAN :
          WriteOutcome(k, applied, ok) /\ UpdateStatus(k, new, applied)
    BY <1>4 DEF setConsumerOK
  <2>4. /\ new.gen = obj[k].gen /\ new.name = obj[k].name
        /\ new.deleting = obj[k].deleting
        /\ new.fin \ {streamFinalizerKey} = obj[k].fin \ {streamFinalizerKey}
    BY <2>1 DEF Object
  <2>5. store' = IF applied THEN [store EXCEPT ![k] = new] ELSE store
    BY <2>3 DEF UpdateStatus
  <2>6. QED
    BY <2>1, <2>2, <2>3, <2>4, <2>5, WriteKeepsUserFields
<1>5. ASSUME NEW k \in Keys, setConsumerErrored(k)
      PROVE  ControllerStepKeepsUserFields
  <2>1. obj[k] \in Object
    BY <1>5 DEF setConsumerErrored, TypeInv, WorkerCopyTyped
  <2> DEFINE new == [obj[k] EXCEPT !.ready = "Errored"]
  <2>2. new \in Object
    BY <2>1, StatusEditType DEF Reasons
  <2>3. PICK applied, ok \in BOOLEAN :
          WriteOutcome(k, applied, ok) /\ UpdateStatus(k, new, applied)
    BY <1>5 DEF setConsumerErrored
  <2>4. /\ new.gen = obj[k].gen /\ new.name = obj[k].name
        /\ new.deleting = obj[k].deleting
        /\ new.fin \ {streamFinalizerKey} = obj[k].fin \ {streamFinalizerKey}
    BY <2>1 DEF Object
  <2>5. store' = IF applied THEN [store EXCEPT ![k] = new] ELSE store
    BY <2>3 DEF UpdateStatus
  <2>6. QED
    BY <2>1, <2>2, <2>3, <2>4, <2>5, WriteKeepsUserFields
<1>6. QED
  BY <1>1, <1>2, <1>3, <1>4, <1>5 DEF Controller

\* No step of the controller changes a Consumer's spec, its deletion
\* timestamp or a finalizer other than its own, nor removes a live object,
\* although every write starts from a copy that may be stale (cns read at
\* consumer.go:36 and written back by setConsumerErrored at consumer.go:51).
THEOREM UserFieldsSafety == Spec => ControllerKeepsUserFields
<1>1. TypeInv /\ [Next]_vars => [Controller => ControllerStepKeepsUserFields]_vars
  BY UserFieldsStep
<1>2. QED
  BY TypeCorrect, <1>1, PTL DEF Spec, ControllerKeepsUserFields

=============================================================================
