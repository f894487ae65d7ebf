--------------------- MODULE ConsumerRefinementProofs ---------------------
(***************************************************************************)
(* Proofs, for every value of the constants, that the Consumer controller  *)
(* implements ConsumerLifecycle, and hence that an object reported Ready   *)
(* for its current generation has its remote consumer.                     *)
(***************************************************************************)
EXTENDS ConsumerRefinement, ConsumerReconcileProofs, TLAPS

LEMMA RInvInit == Init => RInv
BY IInvInit DEF Init, RInv, NamesOwned, CreatePathLive, CreatedRemote,
   DeletedRemote, LiveCopyStaleCache, DeletingCopyUnprotected

\* Every step preserves the invariant behind the refinement: one step per
\* action, and under it one per conjunct.
LEMMA RInvStep == RInv /\ [Next]_vars => RInv'
<1> SUFFICES ASSUME RInv, [Next]_vars PROVE RInv'
  OBVIOUS
<1>1. IInv /\ IInv'
  BY IInvStep DEF RInv
<1>2. NamesOwned /\ CreatePathLive /\ CreatedRemote /\ DeletedRemote
      /\ LiveCopyStaleCache /\ DeletingCopyUnprotected
  BY DEF RInv
<1>3. TypeInv /\ DeleteBranchDeleting /\ FinalizerBeforeReady
  BY <1>1, AbsentAssumption DEF IInv
<1> DEFINE Rest == NamesOwned /\ CreatePathLive /\ CreatedRemote
                   /\ DeletedRemote /\ LiveCopyStaleCache
                   /\ DeletingCopyUnprotected
<1>4. ASSUME NEW k \in Keys, NEW n \in KeyNames[k], NEW f \in InitFinalizers,
             UserCreate(k, n, f)
      PROVE  Rest'
  <2>1. NamesOwned'
    BY <1>4, AbsentAssumption, <1>2, <1>3, RefinementAssumption, ConstantsAssumption
       DEF NamesOwned, UserCreate, TypeInv, TypeOK, WorkerCopyTyped, ObjOrAbsent
  <2>2. CreatePathLive'
    BY <1>4, AbsentAssumption, <1>2, <1>3, RefinementAssumption, ConstantsAssumption
       DEF CreatePathLive, UserCreate, TypeInv, TypeOK, WorkerCopyTyped, ObjOrAbsent
  <2>3. CreatedRemote'
    BY <1>4, AbsentAssumption, <1>2, <1>3, RefinementAssumption, ConstantsAssumption
       DEF CreatedRemote, NamesOwned, UserCreate, TypeInv, TypeOK, WorkerCopyTyped, ObjOrAbsent
  <2>4. DeletedRemote'
    BY <1>4, AbsentAssumption, <1>2, <1>3, RefinementAssumption, ConstantsAssumption
       DEF DeletedRemote, NamesOwned, UserCreate, TypeInv, TypeOK, WorkerCopyTyped, ObjOrAbsent
  <2>5. LiveCopyStaleCache'
    BY <1>4, AbsentAssumption, <1>2, <1>3, RefinementAssumption, ConstantsAssumption
       DEF LiveCopyStaleCache, CreatePathLive, DeleteBranchDeleting, UserCreate, TypeInv, TypeOK, WorkerCopyTyped, ObjOrAbsent
  <2>6. DeletingCopyUnprotected'
    BY <1>4, AbsentAssumption, <1>2, <1>3, RefinementAssumption, ConstantsAssumption
       DEF DeletingCopyUnprotected, LiveCopyStaleCache, CreatePathLive, Unprotected, UserCreate, TypeInv, TypeOK, WorkerCopyTyped, ObjOrAbsent
  <2>7. QED
    BY <2>1, <2>2, <2>3, <2>4, <2>5, <2>6
<1>5. ASSUME NEW k \in Keys, NEW n \in KeyNames[k], UserEdit(k, n)
      PROVE  Rest'
  <2>1. NamesOwned'
    BY <1>5, AbsentAssumption, <1>2, <1>3, ConstantsAssumption
       DEF NamesOwned, UserEdit, TypeInv, TypeOK, WorkerCopyTyped, ObjOrAbsent
  <2>2. CreatePathLive'
    BY <1>5, AbsentAssumption, <1>2, <1>3, ConstantsAssumption
       DEF CreatePathLive, UserEdit, TypeInv, TypeOK, WorkerCopyTyped, ObjOrAbsent
  <2>3. CreatedRemote'
    BY <1>5, AbsentAssumption, <1>2, <1>3, ConstantsAssumption
       DEF CreatedRemote, NamesOwned, UserEdit, TypeInv, TypeOK, WorkerCopyTyped, ObjOrAbsent
  <2>4. DeletedRemote'
    BY <1>5, AbsentAssumption, <1>2, <1>3, ConstantsAssumption
       DEF DeletedRemote, NamesOwned, UserEdit, TypeInv, TypeOK, WorkerCopyTyped, ObjOrAbsent
  <2>5. LiveCopyStaleCache'
    <3>1. store[k] \in Object /\ store'[k] \in Object
          /\ store'[k].deleting = store[k].deleting
      <4>1. store[k] \in Object
        BY <1>5, <1>3, AbsentAssumption DEF UserEdit, TypeInv, TypeOK, WorkerCopyTyped, ObjOrAbsent
      <4>2. store'[k] = [store[k] EXCEPT !.gen = store[k].gen + 1, !.name = n]
        BY <1>5, <1>3 DEF UserEdit, TypeInv, TypeOK, WorkerCopyTyped, ObjOrAbsent
      <4>3. store[k].gen + 1 \in 1..MaxGen /\ n \in Names
        BY <1>5, <4>1, ConstantsAssumption DEF UserEdit, Object
      <4>4. QED
        BY <4>1, <4>2, <4>3 DEF Object
    <3>2. \A j \in Keys \ {k} : store'[j] = store[j]
      BY <1>5, AbsentAssumption, <1>3 DEF UserEdit, TypeInv, TypeOK, WorkerCopyTyped, ObjOrAbsent
    <3>3. QED
      BY <1>5, <1>2, <3>1, <3>2, AbsentAssumption DEF LiveCopyStaleCache, UserEdit
  <2>6. DeletingCopyUnprotected'
    BY <1>5, AbsentAssumption, <1>2, <1>3, ConstantsAssumption
       DEF DeletingCopyUnprotected, LiveCopyStaleCache, CreatePathLive, Unprotected, UserEdit, TypeInv, TypeOK, WorkerCopyTyped, ObjOrAbsent
  <2>7. QED
    BY <2>1, <2>2, <2>3, <2>4, <2>5, <2>6
<1>6. ASSUME NEW k \in Keys, UserDelete(k)
      PROVE  Rest'
  <2>1. NamesOwned'
    BY <1>6, AbsentAssumption, <1>2, <1>3, ConstantsAssumption
       DEF NamesOwned, UserDelete, Persist, TypeInv, TypeOK, WorkerCopyTyped, ObjOrAbsent
  <2>2. CreatePathLive'
    BY <1>6, AbsentAssumption, <1>2, <1>3, ConstantsAssumption
       DEF CreatePathLive, UserDelete, Persist, TypeInv, TypeOK, WorkerCopyTyped, ObjOrAbsent
  <2>3. CreatedRemote'
    BY <1>6, AbsentAssumption, <1>2, <1>3, ConstantsAssumption
       DEF CreatedRemote, NamesOwned, UserDelete, Persist, TypeInv, TypeOK, WorkerCopyTyped, ObjOrAbsent
  <2>4. DeletedRemote'
    BY <1>6, AbsentAssumption, <1>2, <1>3, ConstantsAssumption
       DEF DeletedRemote, NamesOwned, UserDelete, Persist, TypeInv, TypeOK, WorkerCopyTyped, ObjOrAbsent
  <2>5. LiveCopyStaleCache'
    BY <1>6, AbsentAssumption, <1>2, <1>3, ConstantsAssumption
       DEF LiveCopyStaleCache, CreatePathLive, DeleteBranchDeleting, UserDelete, Persist, TypeInv, TypeOK, WorkerCopyTyped, ObjOrAbsent
  <2>6. DeletingCopyUnprotected'
    BY <1>6, AbsentAssumption, <1>2, <1>3, ConstantsAssumption
       DEF DeletingCopyUnprotected, LiveCopyStaleCache, CreatePathLive, Unprotected, UserDelete, Persist, TypeInv, TypeOK, WorkerCopyTyped, ObjOrAbsent
  <2>7. QED
    BY <2>1, <2>2, <2>3, <2>4, <2>5, <2>6
<1>7. ASSUME NEW k \in Keys, InformerSync(k)
      PROVE  Rest'
  <2>1. NamesOwned'
    BY <1>7, AbsentAssumption, <1>2, <1>3, ConstantsAssumption
       DEF NamesOwned, InformerSync, TypeInv, TypeOK, WorkerCopyTyped, ObjOrAbsent
  <2>2. CreatePathLive'
    BY <1>7, AbsentAssumption, <1>2, <1>3, ConstantsAssumption
       DEF CreatePathLive, InformerSync, TypeInv, TypeOK, WorkerCopyTyped, ObjOrAbsent
  <2>3. CreatedRemote'
    BY <1>7, AbsentAssumption, <1>2, <1>3, ConstantsAssumption
       DEF CreatedRemote, NamesOwned, InformerSync, TypeInv, TypeOK, WorkerCopyTyped, ObjOrAbsent
  <2>4. DeletedRemote'
    BY <1>7, AbsentAssumption, <1>2, <1>3, ConstantsAssumption
       DEF DeletedRemote, NamesOwned, InformerSync, TypeInv, TypeOK, WorkerCopyTyped, ObjOrAbsent
  <2>5. LiveCopyStaleCache'
    BY <1>7, AbsentAssumption, <1>2, <1>3, ConstantsAssumption
       DEF LiveCopyStaleCache, CreatePathLive, DeleteBranchDeleting, InformerSync, TypeInv, TypeOK, WorkerCopyTyped, ObjOrAbsent
  <2>6. DeletingCopyUnprotected'
    BY <1>7, AbsentAssumption, <1>2, <1>3, ConstantsAssumption
       DEF DeletingCopyUnprotected, LiveCopyStaleCache, CreatePathLive, Unprotected, InformerSync, TypeInv, TypeOK, WorkerCopyTyped, ObjOrAbsent
  <2>7. QED
    BY <2>1, <2>2, <2>3, <2>4, <2>5, <2>6
<1>8. ASSUME NEW k \in Keys, GetConsumer(k)
      PROVE  Rest'
  <2>1. NamesOwned'
    BY <1>8, AbsentAssumption, <1>2, <1>3, ConstantsAssumption
       DEF NamesOwned, GetConsumer, TypeInv, TypeOK, WorkerCopyTyped, ObjOrAbsent
  <2>2. CreatePathLive'
    BY <1>8, AbsentAssumption, <1>2, <1>3, ConstantsAssumption
       DEF CreatePathLive, GetConsumer, TypeInv, TypeOK, WorkerCopyTyped, ObjOrAbsent
  <2>3. CreatedRemote'
    BY <1>8, AbsentAssumption, <1>2, <1>3, ConstantsAssumption
       DEF CreatedRemote, NamesOwned, GetConsumer, TypeInv, TypeOK, WorkerCopyTyped, ObjOrAbsent
  <2>4. DeletedRemote'
    BY <1>8, AbsentAssumption, <1>2, <1>3, ConstantsAssumption
       DEF DeletedRemote, NamesOwned, GetConsumer, TypeInv, TypeOK, WorkerCopyTyped, ObjOrAbsent
  <2>5. LiveCopyStaleCache'
    BY <1>8, AbsentAssumption, <1>2, <1>3, ConstantsAssumption
       DEF LiveCopyStaleCache, CreatePathLive, DeleteBranchDeleting, GetConsumer, TypeInv, TypeOK, WorkerCopyTyped, ObjOrAbsent
  <2>6. DeletingCopyUnprotected'
    BY <1>8, AbsentAssumption, <1>2, <1>3, ConstantsAssumption
       DEF DeletingCopyUnprotected, LiveCopyStaleCache, CreatePathLive, Unprotected, GetConsumer, TypeInv, TypeOK, WorkerCopyTyped, ObjOrAbsent
  <2>7. QED
    BY <2>1, <2>2, <2>3, <2>4, <2>5, <2>6
<1>9. ASSUME NEW k \in Keys, ConnectAndLoad(k)
      PROVE  Rest'
  <2>1. NamesOwned'
    BY <1>9, AbsentAssumption, <1>2, <1>3, ConstantsAssumption
       DEF NamesOwned, ConnectAndLoad, Goto, Succeed, ConsumerAction, TypeInv, TypeOK, WorkerCopyTyped, ObjOrAbsent
  <2>2. CreatePathLive'
    BY <1>9, AbsentAssumption, <1>2, <1>3, ConstantsAssumption
       DEF CreatePathLive, ConnectAndLoad, Goto, Succeed, ConsumerAction, TypeInv, TypeOK, WorkerCopyTyped, ObjOrAbsent
  <2>3. CreatedRemote'
    BY <1>9, AbsentAssumption, <1>2, <1>3, ConstantsAssumption
       DEF CreatedRemote, NamesOwned, ConnectAndLoad, Goto, Succeed, ConsumerAction, TypeInv, TypeOK, WorkerCopyTyped, ObjOrAbsent
  <2>4. DeletedRemote'
    BY <1>9, AbsentAssumption, <1>2, <1>3, ConstantsAssumption
       DEF DeletedRemote, NamesOwned, ConnectAndLoad, Goto, Succeed, ConsumerAction, TypeInv, TypeOK, WorkerCopyTyped, ObjOrAbsent
  <2>5. LiveCopyStaleCache'
    BY <1>9, AbsentAssumption, <1>2, <1>3, ConstantsAssumption
       DEF LiveCopyStaleCache, CreatePathLive, DeleteBranchDeleting, ConnectAndLoad, Goto, Succeed, ConsumerAction, TypeInv, TypeOK, WorkerCopyTyped, ObjOrAbsent
  <2>6. DeletingCopyUnprotected'
    BY <1>9, AbsentAssumption, <1>2, <1>3, ConstantsAssumption
       DEF DeletingCopyUnprotected, LiveCopyStaleCache, CreatePathLive, Unprotected, ConnectAndLoad, Goto, Succeed, ConsumerAction, TypeInv, TypeOK, WorkerCopyTyped, ObjOrAbsent
  <2>7. QED
    BY <2>1, <2>2, <2>3, <2>4, <2>5, <2>6
<1>10. ASSUME NEW k \in Keys, createConsumer(k)
      PROVE  Rest'
  <2>1. NamesOwned'
    BY <1>10, AbsentAssumption, <1>2, <1>3, RefinementAssumption, ConstantsAssumption
       DEF NamesOwned, createConsumer, Goto, TypeInv, TypeOK, WorkerCopyTyped, ObjOrAbsent
  <2>2. CreatePathLive'
    BY <1>10, AbsentAssumption, <1>2, <1>3, RefinementAssumption, ConstantsAssumption
       DEF CreatePathLive, createConsumer, Goto, TypeInv, TypeOK, WorkerCopyTyped, ObjOrAbsent
  <2>3. CreatedRemote'
    BY <1>10, AbsentAssumption, <1>2, <1>3, RefinementAssumption, ConstantsAssumption
       DEF CreatedRemote, NamesOwned, createConsumer, Goto, TypeInv, TypeOK, WorkerCopyTyped, ObjOrAbsent
  <2>4. DeletedRemote'
    <3>1. obj[k] \in Object /\ obj[k].name \in KeyNames[k]
      BY <1>10, AbsentAssumption, <1>2, <1>3 DEF createConsumer, NamesOwned, TypeInv, TypeOK, WorkerCopyTyped, ObjOrAbsent
    <3>2. /\ remote' \subseteq remote \cup {obj[k].name}
          /\ obj' = obj
          /\ pc[k] = "create"
          /\ \A j \in Keys \ {k} : pc'[j] = pc[j]
          /\ pc'[k] \in {"setFin", "errored"}
      BY <1>10, <1>3 DEF createConsumer, Goto, TypeInv, TypeOK
    <3>3. \A j \in Keys : pc[j] = "clearFin" => j # k /\ obj[j].name \in KeyNames[j]
      BY <1>10, AbsentAssumption, <1>2, <1>3 DEF createConsumer, NamesOwned, TypeInv, TypeOK, WorkerCopyTyped, ObjOrAbsent
    <3>4. \A j \in Keys : pc[j] = "clearFin" => obj[j].name # obj[k].name
      BY <3>1, <3>3, RefinementAssumption
    <3>5. QED
      BY <1>2, <3>2, <3>4 DEF DeletedRemote
  <2>5. LiveCopyStaleCache'
    BY <1>10, AbsentAssumption, <1>2, <1>3, RefinementAssumption, ConstantsAssumption
       DEF LiveCopyStaleCache, CreatePathLive, DeleteBranchDeleting, createConsumer, Goto, TypeInv, TypeOK, WorkerCopyTyped, ObjOrAbsent
  <2>6. DeletingCopyUnprotected'
    BY <1>10, AbsentAssumption, <1>2, <1>3, RefinementAssumption, ConstantsAssumption
       DEF DeletingCopyUnprotected, LiveCopyStaleCache, CreatePathLive, Unprotected, createConsumer, Goto, TypeInv, TypeOK, WorkerCopyTyped, ObjOrAbsent
  <2>7. QED
    BY <2>1, <2>2, <2>3, <2>4, <2>5, <2>6
<1>11. ASSUME NEW k \in Keys, setConsumerFinalizer(k)
      PROVE  Rest'
  <2>1. NamesOwned'
    <3>1. obj[k] \in Object /\ obj[k].name \in KeyNames[k]
      BY <1>11, AbsentAssumption, <1>2, <1>3 DEF setConsumerFinalizer, NamesOwned, TypeInv, TypeOK, WorkerCopyTyped, ObjOrAbsent
    <3>2. store'[k] = Absent \/ store'[k] = store[k] \/ store'[k].name = obj[k].name
      BY <1>11, AbsentAssumption, <1>3, <3>1 DEF setConsumerFinalizer, UpdateObject, WriteOutcome, Persist, TypeInv, TypeOK, WorkerCopyTyped, ObjOrAbsent
    <3>3. \A j \in Keys \ {k} : store'[j] = store[j]
      BY <1>11, AbsentAssumption, <1>3 DEF setConsumerFinalizer, UpdateObject, WriteOutcome, Persist, TypeInv, TypeOK, WorkerCopyTyped, ObjOrAbsent
    <3>4. /\ cache' = cache
          /\ \A j \in Keys \ {k} : obj'[j] = obj[j]
          /\ obj'[k] = Absent \/ obj'[k].name = obj[k].name
      BY <1>11, <1>3, <3>1 DEF setConsumerFinalizer, TypeInv, TypeOK, WorkerCopyTyped, ObjOrAbsent,
         UpdateObject, UpdateStatus, WriteOutcome, Succeed, Fail, Goto
    <3>5. QED
      BY <1>2, <1>3, <3>1, <3>2, <3>3, <3>4, AbsentAssumption DEF NamesOwned, TypeInv, TypeOK, WorkerCopyTyped, ObjOrAbsent
  <2>2. CreatePathLive'
    BY <1>11, AbsentAssumption, <1>2, <1>3, ConstantsAssumption
       DEF CreatePathLive, setConsumerFinalizer, UpdateObject, WriteOutcome, Persist, TypeInv, TypeOK, WorkerCopyTyped, ObjOrAbsent
  <2>3. CreatedRemote'
    BY <1>11, AbsentAssumption, <1>2, <1>3, ConstantsAssumption
       DEF CreatedRemote, NamesOwned, setConsumerFinalizer, UpdateObject, WriteOutcome, Persist, TypeInv, TypeOK, WorkerCopyTyped, ObjOrAbsent
  <2>4. DeletedRemote'
    BY <1>11, AbsentAssumption, <1>2, <1>3, ConstantsAssumption
       DEF DeletedRemote, NamesOwned, setConsumerFinalizer, UpdateObject, WriteOutcome, Persist, TypeInv, TypeOK, WorkerCopyTyped, ObjOrAbsent
  <2>5. LiveCopyStaleCache'
    BY <1>11, AbsentAssumption, <1>2, <1>3, ConstantsAssumption
       DEF LiveCopyStaleCache, CreatePathLive, DeleteBranchDeleting, setConsumerFinalizer, UpdateObject, WriteOutcome, Persist, TypeInv, TypeOK, WorkerCopyTyped, ObjOrAbsent
  <2>6. DeletingCopyUnprotected'
    BY <1>11, AbsentAssumption, <1>2, <1>3, ConstantsAssumption
       DEF DeletingCopyUnprotected, LiveCopyStaleCache, CreatePathLive, Unprotected, setConsumerFinalizer, UpdateObject, WriteOutcome, Persist, TypeInv, TypeOK, WorkerCopyTyped, ObjOrAbsent
  <2>7. QED
    BY <2>1, <2>2, <2>3, <2>4, <2>5, <2>6
<1>12. ASSUME NEW k \in Keys, setConsumerOK(k)
      PROVE  Rest'
  <2>1. NamesOwned'
    <3>1. obj[k] \in Object /\ obj[k].name \in KeyNames[k]
      BY <1>12, AbsentAssumption, <1>2, <1>3 DEF setConsumerOK, NamesOwned, TypeInv, TypeOK, WorkerCopyTyped, ObjOrAbsent
    <3>2. store'[k] = Absent \/ store'[k] = store[k] \/ store'[k].name = obj[k].name
      BY <1>12, AbsentAssumption, <1>3, <3>1 DEF setConsumerOK, UpdateStatus, WriteOutcome, Succeed, Goto, TypeInv, TypeOK, WorkerCopyTyped, ObjOrAbsent
    <3>3. \A j \in Keys \ {k} : store'[j] = store[j]
      BY <1>12, AbsentAssumption, <1>3 DEF setConsumerOK, UpdateStatus, WriteOutcome, Succeed, Goto, TypeInv, TypeOK, WorkerCopyTyped, ObjOrAbsent
    <3>4. /\ cache' = cache
          /\ \A j \in Keys \ {k} : obj'[j] = obj[j]
          /\ obj'[k] = Absent \/ obj'[k].name = obj[k].name
      BY <1>12, <1>3, <3>1 DEF setConsumerOK, TypeInv, TypeOK, WorkerCopyTyped, ObjOrAbsent,
         UpdateObject, UpdateStatus, WriteOutcome, Succeed, Fail, Goto
    <3>5. QED
      BY <1>2, <1>3, <3>1, <3>2, <3>3, <3>4, AbsentAssumption DEF NamesOwned, TypeInv, TypeOK, WorkerCopyTyped, ObjOrAbsent
  <2>2. CreatePathLive'
    BY <1>12, AbsentAssumption, <1>2, <1>3, ConstantsAssumption
       DEF CreatePathLive, setConsumerOK, UpdateStatus, WriteOutcome, Succeed, Goto, TypeInv, TypeOK, WorkerCopyTyped, ObjOrAbsent
  <2>3. CreatedRemote'
    BY <1>12, AbsentAssumption, <1>2, <1>3, ConstantsAssumption
       DEF CreatedRemote, NamesOwned, setConsumerOK, UpdateStatus, WriteOutcome, Succeed, Goto, TypeInv, TypeOK, WorkerCopyTyped, ObjOrAbsent
  <2>4. DeletedRemote'
    BY <1>12, AbsentAssumption, <1>2, <1>3, ConstantsAssumption
       DEF DeletedRemote, NamesOwned, setConsumerOK, UpdateStatus, WriteOutcome, Succeed, Goto, TypeInv, TypeOK, WorkerCopyTyped, ObjOrAbsent
  <2>5. LiveCopyStaleCache'
    BY <1>12, AbsentAssumption, <1>2, <1>3, ConstantsAssumption
       DEF LiveCopyStaleCache, CreatePathLive, DeleteBranchDeleting, setConsumerOK, UpdateStatus, WriteOutcome, Succeed, Goto, TypeInv, TypeOK, WorkerCopyTyped, ObjOrAbsent
  <2>6. DeletingCopyUnprotected'
    BY <1>12, AbsentAssumption, <1>2, <1>3, ConstantsAssumption
       DEF DeletingCopyUnprotected, LiveCopyStaleCache, CreatePathLive, Unprotected, setConsumerOK, UpdateStatus, WriteOutcome, Succeed, Goto, TypeInv, TypeOK, WorkerCopyTyped, ObjOrAbsent
  <2>7. QED
    BY <2>1, <2>2, <2>3, <2>4, <2>5, <2>6
<1>13. ASSUME NEW k \in Keys, deleteConsumer(k)
      PROVE  Rest'
  <2>1. NamesOwned'
    BY <1>13, AbsentAssumption, <1>2, <1>3, RefinementAssumption, ConstantsAssumption
       DEF NamesOwned, deleteConsumer, Goto, TypeInv, TypeOK, WorkerCopyTyped, ObjOrAbsent
  <2>2. CreatePathLive'
    BY <1>13, AbsentAssumption, <1>2, <1>3, RefinementAssumption, ConstantsAssumption
       DEF CreatePathLive, deleteConsumer, Goto, TypeInv, TypeOK, WorkerCopyTyped, ObjOrAbsent
  <2>3. CreatedRemote'
    <3>1. obj[k] \in Object /\ obj[k].name \in KeyNames[k]
      BY <1>13, AbsentAssumption, <1>2, <1>3 DEF deleteConsumer, NamesOwned, TypeInv, TypeOK, WorkerCopyTyped, ObjOrAbsent
    <3>2. remote \ {obj[k].name} \subseteq remote' /\ pc[k] = "delete"
      BY <1>13, AbsentAssumption DEF deleteConsumer, Goto
    <3>3. \A j \in Keys : pc[j] \in {"setFin", "setOK"} => j # k /\ obj[j].name \in KeyNames[j]
      BY <1>13, AbsentAssumption, <1>2, <1>3 DEF deleteConsumer, NamesOwned, TypeInv, TypeOK, WorkerCopyTyped, ObjOrAbsent
    <3>4. \A j \in Keys : pc[j] \in {"setFin", "setOK"} => obj[j].name # obj[k].name
      BY <3>1, <3>3, RefinementAssumption
    <3>5. /\ obj' = obj
          /\ \A j \in Keys \ {k} : pc'[j] = pc[j]
          /\ pc'[k] \in {"clearFin", "errored"}
      BY <1>13, <1>3 DEF deleteConsumer, Goto, TypeInv, TypeOK
    <3>6. QED
      BY <1>2, AbsentAssumption, <3>2, <3>4, <3>5 DEF CreatedRemote
  <2>4. DeletedRemote'
    BY <1>13, AbsentAssumption, <1>2, <1>3, RefinementAssumption, ConstantsAssumption
       DEF DeletedRemote, NamesOwned, deleteConsumer, Goto, TypeInv, TypeOK, WorkerCopyTyped, ObjOrAbsent
  <2>5. LiveCopyStaleCache'
    BY <1>13, AbsentAssumption, <1>2, <1>3, RefinementAssumption, ConstantsAssumption
       DEF LiveCopyStaleCache, CreatePathLive, DeleteBranchDeleting, deleteConsumer, Goto, TypeInv, TypeOK, WorkerCopyTyped, ObjOrAbsent
  <2>6. DeletingCopyUnprotected'
    BY <1>13, AbsentAssumption, <1>2, <1>3, RefinementAssumption, ConstantsAssumption
       DEF DeletingCopyUnprotected, LiveCopyStaleCache, CreatePathLive, Unprotected, deleteConsumer, Goto, TypeInv, TypeOK, WorkerCopyTyped, ObjOrAbsent
  <2>7. QED
    BY <2>1, <2>2, <2>3, <2>4, <2>5, <2>6
<1>14. ASSUME NEW k \in Keys, clearConsumerFinalizer(k)
      PROVE  Rest'
  <2>1. NamesOwned'
    <3>1. obj[k] \in Object /\ obj[k].name \in KeyNames[k]
      BY <1>14, AbsentAssumption, <1>2, <1>3 DEF clearConsumerFinalizer, NamesOwned, TypeInv, TypeOK, WorkerCopyTyped, ObjOrAbsent
    <3>2. store'[k] = Absent \/ store'[k] = store[k] \/ store'[k].name = obj[k].name
      BY <1>14, AbsentAssumption, <1>3, <3>1 DEF clearConsumerFinalizer, UpdateObject, WriteOutcome, Persist, Succeed, Goto, TypeInv, TypeOK, WorkerCopyTyped, ObjOrAbsent
    <3>3. \A j \in Keys \ {k} : store'[j] = store[j]
      BY <1>14, AbsentAssumption, <1>3 DEF clearConsumerFinalizer, UpdateObject, WriteOutcome, Persist, Succeed, Goto, TypeInv, TypeOK, WorkerCopyTyped, ObjOrAbsent
    <3>4. /\ cache' = cache
          /\ \A j \in Keys \ {k} : obj'[j] = obj[j]
          /\ obj'[k] = Absent \/ obj'[k].name = obj[k].name
      BY <1>14, <1>3, <3>1 DEF clearConsumerFinalizer, TypeInv, TypeOK, WorkerCopyTyped, ObjOrAbsent,
         UpdateObject, UpdateStatus, WriteOutcome, Succeed, Fail, Goto
    <3>5. QED
      BY <1>2, <1>3, <3>1, <3>2, <3>3, <3>4, AbsentAssumption DEF NamesOwned, TypeInv, TypeOK, WorkerCopyTyped, ObjOrAbsent
  <2>2. CreatePathLive'
    BY <1>14, AbsentAssumption, <1>2, <1>3, ConstantsAssumption
       DEF CreatePathLive, clearConsumerFinalizer, UpdateObject, WriteOutcome, Persist, Succeed, Goto, TypeInv, TypeOK, WorkerCopyTyped, ObjOrAbsent
  <2>3. CreatedRemote'
    BY <1>14, AbsentAssumption, <1>2, <1>3, ConstantsAssumption
       DEF CreatedRemote, NamesOwned, clearConsumerFinalizer, UpdateObject, WriteOutcome, Persist, Succeed, Goto, TypeInv, TypeOK, WorkerCopyTyped, ObjOrAbsent
  <2>4. DeletedRemote'
    BY <1>14, AbsentAssumption, <1>2, <1>3, ConstantsAssumption
       DEF DeletedRemote, NamesOwned, clearConsumerFinalizer, UpdateObject, WriteOutcome, Persist, Succeed, Goto, TypeInv, TypeOK, WorkerCopyTyped, ObjOrAbsent
  <2>5. LiveCopyStaleCache'
    BY <1>14, AbsentAssumption, <1>2, <1>3, ConstantsAssumption
       DEF LiveCopyStaleCache, CreatePathLive, DeleteBranchDeleting, clearConsumerFinalizer, UpdateObject, WriteOutcome, Persist, Succeed, Goto, TypeInv, TypeOK, WorkerCopyTyped, ObjOrAbsent
  <2>6. DeletingCopyUnprotected'
    BY <1>14, AbsentAssumption, <1>2, <1>3, ConstantsAssumption
       DEF DeletingCopyUnprotected, LiveCopyStaleCache, CreatePathLive, Unprotected, clearConsumerFinalizer, UpdateObject, WriteOutcome, Persist, Succeed, Goto, TypeInv, TypeOK, WorkerCopyTyped, ObjOrAbsent
  <2>7. QED
    BY <2>1, <2>2, <2>3, <2>4, <2>5, <2>6
<1>15. ASSUME NEW k \in Keys, setConsumerErrored(k)
      PROVE  Rest'
  <2>1. NamesOwned'
    <3>1. obj[k] \in Object /\ obj[k].name \in KeyNames[k]
      BY <1>15, AbsentAssumption, <1>2, <1>3 DEF setConsumerErrored, NamesOwned, TypeInv, TypeOK, WorkerCopyTyped, ObjOrAbsent
    <3>2. store'[k] = Absent \/ store'[k] = store[k] \/ store'[k].name = obj[k].name
      BY <1>15, AbsentAssumption, <1>3, <3>1 DEF setConsumerErrored, UpdateStatus, WriteOutcome, Fail, TypeInv, TypeOK, WorkerCopyTyped, ObjOrAbsent
    <3>3. \A j \in Keys \ {k} : store'[j] = store[j]
      BY <1>15, AbsentAssumption, <1>3 DEF setConsumerErrored, UpdateStatus, WriteOutcome, Fail, TypeInv, TypeOK, WorkerCopyTyped, ObjOrAbsent
    <3>4. /\ cache' = cache
          /\ \A j \in Keys \ {k} : obj'[j] = obj[j]
          /\ obj'[k] = Absent \/ obj'[k].name = obj[k].name
      BY <1>15, <1>3, <3>1 DEF setConsumerErrored, TypeInv, TypeOK, WorkerCopyTyped, ObjOrAbsent,
         UpdateObject, UpdateStatus, WriteOutcome, Succeed, Fail, Goto
    <3>5. QED
      BY <1>2, <1>3, <3>1, <3>2, <3>3, <3>4, AbsentAssumption DEF NamesOwned, TypeInv, TypeOK, WorkerCopyTyped, ObjOrAbsent
  <2>2. CreatePathLive'
    BY <1>15, AbsentAssumption, <1>2, <1>3, ConstantsAssumption
       DEF CreatePathLive, setConsumerErrored, UpdateStatus, WriteOutcome, Fail, TypeInv, TypeOK, WorkerCopyTyped, ObjOrAbsent
  <2>3. CreatedRemote'
    BY <1>15, AbsentAssumption, <1>2, <1>3, ConstantsAssumption
       DEF CreatedRemote, NamesOwned, setConsumerErrored, UpdateStatus, WriteOutcome, Fail, TypeInv, TypeOK, WorkerCopyTyped, ObjOrAbsent
  <2>4. DeletedRemote'
    BY <1>15, AbsentAssumption, <1>2, <1>3, ConstantsAssumption
       DEF DeletedRemote, NamesOwned, setConsumerErrored, UpdateStatus, WriteOutcome, Fail, TypeInv, TypeOK, WorkerCopyTyped, ObjOrAbsent
  <2>5. LiveCopyStaleCache'
    BY <1>15, AbsentAssumption, <1>2, <1>3, ConstantsAssumption
       DEF LiveCopyStaleCache, CreatePathLive, DeleteBranchDeleting, setConsumerErrored, UpdateStatus, WriteOutcome, Fail, TypeInv, TypeOK, WorkerCopyTyped, ObjOrAbsent
  <2>6. DeletingCopyUnprotected'
    <3>1. obj[k] \in Object /\ pc[k] = "errored"
      BY <1>15, AbsentAssumption, <1>3 DEF setConsumerErrored, TypeInv, TypeOK, WorkerCopyTyped, ObjOrAbsent
    <3>2. \A j \in Keys : /\ (store'[j] = Absent) = (store[j] = Absent)
                          /\ store[j] # Absent =>
                               /\ store'[j].deleting = store[j].deleting
                               /\ store'[j].fin = store[j].fin
      <4> DEFINE new == [obj[k] EXCEPT !.ready = "Errored"]
      <4>1. new \in Object /\ new.deleting = obj[k].deleting /\ new.fin = obj[k].fin
        BY <3>1 DEF Object, Reasons
      <4>2. store' = store \/ (store[k] = obj[k] /\ store' = [store EXCEPT ![k] = new])
        BY <1>15 DEF setConsumerErrored, UpdateStatus, WriteOutcome
      <4>3. QED
        BY <3>1, <4>1, <4>2, <1>3, AbsentAssumption DEF TypeInv, TypeOK, WorkerCopyTyped, ObjOrAbsent
    <3>3. cache' = cache /\ pc'[k] = "idle"
          /\ \A j \in Keys \ {k} : pc'[j] = pc[j] /\ obj'[j] = obj[j]
      BY <1>15, AbsentAssumption, <1>3 DEF setConsumerErrored, Fail, TypeInv, TypeOK, WorkerCopyTyped, ObjOrAbsent
    <3>4. QED
      BY <1>2, AbsentAssumption, <1>3, <3>2, <3>3 DEF DeletingCopyUnprotected, Unprotected, TypeInv, TypeOK, WorkerCopyTyped, ObjOrAbsent
  <2>7. QED
    BY <2>1, <2>2, <2>3, <2>4, <2>5, <2>6
<1>16. CASE UNCHANGED vars
  <2>1. store' = store /\ cache' = cache /\ pc' = pc /\ obj' = obj
        /\ remote' = remote
    BY <1>16 DEF vars
  <2>2. NamesOwned'
    BY <2>1, <1>2 DEF NamesOwned
  <2>3. CreatePathLive'
    BY <2>1, <1>2 DEF CreatePathLive
  <2>4. CreatedRemote'
    BY <2>1, <1>2 DEF CreatedRemote
  <2>5. DeletedRemote'
    BY <2>1, <1>2 DEF DeletedRemote
  <2>6. LiveCopyStaleCache'
    BY <2>1, <1>2 DEF LiveCopyStaleCache
  <2>7. DeletingCopyUnprotected'
    BY <2>1, <1>2 DEF DeletingCopyUnprotected, Unprotected
  <2>8. QED
    BY <1>1, <2>2, <2>3, <2>4, <2>5, <2>6, <2>7 DEF RInv
<1>17. QED
  BY <1>1, <1>4, <1>5, <1>6, <1>7, <1>8, <1>9, <1>10, <1>11, <1>12, <1>13, <1>14, <1>15, <1>16
     DEF RInv, Next, Environment, Controller

-----------------------------------------------------------------------------

\* The two modules describe objects the same way.
LEMMA SameObjects ==
    /\ Lifecycle!Object = Object
    /\ Lifecycle!Finalizers = Finalizers
    /\ \A o : Lifecycle!Persist(o) = Persist(o)
BY DEF Lifecycle!Object, Object, Lifecycle!Finalizers, Finalizers,
   Lifecycle!Reasons, Reasons, Lifecycle!Persist, Persist

\* A step of the controller whose effect on store and remote is nil.
LEMMA Hidden ==
    UNCHANGED <<store, remote>> => [Lifecycle!Next]_Lifecycle!vars
BY DEF Lifecycle!vars

\* Every step of the controller is a step of ConsumerLifecycle or leaves
\* the objects and the remote consumers unchanged.
LEMMA RefinementStep == RInv /\ [Next]_vars => [Lifecycle!Next]_Lifecycle!vars
<1> SUFFICES ASSUME RInv, [Next]_vars PROVE [Lifecycle!Next]_Lifecycle!vars
  OBVIOUS
<1>1. TypeInv /\ DeleteBranchDeleting /\ FinalizerBeforeReady /\ NamesOwned
      /\ CreatePathLive /\ CreatedRemote /\ DeletedRemote
      /\ DeletingCopyUnprotected
  BY DEF RInv, IInv
<1>2. ASSUME NEW k \in Keys, NEW n \in KeyNames[k], NEW f \in InitFinalizers,
             UserCreate(k, n, f)
      PROVE  [Lifecycle!Next]_Lifecycle!vars
  BY <1>2 DEF UserCreate, Lifecycle!UserCreate, Lifecycle!Next
<1>3. ASSUME NEW k \in Keys, NEW n \in KeyNames[k], UserEdit(k, n)
      PROVE  [Lifecycle!Next]_Lifecycle!vars
  BY <1>3 DEF UserEdit, Lifecycle!UserEdit, Lifecycle!Next
<1>4. ASSUME NEW k \in Keys, UserDelete(k)
      PROVE  [Lifecycle!Next]_Lifecycle!vars
  BY <1>4, SameObjects DEF UserDelete, Lifecycle!UserDelete, Lifecycle!Next
<1>5. ASSUME NEW k \in Keys,
             InformerSync(k) \/ GetConsumer(k) \/ ConnectAndLoad(k)
      PROVE  [Lifecycle!Next]_Lifecycle!vars
  BY <1>5, Hidden DEF InformerSync, GetConsumer, ConnectAndLoad
<1>6. ASSUME NEW k \in Keys, createConsumer(k)
      PROVE  [Lifecycle!Next]_Lifecycle!vars
  <2>1. obj[k].name \in Names
    BY <1>6, <1>1 DEF createConsumer, TypeInv, TypeOK, WorkerCopyTyped, ObjOrAbsent, Object
  <2>2. store' = store /\ (remote' = remote \/ remote' = remote \cup {obj[k].name})
    BY <1>6 DEF createConsumer
  <2>3. QED
    BY <2>1, <2>2, Hidden DEF Lifecycle!CreateRemote, Lifecycle!Next
<1>7. ASSUME NEW k \in Keys, setConsumerFinalizer(k)
      PROVE  [Lifecycle!Next]_Lifecycle!vars
  <2> DEFINE new == [obj[k] EXCEPT !.fin = @ \cup {streamFinalizerKey}]
  <2>1. obj[k] \in Object /\ ~obj[k].deleting /\ Persist(new) = new
    BY <1>7, <1>1 DEF setConsumerFinalizer, CreatePathLive, TypeInv, TypeOK, WorkerCopyTyped, ObjOrAbsent, Object, Persist
  <2>2. remote' = remote
        /\ \/ store' = store
           \/ store[k] = obj[k] /\ store' = [store EXCEPT ![k] = Persist(new)]
    BY <1>7 DEF setConsumerFinalizer, UpdateObject, WriteOutcome
  <2>3. CASE store' = store
    BY <2>2, <2>3, Hidden
  <2>4. CASE store[k] = obj[k] /\ store' = [store EXCEPT ![k] = Persist(new)]
    <3>1. Lifecycle!Protect(k)
      BY <2>1, <2>2, <2>4, AbsentAssumption DEF Lifecycle!Protect
    <3>2. QED
      BY <3>1 DEF Lifecycle!Next
  <2>5. QED
    BY <2>2, <2>3, <2>4
<1>8. ASSUME NEW k \in Keys, setConsumerOK(k)
      PROVE  [Lifecycle!Next]_Lifecycle!vars
  <2> DEFINE new == [obj[k] EXCEPT !.obsGen = obj[k].gen, !.ready = "Created"]
  <2>1. /\ obj[k] \in Object /\ ~obj[k].deleting
        /\ streamFinalizerKey \in obj[k].fin /\ obj[k].name \in remote
    BY <1>8, <1>1 DEF setConsumerOK, CreatePathLive, CreatedRemote,
       FinalizerBeforeReady, TypeInv, TypeOK, WorkerCopyTyped, ObjOrAbsent
  <2>2. remote' = remote
        /\ \/ store' = store
           \/ store[k] = obj[k] /\ store' = [store EXCEPT ![k] = new]
    BY <1>8 DEF setConsumerOK, UpdateStatus, WriteOutcome
  <2>3. CASE store' = store
    BY <2>2, <2>3, Hidden
  <2>4. CASE store[k] = obj[k] /\ store' = [store EXCEPT ![k] = new]
    <3>1. Lifecycle!MarkReady(k)
      BY <2>1, <2>2, <2>4, AbsentAssumption DEF Lifecycle!MarkReady, Lifecycle!Protected
    <3>2. QED
      BY <3>1 DEF Lifecycle!Next
  <2>5. QED
    BY <2>2, <2>3, <2>4
<1>9. ASSUME NEW k \in Keys, deleteConsumer(k)
      PROVE  [Lifecycle!Next]_Lifecycle!vars
  <2>1. obj[k] \in Object /\ obj[k].name \in KeyNames[k] /\ Unprotected(k)
    BY <1>9, <1>1, AbsentAssumption DEF deleteConsumer, NamesOwned,
       DeleteBranchDeleting, DeletingCopyUnprotected, TypeInv, TypeOK, WorkerCopyTyped, ObjOrAbsent
  <2>2. store' = store
        /\ (remote' = remote \/ remote' = remote \ {obj[k].name})
    BY <1>9 DEF deleteConsumer
  <2>3. \A j \in Keys : Lifecycle!Protected(j) => store[j].name # obj[k].name
    <3>1. SUFFICES ASSUME NEW j \in Keys, Lifecycle!Protected(j)
                   PROVE  store[j].name # obj[k].name
      OBVIOUS
    <3>2. j # k
      BY <2>1, <3>1 DEF Lifecycle!Protected, Unprotected
    <3>3. store[j].name \in KeyNames[j]
      BY <1>1, <3>1 DEF Lifecycle!Protected, NamesOwned
    <3>4. QED
      BY <2>1, <3>2, <3>3, RefinementAssumption
  <2>4. obj[k].name \in Names
    BY <2>1 DEF Object
  <2>5. QED
    BY <2>2, <2>3, <2>4, Hidden DEF Lifecycle!DeleteRemote, Lifecycle!Next
<1>10. ASSUME NEW k \in Keys, clearConsumerFinalizer(k)
       PROVE  [Lifecycle!Next]_Lifecycle!vars
  <2> DEFINE new == [obj[k] EXCEPT !.fin = @ \ {streamFinalizerKey}]
  <2>1. obj[k] \in Object /\ obj[k].deleting /\ obj[k].name \notin remote
    BY <1>10, <1>1 DEF clearConsumerFinalizer, DeleteBranchDeleting,
       DeletedRemote, TypeInv, TypeOK, WorkerCopyTyped, ObjOrAbsent
  <2>2. remote' = remote
        /\ \/ store' = store
           \/ store[k] = obj[k] /\ store' = [store EXCEPT ![k] = Persist(new)]
    BY <1>10 DEF clearConsumerFinalizer, UpdateObject, WriteOutcome
  <2>3. CASE store' = store
    BY <2>2, <2>3, Hidden
  <2>4. CASE store[k] = obj[k] /\ store' = [store EXCEPT ![k] = Persist(new)]
    <3>1. Lifecycle!Release(k)
      BY <2>1, <2>2, <2>4, AbsentAssumption, SameObjects DEF Lifecycle!Release
    <3>2. QED
      BY <3>1 DEF Lifecycle!Next
  <2>5. QED
    BY <2>2, <2>3, <2>4
<1>11. ASSUME NEW k \in Keys, setConsumerErrored(k)
       PROVE  [Lifecycle!Next]_Lifecycle!vars
  <2> DEFINE new == [obj[k] EXCEPT !.ready = "Errored"]
  <2>1. obj[k] \in Object
    BY <1>11, <1>1 DEF setConsumerErrored, TypeInv, TypeOK, WorkerCopyTyped, ObjOrAbsent
  <2>2. remote' = remote
        /\ \/ store' = store
           \/ store[k] = obj[k] /\ store' = [store EXCEPT ![k] = new]
    BY <1>11 DEF setConsumerErrored, UpdateStatus, WriteOutcome
  <2>3. CASE store' = store
    BY <2>2, <2>3, Hidden
  <2>4. CASE store[k] = obj[k] /\ store' = [store EXCEPT ![k] = new]
    <3>1. Lifecycle!MarkErrored(k)
      BY <2>1, <2>2, <2>4, AbsentAssumption DEF Lifecycle!MarkErrored
    <3>2. QED
      BY <3>1 DEF Lifecycle!Next
  <2>5. QED
    BY <2>2, <2>3, <2>4
<1>12. CASE UNCHANGED vars
  BY <1>12, Hidden DEF vars
<1>13. QED
  BY <1>2, <1>3, <1>4, <1>5, <1>6, <1>7, <1>8, <1>9, <1>10, <1>11, <1>12
     DEF Next, Environment, Controller

-----------------------------------------------------------------------------

\* The Consumer controller implements ConsumerLifecycle: whatever the
\* interleaving of workers, users and the informer, and whatever calls fail
\* or time out, processConsumer changes Consumer objects and remote
\* consumers only by the steps the lifecycle allows.
\* The invariant the refinement rests on, which consumer_refinement checks,
\* holds in every reachable state: no worker deletes a remote consumer that
\* a live, finalized object names, and the create path runs on live copies.
THEOREM RInvSafety == Spec => []RInv
BY RInvInit, RInvStep, PTL DEF Spec

THEOREM Refinement == Spec => LifecycleSpec
<1>1. Spec => []RInv
  BY RInvInit, RInvStep, PTL DEF Spec
<1>2. Init => Lifecycle!Init
  BY DEF Init, Lifecycle!Init
<1>3. QED
  BY <1>1, <1>2, RefinementStep, PTL DEF Spec, LifecycleSpec, Lifecycle!Spec

\* A Consumer that the controller reports Ready for its current generation,
\* and that is not being deleted, has its remote consumer on the server:
\* setConsumerOK writes Ready only after NewConsumer succeeded, and
\* deleteConsumer never removes the remote consumer of a live object that
\* holds the finalizer.
THEOREM ReconciledRemoteSafety == Spec => []ReconciledImpliesRemote
<1>1. Lifecycle!LifecycleAssumption
  BY ConstantsAssumption, AbsentAssumption, SameObjects
  DEF Lifecycle!LifecycleAssumption
<1>2. LifecycleSpec => []Lifecycle!LifecycleInv
  BY <1>1, Lifecycle!LifecycleSafety DEF LifecycleSpec
<1>3. Lifecycle!LifecycleInv => ReconciledImpliesRemote
  BY DEF Lifecycle!LifecycleInv, Lifecycle!ReadyHolds, ReconciledImpliesRemote
<1>4. QED
  BY Refinement, <1>2, <1>3, PTL

\* Every lifecycle step releases the finalizer of an object only once the
\* remote consumer it names is gone.
LEMMA ReleaseStepLemma ==
    TypeOK /\ [Lifecycle!Next]_Lifecycle!vars => FinalizerReleaseStep
<1> SUFFICES ASSUME TypeOK, [Lifecycle!Next]_Lifecycle!vars
             PROVE  FinalizerReleaseStep
  OBVIOUS
<1> USE DEF FinalizerReleaseStep, TypeOK, ObjOrAbsent
<1>1. ASSUME NEW k \in Keys, NEW n \in KeyNames[k], NEW f \in InitFinalizers,
             Lifecycle!UserCreate(k, n, f)
      PROVE  FinalizerReleaseStep
  BY <1>1 DEF Lifecycle!UserCreate
<1>2. ASSUME NEW k \in Keys, NEW n \in KeyNames[k], Lifecycle!UserEdit(k, n)
      PROVE  FinalizerReleaseStep
  <2>1. store[k] \in Object
    BY <1>2 DEF Lifecycle!UserEdit
  <2> DEFINE new == [store[k] EXCEPT !.gen = store[k].gen + 1, !.name = n]
  <2>2. store[k].gen + 1 \in 1..MaxGen
    BY <1>2, <2>1, ConstantsAssumption DEF Lifecycle!UserEdit, Object
  <2>3. new \in Object /\ new.fin = store[k].fin
    BY <2>1, <2>2, ConstantsAssumption DEF Object
  <2>4. store' = [store EXCEPT ![k] = new] /\ remote' = remote
    BY <1>2 DEF Lifecycle!UserEdit
  <2>5. /\ store'[k] # Absent /\ store'[k].fin = store[k].fin
        /\ \A j \in Keys \ {k} : store'[j] = store[j]
        /\ remote' = remote
    BY <2>3, <2>4, AbsentAssumption
  <2>6. QED
    BY <2>5
<1>3. ASSUME NEW k \in Keys, Lifecycle!UserDelete(k)
      PROVE  FinalizerReleaseStep
  BY <1>3, AbsentAssumption DEF Lifecycle!UserDelete, Lifecycle!Persist, Object
<1>4. ASSUME NEW k \in Keys, Lifecycle!Protect(k)
      PROVE  FinalizerReleaseStep
  BY <1>4, AbsentAssumption DEF Lifecycle!Protect, Object
<1>5. ASSUME NEW k \in Keys, Lifecycle!MarkReady(k)
      PROVE  FinalizerReleaseStep
  <2>1. store[k] \in Object
    BY <1>5 DEF Lifecycle!MarkReady, Lifecycle!Protected
  <2>2. /\ store'[k] # Absent /\ store'[k].fin = store[k].fin
        /\ \A j \in Keys \ {k} : store'[j] = store[j]
        /\ remote' = remote
    <3> DEFINE new == [store[k] EXCEPT !.obsGen = store[k].gen, !.ready = "Created"]
    <3>1. store[k].gen \in 0..MaxGen
      BY <2>1 DEF Object
    <3>2. new \in Object /\ new.fin = store[k].fin
      BY <2>1, <3>1 DEF Object, Reasons
    <3>3. store' = [store EXCEPT ![k] = new] /\ remote' = remote
      BY <1>5 DEF Lifecycle!MarkReady
    <3>4. QED
      BY <3>2, <3>3, AbsentAssumption
  <2>3. QED
    BY <2>2
<1>6. ASSUME NEW k \in Keys, Lifecycle!MarkErrored(k)
      PROVE  FinalizerReleaseStep
  <2>1. store[k] \in Object
    BY <1>6 DEF Lifecycle!MarkErrored
  <2> DEFINE new == [store[k] EXCEPT !.ready = "Errored"]
  <2>2. new \in Object /\ new.fin = store[k].fin
    BY <2>1 DEF Object, Reasons
  <2>3. store' = [store EXCEPT ![k] = new] /\ remote' = remote
    BY <1>6 DEF Lifecycle!MarkErrored
  <2>4. QED
    BY <2>2, <2>3, AbsentAssumption
<1>7. ASSUME NEW k \in Keys, Lifecycle!Release(k)
      PROVE  FinalizerReleaseStep
  BY <1>7 DEF Lifecycle!Release
<1>8. ASSUME NEW n \in Names, Lifecycle!CreateRemote(n) \/ Lifecycle!DeleteRemote(n)
      PROVE  FinalizerReleaseStep
  BY <1>8 DEF Lifecycle!CreateRemote, Lifecycle!DeleteRemote
<1>9. CASE UNCHANGED Lifecycle!vars
  BY <1>9 DEF Lifecycle!vars
<1>10. QED
  BY <1>1, <1>2, <1>3, <1>4, <1>5, <1>6, <1>7, <1>8, <1>9 DEF Lifecycle!Next

\* The controller's finalizer leaves a Consumer object only in a step after
\* which the remote consumer it names is gone: clearConsumerFinalizer runs
\* only after deleteConsumer succeeded, and no other key recreates that
\* remote consumer in between.
THEOREM FinalizerReleaseSafety == Spec => FinalizerReleasedAfterRemoteDeleted
<1>1. Spec => []RInv
  BY RInvInit, RInvStep, PTL DEF Spec
<1>2. RInv /\ [Next]_vars => [FinalizerReleaseStep]_vars
  BY RefinementStep, ReleaseStepLemma DEF RInv, IInv, TypeInv
<1>3. QED
  BY <1>1, <1>2, PTL DEF Spec, FinalizerReleasedAfterRemoteDeleted


\* No lifecycle step deletes the remote consumer of a protected object.
LEMMA ProtectedKeptStepLemma ==
    [Lifecycle!Next]_Lifecycle!vars => ProtectedConsumerKeptStep
<1> SUFFICES ASSUME [Lifecycle!Next]_Lifecycle!vars
             PROVE  ProtectedConsumerKeptStep
  OBVIOUS
<1>1. ASSUME NEW n \in Names, Lifecycle!DeleteRemote(n)
      PROVE  ProtectedConsumerKeptStep
  BY <1>1 DEF Lifecycle!DeleteRemote, Lifecycle!Protected, ProtectedConsumerKeptStep
<1>2. remote \subseteq remote' \/ \E n \in Names : Lifecycle!DeleteRemote(n)
  BY DEF Lifecycle!Next, Lifecycle!vars, Lifecycle!UserCreate, Lifecycle!UserEdit,
         Lifecycle!UserDelete, Lifecycle!Protect, Lifecycle!MarkReady,
         Lifecycle!MarkErrored, Lifecycle!Release, Lifecycle!CreateRemote
<1>3. QED
  BY <1>1, <1>2 DEF ProtectedConsumerKeptStep

\* The controller never deletes the remote consumer of a live Consumer that
\* holds its finalizer, whatever the stale cache reads, renames, failures
\* and interleavings of workers on other keys.
THEOREM ProtectedKeptSafety == Spec => ProtectedConsumerKept
<1>1. Spec => []RInv
  BY RInvInit, RInvStep, PTL DEF Spec
<1>2. RInv /\ [Next]_vars => [ProtectedConsumerKeptStep]_vars
  BY RefinementStep, ProtectedKeptStepLemma
<1>3. QED
  BY <1>1, <1>2, PTL DEF Spec, ProtectedConsumerKept

=============================================================================
