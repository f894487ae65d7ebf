------------------------- MODULE ConsumerLifecycle -------------------------
(***************************************************************************)
(* What the Consumer controller promises, seen from outside: the objects  *)
(* the API server keeps and the consumers on the JetStream server, and the *)
(* only steps by which the controller may change them.  The work queue,    *)
(* the informer cache and the workers' copies are hidden.                  *)
(*                                                                         *)
(*   Protect        the controller's finalizer is added to a live object;  *)
(*   MarkReady      Ready/Created is written for the current generation,   *)
(*                  only on a live object that holds the finalizer and     *)
(*                  whose remote consumer exists;                          *)
(*   MarkErrored    Ready=False/Errored is written;                        *)
(*   Release        the finalizer is removed from an object being deleted, *)
(*                  only once its remote consumer is gone;                 *)
(*   CreateRemote   any remote consumer may be created;                    *)
(*   DeleteRemote   a remote consumer may be deleted unless a live object  *)
(*                  holding the finalizer names it.                        *)
(***************************************************************************)
EXTENDS Naturals, TLAPS

CONSTANTS Keys, Names, KeyNames, InitFinalizers, streamFinalizerKey,
          consumerFinalizerKey, MaxGen, Absent

VARIABLES store, remote

vars == <<store, remote>>

Finalizers == {streamFinalizerKey, consumerFinalizerKey}

Reasons == {"None", "Created", "Errored"}

Object == [gen : 1..MaxGen, obsGen : 0..MaxGen, deleting : BOOLEAN,
           fin : SUBSET Finalizers, name : Names, ready : Reasons]

Persist(o) == IF o.deleting /\ o.fin = {} THEN Absent ELSE o

\* A live object that holds the controller's finalizer.
Protected(k) ==
    /\ store[k] # Absent
    /\ ~store[k].deleting
    /\ streamFinalizerKey \in store[k].fin

TypeOK ==
    /\ store \in [Keys -> Object \cup {Absent}]
    /\ remote \subseteq Names

Init ==
    /\ store = [k \in Keys |-> Absent]
    /\ remote = {}

UserCreate(k, n, f) ==
    /\ store[k] = Absent
    /\ store' = [store EXCEPT ![k] = [gen |-> 1, obsGen |-> 0,
                   deleting |-> FALSE, fin |-> f, name |-> n, ready |-> "None"]]
    /\ UNCHANGED remote

UserEdit(k, n) ==
    /\ store[k] # Absent
    /\ store[k].gen < MaxGen
    /\ store' = [store EXCEPT ![k].gen = @ + 1, ![k].name = n]
    /\ UNCHANGED remote

UserDelete(k) ==
    /\ store[k] # Absent
    /\ ~store[k].deleting
    /\ store' = [store EXCEPT ![k] = Persist([store[k] EXCEPT !.deleting = TRUE])]
    /\ UNCHANGED remote

Protect(k) ==
    /\ store[k] # Absent
    /\ ~store[k].deleting
    /\ store' = [store EXCEPT ![k].fin = @ \cup {streamFinalizerKey}]
    /\ UNCHANGED remote

MarkReady(k) ==
    /\ Protected(k)
    /\ store[k].name \in remote
    /\ store' = [store EXCEPT ![k].obsGen = store[k].gen, ![k].ready = "Created"]
    /\ UNCHANGED remote

MarkErrored(k) ==
    /\ store[k] # Absent
    /\ store' = [store EXCEPT ![k].ready = "Errored"]
    /\ UNCHANGED remote

Release(k) ==
    /\ store[k] # Absent
    /\ store[k].deleting
    /\ store[k].name \notin remote
    /\ store' = [store EXCEPT ![k] =
                   Persist([store[k] EXCEPT !.fin = @ \ {streamFinalizerKey}])]
    /\ UNCHANGED remote

CreateRemote(n) ==
    /\ remote' = remote \cup {n}
    /\ UNCHANGED store

DeleteRemote(n) ==
    /\ \A k \in Keys : Protected(k) => store[k].name # n
    /\ remote' = remote \ {n}
    /\ UNCHANGED store

Next ==
    \/ \E k \in Keys :
         \/ \E n \in KeyNames[k], f \in InitFinalizers : UserCreate(k, n, f)
         \/ \E n \in KeyNames[k] : UserEdit(k, n)
         \/ UserDelete(k) \/ Protect(k) \/ MarkReady(k) \/ MarkErrored(k)
         \/ Release(k)
    \/ \E n \in Names : CreateRemote(n) \/ DeleteRemote(n)

Spec == Init /\ [][Next]_vars

-----------------------------------------------------------------------------
(***************************************************************************)
(* What the promise gives: an object reported Ready for its current        *)
(* generation and not being deleted holds the finalizer and has its remote *)
(* consumer.  The observed generation never runs ahead of the generation,  *)
(* so a spec edit always makes the status stale.                           *)
(***************************************************************************)

LifecycleAssumption ==
    /\ KeyNames \in [Keys -> SUBSET Names]
    /\ InitFinalizers \subseteq SUBSET Finalizers
    /\ MaxGen \in Nat \ {0}
    /\ Absent \notin Object

ReadyHolds(k) ==
    /\ store[k].obsGen <= store[k].gen
    /\ (~store[k].deleting /\ store[k].ready = "Created")
         => streamFinalizerKey \in store[k].fin
    /\ (/\ ~store[k].deleting
        /\ store[k].ready = "Created"
        /\ store[k].obsGen = store[k].gen)
         => store[k].name \in remote

LifecycleInv ==
    /\ TypeOK
    /\ \A k \in Keys : store[k] # Absent => ReadyHolds(k)

\* An object that the controller reports Ready for its current generation
\* and that is not being deleted has its remote consumer, for every
\* controller that keeps to the steps above.
THEOREM LifecycleSafety ==
    ASSUME LifecycleAssumption
    PROVE  Spec => []LifecycleInv
<1>1. Init => LifecycleInv
  BY DEF Init, LifecycleInv, TypeOK
<1>2. LifecycleInv /\ [Next]_vars => LifecycleInv'
  <2> SUFFICES ASSUME LifecycleInv, [Next]_vars PROVE LifecycleInv'
    OBVIOUS
  <2> USE DEF LifecycleInv, TypeOK
  <2>1. ASSUME NEW k \in Keys, NEW n \in KeyNames[k], NEW f \in InitFinalizers,
               UserCreate(k, n, f)
        PROVE  LifecycleInv'
    <3> DEFINE new == [gen |-> 1, obsGen |-> 0, deleting |-> FALSE, fin |-> f,
                       name |-> n, ready |-> "None"]
    <3>1. new \in Object /\ new.obsGen <= new.gen
      BY DEF LifecycleAssumption, Object, Reasons
    <3>2. store' = [store EXCEPT ![k] = new] /\ remote' = remote
      BY <2>1 DEF UserCreate
    <3>3. QED
      BY <3>1, <3>2 DEF ReadyHolds
  <2>2. ASSUME NEW k \in Keys, NEW n \in KeyNames[k], UserEdit(k, n)
        PROVE  LifecycleInv'
    <3>1. store[k] \in Object /\ ReadyHolds(k)
      BY <2>2 DEF UserEdit
    <3> DEFINE new == [store[k] EXCEPT !.gen = store[k].gen + 1, !.name = n]
    <3>2. store[k].gen + 1 \in 1..MaxGen /\ store[k].obsGen <= store[k].gen + 1
          /\ store[k].obsGen # store[k].gen + 1
      BY <2>2, <3>1 DEF LifecycleAssumption, UserEdit, Object, ReadyHolds
    <3>3. new \in Object
      BY <3>1, <3>2 DEF LifecycleAssumption, Object
    <3>4. store' = [store EXCEPT ![k] = new] /\ remote' = remote
      BY <2>2 DEF UserEdit
    <3>5. QED
      BY <3>1, <3>2, <3>3, <3>4 DEF ReadyHolds
  <2>3. ASSUME NEW k \in Keys, UserDelete(k)
        PROVE  LifecycleInv'
    BY <2>3 DEF UserDelete, Persist, ReadyHolds, Object
  <2>4. ASSUME NEW k \in Keys, Protect(k)
        PROVE  LifecycleInv'
    <3>1. store[k] \in Object /\ ReadyHolds(k)
      BY <2>4 DEF Protect
    <3> DEFINE new == [store[k] EXCEPT !.fin = store[k].fin \cup {streamFinalizerKey}]
    <3>2. new \in Object
      BY <3>1 DEF Object, Finalizers
    <3>3. store' = [store EXCEPT ![k] = new] /\ remote' = remote
      BY <2>4 DEF Protect
    <3>4. QED
      BY <3>1, <3>2, <3>3 DEF ReadyHolds
  <2>5. ASSUME NEW k \in Keys, MarkReady(k)
        PROVE  LifecycleInv'
    <3>1. store[k] \in Object /\ ReadyHolds(k)
      BY <2>5 DEF MarkReady, Protected
    <3> DEFINE new == [store[k] EXCEPT !.obsGen = store[k].gen, !.ready = "Created"]
    <3>2. store[k].gen \in 0..MaxGen
      BY <3>1 DEF Object
    <3>3. new \in Object
      BY <3>1, <3>2 DEF Object, Reasons
    <3>4. store' = [store EXCEPT ![k] = new] /\ remote' = remote
      BY <2>5 DEF MarkReady
    <3>5. QED
      BY <2>5, <3>1, <3>2, <3>3, <3>4 DEF ReadyHolds, MarkReady, Protected
  <2>6. ASSUME NEW k \in Keys, MarkErrored(k)
        PROVE  LifecycleInv'
    BY <2>6 DEF MarkErrored, ReadyHolds, Object, Reasons
  <2>7. ASSUME NEW k \in Keys, Release(k)
        PROVE  LifecycleInv'
    BY <2>7 DEF Release, Persist, ReadyHolds, Object
  <2>8. ASSUME NEW n \in Names, CreateRemote(n)
        PROVE  LifecycleInv'
    BY <2>8 DEF CreateRemote, ReadyHolds
  <2>9. ASSUME NEW n \in Names, DeleteRemote(n)
        PROVE  LifecycleInv'
    BY <2>9 DEF DeleteRemote, ReadyHolds, Protected
  <2>10. CASE UNCHANGED vars
    BY <2>10 DEF vars, ReadyHolds
  <2>11. QED
    BY <2>1, <2>2, <2>3, <2>4, <2>5, <2>6, <2>7, <2>8, <2>9, <2>10 DEF Next
<1>3. QED
  BY <1>1, <1>2, PTL DEF Spec

=============================================================================
