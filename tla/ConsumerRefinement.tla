------------------------- MODULE ConsumerRefinement -------------------------
(***************************************************************************)
(* The Consumer controller implements ConsumerLifecycle: with the work     *)
(* queue, the informer cache and the workers' copies hidden, every step of *)
(* ConsumerReconcile is a step of the lifecycle or leaves the API server   *)
(* objects and the remote consumers unchanged.  The refinement mapping is  *)
(* the identity on store and remote.                                       *)
(*                                                                         *)
(* It rests on two conditions of the deployment: Consumer objects under   *)
(* different keys name different remote consumers, and users never put    *)
(* the controller's own finalizer token on an object.                      *)
(***************************************************************************)
EXTENDS ConsumerReconcile

ASSUME RefinementAssumption ==
    /\ \A j, k \in Keys : j # k => KeyNames[j] \cap KeyNames[k] = {}
    /\ \A f \in InitFinalizers : streamFinalizerKey \notin f

Lifecycle == INSTANCE ConsumerLifecycle WITH store <- store, remote <- remote

\* The Consumer controller changes Consumer objects and remote consumers
\* only by the steps ConsumerLifecycle allows: Ready is written only on a
\* protected object whose remote consumer exists, the finalizer is released
\* only after the remote consumer is gone, and a remote consumer is deleted
\* only when no live object holding the finalizer names it.
LifecycleSpec == Lifecycle!Spec

-----------------------------------------------------------------------------
(***************************************************************************)
(* The invariant the refinement rests on.                                  *)
(***************************************************************************)

\* Nothing stops k's object from holding the controller's finalizer while
\* it is live: deleting the remote consumer it names is allowed.
Unprotected(k) ==
    \/ store[k] = Absent
    \/ store[k].deleting
    \/ streamFinalizerKey \notin store[k].fin

\* Every copy of k's object names one of k's remote consumers.
NamesOwned ==
    \A k \in Keys :
        /\ store[k] # Absent => store[k].name \in KeyNames[k]
        /\ cache[k] # Absent => cache[k].name \in KeyNames[k]
        /\ obj[k] # Absent => obj[k].name \in KeyNames[k]

\* The create branch runs on a live copy; after a successful NewConsumer
\* the remote consumer exists; after deleteConsumer it does not.
CreatePathLive ==
    \A k \in Keys : pc[k] \in {"create", "setFin", "setOK"} => ~obj[k].deleting

CreatedRemote ==
    \A k \in Keys : pc[k] \in {"setFin", "setOK"} => obj[k].name \in remote

DeletedRemote ==
    \A k \in Keys : pc[k] = "clearFin" => obj[k].name \notin remote

\* A worker that read a live copy sees a deleting copy in the cache only
\* while the stored object is still being deleted (it cannot be released
\* while the worker for its key is elsewhere).
LiveCopyStaleCache ==
    \A k \in Keys :
        (/\ pc[k] \in {"load", "create", "setFin", "setOK"}
         /\ ~obj[k].deleting
         /\ cache[k] # Absent
         /\ cache[k].deleting)
        => store[k] # Absent /\ store[k].deleting

\* A deleting copy, in the cache or in the hands of a worker about to
\* delete, never stands for a live object holding the finalizer.
DeletingCopyUnprotected ==
    \A k \in Keys :
        /\ (cache[k] # Absent /\ cache[k].deleting) => Unprotected(k)
        /\ (pc[k] \in {"load", "delete"} /\ obj[k].deleting) => Unprotected(k)

RInv ==
    /\ IInv
    /\ NamesOwned
    /\ CreatePathLive
    /\ CreatedRemote
    /\ DeletedRemote
    /\ LiveCopyStaleCache
    /\ DeletingCopyUnprotected

=============================================================================
