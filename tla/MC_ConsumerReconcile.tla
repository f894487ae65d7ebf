----------------------- MODULE MC_ConsumerReconcile -----------------------
(***************************************************************************)
(* ConsumerReconcile on small instances.  The constants below are used by *)
(* the cfg files of the runs; each cfg says which ones it takes.           *)
(***************************************************************************)
EXTENDS ConsumerReconcile, TLC

CONSTANTS k1, k2, n1, n2, n3

\* One Consumer object whose spec may name either of two remote consumers
\* (a rename), created with no finalizer or with consumerFinalizerKey as
\* the tests' fixtures are.  Objects naming disjoint remote consumers do
\* not interact, so one key covers the single-object protocol.
OneKeys == {k1}
OneKeyNames == k1 :> {n1, n2}
MCNames == {n1, n2, n3}
MCInitFinalizers == {{}, {consumerFinalizerKey}}

\* One Consumer object that always names the same remote consumer.
FixedKeyNames == k1 :> {n1}

\* Objects created as the "create consumer" test's fixture is: with
\* consumerFinalizerKey in metadata.finalizers.
TestInitFinalizers == {{consumerFinalizerKey}}

\* Objects created with no finalizer, as kubectl apply of a manifest does.
BareInitFinalizers == {{}}

\* Two Consumer objects, each naming its own remote consumer.
TwoKeys == {k1, k2}
TwoKeyNames == (k1 :> {n1}) @@ (k2 :> {n2})

\* Two Consumer objects whose specs name the same remote consumer (same
\* stream and durable name), which nothing in the API server prevents.
SharedKeyNames == (k1 :> {n1}) @@ (k2 :> {n1})

\* Users who edit Consumers but never delete one: any remote consumer left
\* without an object naming it is then the work of a rename.
NoDeleteNext == Next /\ \A k \in Keys : ~UserDelete(k)

NoDeleteSpec == Init /\ [][NoDeleteNext]_vars /\ Fairness

=============================================================================
