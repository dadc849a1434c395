----------------------- MODULE VideoRenderingLifecycle -----------------------
(***************************************************************************)
(* The chain implements ThreadLifecycle: each thread and each worker, as   *)
(* that specification sees them.                                           *)
(***************************************************************************)
EXTENDS VideoRendering

\* A solution counts as revealed when all its frames are.
Stage(thread) ==
    CASE thread.accepted -> "accepted"
      [] ~thread.accepted /\ thread.proposedBy = NoWorker -> "open"
      [] ~thread.accepted /\ thread.proposedBy # NoWorker ->
             IF thread.frames # <<>> /\ \A f \in DOMAIN thread.frames : thread.frames[f].hash # NoHash
             THEN "revealed" ELSE "proposed"

Voters(thread) == {v.validator : v \in Elements(thread.validations)}

Seen(thread) ==
    [members |-> Elements(thread.workers), by |-> thread.proposedBy, stage |-> Stage(thread),
     voters |-> Voters(thread), done |-> thread.completed]

StoredThreads == UNION {{<<t, i>> : i \in DOMAIN tasks[t].threads} : t \in DOMAIN tasks}

SeenThreads == [id \in StoredThreads |-> Seen(tasks[id[1]].threads[id[2]])]

\* Workers that are not registered are nowhere, like idle ones.
Place(w) ==
    IF w \in DOMAIN workers /\ workers[w].task # EmptyId
    THEN <<workers[w].task, workers[w].thread>>
    ELSE <<EmptyId, 1>>

Crews == {members \in SUBSET Worker : Cardinality(members) <= MaxWorkersPerThread}

Lifecycle == INSTANCE ThreadLifecycle WITH
                 Nobody <- NoWorker, Nowhere <- <<EmptyId, 1>>, Crew <- Crews,
                 thread <- SeenThreads, at <- [w \in Worker |-> Place(w)]

\* Whatever the handlers and block boundaries do to a thread and its workers is a step
\* that ThreadLifecycle allows: no order of messages skips a stage, changes a thread that
\* is done, lets a member vote twice or leaves him behind.
ImplementsLifecycle == Lifecycle!LifecycleSpec

=============================================================================
