--------------------------- MODULE ThreadLifecycle ---------------------------
(***************************************************************************)
(* What the chain promises of its threads and of the workers at them,      *)
(* whatever the order of the messages: a thread is open, then has a        *)
(* proposal, which is revealed, then accepted; its members vote on it      *)
(* once, the proposer as often as he likes; it is done at any time after   *)
(* the proposal, and then nothing of it changes.  A worker is at one       *)
(* thread at most, of which he is a member, and leaves it with his vote or *)
(* when it is done.                                                        *)
(*                                                                         *)
(* There are no messages here, no blocks, tasks, frames, hashes or coins.  *)
(***************************************************************************)
CONSTANTS
    Worker,
    Nobody,       \* proposed no thread
    Nowhere,      \* where an idle worker is
    Crew          \* the sets of workers that may be the members of a thread

VARIABLES
    thread,       \* a function on the threads there are
    at            \* the thread at which each worker is

lifecycleVars == <<thread, at>>

OpenThread == [members |-> {}, by |-> Nobody, stage |-> "open", voters |-> {}, done |-> FALSE]

LifecycleInit ==
    /\ thread = [id \in {} |-> OpenThread]
    /\ at = [w \in Worker |-> Nowhere]

\* Threads are added, open, and none is changed.
Open ==
    /\ DOMAIN thread \subseteq DOMAIN thread'
    /\ thread' = [id \in DOMAIN thread' |->
                     IF id \in DOMAIN thread THEN thread[id] ELSE OpenThread]
    /\ UNCHANGED at

\* A worker may join a thread while he is at another.
Join(id, w) ==
    /\ ~thread[id].done
    /\ w \notin thread[id].members
    /\ thread[id].members \cup {w} \in Crew
    /\ thread' = [thread EXCEPT ![id].members = @ \cup {w}]
    /\ at' = [at EXCEPT ![w] = id]

Proposed(t, w) == [t EXCEPT !.by = w, !.stage = "proposed"]

Propose(id, w) ==
    /\ thread[id].stage = "open"
    /\ w \in thread[id].members
    /\ thread' = [thread EXCEPT ![id] = Proposed(@, w)]
    /\ UNCHANGED at

\* Votes may come before the reveal and after the acceptance.
Vote(id, w) ==
    /\ at[w] = id
    /\ thread[id].by # Nobody
    /\ w \notin thread[id].voters \/ w = thread[id].by
    /\ thread' = [thread EXCEPT ![id].voters = @ \cup {w}]
    /\ at' = IF w = thread[id].by THEN at ELSE [at EXCEPT ![w] = Nowhere]

Reveal(id) ==
    /\ thread[id].stage = "proposed"
    /\ at[thread[id].by] = id
    /\ thread' = [thread EXCEPT ![id].stage = "revealed"]
    /\ UNCHANGED at

\* The threads of some set are accepted together.
Acceptable(id) == thread[id].stage = "revealed" /\ thread[id].voters # {} /\ ~thread[id].done

Accept ==
    /\ DOMAIN thread' = DOMAIN thread
    /\ \A id \in DOMAIN thread :
           \/ thread'[id] = thread[id]
           \/ Acceptable(id) /\ thread'[id] = [thread[id] EXCEPT !.stage = "accepted"]
    /\ UNCHANGED at

\* The proposer may say again that a thread is done, wherever he is by then.
Finish(id) ==
    /\ thread[id].by # Nobody
    /\ thread' = [thread EXCEPT ![id].done = TRUE]
    /\ at' = [w \in Worker |-> IF w = thread[id].by \/ at[w] = id THEN Nowhere ELSE at[w]]

LifecycleNext ==
    \/ Open
    \/ Accept
    \/ \E id \in DOMAIN thread :
           \/ \E w \in Worker : Join(id, w) \/ Propose(id, w) \/ Vote(id, w)
           \/ Reveal(id)
           \/ Finish(id)

LifecycleSpec == LifecycleInit /\ [][LifecycleNext]_lifecycleVars

=============================================================================
