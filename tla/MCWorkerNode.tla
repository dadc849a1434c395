----------------------------- MODULE MCWorkerNode -----------------------------
(***************************************************************************)
(* Small instances of WorkerNode for TLC, and what comments of the code    *)
(* claim of a node.                                                        *)
(***************************************************************************)
EXTENDS WorkerNode, TLC

OneFrame == {[startFrame |-> 1, endFrame |-> 1, threads |-> 1, reward |-> 2]}

\* A task of one thread, and one of two threads, with two frames and one.
OneOrTwoThreads == OneFrame \cup {[startFrame |-> 1, endFrame |-> 3, threads |-> 2, reward |-> 4]}

OneFileName == <<"frame_000001.png">>
ThreeFileNames == <<"frame_000001.png", "frame_000002.png", "frame_000003.png">>

\* A worker signs a rendering of each file he has, one at least.
AllSigned == UNION {[S -> Hash] : S \in (SUBSET File) \ {{}}}

\* Requesters create two threads in all: two tasks of one, or one task of two.
MaxThreads == 2

ProgressNext == NodeNext /\ Cardinality(ThreadIds') <= MaxThreads

ProgressSpec == NodeInit /\ [][ProgressNext]_allVars /\ NodeFairness

\* BeginBlock says of a container that is exited that "it means there was an error,
\* so we trigger it again": what it triggers again has left no file of its frame.
ExitedContainerFailed ==
    [][\A id \in DOMAIN container :
          LET work == Routine("StartWork", id)
              again == ~Fresh(id) /\ CopiesIn(work, goroutines') > CopiesIn(work, goroutines)
          IN  again => container[id].frame \notin files[id]]_allVars

\* StartWork says that it "will start over" when the rendering left no file, or too
\* few: the work of a thread that has failed is started again.
FailedWorkStartsOver ==
    \A id \in ThreadId : flags[id] = Failed ~> "workStarted" \in flags[id]

=============================================================================
