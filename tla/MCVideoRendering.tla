--------------------------- MODULE MCVideoRendering ---------------------------
(***************************************************************************)
(* Small instances of VideoRendering for TLC.                              *)
(***************************************************************************)
EXTENDS VideoRenderingLifecycle, FiniteSetsExt, TLC

\* One task of one thread with two frames; with one frame and a small reward; of
\* two threads with one frame each.
TwoFrames == {[startFrame |-> 1, endFrame |-> 2, threads |-> 1, reward |-> 4]}
OneFrameCheap == {[startFrame |-> 1, endFrame |-> 1, threads |-> 1, reward |-> 2]}
TwoThreads == {[startFrame |-> 1, endFrame |-> 2, threads |-> 2, reward |-> 4]}

\* Every file signed with a hash; any file, or none, signed, perhaps badly.
AllSigned == [File -> Hash]
AnySigned == SignedFrames

\* Nothing tells two workers, two files or two hashes apart.
Symmetry == Permutations(Worker) \cup Permutations(File) \cup Permutations(Hash)

-----------------------------------------------------------------------------
(***************************************************************************)
(* What comments of the code say and the code does not keep.               *)
(***************************************************************************)
WinnersShare(t) ==
    WinnerReward(tasks[t]) * Cardinality({i \in DOMAIN tasks[t].threads :
                                             ~tasks[t].threads[i].completed})

\* "the module will keep the reward to be distributed later": the module's account
\* holds the winners' shares of all threads that are not completed.  The code
\* ignores the error of the transfer that should bring the reward in.
RewardIsKept ==
    bank[Module] >= MapThenSumSet(WinnersShare, DOMAIN tasks \ {EmptyId})

\* "solution is verified so we pay the winner": only the solution of an accepted
\* thread is submitted.  The code checks the proposer alone.
CompletedIsAccepted ==
    \A t \in DOMAIN tasks : \A i \in DOMAIN tasks[t].threads :
        tasks[t].threads[i].completed => tasks[t].threads[i].accepted

=============================================================================
