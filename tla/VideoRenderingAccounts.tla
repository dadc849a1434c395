----------------------- MODULE VideoRenderingAccounts -----------------------
(***************************************************************************)
(* What the chain counts: the votes on each frame, the solutions a worker  *)
(* is recorded for, and the coins he holds.  Each needs an invariant of    *)
(* its own beside the one of VideoRenderingSafety.                         *)
(***************************************************************************)
EXTENDS VideoRenderingLifecycleProofs

-----------------------------------------------------------------------------
(***************************************************************************)
(* Frames and acceptance, outside the walk of BeginBlock.                  *)
(***************************************************************************)
SameCounts(before, after) ==
    /\ DOMAIN after.frames = DOMAIN before.frames
    /\ \A f \in DOMAIN before.frames :
           /\ after.frames[f].valid = before.frames[f].valid
           /\ after.frames[f].invalid = before.frames[f].invalid

ZeroCounts(thread) ==
    \A f \in DOMAIN thread.frames : thread.frames[f].valid = 0 /\ thread.frames[f].invalid = 0

\* What a handler may do to a thread: nobody but BeginBlock counts or accepts.
Unjudged(before, after) ==
    /\ after.accepted = before.accepted
    /\ \/ after.workers = before.workers
       \/ \E w \in Worker : after.workers = Append(before.workers, w)
    /\ \/ after.validations = before.validations
       \/ \E v \in Validation : after.validations = Append(before.validations, v)
    /\ \/ SameCounts(before, after) /\ after.proposedBy = before.proposedBy
       \/ ZeroCounts(after) /\ after.proposedBy # NoWorker

Untouched(thread) == thread.frames = <<>> /\ ~thread.accepted

\* A thread that is not written to is not judged.
LEMMA UnjudgedReflexive ==
    ASSUME NEW thread
    PROVE  Unjudged(thread, thread)
BY DEF Unjudged, SameCounts

\* A proposal starts all counts at zero.
LEMMA ProposeUnjudged ==
    ASSUME IInv, NEW w \in DOMAIN workers, NEW t, NEW i, NEW names \in Proposals(t, i),
           ThreadExists(t, i), ProposeSolution(w, t, i, names)
    PROVE  Unjudged(tasks[t].threads[i], tasks'[t].threads[i])
<1> DEFINE thread == tasks[t].threads[i]
           frames == [f \in DOMAIN names |->
               [name |-> names[f], hash |-> NoHash, valid |-> 0, invalid |-> 0]]
           after == [thread EXCEPT !.proposedBy = w, !.frames = frames]
<1>1. thread \in Thread /\ TypeOK /\ tasks' = PutThread(t, i, after)
    BY ThreadType DEF IInv, ProposeSolution
<1>2. w \in Worker /\ w # NoWorker /\ tasks \in [DOMAIN tasks -> Task]
    BY <1>1, AccountAssumption DEF TypeOK
<1>3. frames \in Seq(Frame)
    BY <1>1, ProposalIsSequence, FramesOfNames
<1>4. \A f \in DOMAIN frames : frames[f].valid = 0 /\ frames[f].invalid = 0
    OBVIOUS
<1> HIDE DEF frames
<1>5. /\ after \in Thread /\ after.frames = frames /\ after.accepted = thread.accepted
      /\ after.workers = thread.workers /\ after.validations = thread.validations
      /\ after.proposedBy = w
    BY <1>1, <1>2, <1>3 DEF Thread
<1> HIDE DEF after
<1>6. tasks'[t].threads[i] = after
    BY <1>1, <1>2, <1>5, PutThreadFacts
<1> QED
    BY <1>2, <1>4, <1>5, <1>6 DEF Unjudged, ZeroCounts

\* A reveal sets hashes and keeps the counts, even when it replaces an earlier one.
LEMMA RevealUnjudged ==
    ASSUME IInv, NEW w \in DOMAIN workers, NEW t, NEW i, NEW S, NEW revealed \in [S -> Hash],
           ThreadExists(t, i), RevealSolution(w, t, i, revealed)
    PROVE  Unjudged(tasks[t].threads[i], tasks'[t].threads[i])
<1> DEFINE thread == tasks[t].threads[i]
           frames == Revealed(thread, revealed)
           after == [thread EXCEPT !.frames = frames]
<1>1. thread \in Thread /\ tasks \in [DOMAIN tasks -> Task] /\ tasks' = PutThread(t, i, after)
    BY ThreadType DEF IInv, TypeOK, RevealSolution
<1>2. frames \in Seq(Frame) /\ DOMAIN frames = DOMAIN thread.frames
    BY <1>1, RevealedFrames, Zenon DEF Revealed
<1>3. ASSUME NEW f \in DOMAIN thread.frames
      PROVE  /\ frames[f].valid = thread.frames[f].valid
             /\ frames[f].invalid = thread.frames[f].invalid
    <2>1. thread.frames[f] \in Frame
        BY <1>1 DEF Thread
    <2> QED
        BY <2>1, Zenon DEF Revealed, Frame
<1> HIDE DEF frames
<1>4. /\ after \in Thread /\ after.frames = frames /\ after.accepted = thread.accepted
      /\ after.workers = thread.workers /\ after.validations = thread.validations
      /\ after.proposedBy = thread.proposedBy
    BY <1>1, <1>2 DEF Thread
<1> HIDE DEF after
<1>5. tasks'[t].threads[i] = after
    BY <1>1, <1>4, PutThreadFacts
<1> QED
    BY <1>2, <1>3, <1>4, <1>5 DEF Unjudged, SameCounts

\* No handler judges the thread it writes.
LEMMA HandlerUnjudged ==
    ASSUME IInv, NEW w \in DOMAIN workers, NEW t, NEW i, ThreadExists(t, i), Handles(w, t, i)
    PROVE  Unjudged(tasks[t].threads[i], tasks'[t].threads[i])
<1> DEFINE before == tasks[t].threads[i]
           after == tasks'[t].threads[i]
<1>1. w \in Worker
    BY SMTT(30) DEF IInv, TypeOK
<1>2. CASE SubscribeWorkerToTask(w, t, i)
    <2>1. Subscribed(before, after, w)
        BY <1>2, SubscribeEffect
    <2> HIDE DEF before, after
    <2>2. Unjudged(before, after)
        BY <1>1, <2>1 DEF Subscribed, SameSolution, Unjudged, SameCounts
    <2> QED
        BY <2>2 DEF before, after
<1>3. ASSUME NEW names \in Proposals(t, i), ProposeSolution(w, t, i, names)
      PROVE  Unjudged(before, after)
    BY <1>3, ProposeUnjudged
<1>4. ASSUME NEW S \in SUBSET Names(t, i), NEW revealed \in [S -> Hash],
             RevealSolution(w, t, i, revealed)
      PROVE  Unjudged(before, after)
    BY <1>4, RevealUnjudged, SMTT(30)
<1>5. ASSUME NEW signed \in SignedInput, SubmitValidation(w, t, i, signed)
      PROVE  Unjudged(before, after)
    <2>1. Validated(before, after, w)
        BY <1>5, SubmitValidationEffect
    <2> HIDE DEF before, after
    <2>2. Unjudged(before, after)
        BY <2>1 DEF Validated, SameSolution, Unjudged, SameCounts
    <2> QED
        BY <2>2 DEF before, after
<1>6. CASE SubmitSolution(w, t, i)
    <2>1. Submitted(before, after)
        BY <1>6, SubmitSolutionEffect
    <2> HIDE DEF before, after
    <2>2. Unjudged(before, after)
        BY <2>1 DEF Submitted, SameSolution, Unjudged, SameCounts
    <2> QED
        BY <2>2 DEF before, after
<1> QED
    BY <1>2, <1>3, <1>4, <1>5, <1>6 DEF Handles

\* Every step but the walk of BeginBlock leaves each thread unjudged; a thread that
\* is new has no frames.
LEMMA StepUnjudged ==
    ASSUME IInv, [Next]_vars, ~BeginBlock, NEW t, NEW i, ThreadExists(t, i)'
    PROVE  \/ ThreadExists(t, i) /\ Unjudged(tasks[t].threads[i], tasks'[t].threads[i])
           \/ ~ThreadExists(t, i) /\ Untouched(tasks'[t].threads[i])
<1>1. tasks \in [DOMAIN tasks -> Task]
    BY DEF IInv, TypeOK
<1>2. ASSUME ThreadExists(t, i), tasks'[t].threads[i] = tasks[t].threads[i]
      PROVE  Unjudged(tasks[t].threads[i], tasks'[t].threads[i])
    BY <1>2, UnjudgedReflexive
<1>3. CASE EndBlock
    <2> DEFINE ended(u) == [tasks[u] EXCEPT !.completed = @ \/ AllThreadsCompleted(tasks[u])]
    <2>1. tasks' = Put([u \in DOMAIN tasks |-> ended(u)], EmptyId, EmptyTask)
        BY <1>3 DEF EndBlock
    <2>2. \A u \in DOMAIN tasks : ended(u).threads = tasks[u].threads
        BY <1>1 DEF Task
    <2> HIDE DEF ended
    <2>3. DOMAIN EmptyTask.threads = {}
        BY DEF EmptyTask
    <2> QED
        BY <1>2, <2>1, <2>2, <2>3 DEF Put, ThreadExists
<1>4. ASSUME NEW r \in Requester, NEW spec \in TaskSpec, CreateVideoRenderingTask(r, spec)
      PROVE  \/ ThreadExists(t, i) /\ Unjudged(tasks[t].threads[i], tasks'[t].threads[i])
             \/ ~ThreadExists(t, i) /\ Untouched(tasks'[t].threads[i])
    <2> DEFINE task == [completed |-> FALSE, reward |-> spec.reward, threads |-> GenerateThreads(spec)]
    <2>1. tasks' = Put(tasks, nextId, task) /\ nextId \notin DOMAIN tasks
        BY <1>4 DEF CreateVideoRenderingTask, IInv, TypeOK
    <2>2. \A j \in DOMAIN task.threads : Untouched(task.threads[j])
        BY DEF GenerateThreads, NewThread, Untouched
    <2> HIDE DEF task
    <2>3. CASE t = nextId
        BY <2>1, <2>2, <2>3 DEF Put, ThreadExists
    <2>4. CASE t # nextId
        BY <1>2, <2>1, <2>4 DEF Put, ThreadExists
    <2> QED
        BY <2>3, <2>4
<1>5. ASSUME NEW w \in Worker, NEW stake \in Stake, AddWorker(w, stake)
      PROVE  ThreadExists(t, i) /\ Unjudged(tasks[t].threads[i], tasks'[t].threads[i])
    BY <1>2, <1>5 DEF AddWorker, ThreadExists
<1>6. ASSUME NEW w \in DOMAIN workers, NEW u \in DOMAIN tasks,
             NEW j \in DOMAIN tasks[u].threads, Handles(w, u, j)
      PROVE  ThreadExists(t, i) /\ Unjudged(tasks[t].threads[i], tasks'[t].threads[i])
    <2>1. ThreadExists(u, j) /\ Unjudged(tasks[u].threads[j], tasks'[u].threads[j])
        BY <1>6, HandlerUnjudged DEF ThreadExists
    <2>2. PICK written \in Thread : tasks' = PutThread(u, j, written)
        BY <1>6, HandlerWrites
    <2>3. /\ ThreadExists(t, i)
          /\ t # u \/ i # j => tasks'[t].threads[i] = tasks[t].threads[i]
        BY <1>1, <2>1, <2>2, PutThreadFacts DEF ThreadExists
    <2> QED
        BY <1>2, <2>1, <2>3
<1>7. CASE UNCHANGED vars
    BY <1>2, <1>7 DEF vars, ThreadExists
<1> QED
    BY <1>3, <1>4, <1>5, <1>6, <1>7, SMTT(30) DEF Next, Request, Register, Transaction, Handles

-----------------------------------------------------------------------------
(***************************************************************************)
(* What supports an acceptance.  Stored counts alone never suffice: until  *)
(* BeginBlock accepts a thread they are too few, though they outlive the   *)
(* hashes they were cast for; so the votes that tip the balance are votes  *)
(* for the hashes the solution has.                                        *)
(***************************************************************************)
\* What BeginBlock adds to the counts of a frame.
LEMMA EvaluateCounts ==
    ASSUME NEW thread \in Thread, NEW f \in DOMAIN thread.frames
    PROVE  LET after == EvaluateVerifications(thread).frames[f]
           IN  /\ after.valid = thread.frames[f].valid + Cardinality(ValidVotes(thread, f))
               /\ after.invalid = thread.frames[f].invalid
                      + Cardinality(Votes(thread, f) \ ValidVotes(thread, f))
<1> DEFINE counted(g) == [thread.frames[g] EXCEPT
               !.valid = @ + Cardinality(ValidVotes(thread, g)),
               !.invalid = @ + Cardinality(Votes(thread, g) \ ValidVotes(thread, g))]
           frames == [g \in DOMAIN thread.frames |-> counted(g)]
<1>1. thread.frames[f] \in Frame
    BY DEF Thread
<1>2. /\ counted(f).valid = thread.frames[f].valid + Cardinality(ValidVotes(thread, f))
      /\ counted(f).invalid = thread.frames[f].invalid
             + Cardinality(Votes(thread, f) \ ValidVotes(thread, f))
    BY <1>1 DEF Frame
<1>3. EvaluateVerifications(thread) = [thread EXCEPT !.frames = frames]
    BY DEF EvaluateVerifications
<1>4. frames[f] = counted(f)
    OBVIOUS
<1> HIDE DEF counted, frames
<1>5. EvaluateVerifications(thread).frames = frames
    BY <1>3 DEF Thread
<1> QED
    BY <1>2, <1>4, <1>5

\* Fewer counts, and more workers beside at least one, never make a solution acceptable.
LEMMA AcceptanceNeedsVotes ==
    ASSUME NEW before \in Thread, NEW after \in Thread, IsSolutionAccepted(after),
           DOMAIN after.frames = DOMAIN before.frames,
           \A f \in DOMAIN before.frames : after.frames[f].valid <= before.frames[f].valid,
           \/ after.workers = before.workers
           \/ before.workers # <<>> /\ \E w \in Worker : after.workers = Append(before.workers, w)
    PROVE  IsSolutionAccepted(before)
<1> DEFINE needed(thread) == IF Len(thread.workers) = 1 THEN 1 ELSE 2
           valid(thread) == {f \in DOMAIN thread.frames : thread.frames[f].valid >= needed(thread)}
<1>1. /\ before.frames \in Seq(Frame) /\ after.frames \in Seq(Frame)
      /\ before.workers \in Seq(Worker) /\ after.workers \in Seq(Worker)
    BY DEF Thread
<1>2. Len(after.frames) = Len(before.frames) /\ Len(before.frames) \in Nat
    BY <1>1
<1>3. needed(before) <= needed(after)
    BY <1>1
<1>4. valid(after) \subseteq valid(before)
    <2> SUFFICES ASSUME NEW f \in DOMAIN before.frames, after.frames[f].valid >= needed(after)
                 PROVE  before.frames[f].valid >= needed(before)
        OBVIOUS
    <2>1. before.frames[f] \in Frame /\ after.frames[f] \in Frame
        BY <1>1
    <2>2. /\ before.frames[f].valid \in Nat /\ after.frames[f].valid \in Nat
          /\ needed(before) \in Nat /\ needed(after) \in Nat
        BY <2>1 DEF Frame
    <2>3. after.frames[f].valid <= before.frames[f].valid
        OBVIOUS
    <2> HIDE DEF needed
    <2> QED
        BY <1>3, <2>2, <2>3
<1>5. IsFiniteSet(valid(before)) /\ IsFiniteSet(valid(after))
    <2>1. IsFiniteSet(1 .. Len(before.frames))
        BY <1>2, FS_Interval
    <2>2. valid(before) \subseteq 1 .. Len(before.frames) /\ valid(after) \subseteq 1 .. Len(before.frames)
        BY <1>1, <1>2
    <2> QED
        BY <2>1, <2>2, FS_Subset
<1>6. Cardinality(valid(after)) <= Cardinality(valid(before))
    BY <1>4, <1>5, FS_Subset
<1>7. Cardinality(valid(after)) \in Nat /\ Cardinality(valid(before)) \in Nat
    BY <1>5, FS_CardinalityType
<1>8. /\ after.frames # <<>>
      /\ Cardinality(valid(after)) >= IF Len(after.frames) \div 5 = 0
                                      THEN 1 ELSE Len(after.frames) \div 5
    BY DEF IsSolutionAccepted
<1>9. before.frames # <<>>
    BY <1>1, <1>2, <1>8
<1> DEFINE fifth == Len(before.frames) \div 5
<1>10. fifth \in Nat /\ Cardinality(valid(after)) >= IF fifth = 0 THEN 1 ELSE fifth
    <2>1. \A a \in Nat : a \div 5 \in Nat
        OBVIOUS
    <2> HIDE DEF valid
    <2> QED
        BY <1>2, <1>8, <2>1
<1> HIDE DEF valid, needed, fifth
<1>11. Cardinality(valid(before)) >= IF fifth = 0 THEN 1 ELSE fifth
    BY <1>6, <1>7, <1>10
<1> QED
    BY <1>9, <1>11 DEF IsSolutionAccepted, valid, needed, fifth

\* Without votes no solution is acceptable.
LEMMA ZeroIsNotAccepted ==
    ASSUME NEW thread \in Thread, ZeroCounts(thread)
    PROVE  ~IsSolutionAccepted(thread)
<1> DEFINE needed == IF Len(thread.workers) = 1 THEN 1 ELSE 2
<1>1. {f \in DOMAIN thread.frames : thread.frames[f].valid >= needed} = {}
    BY DEF ZeroCounts
<1>2. Cardinality({f \in DOMAIN thread.frames : thread.frames[f].valid >= needed}) = 0
    BY <1>1, FS_EmptySet
<1>3. Len(thread.frames) \in Nat
    BY DEF Thread
<1> DEFINE fifth == Len(thread.frames) \div 5
<1>4. fifth \in Nat
    <2>1. \A a \in Nat : a \div 5 \in Nat
        OBVIOUS
    <2> QED
        BY <1>3, <2>1
<1>5. IsSolutionAccepted(thread) =>
          Cardinality({f \in DOMAIN thread.frames : thread.frames[f].valid >= needed})
              >= IF fifth = 0 THEN 1 ELSE fifth
    BY DEF IsSolutionAccepted
<1> HIDE DEF fifth, needed
<1> QED
    BY <1>2, <1>4, <1>5

Supported(thread) ==
    \E f \in DOMAIN thread.frames, v \in DOMAIN thread.validations :
        Signs(thread, f, v) /\ SignedHash(thread, f, v) = thread.frames[f].hash

Support(thread) ==
    /\ thread.frames # <<>> => thread.proposedBy # NoWorker
    /\ ~thread.accepted => ~IsSolutionAccepted(thread)
    /\ thread.accepted => Supported(thread)

SupportInv == \A t, i : ThreadExists(t, i) => Support(tasks[t].threads[i])

\* Support lasts while the frames stay and validations are only added.
LEMMA SupportKept ==
    ASSUME NEW before \in Thread, NEW after \in Thread, Supported(before),
           after.frames = before.frames,
           \/ after.validations = before.validations
           \/ \E v \in Validation : after.validations = Append(before.validations, v)
    PROVE  Supported(after)
<1>1. PICK f \in DOMAIN before.frames, v \in DOMAIN before.validations :
          Signs(before, f, v) /\ SignedHash(before, f, v) = before.frames[f].hash
    BY DEF Supported
<1>2. before.validations \in Seq(Validation)
    BY DEF Thread
<1>3. v \in DOMAIN after.validations /\ after.validations[v] = before.validations[v]
    BY <1>2
<1>4. Signs(after, f, v) /\ SignedHash(after, f, v) = after.frames[f].hash
    BY <1>1, <1>3 DEF Signs, SignedHash
<1> QED
    BY <1>1, <1>3, <1>4 DEF Supported

\* A step that does not judge keeps what supports the thread.
LEMMA UnjudgedSupport ==
    ASSUME NEW before \in Thread, NEW after \in Thread, Unjudged(before, after),
           Support(before), ThreadInv(before), ThreadStep(before, after)
    PROVE  Support(after)
<1>1. after.frames # <<>> => after.proposedBy # NoWorker
    <2>1. CASE SameCounts(before, after) /\ after.proposedBy = before.proposedBy
        <3>1. after.frames # <<>> => before.frames # <<>>
            BY <2>1 DEF SameCounts, Thread
        <3> QED
            BY <2>1, <3>1 DEF Support
    <2> QED
        BY <2>1 DEF Unjudged
<1>2. ASSUME ~after.accepted
      PROVE  ~IsSolutionAccepted(after)
    <2>1. CASE SameCounts(before, after)
        <3> SUFFICES ASSUME IsSolutionAccepted(after)
                     PROVE  FALSE
            OBVIOUS
        <3>1. ~IsSolutionAccepted(before)
            BY <1>2 DEF Support, Unjudged
        <3>2. before.frames # <<>>
            <4>1. after.frames # <<>>
                BY DEF IsSolutionAccepted
            <4> QED
                BY <2>1, <4>1 DEF SameCounts, Thread
        <3>3. before.workers # <<>>
            BY <3>2 DEF Support, ThreadInv, Elements
        <3>4. \A f \in DOMAIN before.frames : after.frames[f].valid <= before.frames[f].valid
            <4>1. ASSUME NEW f \in DOMAIN before.frames
                  PROVE  after.frames[f].valid <= before.frames[f].valid
                <5>1. before.frames[f] \in Frame
                    BY DEF Thread
                <5>2. before.frames[f].valid \in Nat
                    BY <5>1 DEF Frame
                <5> QED
                    BY <2>1, <5>2 DEF SameCounts
            <4> QED
                BY <4>1
        <3>5. \/ after.workers = before.workers
              \/ \E w \in Worker : after.workers = Append(before.workers, w)
            BY DEF Unjudged
        <3> QED
            BY <2>1, <3>1, <3>3, <3>4, <3>5, AcceptanceNeedsVotes DEF SameCounts
    <2>2. CASE ZeroCounts(after)
        BY <2>2, ZeroIsNotAccepted
    <2> QED
        BY <2>1, <2>2 DEF Unjudged
<1>3. ASSUME after.accepted
      PROVE  Supported(after)
    <2>1. before.accepted /\ after.frames = before.frames
        BY <1>3 DEF Unjudged, ThreadStep
    <2> QED
        BY <2>1, SupportKept DEF Support, Unjudged
<1> QED
    BY <1>1, <1>2, <1>3 DEF Support

\* BeginBlock accepts a thread only when some frame just received a valid vote for
\* the hash it has.
LEMMA JudgedSupport ==
    ASSUME NEW before \in Thread, NEW after, Support(before), ReadyToEvaluate(before),
           after = [EvaluateVerifications(before) EXCEPT !.accepted = AcceptedNow(before)]
    PROVE  Support(after)
<1> DEFINE evaluated == EvaluateVerifications(before)
<1>1. /\ evaluated \in Thread /\ DOMAIN evaluated.frames = DOMAIN before.frames
      /\ \A f \in DOMAIN before.frames :
             /\ evaluated.frames[f].name = before.frames[f].name
             /\ evaluated.frames[f].hash = before.frames[f].hash
      /\ evaluated = [before EXCEPT !.frames = evaluated.frames]
    BY EvaluateFacts
<1>2. /\ evaluated.workers = before.workers /\ evaluated.validations = before.validations
      /\ evaluated.proposedBy = before.proposedBy
    BY <1>1 DEF Thread
<1>3. AcceptedNow(before) \in BOOLEAN
      /\ (AcceptedNow(before) <=> IsSolutionAccepted(evaluated))
    BY DEF AcceptedNow, ReadyToEvaluate, IsSolutionAccepted
<1>4. ASSUME ~Supported(before)
      PROVE  ~IsSolutionAccepted(evaluated)
    <2> SUFFICES ASSUME IsSolutionAccepted(evaluated)
                 PROVE  FALSE
        OBVIOUS
    <2>1. ASSUME NEW f \in DOMAIN before.frames
          PROVE  evaluated.frames[f].valid <= before.frames[f].valid
        <3>1. ValidVotes(before, f) = {}
            BY <1>4 DEF Supported, ValidVotes, Votes
        <3>2. Cardinality(ValidVotes(before, f)) = 0
            BY <3>1, FS_EmptySet
        <3>3. before.frames[f].valid \in Nat
            <4>1. before.frames[f] \in Frame
                BY DEF Thread
            <4> QED
                BY <4>1 DEF Frame
        <3>4. evaluated.frames[f].valid = before.frames[f].valid + Cardinality(ValidVotes(before, f))
            BY EvaluateCounts
        <3> QED
            BY <3>2, <3>3, <3>4
    <2>2. ~IsSolutionAccepted(before)
        BY DEF Support, ReadyToEvaluate
    <2> HIDE DEF evaluated
    <2> QED
        BY <1>1, <1>2, <2>1, <2>2, AcceptanceNeedsVotes
<1> HIDE DEF evaluated
<1>5. /\ after.frames = evaluated.frames /\ after.workers = evaluated.workers
      /\ after.validations = evaluated.validations /\ after.proposedBy = evaluated.proposedBy
      /\ after.accepted = AcceptedNow(before)
    BY <1>1 DEF Thread, evaluated
<1>6. IsSolutionAccepted(after) <=> IsSolutionAccepted(evaluated)
    BY <1>5 DEF IsSolutionAccepted
<1>7. Supported(before) => Supported(after)
    BY <1>1, <1>2, <1>5 DEF Supported, Signs, SignedHash
<1>8. after.proposedBy # NoWorker
    BY <1>2, <1>5 DEF ReadyToEvaluate
<1> QED
    BY <1>3, <1>4, <1>5, <1>6, <1>7, <1>8 DEF Support

\* Every step keeps what supports each thread.
LEMMA SupportInductive ==
    ASSUME IInv, SupportInv, [Next]_vars
    PROVE  SupportInv'
<1>1. TypeOK' /\ Evolves
    BY NextSafe DEF IInv
<1> SUFFICES ASSUME NEW t, NEW i, ThreadExists(t, i)'
             PROVE  Support(tasks'[t].threads[i])
    BY DEF SupportInv
<1> DEFINE before == tasks[t].threads[i]
           after == tasks'[t].threads[i]
<1>2. after \in Thread
    BY <1>1 DEF TypeOK, ThreadExists, Task
<1>3. ThreadExists(t, i) => /\ before \in Thread /\ Support(before) /\ ThreadInv(before)
                            /\ ThreadStep(before, after)
    BY <1>1, ThreadType DEF IInv, SupportInv, ThreadsInv, Evolves, TaskStep, ThreadExists
<1>4. CASE BeginBlock
    <2>1. tasks' = [u \in DOMAIN tasks |-> Walked(tasks[u])] /\ \A u \in DOMAIN tasks : tasks[u] \in Task
        BY <1>4 DEF BeginBlock, IInv, TypeOK
    <2>2. ThreadExists(t, i) /\ after = Walked(tasks[t]).threads[i]
        BY <2>1, WalkedFacts DEF ThreadExists
    <2>3. \/ after = before
          \/ /\ ReadyToEvaluate(before)
             /\ after = [EvaluateVerifications(before) EXCEPT !.accepted = AcceptedNow(before)]
        BY <2>1, <2>2, WalkedFacts DEF ThreadExists
    <2>4. before \in Thread /\ Support(before)
        BY <1>3, <2>2
    <2> HIDE DEF before, after
    <2>5. Support(after)
        BY <2>3, <2>4, JudgedSupport
    <2> QED
        BY <2>5 DEF after
<1>5. CASE ~BeginBlock
    <2>1. CASE ThreadExists(t, i) /\ Unjudged(before, after)
        BY <1>2, <1>3, <2>1, UnjudgedSupport
    <2>2. CASE Untouched(after)
        BY <2>2 DEF Untouched, Support, IsSolutionAccepted
    <2> QED
        BY <1>5, <2>1, <2>2, StepUnjudged
<1> QED
    BY <1>4, <1>5

\* Behind every accepted solution stands a validation that signed one of its hashes.
THEOREM AcceptancesAreSupported == Spec => []AcceptedIsSupported
<1>1. Init => SupportInv
    BY DEF Init, SupportInv, ThreadExists
<1>2. IInv /\ SupportInv /\ [Next]_vars => SupportInv'
    BY SupportInductive
<1>3. SupportInv => AcceptedIsSupported
    BY DEF SupportInv, Support, Supported, ThreadExists, AcceptedIsSupported
<1> QED
    BY Invariance, <1>1, <1>2, <1>3, PTL DEF Spec


-----------------------------------------------------------------------------
(***************************************************************************)
(* The counts of a frame.  Each walk that stores a thread's counts accepts *)
(* it or a later thread of its task, so the acceptances pay for the walks. *)
(***************************************************************************)
Writers(task, i) == {j \in DOMAIN task.threads : j >= i /\ task.threads[j].accepted}

Counted(task, i) ==
    \A f \in DOMAIN task.threads[i].frames :
        task.threads[i].frames[f].valid + task.threads[i].frames[f].invalid
            <= Len(task.threads[i].validations) * Cardinality(Writers(task, i))

\* The products that bound the counts grow with both factors.
LEMMA ProductGrows ==
    ASSUME NEW a \in Nat, NEW b \in Nat, NEW c \in Nat, NEW d \in Nat, a <= b, c <= d
    PROVE  a * c \in Nat /\ b * d \in Nat /\ a * c <= b * d
<1>1. PICK e \in Nat : b = a + e
    <2>1. b - a \in Nat /\ b = a + (b - a)
        OBVIOUS
    <2> QED
        BY <2>1
<1>2. PICK g \in Nat : d = c + g
    <2>1. d - c \in Nat /\ d = c + (d - c)
        OBVIOUS
    <2> QED
        BY <2>1
<1>3. a * c \in Nat /\ a * g \in Nat /\ e * c \in Nat /\ e * g \in Nat
    OBVIOUS
<1>4. b * d = a * c + a * g + e * c + e * g
    BY <1>1, <1>2
<1> QED
    BY <1>3, <1>4

\* The acceptances of a task are finitely many.
LEMMA WritersAreFinite ==
    ASSUME NEW task \in Task, NEW i
    PROVE  IsFiniteSet(Writers(task, i)) /\ Cardinality(Writers(task, i)) \in Nat
<1>1. Len(task.threads) \in Nat /\ DOMAIN task.threads = 1 .. Len(task.threads)
    BY DEF Task
<1>2. IsFiniteSet(1 .. Len(task.threads)) /\ Writers(task, i) \subseteq 1 .. Len(task.threads)
    BY <1>1, FS_Interval DEF Writers
<1> QED
    BY <1>2, FS_Subset, FS_CardinalityType

\* There are n numbers from 1 to n.
LEMMA CountedFromOne ==
    ASSUME NEW n \in Nat
    PROVE  IsFiniteSet(1 .. n) /\ Cardinality(1 .. n) = n
<1>1. Cardinality(1 .. n) = IF 1 > n THEN 0 ELSE n - 1 + 1
    BY FS_Interval
<1>2. IsFiniteSet(1 .. n)
    BY FS_Interval
<1> QED
    BY <1>1, <1>2

\* A walk adds to each frame of a thread at most one vote per validation.
LEMMA VotesAdded ==
    ASSUME NEW thread \in Thread, NEW f \in DOMAIN thread.frames
    PROVE  LET after == EvaluateVerifications(thread).frames[f]
           IN  after.valid + after.invalid
                   <= thread.frames[f].valid + thread.frames[f].invalid + Len(thread.validations)
<1> DEFINE V == Votes(thread, f)
           A == ValidVotes(thread, f)
           n == Len(thread.validations)
<1>1. n \in Nat /\ DOMAIN thread.validations = 1 .. n
    BY DEF Thread
<1>2. V \subseteq 1 .. n /\ A \subseteq V
    BY <1>1 DEF Votes, ValidVotes
<1>3. IsFiniteSet(1 .. n) /\ Cardinality(1 .. n) = n
    BY <1>1, CountedFromOne
<1>4. IsFiniteSet(V) /\ Cardinality(V) <= n /\ IsFiniteSet(A)
    BY <1>2, <1>3, FS_Subset
<1>5. Cardinality(V \ A) = Cardinality(V) - Cardinality(A)
    <2>1. V \cap A = A
        BY <1>2
    <2> HIDE DEF V, A
    <2> QED
        BY <1>4, <2>1, FS_Difference
<1>6. Cardinality(V) \in Nat /\ Cardinality(A) \in Nat
    BY <1>4, FS_CardinalityType
<1>7. thread.frames[f].valid \in Nat /\ thread.frames[f].invalid \in Nat
    <2>1. thread.frames[f] \in Frame
        BY DEF Thread
    <2> QED
        BY <2>1 DEF Frame
<1> DEFINE after == EvaluateVerifications(thread).frames[f]
<1>8. /\ after.valid = thread.frames[f].valid + Cardinality(A)
      /\ after.invalid = thread.frames[f].invalid + Cardinality(V \ A)
    BY EvaluateCounts
<1> HIDE DEF V, A, n, after
<1>9. after.valid + after.invalid <= thread.frames[f].valid + thread.frames[f].invalid + n
    BY <1>1, <1>4, <1>5, <1>6, <1>7, <1>8, SMTT(30)
<1> QED
    BY <1>9 DEF after, n

\* A thread that the walk judges is written back because it, or a later thread of
\* the task, is accepted in that walk.
LEMMA WalkedStored ==
    ASSUME NEW task \in Task, NEW i \in DOMAIN task.threads,
           Walked(task).threads[i] # task.threads[i]
    PROVE  \E j \in DOMAIN task.threads :
               j >= i /\ ~task.threads[j].accepted /\ Walked(task).threads[j].accepted
<1> DEFINE n == Len(task.threads)
           stored(k) == \E j \in k .. n : AcceptedNow(task.threads[j])
           judged(k) == [EvaluateVerifications(task.threads[k]) EXCEPT
                             !.accepted = AcceptedNow(task.threads[k])]
           walkedThread(k) == IF ReadyToEvaluate(task.threads[k]) /\ stored(k)
                              THEN judged(k) ELSE task.threads[k]
           walked == [k \in 1 .. n |-> walkedThread(k)]
<1>1. task.threads \in Seq(Thread) /\ n \in Nat /\ DOMAIN task.threads = 1 .. n
    BY DEF Task
<1>2. ~task.completed
    BY WalkedFacts
<1>3. Walked(task).threads = walked
    <2>1. Walked(task) = [task EXCEPT !.threads = walked]
        BY <1>2 DEF Walked
    <2> HIDE DEF walked
    <2> QED
        BY <2>1 DEF Task
<1>4. stored(i)
    <2>1. walkedThread(i) # task.threads[i]
        BY <1>1, <1>3
    <2> QED
        BY <2>1
<1>5. PICK j \in i .. n : AcceptedNow(task.threads[j])
    BY <1>4
<1>6. j \in 1 .. n /\ j >= i
    BY <1>1, <1>5
<1>7. ReadyToEvaluate(task.threads[j]) /\ ~task.threads[j].accepted
    BY <1>5 DEF AcceptedNow, ReadyToEvaluate
<1>8. stored(j)
    <2>1. j \in j .. n
        BY <1>1, <1>6
    <2> QED
        BY <1>5, <2>1
<1>9. Walked(task).threads[j] = judged(j)
    <2>1. walked[j] = walkedThread(j)
        BY <1>6
    <2>2. walkedThread(j) = judged(j)
        BY <1>7, <1>8
    <2> QED
        BY <1>3, <2>1, <2>2
<1>10. judged(j).accepted
    <2>1. EvaluateVerifications(task.threads[j]) \in Thread
        BY <1>1, <1>6, EvaluateFacts
    <2> QED
        BY <1>5, <2>1 DEF Thread
<1> QED
    BY <1>1, <1>6, <1>7, <1>9, <1>10

\* A walk keeps the counts of a task within bounds.
LEMMA WalkCounted ==
    ASSUME NEW task \in Task, NEW i \in DOMAIN task.threads, Counted(task, i),
           \A j \in DOMAIN task.threads : task.threads[j].accepted => Walked(task).threads[j].accepted
    PROVE  Counted(Walked(task), i)
<1> DEFINE before == task.threads[i]
           after == Walked(task).threads[i]
           L == Len(before.validations)
           C == Cardinality(Writers(task, i))
           D == Cardinality(Writers(Walked(task), i))
<1>1. /\ Walked(task) \in Task /\ DOMAIN Walked(task).threads = DOMAIN task.threads
      /\ \/ after = before
         \/ after = [EvaluateVerifications(before) EXCEPT !.accepted = AcceptedNow(before)]
    BY WalkedFacts
<1>2. before \in Thread /\ L \in Nat
    <2>1. before \in Thread
        BY DEF Task
    <2>2. before.validations \in Seq(Validation)
        BY <2>1 DEF Thread
    <2> QED
        BY <2>1, <2>2
<1>3. Writers(task, i) \subseteq Writers(Walked(task), i)
    BY <1>1 DEF Writers
<1>4. /\ IsFiniteSet(Writers(task, i)) /\ C \in Nat
      /\ IsFiniteSet(Writers(Walked(task), i)) /\ D \in Nat
    BY <1>1, WritersAreFinite
<1>5. C <= D
    BY <1>3, <1>4, FS_Subset
<1>6. after.validations = before.validations
    BY WalkedValidations
<1>7. CASE after = before
    <2>1. L * C \in Nat /\ L * D \in Nat /\ L * C <= L * D
        <3>1. L <= L
            BY <1>2
        <3> HIDE DEF L, C, D
        <3> QED
            BY <1>2, <1>4, <1>5, <3>1, ProductGrows
    <2>2. ASSUME NEW f \in DOMAIN after.frames
          PROVE  after.frames[f].valid + after.frames[f].invalid <= L * D
        <3>1. before.frames[f] \in Frame
            BY <1>2, <1>7, <2>2 DEF Thread
        <3>2. before.frames[f].valid \in Nat /\ before.frames[f].invalid \in Nat
            BY <3>1 DEF Frame
        <3>3. before.frames[f].valid + before.frames[f].invalid <= L * C
            BY <1>7, <2>2 DEF Counted
        <3> HIDE DEF before, L, C, D, after
        <3> QED
            BY <1>7, <2>1, <3>2, <3>3
    <2> QED
        BY <1>6, <2>2 DEF Counted
<1>8. CASE after # before /\ after = [EvaluateVerifications(before) EXCEPT !.accepted = AcceptedNow(before)]
    <2>1. PICK j \in DOMAIN task.threads :
              j >= i /\ ~task.threads[j].accepted /\ Walked(task).threads[j].accepted
        BY <1>8, WalkedStored
    <2>2. j \notin Writers(task, i) /\ Writers(task, i) \cup {j} \subseteq Writers(Walked(task), i)
        BY <1>1, <1>3, <2>1 DEF Writers
    <2>3. C + 1 <= D
        <3>1. IsFiniteSet(Writers(task, i) \cup {j}) /\ Cardinality(Writers(task, i) \cup {j}) = C + 1
            BY <1>4, <2>2, FS_AddElement
        <3> QED
            BY <1>4, <2>2, <3>1, FS_Subset
    <2>4. L * (C + 1) <= L * D /\ L * (C + 1) = L * C + L /\ L * C \in Nat /\ L * D \in Nat
        <3>1. C + 1 \in Nat
            BY <1>4
        <3>2. L * (C + 1) <= L * D /\ L * D \in Nat
            BY <1>2, <1>4, <2>3, <3>1, ProductGrows, SMTT(30)
        <3>3. L * C \in Nat
            BY <1>2, <1>4, ProductGrows, SMTT(30)
        <3> HIDE DEF L, C, D
        <3>4. L * (C + 1) = L * C + L
            BY <1>2, <1>4
        <3> QED
            BY <3>2, <3>3, <3>4
    <2>5. /\ EvaluateVerifications(before) \in Thread
          /\ DOMAIN EvaluateVerifications(before).frames = DOMAIN before.frames
        BY <1>2, EvaluateFacts
    <2>6. after.frames = EvaluateVerifications(before).frames
        BY <1>8, <2>5 DEF Thread
    <2>7. ASSUME NEW f \in DOMAIN after.frames
          PROVE  after.frames[f].valid + after.frames[f].invalid <= L * D
        <3>1. f \in DOMAIN before.frames
            BY <2>5, <2>6
        <3>2. before.frames[f] \in Frame /\ after.frames[f] \in Frame
            BY <1>2, <2>5, <2>6, <3>1 DEF Thread
        <3>3. /\ before.frames[f].valid \in Nat /\ before.frames[f].invalid \in Nat
              /\ after.frames[f].valid \in Nat /\ after.frames[f].invalid \in Nat
            BY <3>2 DEF Frame
        <3>4. before.frames[f].valid + before.frames[f].invalid <= L * C
            BY <3>1 DEF Counted
        <3>5. after.frames[f].valid + after.frames[f].invalid
                  <= before.frames[f].valid + before.frames[f].invalid + L
            BY <1>2, <2>6, <3>1, VotesAdded
        <3> HIDE DEF before, L, C, D, after
        <3> QED
            BY <1>2, <2>4, <3>3, <3>4, <3>5
    <2> QED
        BY <1>6, <2>7 DEF Counted
<1> QED
    BY <1>1, <1>7, <1>8

\* A step that does not judge keeps the counts within bounds too.
LEMMA UnjudgedCounted ==
    ASSUME NEW task \in Task, NEW after \in Task, NEW i \in DOMAIN task.threads, Counted(task, i),
           DOMAIN after.threads = DOMAIN task.threads,
           \A j \in DOMAIN task.threads : Unjudged(task.threads[j], after.threads[j])
    PROVE  Counted(after, i)
<1> DEFINE old == task.threads[i]
           new == after.threads[i]
           C == Cardinality(Writers(task, i))
<1>1. Writers(after, i) = Writers(task, i)
    BY DEF Writers, Unjudged
<1>2. C \in Nat
    BY WritersAreFinite
<1>3. old \in Thread /\ new \in Thread /\ Unjudged(old, new)
    BY DEF Task
<1> DEFINE K == Len(old.validations)
           L == Len(new.validations)
<1>4. K \in Nat /\ L \in Nat /\ K <= L
    <2>1. old.validations \in Seq(Validation) /\ new.validations \in Seq(Validation)
        BY <1>3 DEF Thread
    <2>2. K \in Nat /\ L \in Nat
        BY <2>1
    <2>3. ASSUME NEW v \in Validation, new.validations = Append(old.validations, v)
          PROVE  L = K + 1
        BY <2>1, <2>3
    <2>4. new.validations = old.validations => L = K
        OBVIOUS
    <2>5. L = K \/ L = K + 1
        BY <1>3, <2>3, <2>4, Zenon DEF Unjudged
    <2> HIDE DEF K, L
    <2> QED
        BY <2>2, <2>5
<1>5. K * C \in Nat /\ L * C \in Nat /\ K * C <= L * C
    <2>1. C <= C
        BY <1>2
    <2> HIDE DEF K, L, C
    <2> QED
        BY <1>2, <1>4, <2>1, ProductGrows
<1>6. ASSUME NEW f \in DOMAIN new.frames
      PROVE  new.frames[f].valid + new.frames[f].invalid <= L * C
    <2>1. CASE SameCounts(old, new)
        <3>1. /\ f \in DOMAIN old.frames
              /\ new.frames[f].valid = old.frames[f].valid
              /\ new.frames[f].invalid = old.frames[f].invalid
            BY <1>6, <2>1 DEF SameCounts
        <3>2. old.frames[f] \in Frame
            BY <1>3, <3>1 DEF Thread
        <3>3. old.frames[f].valid \in Nat /\ old.frames[f].invalid \in Nat
            BY <3>2 DEF Frame
        <3>4. old.frames[f].valid + old.frames[f].invalid <= K * C
            BY <3>1 DEF Counted
        <3> HIDE DEF old, new, K, L, C
        <3> QED
            BY <1>5, <3>1, <3>3, <3>4
    <2>2. CASE ZeroCounts(new)
        <3>1. new.frames[f].valid = 0 /\ new.frames[f].invalid = 0
            BY <1>6, <2>2 DEF ZeroCounts
        <3> HIDE DEF old, new, K, L, C
        <3> QED
            BY <1>5, <3>1
    <2> QED
        BY <1>3, <2>1, <2>2, Zenon DEF Unjudged
<1> QED
    BY <1>1, <1>6 DEF Counted

CountInv == \A t, i : ThreadExists(t, i) => Counted(tasks[t], i)

\* Every step keeps the counts of every thread within bounds.
LEMMA CountInductive ==
    ASSUME IInv, CountInv, [Next]_vars
    PROVE  CountInv'
<1>1. TypeOK' /\ Evolves
    BY NextSafe DEF IInv
<1> SUFFICES ASSUME NEW t, NEW i, ThreadExists(t, i)'
             PROVE  Counted(tasks'[t], i)
    BY DEF CountInv
<1>2. t \in DOMAIN tasks' /\ tasks'[t] \in Task /\ i \in DOMAIN tasks'[t].threads
    BY <1>1 DEF TypeOK, ThreadExists
<1>3. CASE BeginBlock
    <2>1. tasks' = [u \in DOMAIN tasks |-> Walked(tasks[u])] /\ \A u \in DOMAIN tasks : tasks[u] \in Task
        BY <1>3 DEF BeginBlock, IInv, TypeOK
    <2>2. /\ t \in DOMAIN tasks /\ tasks[t] \in Task /\ i \in DOMAIN tasks[t].threads
          /\ tasks'[t] = Walked(tasks[t])
        BY <1>2, <2>1, WalkedFacts
    <2>3. Counted(tasks[t], i)
        BY <2>2 DEF CountInv, ThreadExists
    <2>4. \A j \in DOMAIN tasks[t].threads :
              tasks[t].threads[j].accepted => Walked(tasks[t]).threads[j].accepted
        BY <1>1, <2>2 DEF Evolves, TaskStep, ThreadStep
    <2> QED
        BY <2>2, <2>3, <2>4, WalkCounted
<1>4. CASE ~BeginBlock
    <2>1. \/ ThreadExists(t, i) /\ Unjudged(tasks[t].threads[i], tasks'[t].threads[i])
          \/ ~ThreadExists(t, i) /\ Untouched(tasks'[t].threads[i])
        BY <1>4, StepUnjudged
    <2>2. CASE ThreadExists(t, i)
        <3>1. /\ t \in DOMAIN tasks /\ tasks[t] \in Task /\ i \in DOMAIN tasks[t].threads
              /\ DOMAIN tasks'[t].threads = DOMAIN tasks[t].threads
            BY <1>1, <2>2 DEF ThreadExists, Evolves, TaskStep, IInv, TypeOK
        <3>2. ASSUME NEW j \in DOMAIN tasks[t].threads
              PROVE  Unjudged(tasks[t].threads[j], tasks'[t].threads[j])
            <4>1. ThreadExists(t, j) /\ ThreadExists(t, j)'
                BY <1>2, <3>1 DEF ThreadExists
            <4> QED
                BY <1>4, <4>1, StepUnjudged
        <3>3. Counted(tasks[t], i)
            BY <2>2 DEF CountInv
        <3> QED
            BY <1>2, <3>1, <3>2, <3>3, UnjudgedCounted
    <2>3. CASE Untouched(tasks'[t].threads[i])
        BY <2>3 DEF Untouched, Counted
    <2> QED
        BY <2>1, <2>2, <2>3
<1> QED
    BY <1>3, <1>4

\* The validations of a thread are counted once for each acceptance that stores them.
THEOREM VotesAreCounted == Spec => []VotesCounted
<1>1. Init => CountInv
    BY DEF Init, CountInv, ThreadExists
<1>2. IInv /\ CountInv /\ [Next]_vars => CountInv'
    BY CountInductive
<1>3. CountInv => VotesCounted
    BY DEF CountInv, Counted, Writers, ThreadExists, VotesCounted
<1> QED
    BY Invariance, <1>1, <1>2, <1>3, PTL DEF Spec


-----------------------------------------------------------------------------
(***************************************************************************)
(* Coins and wins.  Only SubmitSolution pays a worker or records a win.    *)
(***************************************************************************)
\* A worker who is not registered yet has at most what he began with.
MoneyInv ==
    \A w \in Worker \ Requester :
        IF w \in DOMAIN workers
        THEN bank[w] + workers[w].staked <= InitialBalance + workers[w].winnings
        ELSE bank[w] <= InitialBalance

Wins(w) ==
    /\ IsFiniteSet(CompletedBy(w))
    /\ CompletedBy(w) # {} => /\ w \in DOMAIN workers
                              /\ workers[w].solutions >= Cardinality(CompletedBy(w))

WinsInv == \A w \in Worker : Wins(w)

\* The stake and the record of a worker move together with his coins.
LEMMA SubmissionPays ==
    ASSUME TypeOK, NEW w \in DOMAIN workers, NEW t, NEW i, ThreadExists(t, i),
           SubmitSolution(w, t, i)
    PROVE  LET payment == WinnerReward(tasks[t])
           IN  /\ payment \in Nat
               /\ DOMAIN workers' = DOMAIN workers
               /\ bank' = bank \/ bank' = Transfer(Module, w, payment)
               /\ workers'[w].staked = workers[w].staked
               /\ workers'[w].winnings = workers[w].winnings + payment
               /\ workers'[w].solutions = workers[w].solutions + 1
               /\ \A v \in DOMAIN workers : v # w =>
                      /\ workers'[v].staked = workers[v].staked
                      /\ workers'[v].winnings = workers[v].winnings
                      /\ workers'[v].solutions = workers[v].solutions
<1> DEFINE payment == WinnerReward(tasks[t])
           atThread(v) == /\ v \in Elements(tasks[t].threads[i].workers)
                          /\ workers[v].task = t /\ workers[v].thread = i
<1>1. payment \in Nat
    BY ThreadType, WinnerRewardType DEF ThreadExists
<1>2. /\ bank' = IF bank[Module] >= payment THEN Transfer(Module, w, payment) ELSE bank
      /\ workers' = [v \in DOMAIN workers |->
             IF v = w THEN DeclareWinner(workers[v], payment)
             ELSE IF atThread(v) THEN Released(workers[v])
             ELSE workers[v]]
    BY DEF SubmitSolution
<1> HIDE DEF payment, atThread
<1>3. ASSUME NEW v \in DOMAIN workers
      PROVE  /\ workers[v] \in WorkerRecord /\ Released(workers[v]) \in WorkerRecord
             /\ Released(workers[v]).staked = workers[v].staked
             /\ Released(workers[v]).winnings = workers[v].winnings
             /\ Released(workers[v]).solutions = workers[v].solutions
    <2>1. workers[v] \in WorkerRecord
        BY DEF TypeOK
    <2> QED
        BY <2>1 DEF Released, WorkerRecord, EmptyId
<1>4. /\ DeclareWinner(workers[w], payment).staked = workers[w].staked
      /\ DeclareWinner(workers[w], payment).winnings = workers[w].winnings + payment
      /\ DeclareWinner(workers[w], payment).solutions = workers[w].solutions + 1
    BY <1>3 DEF DeclareWinner, WorkerRecord
<1>5. ASSUME NEW v \in DOMAIN workers, v # w
      PROVE  /\ workers'[v].staked = workers[v].staked
             /\ workers'[v].winnings = workers[v].winnings
             /\ workers'[v].solutions = workers[v].solutions
    BY <1>2, <1>3, <1>5
<1>6. DOMAIN workers' = DOMAIN workers /\ workers'[w] = DeclareWinner(workers[w], payment)
    BY <1>2
<1> QED
    BY <1>1, <1>2, <1>4, <1>5, <1>6 DEF payment

\* The other handlers move no coins, and leave stakes and records as they are.
LEMMA OthersPayNothing ==
    ASSUME TypeOK, NEW w \in DOMAIN workers, NEW t, NEW i, Handles(w, t, i),
           ~SubmitSolution(w, t, i)
    PROVE  /\ bank' = bank /\ DOMAIN workers' = DOMAIN workers
           /\ \A v \in DOMAIN workers :
                  /\ workers'[v].staked = workers[v].staked
                  /\ workers'[v].winnings = workers[v].winnings
                  /\ workers'[v].solutions = workers[v].solutions
<1>1. \A v \in DOMAIN workers : workers[v] \in WorkerRecord
    BY DEF TypeOK
<1>2. CASE SubscribeWorkerToTask(w, t, i)
    BY <1>1, <1>2 DEF SubscribeWorkerToTask, WorkerRecord
<1>3. CASE \E signed \in SignedInput : SubmitValidation(w, t, i, signed)
    <2>1. /\ Released(workers[w]).staked = workers[w].staked
          /\ Released(workers[w]).winnings = workers[w].winnings
          /\ Released(workers[w]).solutions = workers[w].solutions
        BY <1>1 DEF Released, WorkerRecord, EmptyId
    <2> QED
        BY <1>3, <2>1 DEF SubmitValidation
<1>4. CASE \/ \E names \in Proposals(t, i) : ProposeSolution(w, t, i, names)
           \/ \E S \in SUBSET Names(t, i) :
                  \E revealed \in [S -> Hash] : RevealSolution(w, t, i, revealed)
    BY <1>4 DEF ProposeSolution, RevealSolution
<1> QED
    BY <1>2, <1>3, <1>4 DEF Handles

\* Every step keeps the coins of a worker within what he is recorded to have won.
LEMMA MoneyInductive ==
    ASSUME IInv, MoneyInv, [Next]_vars
    PROVE  MoneyInv'
<1>1. TypeOK /\ \A a \in Account : bank[a] \in Nat
    BY DEF IInv, TypeOK
<1>2. \A w \in DOMAIN workers : /\ workers[w] \in WorkerRecord
                                /\ workers[w].staked \in Nat /\ workers[w].winnings \in Nat
    BY <1>1 DEF TypeOK, WorkerRecord
<1>3. \A w \in Worker : w \in Account /\ w # Module
    BY AccountAssumption DEF Account
<1>4. CASE UNCHANGED <<workers, bank>>
    BY <1>4 DEF MoneyInv
<1>5. ASSUME NEW r \in Requester, NEW spec \in TaskSpec, CreateVideoRenderingTask(r, spec)
      PROVE  MoneyInv'
    <2>1. workers' = workers /\ (bank' = bank \/ bank' = Transfer(r, Module, spec.reward))
        BY <1>5 DEF CreateVideoRenderingTask
    <2>2. \A w \in Worker \ Requester : bank'[w] = bank[w]
        BY <1>1, <1>3, <2>1 DEF Transfer, TypeOK
    <2> QED
        BY <2>1, <2>2 DEF MoneyInv
<1>6. ASSUME NEW w \in Worker, NEW stake \in Stake, AddWorker(w, stake)
      PROVE  MoneyInv'
    <2> DEFINE record == [task |-> EmptyId, thread |-> 1, staked |-> stake,
                          solutions |-> 0, winnings |-> 0]
    <2>1. /\ w \notin DOMAIN workers /\ bank[w] >= stake
          /\ bank' = Transfer(w, Module, stake) /\ workers' = Put(workers, w, record)
        BY <1>6 DEF AddWorker, AddWorkerOK
    <2>2. record.staked = stake /\ record.winnings = 0 /\ stake \in Nat
        BY ParamsAssumption
    <2> HIDE DEF record
    <2>3. /\ DOMAIN workers' = DOMAIN workers \cup {w} /\ workers'[w] = record
          /\ \A v \in DOMAIN workers : workers'[v] = workers[v]
        BY <2>1 DEF Put
    <2>4. /\ bank'[w] = bank[w] - stake
          /\ \A v \in Worker : v # w => bank'[v] = bank[v]
        BY <1>1, <1>3, <2>1 DEF Transfer, TypeOK
    <2>5. ASSUME NEW v \in Worker \ Requester
          PROVE  IF v \in DOMAIN workers'
                 THEN bank'[v] + workers'[v].staked <= InitialBalance + workers'[v].winnings
                 ELSE bank'[v] <= InitialBalance
        <3>1. CASE v = w
            <4>1. bank[w] <= InitialBalance /\ bank[w] \in Nat /\ InitialBalance \in Nat
                BY <1>1, <1>3, <2>1, <3>1, ParamsAssumption DEF MoneyInv
            <4> QED
                BY <2>2, <2>3, <2>4, <3>1, <4>1
        <3>2. CASE v # w
            BY <2>3, <2>4, <3>2 DEF MoneyInv
        <3> QED
            BY <3>1, <3>2
    <2> QED
        BY <2>5 DEF MoneyInv
<1>7. ASSUME NEW w \in DOMAIN workers, NEW t \in DOMAIN tasks,
             NEW i \in DOMAIN tasks[t].threads, Handles(w, t, i)
      PROVE  MoneyInv'
    <2>1. CASE SubmitSolution(w, t, i)
        <3> DEFINE payment == WinnerReward(tasks[t])
        <3>1. /\ payment \in Nat
              /\ DOMAIN workers' = DOMAIN workers
              /\ bank' = bank \/ bank' = Transfer(Module, w, payment)
              /\ workers'[w].staked = workers[w].staked
              /\ workers'[w].winnings = workers[w].winnings + payment
              /\ \A v \in DOMAIN workers : v # w =>
                     /\ workers'[v].staked = workers[v].staked
                     /\ workers'[v].winnings = workers[v].winnings
            BY <1>1, <2>1, SubmissionPays DEF ThreadExists
        <3> HIDE DEF payment
        <3>2. w \in Worker /\ Module \in Account
            BY <1>1 DEF TypeOK, Account
        <3>3. /\ bank'[w] = bank[w] \/ bank'[w] = bank[w] + payment
              /\ \A v \in Worker : v # w => bank'[v] = bank[v]
            BY <1>1, <1>3, <3>1, <3>2 DEF Transfer, TypeOK
        <3>4. ASSUME NEW v \in Worker \ Requester
              PROVE  IF v \in DOMAIN workers'
                     THEN bank'[v] + workers'[v].staked <= InitialBalance + workers'[v].winnings
                     ELSE bank'[v] <= InitialBalance
            <4>1. CASE v = w
                <5>1. /\ bank[w] + workers[w].staked <= InitialBalance + workers[w].winnings
                      /\ bank[w] \in Nat /\ workers[w].staked \in Nat /\ workers[w].winnings \in Nat
                      /\ InitialBalance \in Nat
                    BY <1>1, <1>2, <1>3, <4>1, ParamsAssumption DEF MoneyInv
                <5> QED
                    BY <3>1, <3>3, <4>1, <5>1
            <4>2. CASE v # w
                BY <3>1, <3>3, <4>2 DEF MoneyInv
            <4> QED
                BY <4>1, <4>2
        <3> QED
            BY <3>4 DEF MoneyInv
    <2>2. CASE ~SubmitSolution(w, t, i)
        BY <1>1, <1>7, <2>2, OthersPayNothing DEF MoneyInv
    <2> QED
        BY <2>1, <2>2
<1> QED
    BY <1>4, <1>5, <1>6, <1>7, SMTT(30)
    DEF Next, BeginBlock, EndBlock, Request, Register, Transaction, Handles, vars

\* A worker's coins, with his stake, grow only by what he is recorded to have won.
THEOREM CoinsAreWon == Spec => []MoneyIsWon
<1>1. Init => MoneyInv
    <2> SUFFICES ASSUME Init, NEW w \in Worker \ Requester
                 PROVE  w \notin DOMAIN workers /\ bank[w] <= InitialBalance
        BY DEF MoneyInv
    <2>1. w \in Account /\ w # Module /\ InitialBalance \in Nat
        BY AccountAssumption, ParamsAssumption DEF Account
    <2> QED
        BY <2>1 DEF Init
<1>2. IInv /\ MoneyInv /\ [Next]_vars => MoneyInv'
    BY MoneyInductive
<1>3. IInv /\ MoneyInv => MoneyIsWon
    BY DEF IInv, TypeOK, MoneyInv, MoneyIsWon
<1> QED
    BY Invariance, <1>1, <1>2, <1>3, PTL DEF Spec


\* A worker keeps his wins while nothing is completed in his name.
LEMMA WinsKept ==
    ASSUME WinsInv, NEW w \in Worker, CompletedBy(w)' \subseteq CompletedBy(w), TypeOK, TypeOK',
           w \in DOMAIN workers => /\ w \in DOMAIN workers'
                                   /\ workers'[w].solutions >= workers[w].solutions
    PROVE  Wins(w)'
<1>1. /\ IsFiniteSet(CompletedBy(w)')
      /\ Cardinality(CompletedBy(w)') <= Cardinality(CompletedBy(w))
      /\ Cardinality(CompletedBy(w)') \in Nat /\ Cardinality(CompletedBy(w)) \in Nat
    BY FS_Subset, FS_CardinalityType DEF WinsInv, Wins
<1>2. ASSUME CompletedBy(w)' # {}
      PROVE  w \in DOMAIN workers' /\ workers'[w].solutions >= Cardinality(CompletedBy(w)')
    <2>1. w \in DOMAIN workers /\ workers[w].solutions >= Cardinality(CompletedBy(w))
        BY <1>2 DEF WinsInv, Wins
    <2>2. w \in DOMAIN workers' /\ workers'[w].solutions >= workers[w].solutions
        BY <2>1
    <2>3. workers[w].solutions \in Nat /\ workers'[w].solutions \in Nat
        BY <2>1, <2>2 DEF TypeOK, WorkerRecord
    <2> QED
        BY <1>1, <2>1, <2>2, <2>3
<1> QED
    BY <1>1, <1>2 DEF Wins

\* A thread is completed only by SubmitSolution, which adds it to the ones of its
\* proposer and to nobody else's.
LEMMA StepCompletes ==
    ASSUME IInv, [Next]_vars, NEW t, NEW i, ThreadExists(t, i)',
           tasks'[t].threads[i].completed,
           ~\E w \in DOMAIN workers : SubmitSolution(w, t, i)
    PROVE  ThreadExists(t, i) /\ tasks'[t].threads[i] = tasks[t].threads[i]
<1> SUFFICES ThreadExists(t, i) /\ tasks[t].threads[i].completed
    BY NextSafe DEF ThreadExists, Evolves, TaskStep, ThreadStep
<1>1. tasks \in [DOMAIN tasks -> Task]
    BY DEF IInv, TypeOK
<1>2. CASE BeginBlock
    <2>1. tasks' = [u \in DOMAIN tasks |-> Walked(tasks[u])]
        BY <1>2 DEF BeginBlock
    <2>2. ThreadExists(t, i) /\ tasks'[t].threads[i] = Walked(tasks[t]).threads[i]
        BY <1>1, <2>1, WalkedFacts DEF ThreadExists
    <2> DEFINE before == tasks[t].threads[i]
               evaluated == EvaluateVerifications(before)
    <2>3. before \in Thread
        BY <2>2, ThreadType DEF IInv
    <2>4. \/ tasks'[t].threads[i] = before
          \/ tasks'[t].threads[i] = [evaluated EXCEPT !.accepted = AcceptedNow(before)]
        BY <1>1, <2>2, WalkedFacts, SMTT(30) DEF ThreadExists
    <2>5. evaluated \in Thread /\ evaluated = [before EXCEPT !.frames = evaluated.frames]
        BY <2>3, EvaluateFacts
    <2> HIDE DEF evaluated, before
    <2>6. [evaluated EXCEPT !.accepted = AcceptedNow(before)].completed = before.completed
        BY <2>3, <2>5 DEF Thread
    <2> QED
        BY <2>2, <2>4, <2>6 DEF before
<1>3. CASE EndBlock
    <2> DEFINE ended(u) == [tasks[u] EXCEPT !.completed = @ \/ AllThreadsCompleted(tasks[u])]
    <2>1. tasks' = Put([u \in DOMAIN tasks |-> ended(u)], EmptyId, EmptyTask)
        BY <1>3 DEF EndBlock
    <2>2. \A u \in DOMAIN tasks : ended(u).threads = tasks[u].threads
        BY <1>1 DEF Task
    <2> HIDE DEF ended
    <2>3. DOMAIN EmptyTask.threads = {}
        BY DEF EmptyTask
    <2> QED
        BY <2>1, <2>2, <2>3 DEF Put, ThreadExists
<1>4. ASSUME NEW r \in Requester, NEW spec \in TaskSpec, CreateVideoRenderingTask(r, spec)
      PROVE  ThreadExists(t, i) /\ tasks[t].threads[i].completed
    <2> DEFINE task == [completed |-> FALSE, reward |-> spec.reward, threads |-> GenerateThreads(spec)]
    <2>1. tasks' = Put(tasks, nextId, task)
        BY <1>4 DEF CreateVideoRenderingTask
    <2>2. \A j \in DOMAIN task.threads : ~task.threads[j].completed
        BY DEF GenerateThreads, NewThread
    <2> HIDE DEF task
    <2> QED
        BY <2>1, <2>2 DEF Put, ThreadExists
<1>5. ASSUME NEW w \in Worker, NEW stake \in Stake, AddWorker(w, stake)
      PROVE  ThreadExists(t, i) /\ tasks[t].threads[i].completed
    BY <1>5 DEF AddWorker, ThreadExists
<1>6. ASSUME NEW w \in DOMAIN workers, NEW u \in DOMAIN tasks,
             NEW j \in DOMAIN tasks[u].threads, Handles(w, u, j)
      PROVE  ThreadExists(t, i) /\ tasks[t].threads[i].completed
    <2>1. PICK written \in Thread : tasks' = PutThread(u, j, written)
        BY <1>6, HandlerWrites
    <2>2. /\ ThreadExists(t, i) /\ ThreadExists(u, j)
          /\ t # u \/ i # j => tasks'[t].threads[i] = tasks[t].threads[i]
        BY <1>1, <2>1, PutThreadFacts DEF ThreadExists
    <2>3. CASE t # u \/ i # j
        BY <2>2, <2>3
    <2>4. CASE t = u /\ i = j
        <3>1. CASE SubscribeWorkerToTask(w, u, j)
            <4>1. Subscribed(tasks[u].threads[j], tasks'[u].threads[j], w)
                BY <2>2, <3>1, SubscribeEffect
            <4>2. tasks'[u].threads[j].completed = tasks[u].threads[j].completed
                BY <4>1 DEF Subscribed
            <4>3. tasks'[u].threads[j].completed
                BY <2>4
            <4>4. tasks[t].threads[i].completed
                BY <2>4, <4>2, <4>3
            <4> QED
                BY <2>2, <4>4
        <3>2. ASSUME NEW names \in Proposals(u, j), ProposeSolution(w, u, j, names)
              PROVE  tasks[u].threads[j].completed
            <4> DEFINE frames == [f \in DOMAIN names |->
                           [name |-> names[f], hash |-> NoHash, valid |-> 0, invalid |-> 0]]
                       after == [tasks[u].threads[j] EXCEPT !.proposedBy = w, !.frames = frames]
            <4>1. tasks' = PutThread(u, j, after) /\ tasks[u].threads[j] \in Thread /\ w \in Worker
                BY <2>2, <3>2, ThreadType DEF ProposeSolution, IInv, TypeOK
            <4>2. frames \in Seq(Frame)
                BY <2>2, ProposalIsSequence, FramesOfNames DEF IInv
            <4> HIDE DEF frames
            <4>3. after \in Thread /\ after.completed = tasks[u].threads[j].completed
                BY <4>1, <4>2 DEF Thread
            <4> HIDE DEF after
            <4>4. tasks'[u].threads[j] = after
                BY <1>1, <2>2, <4>1, <4>3, PutThreadFacts
            <4> QED
                BY <2>4, <4>3, <4>4
        <3>3. ASSUME NEW S \in SUBSET Names(u, j), NEW revealed \in [S -> Hash],
                     RevealSolution(w, u, j, revealed)
              PROVE  tasks[u].threads[j].completed
            <4> DEFINE frames == Revealed(tasks[u].threads[j], revealed)
                       after == [tasks[u].threads[j] EXCEPT !.frames = frames]
            <4>1. tasks' = PutThread(u, j, after) /\ tasks[u].threads[j] \in Thread
                BY <2>2, <3>3, ThreadType DEF RevealSolution, IInv
            <4>2. frames \in Seq(Frame)
                BY <4>1, RevealedFrames
            <4> HIDE DEF frames
            <4>3. after \in Thread /\ after.completed = tasks[u].threads[j].completed
                BY <4>1, <4>2 DEF Thread
            <4> HIDE DEF after
            <4>4. tasks'[u].threads[j] = after
                BY <1>1, <2>2, <4>1, <4>3, PutThreadFacts
            <4> QED
                BY <2>4, <4>3, <4>4
        <3>4. ASSUME NEW signed \in SignedInput, SubmitValidation(w, u, j, signed)
              PROVE  tasks[u].threads[j].completed
            <4>1. Validated(tasks[u].threads[j], tasks'[u].threads[j], w)
                BY <2>2, <3>4, SubmitValidationEffect
            <4>2. tasks'[u].threads[j].completed = tasks[u].threads[j].completed
                BY <4>1 DEF Validated
            <4>3. tasks'[u].threads[j].completed
                BY <2>4
            <4> QED
                BY <4>2, <4>3
        <3> QED
            BY <1>6, <2>2, <2>4, <3>1, <3>2, <3>3, <3>4 DEF Handles
    <2> QED
        BY <2>3, <2>4
<1>7. CASE UNCHANGED vars
    BY <1>7 DEF vars, ThreadExists
<1> QED
    BY <1>2, <1>3, <1>4, <1>5, <1>6, <1>7 DEF Next, Request, Register, Transaction, Handles

\* Every step keeps the record of each worker's wins.
LEMMA WinsInductive ==
    ASSUME IInv, WinsInv, [Next]_vars
    PROVE  WinsInv'
<1>1. TypeOK /\ TypeOK' /\ Evolves
    BY NextSafe DEF IInv
\* A thread that is newly in the set was completed by this step.
<1>2. ASSUME NEW v \in Worker, NEW id \in CompletedBy(v)', id \notin CompletedBy(v)
      PROVE  \E t \in DOMAIN tasks' : \E i \in DOMAIN tasks'[t].threads :
                 /\ id = <<t, i>> /\ tasks'[t].threads[i].proposedBy = v
                 /\ \E w \in DOMAIN workers : SubmitSolution(w, t, i)
    <2>1. PICK t \in DOMAIN tasks' :
              id \in {<<t, i>> : i \in {j \in DOMAIN tasks'[t].threads :
                                           /\ tasks'[t].threads[j].completed
                                           /\ tasks'[t].threads[j].proposedBy = v}}
        BY <1>2 DEF CompletedBy
    <2>2. PICK i \in DOMAIN tasks'[t].threads :
              /\ tasks'[t].threads[i].completed /\ tasks'[t].threads[i].proposedBy = v
              /\ id = <<t, i>>
        BY <2>1
    <2>3. ThreadExists(t, i)'
        BY <2>2 DEF ThreadExists
    <2>4. ASSUME ThreadExists(t, i), tasks'[t].threads[i] = tasks[t].threads[i]
          PROVE  FALSE
        BY <1>2, <2>2, <2>4 DEF CompletedBy, ThreadExists
    <2> QED
        BY <2>2, <2>3, <2>4, StepCompletes
<1>3. CASE \E w \in DOMAIN workers : \E t \in DOMAIN tasks : \E i \in DOMAIN tasks[t].threads :
               SubmitSolution(w, t, i)
    <2>1. PICK w \in DOMAIN workers, t \in DOMAIN tasks : \E i \in DOMAIN tasks[t].threads :
              SubmitSolution(w, t, i)
        BY <1>3
    <2>2. PICK i \in DOMAIN tasks[t].threads : SubmitSolution(w, t, i)
        BY <2>1
    <2>3. ThreadExists(t, i) /\ w \in Worker /\ tasks \in [DOMAIN tasks -> Task]
        BY <1>1 DEF ThreadExists, TypeOK
    <2>4. /\ DOMAIN workers' = DOMAIN workers
          /\ workers'[w].solutions = workers[w].solutions + 1
          /\ \A v \in DOMAIN workers : v # w => workers'[v].solutions = workers[v].solutions
        BY <1>1, <2>2, <2>3, SubmissionPays
    <2>5. \A v \in DOMAIN workers : workers[v].solutions \in Nat
        BY <1>1 DEF TypeOK, WorkerRecord
    <2>6. tasks'[t].threads[i].proposedBy = w
        <3>1. Submitted(tasks[t].threads[i], tasks'[t].threads[i])
            BY <2>2, <2>3, SubmitSolutionEffect
        <3>2. tasks'[t].threads[i].proposedBy = tasks[t].threads[i].proposedBy
            BY <3>1 DEF Submitted, SameSolution
        <3> QED
            BY <2>2, <3>2 DEF SubmitSolution, SubmitSolutionOK
    \* Nothing else is written, so nothing else is completed.
    <2>7. ASSUME NEW v \in Worker, NEW id \in CompletedBy(v)', id \notin CompletedBy(v)
          PROVE  v = w /\ id = <<t, i>>
        <3>0. PICK u \in DOMAIN tasks' :
                  id \in {<<u, k>> : k \in {j \in DOMAIN tasks'[u].threads :
                                               /\ tasks'[u].threads[j].completed
                                               /\ tasks'[u].threads[j].proposedBy = v}}
            BY <2>7 DEF CompletedBy
        <3>1. PICK j \in DOMAIN tasks'[u].threads :
                  /\ id = <<u, j>>
                  /\ tasks'[u].threads[j].proposedBy = v /\ tasks'[u].threads[j].completed
            BY <3>0
        <3>2. PICK written \in Thread : tasks' = PutThread(t, i, written)
            BY <2>2, HandlerWrites DEF Handles
        <3>3. CASE u # t \/ j # i
            <4>1. ThreadExists(u, j) /\ tasks'[u].threads[j] = tasks[u].threads[j]
                BY <2>3, <3>1, <3>2, <3>3, PutThreadFacts DEF ThreadExists
            <4>2. id \in CompletedBy(v)
                BY <3>1, <4>1 DEF CompletedBy, ThreadExists
            <4> QED
                BY <2>7, <4>2
        <3>4. CASE u = t /\ j = i
            BY <2>6, <3>1, <3>4
        <3> QED
            BY <3>3, <3>4
    <2>8. ASSUME NEW v \in Worker, v # w
          PROVE  Wins(v)'
        <3>1. CompletedBy(v)' \subseteq CompletedBy(v)
            BY <2>7, <2>8
        <3>2. v \in DOMAIN workers => /\ v \in DOMAIN workers'
                                      /\ workers'[v].solutions >= workers[v].solutions
            BY <2>4, <2>5, <2>8
        <3> QED
            BY <1>1, <3>1, <3>2, WinsKept
    <2>9. Wins(w)'
        <3> DEFINE before == CompletedBy(w)
                   after == CompletedBy(w)'
                   all == before \cup {<<t, i>>}
        <3>1. after \subseteq all
            BY <2>3, <2>7
        <3>2. IsFiniteSet(before) /\ (before # {} => workers[w].solutions >= Cardinality(before))
            BY <2>3 DEF WinsInv, Wins
        <3>3. workers[w].solutions >= Cardinality(before) /\ Cardinality(before) \in Nat
            <4>1. CASE before = {}
                <5>1. Cardinality(before) = 0
                    BY <4>1, FS_EmptySet
                <5> QED
                    BY <2>5, <5>1
            <4>2. CASE before # {}
                BY <3>2, <4>2, FS_CardinalityType
            <4> QED
                BY <4>1, <4>2
        <3> HIDE DEF before, after
        <3>4. IsFiniteSet(all) /\ Cardinality(all) <= Cardinality(before) + 1 /\ Cardinality(all) \in Nat
            <4>1. IsFiniteSet(all) /\ (Cardinality(all) = Cardinality(before)
                                       \/ Cardinality(all) = Cardinality(before) + 1)
                BY <3>2, FS_AddElement
            <4> HIDE DEF all
            <4> QED
                BY <3>3, <4>1
        <3>5. IsFiniteSet(after) /\ Cardinality(after) <= Cardinality(all) /\ Cardinality(after) \in Nat
            BY <3>1, <3>4, FS_Subset, FS_CardinalityType
        <3>6. workers'[w].solutions >= Cardinality(after) /\ w \in DOMAIN workers'
            <4> HIDE DEF all
            <4> QED
                BY <2>4, <2>5, <3>3, <3>4, <3>5
        <3> QED
            BY <3>5, <3>6 DEF after, Wins
    <2> QED
        BY <2>8, <2>9 DEF WinsInv
<1>4. CASE ~\E w \in DOMAIN workers : \E t \in DOMAIN tasks : \E i \in DOMAIN tasks[t].threads :
               SubmitSolution(w, t, i)
    <2>1. ASSUME NEW v \in DOMAIN workers
          PROVE  v \in DOMAIN workers' /\ workers'[v].solutions = workers[v].solutions
        <3>1. CASE workers' = workers
            BY <3>1
        <3>2. ASSUME NEW w \in Worker, NEW stake \in Stake, AddWorker(w, stake)
              PROVE  v \in DOMAIN workers' /\ workers'[v].solutions = workers[v].solutions
            BY <3>2 DEF AddWorker, AddWorkerOK, Put
        <3>3. ASSUME NEW w \in DOMAIN workers, NEW t \in DOMAIN tasks,
                     NEW i \in DOMAIN tasks[t].threads, Handles(w, t, i)
              PROVE  v \in DOMAIN workers' /\ workers'[v].solutions = workers[v].solutions
            BY <1>1, <1>4, <3>3, OthersPayNothing
        <3> QED
            BY <3>1, <3>2, <3>3
            DEF Next, BeginBlock, EndBlock, Request, CreateVideoRenderingTask, Register,
                Transaction, Handles, vars
    <2>2. ASSUME NEW v \in Worker
          PROVE  Wins(v)'
        <3>1. CompletedBy(v)' \subseteq CompletedBy(v)
            <4>1. \A w \in DOMAIN workers : \A t, i :
                      SubmitSolution(w, t, i) => t \in DOMAIN tasks /\ i \in DOMAIN tasks[t].threads
                BY DEF SubmitSolution, SubmitSolutionOK, ThreadExists
            <4> SUFFICES ASSUME NEW id \in CompletedBy(v)', id \notin CompletedBy(v)
                         PROVE  FALSE
                OBVIOUS
            <4> QED
                BY <1>2, <1>4, <4>1
        <3>2. v \in DOMAIN workers => workers[v].solutions \in Nat
            BY <1>1 DEF TypeOK, WorkerRecord
        <3>3. v \in DOMAIN workers => /\ v \in DOMAIN workers'
                                      /\ workers'[v].solutions >= workers[v].solutions
            BY <2>1, <3>2
        <3> QED
            BY <1>1, <3>1, <3>3, WinsKept
    <2> QED
        BY <2>2 DEF WinsInv
<1> QED
    BY <1>3, <1>4

\* Each completed thread is recorded as a solution of its proposer.
THEOREM CompletionsAreWins == Spec => []WinsCoverCompletions
<1>1. Init => WinsInv
    <2> SUFFICES ASSUME Init, NEW w \in Worker
                 PROVE  Wins(w)
        BY DEF WinsInv
    <2>1. CompletedBy(w) = {}
        BY DEF Init, CompletedBy
    <2> QED
        BY <2>1, FS_EmptySet DEF Wins
<1>2. IInv /\ WinsInv /\ [Next]_vars => WinsInv'
    BY WinsInductive
<1>3. WinsInv => WinsCoverCompletions
    BY DEF WinsInv, Wins, WinsCoverCompletions
<1> QED
    BY Invariance, <1>1, <1>2, <1>3, PTL DEF Spec


=============================================================================
