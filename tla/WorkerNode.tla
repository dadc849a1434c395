------------------------------ MODULE WorkerNode ------------------------------
(***************************************************************************)
(* One node that renders, of worker Me, beside the chain: what BeginBlock  *)
(* and EndBlock of module/module.go start on it, the goroutines they start *)
(* (StartWork, ProposeSolution, SubmitVerification, RevealSolution,        *)
(* SubmitSolution, SubscribeWorkerToTask, RegisterWorker), its local       *)
(* database, the containers of docker and the transaction it has sent.     *)
(* The other workers may send anything that VideoRendering lets them send. *)
(*                                                                         *)
(* A goroutine is interrupted between any two of its writes to the         *)
(* database, calls of docker and calls of the command line client, but     *)
(* that looking for a container and starting it, and the calls on one that *)
(* is over, are taken together.  A block handler is one step.              *)
(*                                                                         *)
(* X_... is a wrong version of definition X, as in VideoRendering.         *)
(***************************************************************************)
EXTENDS VideoRendering, Bags

CONSTANTS
    Me,             \* Configuration.WorkerAddress of the node
    MinReward,      \* Configuration.MinReward
    FrameFile,      \* the name of the file of each frame, FormatFrameFilename
    Rendering,      \* the hash of a frame that was rendered
    Faults,         \* what may fail: see Fault
    \* Bounds on the goroutines that a block finds: all, and those that do not
    \* wait for a download or a container but lag behind.
    MaxGoroutines, MaxLagging

\* Docker, the download or upload, the client, the keyring, the delivery of a
\* broadcast transaction, the process of the node.
Fault == {"docker", "ipfs", "cli", "keyring", "delivery", "restart"}

ASSUME NodeAssumption ==
    /\ Me \in Worker
    /\ MinReward \in Nat
    /\ Rendering \in Hash
    /\ \A n \in DOMAIN FrameFile : FrameFile[n] \in File
    /\ \A m, n \in DOMAIN FrameFile : FrameFile[m] = FrameFile[n] => m = n
    /\ Faults \subseteq Fault
    /\ MaxGoroutines \in Nat /\ MaxLagging \in Nat

\* The messages that VideoRendering lets workers send include those of the node,
\* and FrameFile names the frames of every thread.
ASSUME NodeInputAssumption ==
    /\ MinWorkerStaking \in Stake
    /\ \A S \in (SUBSET File) \ {{}} : [name \in S |-> Rendering] \in SignedInput
    /\ \A spec \in TaskSpec : \A i \in 1 .. spec.threads :
           NewThread(spec, i).startFrame .. NewThread(spec, i).endFrame \subseteq DOMAIN FrameFile

VARIABLES
    registered,     \* the node's row of the table workers
    subscriptions,  \* table tasks: for a task the one thread that has a row
    flags,          \* table threads: the columns that are true
    entries,        \* whether the directory of the thread has anything in it
    files,          \* the frames in the directory output of the thread
    container,      \* the container of each thread that has one
    goroutines,     \* a bag: two goroutines may be at the same point
    pending         \* the node's transaction in the mempool, if any

localVars == <<registered, subscriptions, flags, entries, files, container>>
nodeVars == <<localVars, goroutines, pending>>

-----------------------------------------------------------------------------
ThreadId == UNION {{<<t, i>> : i \in 1 .. spec.threads} : t \in 1 .. MaxTasks, spec \in TaskSpec}

NoThread == <<EmptyId, 1>>

ThreadOf(id) == tasks[id[1]].threads[id[2]]

ThreadIds == UNION {{<<t, i>> : i \in DOMAIN tasks[t].threads} : t \in DOMAIN tasks}

\* What UpdateThread writes, all eight columns at once, by where it is called.
Starting == {"workStarted"}
Downloading == {"downloadStarted", "workStarted"}
Downloaded == {"downloadStarted", "downloadCompleted", "workStarted"}
Failed == {"downloadStarted", "downloadCompleted"}
Rendered == Downloaded \cup {"workCompleted"}
Proposed == Rendered \cup {"solutionProposed"}
Verifying == Proposed \cup {"verificationStarted"}
Shown == Verifying \cup {"solutionRevealed"}
Submitting == Shown \cup {"submitionStarted"}

UpdateThread(id, columns) == flags' = [flags EXCEPT ![id] = columns]

Routine(f, id) == [does |-> f, id |-> id, pc |-> "start", left |-> <<>>]

Returns(g) == goroutines' = goroutines (-) SetToBag({g})

Becomes(g, h) == goroutines' = goroutines (-) SetToBag({g}) (+) SetToBag({h})

GoesTo(g, pc) == Becomes(g, [g EXCEPT !.pc = pc])

Starts(new) == goroutines' = goroutines (+) SetToBag(new)

-----------------------------------------------------------------------------
(***************************************************************************)
(* Transactions.  ExecuteCli (--gas auto) simulates the transaction on the *)
(* committed state, that between two blocks, and fails when the simulation *)
(* does or when an earlier transaction of the account waits in the         *)
(* mempool, since both have the same sequence number.                      *)
(***************************************************************************)
Tx(msg, id, data) == [msg |-> msg, id |-> id, data |-> data]

TxOK(tx) ==
    LET t == tx.id[1]
        i == tx.id[2]
    IN  \/ tx.msg = "AddWorker" /\ AddWorkerOK(Me, MinWorkerStaking)
        \/ tx.msg = "SubscribeWorkerToTask" /\ SubscribeWorkerToTaskOK(Me, t, i)
        \/ tx.msg = "ProposeSolution" /\ ProposeSolutionOK(Me, t, i, tx.data)
        \/ tx.msg = "RevealSolution" /\ RevealSolutionOK(Me, t, i, tx.data)
        \/ tx.msg = "SubmitValidation" /\ SubmitValidationOK(Me, t, i)
        \/ tx.msg = "SubmitSolution" /\ SubmitSolutionOK(Me, t, i)

\* The bounds of Next; a transaction of the node that exceeds them is refused.
WithinBounds(tx) ==
    /\ tx.msg = "SubmitValidation" => Len(ThreadOf(tx.id).validations) < MaxValidations
    /\ tx.msg = "SubmitSolution" => workers[Me].solutions < MaxWins

Execute(tx) ==
    LET t == tx.id[1]
        i == tx.id[2]
    IN  \/ /\ WithinBounds(tx)
           /\ \/ tx.msg = "AddWorker" /\ AddWorker(Me, MinWorkerStaking)
              \/ tx.msg = "SubscribeWorkerToTask" /\ SubscribeWorkerToTask(Me, t, i)
              \/ tx.msg = "ProposeSolution" /\ ProposeSolution(Me, t, i, tx.data)
              \/ tx.msg = "RevealSolution" /\ RevealSolution(Me, t, i, tx.data)
              \/ tx.msg = "SubmitValidation" /\ SubmitValidation(Me, t, i, tx.data)
              \/ tx.msg = "SubmitSolution" /\ SubmitSolution(Me, t, i)
        \/ /\ phase = "deliver"
           /\ ~TxOK(tx) \/ ~WithinBounds(tx)
           /\ UNCHANGED vars

CliSucceeds(tx) ==
    /\ phase = "begin" /\ pending = {} /\ TxOK(tx)
    /\ pending' = {tx}

CliFails(tx) ==
    /\ phase = "begin"
    /\ pending # {} \/ ~TxOK(tx) \/ "cli" \in Faults
    /\ UNCHANGED pending

-----------------------------------------------------------------------------
(***************************************************************************)
(* StartWork, with RenderVideo and renderVideoFrame.                       *)
(***************************************************************************)
FrameTotal(thread) == thread.endFrame - thread.startFrame + 1

FramesOf(thread) == thread.startFrame .. thread.endFrame

\* Every second worker of a thread renders from the last frame to the first.
IsReverse(thread) == \E k \in DOMAIN thread.workers : thread.workers[k] = Me /\ k % 2 = 0

RenderOrder_OffByOne(thread) ==
    [k \in 1 .. FrameTotal(thread) |->
        IF IsReverse(thread) THEN thread.endFrame - k ELSE thread.startFrame + k]

RenderOrder(thread) ==
    [k \in 1 .. FrameTotal(thread) |->
        IF IsReverse(thread) THEN thread.endFrame - k + 1 ELSE thread.startFrame + k - 1]

IsContainerRunning(id) == id \in DOMAIN container /\ ~container[id].exited

IsContainerExited(id) == id \in DOMAIN container /\ container[id].exited

\* docker rm leaves a container alone that runs.
RemoveContainer(id) ==
    \/ container' = [c \in {d \in DOMAIN container : d # id \/ ~container[d].exited} |-> container[c]]
    \/ "docker" \in Faults /\ UNCHANGED container

\* The directory output of the thread has a file for each of its frames.
AllRendered(id) == Cardinality(files[id]) = FrameTotal(ThreadOf(id))

\* A download that fails may leave something in the directory.
IPFSGet(g) ==
    /\ g.pc = "get"
    /\ \/ /\ UpdateThread(g.id, Downloaded)
          /\ entries' = [entries EXCEPT ![g.id] = TRUE]
          /\ Becomes(g, [g EXCEPT !.pc = "render", !.left = RenderOrder(ThreadOf(g.id))])
       \/ /\ "ipfs" \in Faults
          /\ UpdateThread(g.id, Downloading)
          /\ \E some \in BOOLEAN : entries' = [entries EXCEPT ![g.id] = @ \/ some]
          /\ Returns(g)

IsDownloadStarted(id) == entries[id]

\* When the container runs already the goroutine has nothing to do, but for what it
\* has written to the database.
StartWork(g) ==
    /\ g.does = "StartWork"
    /\ \/ /\ g.pc = "start"
          /\ UpdateThread(g.id, Starting)
          /\ GoesTo(g, "check")
          /\ UNCHANGED <<entries, container>>
       \/ /\ g.pc = "check"
          /\ IsContainerRunning(g.id)
          /\ Returns(g)
          /\ UNCHANGED <<flags, entries, container>>
       \/ /\ g.pc = "check"
          /\ ~IsContainerRunning(g.id) \/ "docker" \in Faults
          /\ RemoveContainer(g.id)
          /\ GoesTo(g, "download")
          /\ UNCHANGED <<flags, entries>>
       \/ /\ g.pc = "download"
          /\ UpdateThread(g.id, Downloading)
          /\ GoesTo(g, "get")
          /\ UNCHANGED <<entries, container>>
       \/ IPFSGet(g) /\ UNCHANGED container
       \/ /\ g.pc = "render" /\ g.left = <<>>
          /\ UpdateThread(g.id, IF AllRendered(g.id) THEN Rendered ELSE Failed)
          /\ Returns(g)
          /\ UNCHANGED <<entries, container>>
    /\ UNCHANGED <<files, pending>>

\* A frame is passed over when the container exists or docker fails, and tried
\* again, without end, when the container is over and left no file.
RenderFrame(g) ==
    LET passedOver == Becomes(g, [g EXCEPT !.pc = "render", !.left = Tail(@)])
    IN  /\ g.does = "StartWork" /\ g.left # <<>>
        /\ \/ /\ g.pc = "render"
              /\ g.id \in DOMAIN container \/ "docker" \in Faults
              /\ passedOver
              /\ UNCHANGED container
           \/ /\ g.pc = "render"
              /\ g.id \notin DOMAIN container
              /\ container' = Put(container, g.id, [frame |-> Head(g.left), exited |-> FALSE])
              /\ GoesTo(g, "wait")
           \/ /\ g.pc = "wait"
              /\ g.id \notin DOMAIN container \/ "docker" \in Faults
              /\ passedOver
              /\ UNCHANGED container
           \/ /\ g.pc = "wait"
              /\ IsContainerExited(g.id)
              /\ RemoveContainer(g.id)
              /\ IF Head(g.left) \in files[g.id] THEN passedOver ELSE GoesTo(g, "render")
        /\ UNCHANGED <<flags, entries, files, pending>>

ContainerExits(id) ==
    /\ IsContainerRunning(id)
    /\ container' = [container EXCEPT ![id].exited = TRUE]
    /\ \/ files' = [files EXCEPT ![id] = @ \cup {container[id].frame}]
       \/ "docker" \in Faults /\ UNCHANGED files
    /\ UNCHANGED <<flags, entries, goroutines, pending>>

-----------------------------------------------------------------------------
(***************************************************************************)
(* The goroutines that send a transaction.                                 *)
(***************************************************************************)
FileNames(id) == {FrameFile[n] : n \in files[id]}

\* A file per entry, in the order of a Go map: any.
Listings(id) ==
    {names \in [1 .. Cardinality(files[id]) -> FileNames(id)] : Elements(names) = FileNames(id)}

Hashes(id) == [name \in FileNames(id) |-> Rendering]

\* When the client fails the columns stay as they are.
ThreadProposeSolution(g) ==
    /\ g.does = "ProposeSolution"
    /\ \/ /\ g.pc = "start"
          /\ UpdateThread(g.id, Proposed)
          /\ GoesTo(g, "send")
          /\ UNCHANGED pending
       \/ /\ g.pc = "send"
          /\ ~AllRendered(g.id) \/ "keyring" \in Faults
          /\ UpdateThread(g.id, Rendered)
          /\ Returns(g)
          /\ UNCHANGED pending
       \/ /\ g.pc = "send" /\ AllRendered(g.id)
          /\ \E names \in Listings(g.id) :
                 LET tx == Tx("ProposeSolution", g.id, names)
                 IN  CliSucceeds(tx) \/ CliFails(tx)
          /\ Returns(g)
          /\ UNCHANGED flags

\* More than a fifth of the frames but one.
EnoughFiles(id) ==
    /\ files[id] # {}
    /\ 5 * Cardinality(files[id]) > FrameTotal(ThreadOf(id)) - 1

SubmitVerification(g) ==
    LET tx == Tx("SubmitValidation", g.id, Hashes(g.id))
    IN  /\ g.does = "SubmitVerification"
        /\ \/ /\ g.pc = "start"
              /\ UpdateThread(g.id, Verifying)
              /\ GoesTo(g, "send")
              /\ UNCHANGED pending
           \/ /\ g.pc = "send" /\ EnoughFiles(g.id)
              /\ CliSucceeds(tx)
              /\ Returns(g)
              /\ UNCHANGED flags
           \/ /\ g.pc = "send"
              /\ \/ (~EnoughFiles(g.id) \/ "keyring" \in Faults) /\ UNCHANGED pending
                 \/ EnoughFiles(g.id) /\ CliFails(tx)
              /\ UpdateThread(g.id, Proposed)
              /\ Returns(g)

\* The columns are written after the transaction is sent, by then maybe long
\* after the thread has moved on.
ThreadRevealSolution(g) ==
    LET tx == Tx("RevealSolution", g.id, Hashes(g.id))
    IN  /\ g.does = "RevealSolution"
        /\ \/ /\ g.pc = "start"
              /\ CliSucceeds(tx)
              /\ GoesTo(g, "sent")
              /\ UNCHANGED flags
           \/ /\ g.pc = "start"
              /\ CliFails(tx) \/ ("ipfs" \in Faults /\ UNCHANGED pending)
              /\ Returns(g)
              /\ UNCHANGED flags
           \/ /\ g.pc = "sent"
              /\ UpdateThread(g.id, Shown)
              /\ Returns(g)
              /\ UNCHANGED pending

ThreadSubmitSolution(g) ==
    LET tx == Tx("SubmitSolution", g.id, <<>>)
    IN  /\ g.does = "SubmitSolution"
        /\ \/ /\ g.pc = "start"
              /\ UpdateThread(g.id, Submitting)
              /\ GoesTo(g, "send")
              /\ UNCHANGED pending
           \/ /\ g.pc = "send"
              /\ CliSucceeds(tx)
              /\ Returns(g)
              /\ UNCHANGED flags
           \/ /\ g.pc = "send"
              /\ CliFails(tx) \/ ("ipfs" \in Faults /\ UNCHANGED pending)
              /\ UpdateThread(g.id, Shown)
              /\ Returns(g)

SubscribeWorker(g) ==
    LET tx == Tx("SubscribeWorkerToTask", g.id, <<>>)
        t == g.id[1]
    IN  /\ g.does = "SubscribeWorkerToTask"
        /\ Returns(g)
        /\ \/ CliSucceeds(tx) /\ UNCHANGED subscriptions
           \/ /\ CliFails(tx)
              /\ subscriptions' = IF subscriptions[t].thread = g.id[2]
                                  THEN [subscriptions EXCEPT ![t].subscribed = FALSE]
                                  ELSE subscriptions
        /\ UNCHANGED registered

RegisterWorker(g) ==
    LET tx == Tx("AddWorker", g.id, <<>>)
    IN  /\ g.does = "RegisterWorker"
        /\ \/ /\ g.pc = "start"
              /\ registered' = TRUE
              /\ GoesTo(g, "send")
              /\ UNCHANGED pending
           \/ /\ g.pc = "send"
              /\ \/ CliSucceeds(tx) /\ UNCHANGED registered
                 \/ CliFails(tx) /\ registered' = FALSE
              /\ Returns(g)
        /\ UNCHANGED subscriptions

-----------------------------------------------------------------------------
(***************************************************************************)
(* What the blocks start on the node.                                      *)
(***************************************************************************)
\* The download has not started.
Fresh(id) == ~ThreadOf(id).completed /\ "downloadStarted" \notin flags[id]

\* Work starts again when docker answers that the container has exited.
WorkDue(id, answers) ==
    Fresh(id) \/ ("workStarted" \in flags[id] /\ answers /\ IsContainerExited(id))

ResetDue(id) == ~Fresh(id) /\ "downloadCompleted" \notin flags[id] /\ ~IsDownloadStarted(id)

ProposalDue(id) ==
    /\ ThreadOf(id).proposedBy = NoWorker
    /\ "workCompleted" \in flags[id] /\ "solutionProposed" \notin flags[id]

VerificationDue(id) ==
    ThreadOf(id).proposedBy # NoWorker /\ "verificationStarted" \notin flags[id]

SubmissionDue_NotAccepted(id) ==
    LET thread == Walked(tasks[id[1]]).threads[id[2]]
    IN  /\ ~tasks[id[1]].completed
        /\ ~thread.completed /\ thread.proposedBy = Me
        /\ "submitionStarted" \notin flags[id]

\* Looked at in the walk that has just judged the thread.
SubmissionDue(id) ==
    LET thread == Walked(tasks[id[1]]).threads[id[2]]
    IN  /\ ~tasks[id[1]].completed
        /\ thread.accepted /\ ~thread.completed /\ thread.proposedBy = Me
        /\ "submitionStarted" \notin flags[id]

RevealDue(id) ==
    LET thread == ThreadOf(id)
    IN  /\ ~tasks[id[1]].completed
        /\ thread.validations # <<>> /\ EnoughValidations(thread)
        /\ ~thread.completed /\ thread.proposedBy = Me
        /\ "solutionRevealed" \notin flags[id]

\* The thread at which the worker of the node is, if any.
Current ==
    {<<workers[w].task, workers[w].thread>> : w \in {v \in {Me} \cap DOMAIN workers :
                                                        workers[v].task # EmptyId}}

GoroutinesWithinBounds ==
    LET waits(g) == g.pc = "get" \/ (g.pc = "wait" /\ IsContainerRunning(g.id))
        lagging == {g \in BagToSet(goroutines) : ~waits(g)}
    IN  /\ BagCardinality(goroutines) <= MaxGoroutines
        /\ BagCardinality([g \in lagging |-> goroutines[g]]) <= MaxLagging

NodeBeginBlock_EarlyReturn ==
    /\ GoroutinesWithinBounds
    /\ \/ Current = {} /\ BeginBlock
       \/ /\ Current # {} /\ phase = "begin" /\ phase' = "deliver"
          /\ UNCHANGED <<nextId, tasks, workers, minValidators, bank>>
    /\ Starts({Routine("StartWork", id) : id \in {c \in Current : WorkDue(c, TRUE)}}
              \cup {Routine("ProposeSolution", id) : id \in {c \in Current : ProposalDue(c)}}
              \cup {Routine("SubmitVerification", id) : id \in {c \in Current : VerificationDue(c)}})
    /\ UNCHANGED <<localVars, pending>>

NodeBeginBlock ==
    \E answers \in {TRUE, "docker" \notin Faults} :
        /\ GoroutinesWithinBounds
        /\ BeginBlock
        /\ flags' = [id \in DOMAIN flags |-> IF id \in Current /\ ResetDue(id) THEN {} ELSE flags[id]]
        /\ Starts({Routine("StartWork", id) : id \in {c \in Current : WorkDue(c, answers)}}
                  \cup {Routine("ProposeSolution", id) : id \in {c \in Current : ProposalDue(c)}}
                  \cup {Routine("SubmitVerification", id) : id \in {c \in Current : VerificationDue(c)}}
                  \cup {Routine("SubmitSolution", id) : id \in {c \in ThreadIds : SubmissionDue(c)}})
        /\ UNCHANGED <<registered, subscriptions, entries, files, container, pending>>

HasRoom(thread) == ~thread.completed /\ Len(thread.workers) < MaxWorkersPerThread

\* getPendingVideoRenderingTask: the first task with room, whoever is on it.
PendingTask ==
    LET open == {t \in DOMAIN tasks : /\ ~tasks[t].completed
                                      /\ tasks[t].reward >= MinReward
                                      /\ \E i \in DOMAIN tasks[t].threads : HasRoom(tasks[t].threads[i])}
    IN  {t \in open : \A u \in open : t <= u}

WorkerSubscribed_AnyThread(t, i) ==
    t \in DOMAIN subscriptions /\ subscriptions[t].subscribed

WorkerSubscribed(t, i) ==
    t \in DOMAIN subscriptions /\ subscriptions[t] = [thread |-> i, subscribed |-> TRUE]

\* The threads of task t that the loop does not pass over; it takes the first.
Candidates(t) ==
    {i \in DOMAIN tasks[t].threads :
        /\ HasRoom(tasks[t].threads[i])
        /\ Me \notin Elements(tasks[t].threads[i].workers)
        /\ ~WorkerSubscribed(t, i)}

\* The thread that an idle worker is to join.
NextThread ==
    IF Me \in DOMAIN workers /\ workers[Me].task = EmptyId
    THEN UNION {{<<t, i>> : i \in {j \in Candidates(t) : \A k \in Candidates(t) : j <= k}}
                : t \in PendingTask}
    ELSE {}

\* ReadTask inserts a row unless the task has one, of this or of another thread;
\* UpdateTask writes to no other thread's row.
Recorded(t, i) ==
    IF t \in DOMAIN subscriptions /\ subscriptions[t].thread # i
    THEN subscriptions
    ELSE Put(subscriptions, t, [thread |-> i, subscribed |-> TRUE])

NodeEndBlock ==
    /\ EndBlock
    /\ IF NextThread = {} THEN UNCHANGED subscriptions
       ELSE \E id \in NextThread : subscriptions' = Recorded(id[1], id[2])
    /\ Starts({Routine("RegisterWorker", NoThread) :
                   n \in {r \in {registered} : Me \notin DOMAIN workers /\ ~r}}
              \cup {Routine("SubscribeWorkerToTask", id) : id \in NextThread}
              \cup {Routine("RevealSolution", id) : id \in {c \in ThreadIds : RevealDue(c)}})
    /\ UNCHANGED <<registered, flags, entries, files, container, pending>>

-----------------------------------------------------------------------------
NodeInit ==
    /\ Init
    /\ registered = FALSE
    /\ subscriptions = [t \in {} |-> 0]
    /\ flags = [id \in ThreadId |-> {}]
    /\ entries = [id \in ThreadId |-> FALSE]
    /\ files = [id \in ThreadId |-> {}]
    /\ container = [id \in {} |-> 0]
    /\ goroutines = EmptyBag
    /\ pending = {}

\* A goroutine that runs does nothing to the chain.
Runs(g) ==
    \/ StartWork(g) /\ UNCHANGED <<registered, subscriptions>>
    \/ RenderFrame(g) /\ UNCHANGED <<registered, subscriptions>>
    \/ /\ ThreadProposeSolution(g) \/ SubmitVerification(g) \/ ThreadRevealSolution(g) \/ ThreadSubmitSolution(g)
       /\ UNCHANGED <<registered, subscriptions, entries, files, container>>
    \/ /\ SubscribeWorker(g) \/ RegisterWorker(g)
       /\ UNCHANGED <<flags, entries, files, container>>

Function == {"StartWork", "ProposeSolution", "SubmitVerification", "RevealSolution",
             "SubmitSolution", "SubscribeWorkerToTask", "RegisterWorker"}

RunFunction(f) == \E g \in BagToSet(goroutines) : g.does = f /\ Runs(g) /\ UNCHANGED vars

RunGoroutine == \E f \in Function : RunFunction(f)

Docker == \E id \in DOMAIN container :
              ContainerExits(id) /\ UNCHANGED <<vars, registered, subscriptions>>

\* A transaction is executed in a block, whatever has become of its thread.
Deliver ==
    \E tx \in pending :
        /\ Execute(tx)
        /\ pending' = {}
        /\ UNCHANGED <<localVars, goroutines>>

LoseTransaction ==
    /\ "delivery" \in Faults
    /\ pending # {}
    /\ pending' = {}
    /\ UNCHANGED <<vars, localVars, goroutines>>

\* The process ends, its goroutines with it; containers and tables stay.
Restart ==
    /\ "restart" \in Faults
    /\ goroutines # EmptyBag
    /\ goroutines' = EmptyBag
    /\ UNCHANGED <<vars, localVars, pending>>

Others ==
    /\ \/ Request
       \/ \E w \in Worker \ {Me} : Register(w)
       \/ \E w \in DOMAIN workers \ {Me} : Transaction(w)
    /\ UNCHANGED nodeVars

NodeNext ==
    \/ NodeBeginBlock
    \/ NodeEndBlock
    \/ RunGoroutine
    \/ Docker
    \/ Deliver
    \/ LoseTransaction
    \/ Restart
    \/ Others

allVars == <<vars, nodeVars>>

NodeSpec == NodeInit /\ [][NodeNext]_allVars

-----------------------------------------------------------------------------
\* Blocks are produced, the scheduler runs goroutines, containers end, and a
\* transaction of the mempool gets into a block.  Goroutines are strongly fair, as
\* sending has to wait for the end of a block; nothing is assumed of which one runs.
NodeFairness ==
    /\ WF_allVars(NodeBeginBlock) /\ WF_allVars(NodeEndBlock)
    /\ WF_allVars(Docker)
    /\ SF_allVars(Deliver)
    /\ SF_allVars(RunGoroutine)

FairNodeSpec == NodeSpec /\ NodeFairness

-----------------------------------------------------------------------------
(***************************************************************************)
(* Properties.                                                             *)
(***************************************************************************)
Goroutine ==
    [does : Function, id : ThreadId \cup {NoThread}, left : Seq(Int),
     pc : {"start", "check", "download", "get", "render", "wait", "send", "sent"}]

\* The tables, directories and containers of the node are those of its threads,
\* and the frames in a directory are frames of its thread.
NodeTypeOK ==
    /\ registered \in BOOLEAN
    /\ \A t \in DOMAIN subscriptions : subscriptions[t] \in [thread : Nat, subscribed : BOOLEAN]
    /\ flags \in [ThreadId -> SUBSET Submitting]
    /\ entries \in [ThreadId -> BOOLEAN]
    /\ DOMAIN files = ThreadId
    /\ \A id \in ThreadIds : files[id] \subseteq FramesOf(ThreadOf(id))
    /\ DOMAIN container \subseteq ThreadId
    /\ BagToSet(goroutines) \subseteq Goroutine
    /\ Cardinality(pending) <= 1

\* A thread that the node proposed is completed only when its solution has been
\* accepted, although the chain's SubmitSolution does not ask for that: the check
\* in BeginBlock outlives the goroutine, the client and the delivery.
NodeSubmitsAccepted ==
    \A id \in ThreadIds :
        ThreadOf(id).completed /\ ThreadOf(id).proposedBy = Me => ThreadOf(id).accepted

\* However the goroutines overwrite each other's columns, a column that says that
\* the node takes part in a later stage of a thread is true only when the chain has
\* reached that stage, and only the proposer reveals and submits.
FlagsFollowChain ==
    \A id \in ThreadIds :
        LET thread == ThreadOf(id)
        IN  /\ "verificationStarted" \in flags[id] => thread.proposedBy # NoWorker
            /\ "solutionRevealed" \in flags[id] => thread.validations # <<>> /\ thread.proposedBy = Me
            /\ "submitionStarted" \in flags[id] => thread.accepted /\ thread.proposedBy = Me

\* What the node proposes is one file for each frame of the thread, each once, so
\* that it can be revealed: the chain compares the number of the names alone.
ProposalIsWhole ==
    \A id \in ThreadIds :
        ThreadOf(id).proposedBy = Me =>
            Names(id[1], id[2]) = {FrameFile[n] : n \in FramesOf(ThreadOf(id))}

\* With blocks far enough apart, and nothing failing, every thread that is created
\* gets subscribed to, rendered, proposed, validated, revealed, accepted, submitted
\* and completed by the node alone.
TaskGetsDone ==
    \A id \in ThreadId : id \in ThreadIds ~> (id \in ThreadIds /\ ThreadOf(id).completed)

=============================================================================
