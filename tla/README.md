# Janction video rendering: models and proofs

The repository is a Cosmos SDK module. Requesters put a Blender file on IPFS and
create a *task* for a range of its frames; the task is split into *threads*;
*workers* subscribe to threads, render, and settle in a commit-and-reveal protocol
who rendered what. This directory holds TLA+ models of it, their TLC runs, and
proofs checked by TLAPS. Paths below are relative to the repository.

## 1. The system

### Components

| Component | State | Operations | Modelled |
|---|---|---|---|
| Message handlers, `keeper/msg_server.go` | tasks, workers, next id, parameters, balances (all in the store of the chain) | CreateVideoRenderingTask, AddWorker, SubscribeWorkerToTask, ProposeSolution, RevealSolution, SubmitValidation, SubmitSolution | `VideoRendering`: all |
| Block boundaries, `module/module.go` | the same store, and the node's database | BeginBlock: MinValidators, start or restart work, propose, validate, judge revealed solutions, submit. EndBlock: register, subscribe, reveal, complete tasks, connect IPFS | `VideoRendering`: what they write to the store; `WorkerNode`: what they start on a node, but for connecting IPFS |
| Tasks, `VideoRenderingTask.go` | none of their own | GenerateThreads, splitFrames, rewards; sends the subscription | `Frames`, `FrameSplit`, `VideoRendering`; the sending in `WorkerNode` |
| Threads, `VideoRenderingThread.go` | none of their own | EvaluateVerifications, IsSolutionAccepted; the goroutines StartWork, ProposeSolution, SubmitVerification, RevealSolution, SubmitSolution of a node | `VideoRendering`; the goroutines in `WorkerNode` |
| Workers, `Worker.go` | none of their own | DeclareWinner, ReleaseValidator; sends the registration | `VideoRendering`, `WorkerNode` |
| Local database, `db/database.go` | one row of eight flags per thread, one of subscription per task, registered workers, logs | reads and writes by row | `WorkerNode`, but for logs and IPFS peers |
| `utils.go` | none | ExecuteCli, hashes of files, encoding of messages | `VideoRendering`, `WorkerNode` |
| `vm/docker.go`, `ipfs/ipfs.go` | containers, files, the IPFS daemon | render, download, upload | `WorkerNode`, with their failures; not the daemon |
| `crypto/` | keyring | sign, verify, encode | what a signature is valid for |
| genesis, params, keys, errors | | | `Init` and constants; not the export |
| Command line, `module/autocli.go` | none | puts the arguments of a command into fields of a message | `CommandLine`: the commands that a node runs |
| Generated codecs, `*.pb.go` and `api/v1/*.pulsar.go` | unknown fields of a message | Size, Marshal, Unmarshal; the reflection of pulsar | `Codec` and its tables: all messages but the module's own configuration |
| queries, depinject, configuration, logger, mocks, `zkp/`, gateway and service stubs | | | no: reads, tables, I/O, test doubles, a circuit that nothing calls |

### How they interact

Every validator of the chain runs the handlers, BeginBlock and EndBlock on the same
sequence of transactions: that part is one sequential process, with the order of
delivery as its only choice. A node that is also a worker runs, from the same
BeginBlock and EndBlock, goroutines that render in docker, write flags to the local
database and send transactions by executing the chain's own command line. So a
node reads the chain of block *n*, decides, and its transaction arrives at block
*n + k*, or never. The flags say "sent", not "delivered".

On the way to the chain a message passes through two codecs. The command line builds it by
the reflection of the pulsar types and writes it with them, the SDK finds its signers in the
same way, and the handlers and the store read and write it with the gogo types. Neither
codec knows of the other.

The life of a thread: workers **subscribe** (at most `MaxWorkersPerThread`); the
first to finish **proposes** file names with signatures of the hashes; the others,
and the proposer, send **validations**, signatures of the hashes they computed; with
enough validations the proposer **reveals** cids and hashes; BeginBlock checks every
signature against the revealed hashes, counts, and **accepts**; the proposer uploads
and **submits**, which pays him, completes the thread and releases who is left.

### What is hard, and what makes it correct

- *Pointers and membership.* A worker's `CurrentTaskId` and `CurrentThreadIndex` are
  written by four handlers and used unchecked as an index by two. Correct: a busy
  worker points at an existing, uncompleted thread that lists him.
- *Order of messages.* Proposals, reveals and validations may come in any order and
  again. Correct: a nil solution is never read in EndBlock, a proposal never replaced,
  a reveal whole or absent, an accepted solution final, a completed thread untouched.
- *Counts across threads.* Judging one thread writes back the whole task. Correct:
  votes are counted no more often than that explains.
- *Money.* Two of three bank errors are dropped. Correct: balances stay natural, and
  coins leave the module only for recorded wins.
- *Progress.* Completed threads must complete their task.
- *Splitting.* The ranges of the threads partition the frames of the task.
- *The node.* Flags are written by concurrent goroutines, all eight at once, and whoever is
  last wins; a goroutine may be several blocks behind; a restart falls between a flag and
  its transaction; retries may never come. Correct: the flags never run ahead of the chain,
  nothing is submitted before it is accepted, what is proposed can be revealed, and a node
  that is left alone gets its tasks done.

- *Two codecs.* They have 35 messages in common, and each field of them comes up in Size,
  Marshal, Unmarshal and nine functions of the reflection. Correct: what one writes the
  other reads, whatever the order of the fields; both refuse the same bytes; and an argument
  of a command arrives in the field it was meant for.

`PROJECT.json` lists each hazard at its line, with the properties that watch it.

## 2. The modules

| Module | Content |
|---|---|
| `Frames` | the frames of each thread, in closed form, with Go's division |
| `VideoRendering` | the chain: state, handlers, block boundaries, properties |
| `MCVideoRendering` | instances for TLC, and what comments of the code claim |
| `VideoRenderingProofs` | facts about the operators, type correctness |
| `VideoRenderingSafety` | the inductive invariant and what follows from it |
| `VideoRenderingHistory` | completion of tasks and single validations, each with an invariant of its own on top of that one |
| `VideoRenderingAccounts` | acceptances, counts of votes, coins and wins, each with an invariant of its own |
| `WorkerNode` | a node that renders: its database, goroutines, containers and transaction, composed with `VideoRendering` |
| `MCWorkerNode` | instances for TLC, and what comments of the code claim of a node |
| `WorkerNodeProofs` | a node implements the chain, and what it holds agrees with the chain |
| `ThreadLifecycle` | what the chain promises of threads and workers, without blocks, tasks, frames, hashes and coins |
| `VideoRenderingLifecycle` | the chain as that specification sees it: the refinement mapping |
| `VideoRenderingLifecycleProofs` | reveals are whole, and the chain implements `ThreadLifecycle` |
| `FrameSplit` | the loop of `splitFrames`, one step per iteration |
| `MCFrameSplit` | its instance for TLC |
| `FrameSplitProofs` | the loop computes the closed form, which partitions the frames |
| `Codec` | how a message is built, written and read, given what each generated function knows of it |
| `GogoTypes`, `GogoTx`, `GogoQuery`, `PulsarTypes`, `PulsarTx`, `PulsarQuery` | what they know: a table for each function and message |
| `CommandLine` | the arguments that a node passes, and the fields that commands put them in |
| `MCCodec` | all messages, with the tables of both codecs, for TLC |
| `CodecProofs` | given tables that agree: pulsar reads what gogo reads of any bytes, sizes are right, what is written is read, arguments arrive |

### VideoRendering

State, against the code:

| Variable | Code |
|---|---|
| `nextId` | `VideoRenderingTaskInfo.NextId` |
| `tasks` | `VideoRenderingTasks`, a function on the stored ids; ids are numbers, 0 is `""` |
| `workers` | `Workers`; `task`, `thread`, `staked`, `solutions`, `winnings` of each |
| `minValidators` | `Params.MinValidators` |
| `bank` | the balances of workers, requesters and the module in the one coin used |
| `phase` | "begin" before BeginBlock, "deliver" until EndBlock |

Each handler is an action of its name. A message that the code refuses, or on which
it panics on a nil pointer or an index, is reverted by the SDK and thus a step that
changes nothing; the conditions for the opposite are the operator `...OK`. `BeginBlock`
takes the whole function's effect on the store, `EndBlock` likewise.

Abstractions:

- Hashes and file names are model values. A validation is the function from the files
  it signs to the hash each signature was made of, or `Malformed` when signature or key
  does not decode: that is what VerifySignature can tell. Signatures are not forged.
- A reveal is the function from names to hashes to which FromCliToFrames reduces the
  entries; an entry with an empty hash or cid makes the handler refuse the message and
  is left out.
- Left out, because nothing the chain decides reads them: cids, public keys, IsReverse,
  Dir (set together with `completed`), durations, Points, IP addresses. `Enabled` is
  always true. Threads are numbered from 1.
- A thread is looked up within its task, so its id is its position. That ids of
  different tasks can collide concerns only the node's database, where it is not modelled.
- The cid of a request is valid; amounts are natural numbers of the coin of
  `MinWorkerStaking` (another coin panics in NewCoin or Add, and reverts the message).
- Nobody moves coins but this module.

Names of the form `X_Slip`, here and in the other modules, are wrong versions of X, as a slip in the code would make it.
No specification uses them. They show, one by one, that each property notices.

### ThreadLifecycle

An abstract specification in seven actions: threads are opened, joined, proposed, voted on,
revealed, accepted and finished. The mapping of `VideoRenderingLifecycle` is

| There | Of the chain |
|---|---|
| `thread` | the threads of all stored tasks, named by task and position (`SeenThreads`) |
| `.stage` | `Stage`: accepted if the flag is set; else open without a solution, revealed when all frames of the solution have hashes, proposed otherwise |
| `.members`, `.by`, `.voters`, `.done` | `Workers`, `Solution.ProposedBy`, the validators of `Validations`, `Completed` |
| `at` | `CurrentTaskId` and `CurrentThreadIndex` (`Place`) |

It leaves open on purpose what the chain does: a busy worker may join another thread,
a proposer votes as often as he likes, votes may come before the reveal and after the
acceptance, and a thread may be finished by its proposer at any time after the proposal,
again and again, wherever he is by then. A reader who expects less has found what he should
know of this chain.

### WorkerNode

It extends `VideoRendering` with one node of worker `Me`; the others, requesters included,
do what `VideoRendering` lets them do. State:

| Variable | Code |
|---|---|
| `registered` | the node's row of the table `workers` |
| `subscriptions` | the table `tasks`: for a task the one thread that has a row, and its column |
| `flags` | the table `threads`: for a thread the set of its true columns |
| `entries` | whether `renders/<thread>` has anything in it, `ipfs.IsDownloadStarted` |
| `files` | the frames in `renders/<thread>/output` |
| `container` | `myBlender<thread>`: the frame it renders, and whether it has exited |
| `goroutines` | the goroutines: function, thread, place, and frames left to render; a bag, since two may be alike |
| `pending` | the node's transaction in the mempool |

`NodeBeginBlock` and `NodeEndBlock` are the handlers of `VideoRendering` with what they do
on the node: the operators `...Due` are the conditions under which a goroutine is started
or the flags are reset, `NextThread` is the thread that an idle worker is to join.
`StartWork` (with `RenderFrame` and `IPFSGet`), `SubmitVerification`, `SubscribeWorker`,
`RegisterWorker`, `ThreadProposeSolution`, `ThreadRevealSolution` and `ThreadSubmitSolution`
are the goroutines, one disjunct for each place at which one can be interrupted. `Docker`
ends a container, `Deliver` executes the transaction, `LoseTransaction` drops it,
`Restart` ends the process: goroutines are gone, tables, files and containers stay.

`Faults` says what may fail: calls of docker and renderings, downloads and uploads, the
client, the keyring, the delivery, the process.

Abstractions:

- A block handler is one step: no goroutine writes between its reading a flag and using it.
  Looking for a container and starting it are one step, for a start fails if one has
  appeared in between; so are wait, logs and removal of a container that is over.
- The client is taken to run between two blocks, where the committed state that it simulates
  on is the one of the model. It fails when that simulation does, or when an earlier
  transaction of the account is waiting, for both have the same sequence number. A goroutine
  that reaches the client while a block is executed goes on after it.
- A transaction beyond `MaxValidations` or `MaxWins` is refused by the chain.
- All renderings of a frame have the same hash, `Rendering`; hashing does not fail.
- The database does not fail. Logs, render times, the IPFS daemon and its peers are left out.
- The columns that the code writes are given by the place that writes them: `Starting`,
  `Downloading` and so on are the eight arguments of those calls of `UpdateThread`.

### FrameSplit

Its variables are those of the loop, and a step is one iteration, so that the ranges are
examined while they are written. `ClosedForm` says that thread *k* has the frames from
`ThreadStart(k)` to `ThreadStart(k + 1) - 1`, which is how `VideoRendering` builds its
threads without a loop.

### Codec

A behaviour is the life of one message: it is built field by field, by `Set`, `Clear`,
`Mutable` and the operations on lists of the reflection (for gogo only `Set` and `Clear`, which
stand for assignments), or by `PassArgument`, a command that a node runs; `Marshal`
writes it; and both codecs read the bytes, part by part, side by side. Or the bytes come from
elsewhere (`Arrive`): any fields in any order, again, unknown ones, of another wire type, cut off,
or with a submessage that its own Unmarshal refuses.

The code of a codec has one form, which the generators repeat for each field of each message.
`Codec` has the form; what differs from message to message is in the tables, each taken
from the function it is mapped to, not from the .proto files or from another function:

- `X_Size`: the fields in the order of `Size`, with the bytes it adds for their tags;
- `X_Marshal`: the fields in the order of `Marshal`, which fills a buffer of that size from its
  end, with the tags it writes;
- `X_Unmarshal`: the cases of its switch, with the wire types they accept;
- `X_Fields`: the names on which Range, Has, Clear, Get, Set, Mutable and NewField of the
  reflection switch, which are the same in each of the seven functions.

So that they agree is nothing the model assumes. Nor do they agree by construction: a
program that is generated again in one directory and not in the other differs in them.

The codecs do not rest on the same library, and there are two differences that no table shows:

- *A coin whose amount is no number* is refused by gogo, where the amount is a math.Int, and
  accepted by pulsar, where it is a string. The error of a nested Unmarshal is returned by the
  outer one (`tx.pb.go:2535`, `api/v1/tx.pulsar.go:1735`), so that gogo refuses the whole message
  (`Refuses`, `Illegal`). `CoinFields`, from `Coins` in the Gogo modules, are the fields that can
  have such a coin inside, at any depth.
- *A submessage that occurs more than once* is read by gogo into the struct it already has, which
  merges the parts; pulsar calls `options.Unmarshal`, which resets the struct, for the options
  that cosmos-proto makes of the input do not ask to merge (`Updated`; the library is not in the
  repository). In the model a submessage is the sequence of its parts.

Abstractions: the bytes in a string or a submessage are a length, with whether a submessage is
refused (`flaw`). A submessage is written by the functions of its own type, which have their own
behaviours. What the codecs write is built of submessages that both accept: a coin with a bad
amount, which the reflection of pulsar would let through, comes only from elsewhere. Numbers are
single values around the borders of a varint's second byte, and -1, which takes ten bytes; all
tags are below 128. A panic on a buffer that is too small, and zeros left in one that is too
large, show in `i`. Groups, and a varint longer than ten bytes, are out.

## 3. What TLC checks

| Run | Instance | Shows |
|---|---|---|
| `two_threads` | 2 workers, 1 task of 2 threads with a frame each, 2 hashes, 2 validations per thread, 1 win per worker | ActiveWorkerIsMember, NoWorkerOnCompletedThread, AcceptedIsSupported, VotesCounted, OthersValidateOnce, TaskCompletion, CompletedThreadIsFinal, and that it implements `ThreadLifecycle` (0.94 million states) |
| `two_frames` | 2 workers, 1 thread of 2 frames, 2 names, 2 hashes, 3 validations with any subset of files, malformed ones too | ValidationNeedsSolution, RevealIsAllOrNothing, SolutionStable (1.8 million states) |
| `money` | 2 tasks, 2 workers, stakes above, at and below what they own, 2 wins per worker | TypeOK, MoneyIsWon, WinsCoverCompletions, and the liveness CompletedThreadsCompleteTask (0.13 million states) |
| `frame_split` | ranges between -3 and 6, 1 to 5 threads | TypeOK, Partition, Balanced, ClosedForm (2000 states) |
| `node` | a node and another worker, 1 thread of 1 frame, no failures, a goroutine that may be any number of blocks late | NodeTypeOK, FlagsFollowChain, and that it implements the chain, `Spec` (1.0 million states) |
| `node_faults` | the same with every failure, goroutines that keep up with blocks | NodeSubmitsAccepted, FlagsFollowChain (0.95 million states) |
| `node_progress` | the node alone, 2 tasks of one thread with a frame, or 1 task of 2 threads with 2 frames and 1, no failures | ProposalIsWhole and the liveness TaskGetsDone (0.14 million states) |
| `codec` | all 35 messages, both codecs, 3 fields set at a time, 3 parts of foreign bytes, flawed submessages included | CodecTypeOK, BufferFilled, RoundTrip, CasesAgree, TablesAgree, ReadersAgree, CommandIsUnderstood (1.4 million states) |
| `escrow` | a requester with 1 coin, a reward of 2 | violates RewardIsKept |
| `unverified` | as `money` | violates CompletedIsAccepted |
| `exited_container` | the node alone, 1 frame, no failures | violates ExitedContainerFailed |
| `start_over` | the node alone, 1 frame, docker may fail | violates FailedWorkStartsOver |

Bounds, all in `Next` and nowhere else: `MaxTasks` tasks, `MaxValidations` per thread,
`MaxWins` recorded per worker. Why they are enough:

- Two workers are the default `MaxWorkersPerThread`, and with two the acceptance can need
  two votes or one. Two threads are the least with which a worker can be taken from one
  to another, and an acceptance can write back another thread's counts.
- Two validations reach the threshold of BeginBlock; the third (`two_frames`) is a second
  vote by one worker, or one that comes after the acceptance.
- Two hashes let workers disagree, and a reveal be repeated with another hash. Two frames
  are the least for a reveal that names some of them, and for a name used twice.
- In `money` the requester can pay one of two rewards, and the second win of a worker may
  find the module empty; a worker who submits a completed thread again is among the
  behaviours. Symmetry is not used there, because it checks liveness.
- In `frame_split` the remainders, both signs and reversed ranges occur with every
  number of threads; the proofs cover the rest.

- The runs of the node have two more bounds, in `NodeBeginBlock` alone: it waits until there
  are at most `MaxGoroutines` goroutines, and of those at most `MaxLagging` that could go on,
  the others waiting for a download or a container. What the block starts comes on top, so
  with one of each three or more are interleaved: two downloads of one thread, a verification
  beside a rendering, a late reveal beside a submission. With `MaxLagging = 0` only downloads
  and renderings outlast a block, and by any number of blocks.
- `node_progress` also bounds the threads that are ever created, by two (`ProgressNext`): two
  tasks, where the first with room hides the second (`module.go:140`) and the row of a
  finished task stays behind, or two threads of one task, which share the one row that a task
  has in the node's table. Two frames are the least for a directory that is half full.
- A second worker, who may propose, reveal and validate anything at any time, is enough to
  take from the node whatever it is about to do. The node wins once (`MaxWins = 1`) unless
  alone, where 3 wins and 3 validations leave room for the repetitions it makes.
- In `codec`, no field of a message has an effect on what is done with another, except by its
  bytes, so two at a time would show any that are confused; the third lets a list or an unknown
  field stand between them. `CasesAgree` and `TablesAgree` are about the tables alone, so that
  every message type is enough for them; the theorems take the rest from there to any number of
  fields, values and parts. Of foreign bytes, three parts can set a field, set it again, and
  break off; the second has no content, the others enough for a coin with a bad amount or for a
  submessage that is cut off inside. Every field occurs in both, with a default, a one-byte and
  a longer value.

Symmetry in the runs of the chain permutes workers, files and hashes, which no definition tells
apart.

Fairness: `FairSpec` assumes that BeginBlock and EndBlock keep happening, since a chain
that runs keeps making blocks. No message is assumed ever to come, so the only liveness
stated on the chain is what the chain does by itself: a task whose threads are completed
gets completed. Deadlock is checked in all runs.

`FairNodeSpec` assumes in addition that the scheduler runs the goroutines, that containers
end, and that a transaction of the mempool gets into a block. The two last are nothing the
code can see to, but without them it promises nothing. Goroutines and delivery are strongly
fair, because the client and a transaction have to wait for a point between blocks or in
one, which comes again and again. That is one condition for all goroutines together,
`SF_allVars(RunGoroutine)`: some goroutine goes on, and nothing is assumed of which. With it, `TaskGetsDone` also needs `MaxLagging = 0`, which
says that blocks are further apart than the node's local steps (seconds against
milliseconds), and no failures: without the one TLC finds a node that starts the same work
again for ever (`exited_container` shows the beginning of it), without the other most failures
end the work for good (`start_over`).

### Where the code and its comments disagree

- `escrow`: "the module will keep the reward to be distributed later"
  (`keeper/msg_server.go:63`), but the error of the transfer is dropped at line 66, and
  the task is created all the same. Its winners are then recorded as paid, out of other
  requesters' rewards or workers' stakes, or out of nothing.
- `unverified`: "solution is verified so we pay the winner" (line 442), but the
  verification is commented out, and acceptance is not asked for: a proposer can submit
  right after proposing.
- `exited_container`: "if we are already working but the container is exited, it means there
  was an error, so we trigger it again" (`module/module.go:189`), but a container that has
  rendered its frame is exited too until renderVideoFrame removes it. A BeginBlock in between
  starts the work once more, which takes the flags back and downloads again.
- `start_over`: "we will start over" (`VideoRenderingThread.go:71`) and the logged "retrying",
  but the flags that are written then, downloaded and not working, are the ones with which
  BeginBlock starts nothing.

One more was found by reading, and no run is spent on it: "if we have at least one that has
more invalid counts than valid ones, we rejected" (`VideoRenderingThread.go:425`), but
IsSolutionAccepted never reads InvalidCount, it asks each frame for a number of valid ones.

The tables of the codecs and the order of arguments have shown no disagreement. The libraries
below them do disagree, on a coin whose amount is no number and on a submessage that occurs twice
(section 2, Codec). Nothing in the repository says that they would not, so that ReadersAgree says
exactly how far the readers go together: what gogo, the codec of the handlers, accepts, pulsar,
that of the signers, accepts with the same fields, but of a repeated submessage only the last part;
what gogo alone refuses is of a type that has a coin inside.

TLC also shows what no line of the code claims otherwise, and no property here states: a
node may submit, and be paid for, a thread twice, when a late goroutine takes back the column
`submition_started`; as the proposer it may validate its own solution again; and with two slow
subscriptions a busy worker is moved to another thread.

## 4. What is proved

For every value of the constants: any number of workers, tasks, threads, frames,
validations, and without the bounds having a part in it.

Assumptions, in the modules that declare the constants. `VideoRendering`: accounts of the
module, of requesters and of workers do not clash, and workers are finitely many (addresses
have a bounded length); `NoHash`, `Malformed` are not hashes; parameters and amounts are
natural numbers; requests are integers. `FrameSplit`: integers and at least one thread.
`WorkerNode`: the node's worker is a worker, files of different frames have different names,
and (`NodeInputAssumption`) the inputs that `VideoRendering` enumerates include what the
node sends: a registration with the minimal stake, and signed hashes of any files it has;
and every frame that a request can ask for has a file name. The chain takes any stake and
any map of signatures from anybody, and FormatFrameFilename names every number, so this
says that the sets are not chosen too small. TLC evaluates all of them in the runs.

**Type correctness** (`TypeCorrect`). One lemma per action. What it needs beyond
unfolding: writing a thread into a task (`PutThreadFacts`), counts being numbers because
the votes on a frame are finite (`VotesAreFinite`, `EvaluateFacts`), BeginBlock's walk
changing nothing but counts and acceptance (`WalkedFacts`), and the quotient of a reward
being a number because a task with a thread has a positive number of them.

**Consistency of workers and threads** (`Invariance`). None of the properties is
inductive: that nobody is left on a completed thread needs, when a worker subscribes,
that the thread is not completed, and when a thread is completed, that everybody who
points at it is in its list, since SubmitSolution releases the list; and that he points
at an existing thread needs that the task under the empty id has no threads, for
otherwise released workers would point into it. The invariant `IInv` joins

- `TypeOK`;
- `EmptyIdIsEmpty`: the task under the empty id is the zero task;
- `ThreadInv` of each thread: validations, acceptance and completion come only with a
  solution, and proposer and validators are workers of the thread;
- `PointerOK` of each worker: idle, or on a thread that exists, lists him, and is not
  completed.

`NextSafe` shows in one pass that each step keeps it and takes every thread to itself or
one step further in the sense of `ThreadStep`. The invariants `WorkersAreMembers`,
`NobodyLeftBehind`, `ValidatedThreadsHaveSolutions` follow from the one, the histories
`SolutionsAreStable` and `CompletedThreadsAreFinal` from the other. That a completed thread
is final is the surprising one: it holds though ProposeSolution, RevealSolution and
SubmitValidation never ask, because the latter two go where a worker points, and
`PointerOK` says that he points at no completed thread, and because a completed thread
has a solution already.

**Completion of tasks** (`TasksComplete`). With `IInv` the property is inductive, for three
reasons, a lemma each: no handler completes a task (`WriteCompletesNoTask`); the threads of a
completed task stay completed, for no step changes a completed thread (`CompletionKept`, from
`ThreadStep`); and EndBlock completes just the tasks whose threads are, the zero task that it
stores among them (`CompletionAtEndBlock`).

**Single validations** (`SingleValidations`). The handler does not look for an earlier
validation. What keeps a worker from sending two is his pointer, so the strengthening `VotesInv`
speaks of it: whoever points at a thread that he did not propose has not validated it
(`NotYetValidated`). It is established when he subscribes, since a validator is in the list
of the thread already (`SubscribeVotes`), and ends when he validates, since he is released
(`SubmitValidationVotes`). No other step adds a validation, and a thread that has one keeps
its proposer (`VotesKept`).

**Reveals** (`RevealsAreWhole`). RevealSolution writes the thread only when no frame is left
without a hash, but a proposal that replaced another, or an acceptance of a thread whose frames
change later, would break the property from elsewhere. The invariant `WholeInv` of each thread
says that all frames have hashes or none, and some have if it is accepted; ThreadInv is what
keeps a second proposal away.

**Refinement** (`ChainImplementsLifecycle`). One lemma per handler names the action that it is:
`SubscribeJoins`, `ProposeProposes`, `RevealReveals`, `ValidationVotes`, `SubmitFinishes`,
`CreateOpens`; `BeginBlockAccepts` is Accept for the threads that are judged, since the walk
changes counts, which `Seen` does not show, and acceptance; `EndBlockUnseen` and AddWorker
stutter, and so does a second reveal with other hashes. All need `IInv`: that a submission
releases just those who point at the thread is `PointerOK`, since the code goes by its list;
that a vote is the first of its member needs `VotesInv`; that what is accepted was revealed
needs `WholeInv`. With `EmptyIdIsEmpty` a worker who points at the empty id is nowhere.

**Splitting** (`ComputesClosedForm`, `RangesPartition`, `RangesBalanced`). After *i*
iterations the loop stands where the closed form says that thread *i + 1* starts, and the
remainder is what the closed form has not given out. The arithmetic of Go's division is
`DivisionFacts`.

**Supported acceptances** (`AcceptancesAreSupported`). That a vote stands behind an accepted
solution is not inductive: the walk of BeginBlock writes a thread back with new counts, and
those alone make a later walk accept it. `SupportInv` adds that a thread that is not accepted has
counts that would not be enough (`~IsSolutionAccepted`), and that frames come with a proposer.
So the votes that are counted in the very walk that accepts include a valid one. Afterwards
the frames are final (`ThreadStep`) and validations are only added (`SupportKept`).

**Counted votes** (`VotesAreCounted`). A walk that accepts one thread of a task writes back the
counts of the threads before it, so that their votes are counted again. The property is
inductive with `IInv`, and the proof is the argument for its bound: a walk that adds the votes
on a thread once more adds to the set of accepted threads from there on (`Writers`), which
nothing makes smaller; and products grow with both factors (`ProductGrows`).

**Coins and wins** (`CoinsAreWon`, `CompletionsAreWins`). `MoneyInv` extends the bound on what a worker
owns to workers who have not registered yet, and follows him through each transfer, whether
it fails or not (`SubmissionPays` for the one that pays). `WinsInv` has in addition that
the threads a worker has completed are finitely many, without which their number is none. A
submission completes one thread more at most, and always records one win more.

**A node beside the chain** (`NodeInvariance` and what follows from it). The bag of goroutines
has no bound here, nor has the number of blocks by which one is late. What makes the node
right is that everything it acts on late is *stable* on the chain: a stage that a thread has
reached is not lost. `StagesKept` says so, from `ThreadStep` and from `StepGrows`, which adds
that the frames of a thread stay, that a thread with validations keeps some, and that the
names of a proposal do. The invariant `NodeInv` joins

- `ChainInv`: `IInv`, `SupportInv`, and `ShapeInv`, that each thread has the frames of a
  thread of some request;
- `MineInv`: a thread that the node has proposed names the files of all of its frames, and is
  completed only if accepted; and the node's worker is registered;
- `LocalInv`: the rows follow the chain (`FlagsOK`); what is in a directory or rendered in a
  container is a frame of its thread (`FilesOK`, `ContainersOK`); a goroutine was launched for
  a stage that its thread has reached, with frames of the thread left to render (`GoroutinesOK`);
  and the transaction on the way, if any, is whole, and if it is a submission then about an
  accepted thread (`PendingOK`).

None of the parts can be missed. The columns are written by goroutines (`GoroutinesOK`); the
solution that is proposed is whole because the directory has as many files as the thread has
frames, and no others (`FilesOK`, `RenderedIsWhole`), by way of the mempool (`PendingOK`); an
acceptance is preceded by a validation, and that by a solution (`StagesFollow`, from `SupportInv`),
so that later columns, which come with all the earlier ones, claim no less than the truth.

`LocalInductive` has one lemma for each goroutine (`StartWorkKeeps` to `RegisterKeeps`), for docker
and for the two block handlers; restarts, losses and others' transactions are
`ChainStepKeeps`. `MineInductive` says that nothing but a delivery proposes or completes in the
node's name. `NodeStep` is the refinement: with `NodeInv`, the node's step is one of `Next`. It
is needed in the invariant's own proof, for it is what makes the theorems about the chain available
beside a node, and `NodeImplementsChain` states it once the invariant is there.

**Codecs: reading alike** (`CodecsReadAlike`). If the functions of a message agree (`CasesAgree`
and `TablesAgree`, which TLC finds true of the tables), then the two readers keep in step through
any number of parts with any content, as far as their libraries let them. Each step finds the same
field in both (`SameCases`) and leaves pulsar with the last part of what gogo has (`AlikeUpdated`,
`SingleUpdated`); a part that pulsar refuses gogo refuses too, and one that gogo alone refuses has
a coin with a bad amount (`SameIllegal`). Such a part can
only be on its way when the type has a coin, which `CodecInv` below says of the buffer (`PartSet`,
`FlawSet`; `ArriveKeeps`). The runs have three parts of bytes from elsewhere, the theorem any number.
The hypotheses are not assumptions of the module, so that a table that is wrong shows as a violated
invariant.

**Codecs: what is written is read** (`BuffersAreFilled`, `MessagesSurvive`,
`CommandsAreUnderstood`, `CodecTypes`). The hypotheses are `CasesAgree` and `TablesAgree`, which
say that the functions of both codecs name the same fields in the same order with tags of one
byte, and that arguments go where they are meant to: statements about the given tables, of which
TLC checks each (`TypesWithSameCases` and `TypesWithTables` are the messages they hold of). What
follows from them is proved for any fields of any kind, any values, lists
of any length, and any order of setting, clearing and appending. The assumptions of `Codec` say
that tables are tables (`TableAssumption`) and that the values enumerated are those of their kind
(`SampleAssumption`).

What Size, Marshal and a sequence of Unmarshals compute is recursive in the number of fields and
parts, and the library's induction theorems cannot be instantiated by the provers here. They
are replaced by a first-order form: a set of numbers that has 0 and every successor has all
(`Induction`). It follows from the least element of a set of numbers (`LeastNumber`), which is
the library's WFMin for <. From it come the existence of recursive functions (`Recursion`),
so that SumOf and Written are what their definitions say (`SumIs`, `WrittenIs`), and the rest:

- `SizeIsLength`: Size counts the bytes of what Marshal writes. Field by field that is
  `PartsOfField`; Size adds from the first field on and Marshal writes from the last, so the
  induction is on how many fields, from the end, have been written;
- `ReadsField`: what is written of one field is read by either codec as its value into a message
  that has none yet, a list element by element; `ReadsWritten` puts the fields together, since no
  two share a name, and unknown ones at the end, which pulsar keeps (`ReadsUnknown`).

`CodecInv` carries this through a behaviour: while a message that a codec has written is read, what
is left in the buffer, if read to its end, completes what each reader has (`Completes`); before,
the readers are empty, and each argument is in its field (`ArgsOK`). One lemma per action keeps it.
An empty message in a struct is written and read where there was none: the only value that is not
read as it was, and `Same` counts it as equal (`SameAsWritten`).

### What is only model-checked, and why

- *Liveness*: CompletedThreadsCompleteTask, TaskGetsDone. The temporal prover has no ENABLED.
- *CasesAgree, TablesAgree*: statements about the tables of 35 messages in two codecs, which TLC
  evaluates one by one. There is nothing general in them to prove.
- The four runs that expect a violation.

## 5. Not modelled

- *The IPFS daemon.* EnsureIPFSRunning starts it and waits for it, also from the handler of
  SubmitSolution on every validator (`keeper/msg_server.go:434`). It returns nothing, so that the
  chain's state does not depend on it; time is not modelled.
- *IPFS peers.* The end of EndBlock connects to the addresses of other workers, and keeps in a
  table which it has; nothing else reads either.
- *The database failing* (`module/module.go:179` would then end the process), logs, render times.
- *Thread ids as strings.* Thread 11 of task 1 and thread 1 of task 11 get the same id and so
  share rows, files and containers on a node (`db/database.go:83`). Ids are positions within
  a task here. To have both takes ten threads or tasks.
- *Genesis.* ExportGenesis writes no task and no worker, so that there is nothing to restore.
- *Code that nothing calls*: EvaluateCompletedThread, GetValidatorsReward, VerifySubmittedSolution,
  the circuit of `zkp/`.
- *Queries* change nothing. GetPendingVideoRenderingTasks is wrong by reading alone: it looks up
  tasks by `string(i)`, the character with code *i*.
- *Of generated code*: descriptors, getters, String, clients and servers, the gateway, the module's own
  configuration. They keep no state and forward what they are given.

## 6. The plan

In this order.

1. *Done.* The chain, its runs and the first theorems; the splitting loop.
2. *Done.* `WorkerNode`, the composition of a node with the chain, its safety, its progress and
   where it fails to progress; two tasks or two threads on a node.
3. *Done.* `ThreadLifecycle`, and the chain refines it, as a PROPERTY and as a theorem.
4. *Done.* The codecs and the arguments of commands.
5. *Done.* Theorems on the chain's accounts: coins, wins, supported acceptances, counted votes.
6. *Done.* Theorems on the node: it implements the chain, submits only what is accepted, proposes
   what is whole, and its rows follow the chain. The types of `FrameSplit`. Readers of the codecs.
7. *Done.* Theorems on the codecs: sizes, round trips and arguments, for any message.
8. What the abstract `ThreadLifecycle` promises by itself, proved there and carried to the chain
   by the refinement; and the steps on which the liveness properties rest, as far as they are
   safety: that a goroutine which is stuck waits for something that comes.
