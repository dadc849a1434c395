----------------------------- MODULE CommandLine -----------------------------
(***************************************************************************)
(* How a node sends a transaction: it runs a command with arguments (the   *)
(* X_Arguments below, by the field that the goroutine means by each of     *)
(* them), and the command line puts the k-th argument into the field of    *)
(* the message that the k-th descriptor of the command names (Positional). *)
(***************************************************************************)

\* VideoRenderingTask.SubscribeWorkerToTask
SubscribeWorkerToTask_Arguments_Swapped ==
    <<"Address", "ThreadId", "TaskId">>   \* Wrong: thread before task.
SubscribeWorkerToTask_Arguments == <<"Address", "TaskId", "ThreadId">>

\* Worker.RegisterWorker
AddWorker_Arguments == <<"PublicIp", "IpfsId", "Stake">>

\* The goroutines of VideoRenderingThread
ProposeSolution_Arguments == <<"TaskId", "ThreadId", "PublicKey", "Signatures">>
RevealSolution_Arguments == <<"TaskId", "ThreadId", "Frames">>
SubmitValidation_Arguments == <<"TaskId", "ThreadId", "PublicKey", "Signatures">>
SubmitSolution_Arguments == <<"TaskId", "ThreadId", "Dir", "AverageRenderSeconds">>

Arguments == [
    MsgSubscribeWorkerToTask |-> SubscribeWorkerToTask_Arguments,
    MsgAddWorker |-> AddWorker_Arguments,
    MsgProposeSolution |-> ProposeSolution_Arguments,
    MsgRevealSolution |-> RevealSolution_Arguments,
    MsgSubmitValidation |-> SubmitValidation_Arguments,
    MsgSubmitSolution |-> SubmitSolution_Arguments]

Positional == [
    MsgSubscribeWorkerToTask |-> <<"address", "taskId", "threadId">>,
    MsgAddWorker |-> <<"public_ip", "ipfs_id", "stake">>,
    MsgProposeSolution |-> <<"taskId", "threadId", "public_key", "signatures">>,
    MsgRevealSolution |-> <<"taskId", "threadId", "frames">>,
    MsgSubmitValidation |-> <<"taskId", "threadId", "public_key", "signatures">>,
    MsgSubmitSolution |-> <<"taskId", "threadId", "dir", "average_render_seconds">>]

=============================================================================
