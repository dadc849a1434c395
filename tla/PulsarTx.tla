------------------------------ MODULE PulsarTx ------------------------------
(*****************************************************************************)
(* What the generated code of api/v1/tx.pulsar.go knows of the transactions  *)
(* and their responses: the fields of each message in the order of Size,     *)
(* with the bytes of their tags; in the order of Marshal, which writes the   *)
(* last one first, with their tags; and the cases of Unmarshal, with the     *)
(* wire types a case accepts and its field number. For the reflection, the   *)
(* names a message switches on in Range, Has, Clear, Get, Set, Mutable and   *)
(* NewField, and the fields of the struct.                                   *)
(*****************************************************************************)

MsgCreateVideoRenderingTask_Fields == <<
    <<"creator", "string", "Creator">>, <<"cid", "string", "Cid">>,
    <<"startFrame", "number", "StartFrame">>, <<"endFrame", "number", "EndFrame">>,
    <<"threads", "number", "Threads">>, <<"reward", "message", "Reward">>>>
MsgCreateVideoRenderingTask_Size == <<
    <<1, "string", "Creator">>, <<1, "string", "Cid">>, <<1, "number", "StartFrame">>,
    <<1, "number", "EndFrame">>, <<1, "number", "Threads">>,
    <<1, "message", "Reward">>>>
MsgCreateVideoRenderingTask_Marshal == <<
    <<\h32, "message", "Reward">>, <<\h28, "number", "Threads">>,
    <<\h20, "number", "EndFrame">>, <<\h18, "number", "StartFrame">>,
    <<\h12, "string", "Cid">>, <<\hA, "string", "Creator">>>>
MsgCreateVideoRenderingTask_Unmarshal == <<
    <<{2}, "string", "Creator", 1>>, <<{2}, "string", "Cid", 2>>,
    <<{0}, "number", "StartFrame", 3>>, <<{0}, "number", "EndFrame", 4>>,
    <<{0}, "number", "Threads", 5>>, <<{2}, "message", "Reward", 6>>>>

MsgCreateVideoRenderingTaskResponse_Fields == <<<<"task_id", "string", "TaskId">>>>
MsgCreateVideoRenderingTaskResponse_Size == <<<<1, "string", "TaskId">>>>
MsgCreateVideoRenderingTaskResponse_Marshal == <<<<\hA, "string", "TaskId">>>>
MsgCreateVideoRenderingTaskResponse_Unmarshal == <<<<{2}, "string", "TaskId", 1>>>>

MsgAddWorker_Fields == <<
    <<"creator", "string", "Creator">>, <<"public_ip", "string", "PublicIp">>,
    <<"ipfs_id", "string", "IpfsId">>, <<"stake", "message", "Stake">>>>
MsgAddWorker_Size == <<
    <<1, "string", "Creator">>, <<1, "string", "PublicIp">>, <<1, "string", "IpfsId">>,
    <<1, "message", "Stake">>>>
MsgAddWorker_Marshal == <<
    <<\h22, "message", "Stake">>, <<\h1A, "string", "IpfsId">>,
    <<\h12, "string", "PublicIp">>, <<\hA, "string", "Creator">>>>
MsgAddWorker_Unmarshal == <<
    <<{2}, "string", "Creator", 1>>, <<{2}, "string", "PublicIp", 2>>,
    <<{2}, "string", "IpfsId", 3>>, <<{2}, "message", "Stake", 4>>>>

MsgAddWorkerResponse_Fields == <<
    <<"ok", "bool", "Ok">>, <<"message", "string", "Message">>>>
MsgAddWorkerResponse_Size == <<<<1, "bool", "Ok">>, <<1, "string", "Message">>>>
MsgAddWorkerResponse_Marshal == <<<<\h12, "string", "Message">>, <<\h8, "bool", "Ok">>>>
MsgAddWorkerResponse_Unmarshal == <<
    <<{0}, "bool", "Ok", 1>>, <<{2}, "string", "Message", 2>>>>

MsgSubscribeWorkerToTask_Fields == <<
    <<"address", "string", "Address">>, <<"taskId", "string", "TaskId">>,
    <<"threadId", "string", "ThreadId">>>>
MsgSubscribeWorkerToTask_Size == <<
    <<1, "string", "Address">>, <<1, "string", "TaskId">>, <<1, "string", "ThreadId">>>>
MsgSubscribeWorkerToTask_Marshal == <<
    <<\h1A, "string", "ThreadId">>, <<\h12, "string", "TaskId">>,
    <<\hA, "string", "Address">>>>
MsgSubscribeWorkerToTask_Unmarshal == <<
    <<{2}, "string", "Address", 1>>, <<{2}, "string", "TaskId", 2>>,
    <<{2}, "string", "ThreadId", 3>>>>

MsgSubscribeWorkerToTaskResponse_Fields == <<<<"threadId", "string", "ThreadId">>>>
MsgSubscribeWorkerToTaskResponse_Size == <<<<1, "string", "ThreadId">>>>
MsgSubscribeWorkerToTaskResponse_Marshal == <<<<\hA, "string", "ThreadId">>>>
MsgSubscribeWorkerToTaskResponse_Unmarshal == <<<<{2}, "string", "ThreadId", 1>>>>

MsgProposeSolution_Fields == <<
    <<"creator", "string", "Creator">>, <<"taskId", "string", "TaskId">>,
    <<"threadId", "string", "ThreadId">>, <<"public_key", "string", "PublicKey">>,
    <<"signatures", "strings", "Signatures">>>>
MsgProposeSolution_Size == <<
    <<1, "string", "Creator">>, <<1, "string", "TaskId">>, <<1, "string", "ThreadId">>,
    <<1, "string", "PublicKey">>, <<1, "strings", "Signatures">>>>
MsgProposeSolution_Marshal == <<
    <<\h2A, "strings", "Signatures">>, <<\h22, "string", "PublicKey">>,
    <<\h1A, "string", "ThreadId">>, <<\h12, "string", "TaskId">>,
    <<\hA, "string", "Creator">>>>
MsgProposeSolution_Unmarshal == <<
    <<{2}, "string", "Creator", 1>>, <<{2}, "string", "TaskId", 2>>,
    <<{2}, "string", "ThreadId", 3>>, <<{2}, "string", "PublicKey", 4>>,
    <<{2}, "strings", "Signatures", 5>>>>

MsgProposeSolutionResponse_Fields == <<>>
MsgProposeSolutionResponse_Size == <<>>
MsgProposeSolutionResponse_Marshal == <<>>
MsgProposeSolutionResponse_Unmarshal == <<>>

MsgRevealSolution_Fields == <<
    <<"creator", "string", "Creator">>, <<"taskId", "string", "TaskId">>,
    <<"threadId", "string", "ThreadId">>, <<"frames", "strings", "Frames">>>>
MsgRevealSolution_Size == <<
    <<1, "string", "Creator">>, <<1, "string", "TaskId">>, <<1, "string", "ThreadId">>,
    <<1, "strings", "Frames">>>>
MsgRevealSolution_Marshal == <<
    <<\h22, "strings", "Frames">>, <<\h1A, "string", "ThreadId">>,
    <<\h12, "string", "TaskId">>, <<\hA, "string", "Creator">>>>
MsgRevealSolution_Unmarshal == <<
    <<{2}, "string", "Creator", 1>>, <<{2}, "string", "TaskId", 2>>,
    <<{2}, "string", "ThreadId", 3>>, <<{2}, "strings", "Frames", 4>>>>

MsgRevealSolutionResponse_Fields == <<>>
MsgRevealSolutionResponse_Size == <<>>
MsgRevealSolutionResponse_Marshal == <<>>
MsgRevealSolutionResponse_Unmarshal == <<>>

MsgSubmitValidation_Fields == <<
    <<"creator", "string", "Creator">>, <<"taskId", "string", "TaskId">>,
    <<"threadId", "string", "ThreadId">>, <<"public_key", "string", "PublicKey">>,
    <<"signatures", "strings", "Signatures">>>>
MsgSubmitValidation_Size == <<
    <<1, "string", "Creator">>, <<1, "string", "TaskId">>, <<1, "string", "ThreadId">>,
    <<1, "string", "PublicKey">>, <<1, "strings", "Signatures">>>>
MsgSubmitValidation_Marshal == <<
    <<\h2A, "strings", "Signatures">>, <<\h22, "string", "PublicKey">>,
    <<\h1A, "string", "ThreadId">>, <<\h12, "string", "TaskId">>,
    <<\hA, "string", "Creator">>>>
MsgSubmitValidation_Unmarshal == <<
    <<{2}, "string", "Creator", 1>>, <<{2}, "string", "TaskId", 2>>,
    <<{2}, "string", "ThreadId", 3>>, <<{2}, "string", "PublicKey", 4>>,
    <<{2}, "strings", "Signatures", 5>>>>

MsgSubmitValidationResponse_Fields == <<>>
MsgSubmitValidationResponse_Size == <<>>
MsgSubmitValidationResponse_Marshal == <<>>
MsgSubmitValidationResponse_Unmarshal == <<>>

MsgSubmitSolution_Fields == <<
    <<"creator", "string", "Creator">>, <<"taskId", "string", "TaskId">>,
    <<"threadId", "string", "ThreadId">>, <<"dir", "string", "Dir">>,
    <<"average_render_seconds", "number", "AverageRenderSeconds">>>>
MsgSubmitSolution_Size == <<
    <<1, "string", "Creator">>, <<1, "string", "TaskId">>, <<1, "string", "ThreadId">>,
    <<1, "string", "Dir">>, <<1, "number", "AverageRenderSeconds">>>>
MsgSubmitSolution_Marshal == <<
    <<\h28, "number", "AverageRenderSeconds">>, <<\h22, "string", "Dir">>,
    <<\h1A, "string", "ThreadId">>, <<\h12, "string", "TaskId">>,
    <<\hA, "string", "Creator">>>>
MsgSubmitSolution_Unmarshal == <<
    <<{2}, "string", "Creator", 1>>, <<{2}, "string", "TaskId", 2>>,
    <<{2}, "string", "ThreadId", 3>>, <<{2}, "string", "Dir", 4>>,
    <<{0}, "number", "AverageRenderSeconds", 5>>>>

MsgSubmitSolutionResponse_Fields == <<>>
MsgSubmitSolutionResponse_Size == <<>>
MsgSubmitSolutionResponse_Marshal == <<>>
MsgSubmitSolutionResponse_Unmarshal == <<>>

Fields == [
    MsgCreateVideoRenderingTask |-> MsgCreateVideoRenderingTask_Fields,
    MsgCreateVideoRenderingTaskResponse |-> MsgCreateVideoRenderingTaskResponse_Fields,
    MsgAddWorker |-> MsgAddWorker_Fields,
    MsgAddWorkerResponse |-> MsgAddWorkerResponse_Fields,
    MsgSubscribeWorkerToTask |-> MsgSubscribeWorkerToTask_Fields,
    MsgSubscribeWorkerToTaskResponse |-> MsgSubscribeWorkerToTaskResponse_Fields,
    MsgProposeSolution |-> MsgProposeSolution_Fields,
    MsgProposeSolutionResponse |-> MsgProposeSolutionResponse_Fields,
    MsgRevealSolution |-> MsgRevealSolution_Fields,
    MsgRevealSolutionResponse |-> MsgRevealSolutionResponse_Fields,
    MsgSubmitValidation |-> MsgSubmitValidation_Fields,
    MsgSubmitValidationResponse |-> MsgSubmitValidationResponse_Fields,
    MsgSubmitSolution |-> MsgSubmitSolution_Fields,
    MsgSubmitSolutionResponse |-> MsgSubmitSolutionResponse_Fields]

Size == [
    MsgCreateVideoRenderingTask |-> MsgCreateVideoRenderingTask_Size,
    MsgCreateVideoRenderingTaskResponse |-> MsgCreateVideoRenderingTaskResponse_Size,
    MsgAddWorker |-> MsgAddWorker_Size,
    MsgAddWorkerResponse |-> MsgAddWorkerResponse_Size,
    MsgSubscribeWorkerToTask |-> MsgSubscribeWorkerToTask_Size,
    MsgSubscribeWorkerToTaskResponse |-> MsgSubscribeWorkerToTaskResponse_Size,
    MsgProposeSolution |-> MsgProposeSolution_Size,
    MsgProposeSolutionResponse |-> MsgProposeSolutionResponse_Size,
    MsgRevealSolution |-> MsgRevealSolution_Size,
    MsgRevealSolutionResponse |-> MsgRevealSolutionResponse_Size,
    MsgSubmitValidation |-> MsgSubmitValidation_Size,
    MsgSubmitValidationResponse |-> MsgSubmitValidationResponse_Size,
    MsgSubmitSolution |-> MsgSubmitSolution_Size,
    MsgSubmitSolutionResponse |-> MsgSubmitSolutionResponse_Size]

Marshal == [
    MsgCreateVideoRenderingTask |-> MsgCreateVideoRenderingTask_Marshal,
    MsgCreateVideoRenderingTaskResponse |-> MsgCreateVideoRenderingTaskResponse_Marshal,
    MsgAddWorker |-> MsgAddWorker_Marshal,
    MsgAddWorkerResponse |-> MsgAddWorkerResponse_Marshal,
    MsgSubscribeWorkerToTask |-> MsgSubscribeWorkerToTask_Marshal,
    MsgSubscribeWorkerToTaskResponse |-> MsgSubscribeWorkerToTaskResponse_Marshal,
    MsgProposeSolution |-> MsgProposeSolution_Marshal,
    MsgProposeSolutionResponse |-> MsgProposeSolutionResponse_Marshal,
    MsgRevealSolution |-> MsgRevealSolution_Marshal,
    MsgRevealSolutionResponse |-> MsgRevealSolutionResponse_Marshal,
    MsgSubmitValidation |-> MsgSubmitValidation_Marshal,
    MsgSubmitValidationResponse |-> MsgSubmitValidationResponse_Marshal,
    MsgSubmitSolution |-> MsgSubmitSolution_Marshal,
    MsgSubmitSolutionResponse |-> MsgSubmitSolutionResponse_Marshal]

Unmarshal == [
    MsgCreateVideoRenderingTask |-> MsgCreateVideoRenderingTask_Unmarshal,
    MsgCreateVideoRenderingTaskResponse |-> MsgCreateVideoRenderingTaskResponse_Unmarshal,
    MsgAddWorker |-> MsgAddWorker_Unmarshal,
    MsgAddWorkerResponse |-> MsgAddWorkerResponse_Unmarshal,
    MsgSubscribeWorkerToTask |-> MsgSubscribeWorkerToTask_Unmarshal,
    MsgSubscribeWorkerToTaskResponse |-> MsgSubscribeWorkerToTaskResponse_Unmarshal,
    MsgProposeSolution |-> MsgProposeSolution_Unmarshal,
    MsgProposeSolutionResponse |-> MsgProposeSolutionResponse_Unmarshal,
    MsgRevealSolution |-> MsgRevealSolution_Unmarshal,
    MsgRevealSolutionResponse |-> MsgRevealSolutionResponse_Unmarshal,
    MsgSubmitValidation |-> MsgSubmitValidation_Unmarshal,
    MsgSubmitValidationResponse |-> MsgSubmitValidationResponse_Unmarshal,
    MsgSubmitSolution |-> MsgSubmitSolution_Unmarshal,
    MsgSubmitSolutionResponse |-> MsgSubmitSolutionResponse_Unmarshal]

=============================================================================
