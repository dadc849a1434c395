------------------------------ MODULE PulsarTypes ------------------------------
(*****************************************************************************)
(* What the generated code of api/v1/types.pulsar.go knows of what the       *)
(* module stores: the fields of each message in the order of Size, with the  *)
(* bytes of their tags; in the order of Marshal, which writes the last one   *)
(* first, with their tags; and the cases of Unmarshal, with the wire types a *)
(* case accepts and its field number. For the reflection, the names a        *)
(* message switches on in Range, Has, Clear, Get, Set, Mutable and NewField, *)
(* and the fields of the struct.                                             *)
(*****************************************************************************)

Params_Fields == <<
    <<"min_worker_staking", "message", "MinWorkerStaking">>,
    <<"max_workers_per_thread", "number", "MaxWorkersPerThread">>,
    <<"min_validators", "number", "MinValidators">>>>
Params_Size == <<
    <<1, "message", "MinWorkerStaking">>, <<1, "number", "MaxWorkersPerThread">>,
    <<1, "number", "MinValidators">>>>
Params_Marshal == <<
    <<\h18, "number", "MinValidators">>, <<\h10, "number", "MaxWorkersPerThread">>,
    <<\hA, "message", "MinWorkerStaking">>>>
Params_Unmarshal == <<
    <<{2}, "message", "MinWorkerStaking", 1>>,
    <<{0}, "number", "MaxWorkersPerThread", 2>>, <<{0}, "number", "MinValidators", 3>>>>

GenesisState_Fields == <<
    <<"params", "message", "Params">>,
    <<"videoRenderingTaskInfo", "message", "VideoRenderingTaskInfo">>,
    <<"videoRenderingTaskList", "messages", "VideoRenderingTaskList">>,
    <<"workers", "messages", "Workers">>>>
GenesisState_Size == <<
    <<1, "message", "Params">>, <<1, "message", "VideoRenderingTaskInfo">>,
    <<1, "messages", "VideoRenderingTaskList">>, <<1, "messages", "Workers">>>>
GenesisState_Marshal == <<
    <<\h2A, "messages", "Workers">>, <<\h22, "messages", "VideoRenderingTaskList">>,
    <<\h1A, "message", "VideoRenderingTaskInfo">>, <<\hA, "message", "Params">>>>
GenesisState_Unmarshal == <<
    <<{2}, "message", "Params", 1>>, <<{2}, "message", "VideoRenderingTaskInfo", 3>>,
    <<{2}, "messages", "VideoRenderingTaskList", 4>>,
    <<{2}, "messages", "Workers", 5>>>>

Worker_Fields == <<
    <<"address", "string", "Address">>, <<"reputation", "message", "Reputation">>,
    <<"enabled", "bool", "Enabled">>, <<"current_task_id", "string", "CurrentTaskId">>,
    <<"current_thread_index", "number", "CurrentThreadIndex">>,
    <<"public_ip", "string", "PublicIp">>, <<"ipfs_id", "string", "IpfsId">>>>
Worker_Size == <<
    <<1, "string", "Address">>, <<1, "message", "Reputation">>,
    <<1, "bool", "Enabled">>, <<1, "string", "CurrentTaskId">>,
    <<1, "number", "CurrentThreadIndex">>, <<1, "string", "PublicIp">>,
    <<1, "string", "IpfsId">>>>
Worker_Marshal == <<
    <<\h42, "string", "IpfsId">>, <<\h3A, "string", "PublicIp">>,
    <<\h30, "number", "CurrentThreadIndex">>, <<\h2A, "string", "CurrentTaskId">>,
    <<\h20, "bool", "Enabled">>, <<\h1A, "message", "Reputation">>,
    <<\hA, "string", "Address">>>>
\* Wrong: the last two fields numbered the other way round.
Worker_Unmarshal_Swapped == <<
    <<{2}, "string", "Address", 1>>, <<{2}, "message", "Reputation", 3>>,
    <<{0}, "bool", "Enabled", 4>>, <<{2}, "string", "CurrentTaskId", 5>>,
    <<{0}, "number", "CurrentThreadIndex", 6>>, <<{2}, "string", "IpfsId", 7>>,
    <<{2}, "string", "PublicIp", 8>>>>
Worker_Unmarshal == <<
    <<{2}, "string", "Address", 1>>, <<{2}, "message", "Reputation", 3>>,
    <<{0}, "bool", "Enabled", 4>>, <<{2}, "string", "CurrentTaskId", 5>>,
    <<{0}, "number", "CurrentThreadIndex", 6>>, <<{2}, "string", "PublicIp", 7>>,
    <<{2}, "string", "IpfsId", 8>>>>

Worker_Reputation_Fields == <<
    <<"staked", "message", "Staked">>, <<"points", "number", "Points">>,
    <<"validations", "number", "Validations">>, <<"solutions", "number", "Solutions">>,
    <<"winnings", "message", "Winnings">>,
    <<"render_durations", "packed", "RenderDurations">>>>
Worker_Reputation_Size == <<
    <<1, "message", "Staked">>, <<1, "number", "Points">>,
    <<1, "number", "Validations">>, <<1, "number", "Solutions">>,
    <<1, "message", "Winnings">>, <<1, "packed", "RenderDurations">>>>
Worker_Reputation_Marshal == <<
    <<\h32, "packed", "RenderDurations">>, <<\h2A, "message", "Winnings">>,
    <<\h20, "number", "Solutions">>, <<\h18, "number", "Validations">>,
    <<\h10, "number", "Points">>, <<\hA, "message", "Staked">>>>
\* Wrong: takes RenderDurations only when they are packed.
Worker_Reputation_Unmarshal_PackedOnly == <<
    <<{2}, "message", "Staked", 1>>, <<{0}, "number", "Points", 2>>,
    <<{0}, "number", "Validations", 3>>, <<{0}, "number", "Solutions", 4>>,
    <<{2}, "message", "Winnings", 5>>, <<{2}, "packed", "RenderDurations", 6>>>>
Worker_Reputation_Unmarshal == <<
    <<{2}, "message", "Staked", 1>>, <<{0}, "number", "Points", 2>>,
    <<{0}, "number", "Validations", 3>>, <<{0}, "number", "Solutions", 4>>,
    <<{2}, "message", "Winnings", 5>>, <<{0, 2}, "packed", "RenderDurations", 6>>>>

VideoRenderingTask_Fields == <<
    <<"taskId", "string", "TaskId">>, <<"requester", "string", "Requester">>,
    <<"cid", "string", "Cid">>, <<"start_frame", "number", "StartFrame">>,
    <<"end_frame", "number", "EndFrame">>, <<"threadAmount", "number", "ThreadAmount">>,
    <<"completed", "bool", "Completed">>, <<"reward", "message", "Reward">>,
    <<"threads", "messages", "Threads">>>>
VideoRenderingTask_Size == <<
    <<1, "string", "TaskId">>, <<1, "string", "Requester">>, <<1, "string", "Cid">>,
    <<1, "number", "StartFrame">>, <<1, "number", "EndFrame">>,
    <<1, "number", "ThreadAmount">>, <<1, "bool", "Completed">>,
    <<1, "message", "Reward">>, <<1, "messages", "Threads">>>>
VideoRenderingTask_Marshal == <<
    <<\h4A, "messages", "Threads">>, <<\h42, "message", "Reward">>,
    <<\h38, "bool", "Completed">>, <<\h30, "number", "ThreadAmount">>,
    <<\h28, "number", "EndFrame">>, <<\h20, "number", "StartFrame">>,
    <<\h1A, "string", "Cid">>, <<\h12, "string", "Requester">>,
    <<\hA, "string", "TaskId">>>>
VideoRenderingTask_Unmarshal == <<
    <<{2}, "string", "TaskId", 1>>, <<{2}, "string", "Requester", 2>>,
    <<{2}, "string", "Cid", 3>>, <<{0}, "number", "StartFrame", 4>>,
    <<{0}, "number", "EndFrame", 5>>, <<{0}, "number", "ThreadAmount", 6>>,
    <<{0}, "bool", "Completed", 7>>, <<{2}, "message", "Reward", 8>>,
    <<{2}, "messages", "Threads", 9>>>>

VideoRenderingThread_Fields == <<
    <<"thread_id", "string", "ThreadId">>, <<"task_id", "string", "TaskId">>,
    <<"start_frame", "number", "StartFrame">>, <<"end_frame", "number", "EndFrame">>,
    <<"completed", "bool", "Completed">>, <<"workers", "strings", "Workers">>,
    <<"solution", "message", "Solution">>, <<"validations", "messages", "Validations">>,
    <<"average_render_seconds", "number", "AverageRenderSeconds">>>>
VideoRenderingThread_Size == <<
    <<1, "string", "ThreadId">>, <<1, "string", "TaskId">>,
    <<1, "number", "StartFrame">>, <<1, "number", "EndFrame">>,
    <<1, "bool", "Completed">>, <<1, "strings", "Workers">>,
    <<1, "message", "Solution">>, <<1, "messages", "Validations">>,
    <<1, "number", "AverageRenderSeconds">>>>
VideoRenderingThread_Marshal == <<
    <<\h48, "number", "AverageRenderSeconds">>, <<\h42, "messages", "Validations">>,
    <<\h3A, "message", "Solution">>, <<\h32, "strings", "Workers">>,
    <<\h28, "bool", "Completed">>, <<\h20, "number", "EndFrame">>,
    <<\h18, "number", "StartFrame">>, <<\h12, "string", "TaskId">>,
    <<\hA, "string", "ThreadId">>>>
\* Wrong: generated before AverageRenderSeconds was added.
VideoRenderingThread_Unmarshal_Stale == <<
    <<{2}, "string", "ThreadId", 1>>, <<{2}, "string", "TaskId", 2>>,
    <<{0}, "number", "StartFrame", 3>>, <<{0}, "number", "EndFrame", 4>>,
    <<{0}, "bool", "Completed", 5>>, <<{2}, "strings", "Workers", 6>>,
    <<{2}, "message", "Solution", 7>>, <<{2}, "messages", "Validations", 8>>>>
VideoRenderingThread_Unmarshal == <<
    <<{2}, "string", "ThreadId", 1>>, <<{2}, "string", "TaskId", 2>>,
    <<{0}, "number", "StartFrame", 3>>, <<{0}, "number", "EndFrame", 4>>,
    <<{0}, "bool", "Completed", 5>>, <<{2}, "strings", "Workers", 6>>,
    <<{2}, "message", "Solution", 7>>, <<{2}, "messages", "Validations", 8>>,
    <<{0}, "number", "AverageRenderSeconds", 9>>>>

VideoRenderingThread_Solution_Fields == <<
    <<"proposed_by", "string", "ProposedBy">>, <<"frames", "messages", "Frames">>,
    <<"public_key", "string", "PublicKey">>, <<"dir", "string", "Dir">>,
    <<"accepted", "bool", "Accepted">>>>
VideoRenderingThread_Solution_Size == <<
    <<1, "string", "ProposedBy">>, <<1, "messages", "Frames">>,
    <<1, "string", "PublicKey">>, <<1, "string", "Dir">>, <<1, "bool", "Accepted">>>>
VideoRenderingThread_Solution_Marshal == <<
    <<\h28, "bool", "Accepted">>, <<\h22, "string", "Dir">>,
    <<\h1A, "string", "PublicKey">>, <<\h12, "messages", "Frames">>,
    <<\hA, "string", "ProposedBy">>>>
VideoRenderingThread_Solution_Unmarshal == <<
    <<{2}, "string", "ProposedBy", 1>>, <<{2}, "messages", "Frames", 2>>,
    <<{2}, "string", "PublicKey", 3>>, <<{2}, "string", "Dir", 4>>,
    <<{0}, "bool", "Accepted", 5>>>>

VideoRenderingThread_Validation_Fields == <<
    <<"validator", "string", "Validator">>, <<"frames", "messages", "Frames">>,
    <<"public_key", "string", "PublicKey">>, <<"is_reverse", "bool", "IsReverse">>>>
VideoRenderingThread_Validation_Size == <<
    <<1, "string", "Validator">>, <<1, "messages", "Frames">>,
    <<1, "string", "PublicKey">>, <<1, "bool", "IsReverse">>>>
VideoRenderingThread_Validation_Marshal == <<
    <<\h20, "bool", "IsReverse">>, <<\h1A, "string", "PublicKey">>,
    <<\h12, "messages", "Frames">>, <<\hA, "string", "Validator">>>>
VideoRenderingThread_Validation_Unmarshal == <<
    <<{2}, "string", "Validator", 1>>, <<{2}, "messages", "Frames", 2>>,
    <<{2}, "string", "PublicKey", 3>>, <<{0}, "bool", "IsReverse", 4>>>>

VideoRenderingThread_Frame_Fields == <<
    <<"filename", "string", "Filename">>, <<"signature", "string", "Signature">>,
    <<"cid", "string", "Cid">>, <<"hash", "string", "Hash">>,
    <<"validCount", "number", "ValidCount">>,
    <<"invalidCount", "number", "InvalidCount">>>>
VideoRenderingThread_Frame_Size == <<
    <<1, "string", "Filename">>, <<1, "string", "Signature">>, <<1, "string", "Cid">>,
    <<1, "string", "Hash">>, <<1, "number", "ValidCount">>,
    <<1, "number", "InvalidCount">>>>
VideoRenderingThread_Frame_Marshal == <<
    <<\h30, "number", "InvalidCount">>, <<\h28, "number", "ValidCount">>,
    <<\h22, "string", "Hash">>, <<\h1A, "string", "Cid">>,
    <<\h12, "string", "Signature">>, <<\hA, "string", "Filename">>>>
VideoRenderingThread_Frame_Unmarshal == <<
    <<{2}, "string", "Filename", 1>>, <<{2}, "string", "Signature", 2>>,
    <<{2}, "string", "Cid", 3>>, <<{2}, "string", "Hash", 4>>,
    <<{0}, "number", "ValidCount", 5>>, <<{0}, "number", "InvalidCount", 6>>>>

VideoRenderingTaskInfo_Fields == <<<<"nextId", "number", "NextId">>>>
VideoRenderingTaskInfo_Size == <<<<1, "number", "NextId">>>>
VideoRenderingTaskInfo_Marshal == <<<<\h8, "number", "NextId">>>>
VideoRenderingTaskInfo_Unmarshal == <<<<{0}, "number", "NextId", 1>>>>

IndexedVideoRenderingTask_Fields == <<
    <<"index", "string", "Index">>,
    <<"videoRenderingTask", "message", "VideoRenderingTask">>>>
IndexedVideoRenderingTask_Size == <<
    <<1, "string", "Index">>, <<1, "message", "VideoRenderingTask">>>>
IndexedVideoRenderingTask_Marshal == <<
    <<\h12, "message", "VideoRenderingTask">>, <<\hA, "string", "Index">>>>
IndexedVideoRenderingTask_Unmarshal == <<
    <<{2}, "string", "Index", 1>>, <<{2}, "message", "VideoRenderingTask", 2>>>>

VideoRenderingLogs_Fields == <<
    <<"threadId", "string", "ThreadId">>, <<"logs", "messages", "Logs">>>>
VideoRenderingLogs_Size == <<<<1, "string", "ThreadId">>, <<1, "messages", "Logs">>>>
VideoRenderingLogs_Marshal == <<
    <<\h12, "messages", "Logs">>, <<\hA, "string", "ThreadId">>>>
VideoRenderingLogs_Unmarshal == <<
    <<{2}, "string", "ThreadId", 1>>, <<{2}, "messages", "Logs", 2>>>>

VideoRenderingLogs_VideoRenderingLog_Fields == <<
    <<"log", "string", "Log">>, <<"timestamp", "number", "Timestamp">>,
    <<"severity", "number", "Severity">>>>
VideoRenderingLogs_VideoRenderingLog_Size == <<
    <<1, "string", "Log">>, <<1, "number", "Timestamp">>, <<1, "number", "Severity">>>>
VideoRenderingLogs_VideoRenderingLog_Marshal == <<
    <<\h20, "number", "Severity">>, <<\h18, "number", "Timestamp">>,
    <<\h12, "string", "Log">>>>
VideoRenderingLogs_VideoRenderingLog_Unmarshal == <<
    <<{2}, "string", "Log", 2>>, <<{0}, "number", "Timestamp", 3>>,
    <<{0}, "number", "Severity", 4>>>>

Fields == [
    Params |-> Params_Fields,
    GenesisState |-> GenesisState_Fields,
    Worker |-> Worker_Fields,
    Worker_Reputation |-> Worker_Reputation_Fields,
    VideoRenderingTask |-> VideoRenderingTask_Fields,
    VideoRenderingThread |-> VideoRenderingThread_Fields,
    VideoRenderingThread_Solution |-> VideoRenderingThread_Solution_Fields,
    VideoRenderingThread_Validation |-> VideoRenderingThread_Validation_Fields,
    VideoRenderingThread_Frame |-> VideoRenderingThread_Frame_Fields,
    VideoRenderingTaskInfo |-> VideoRenderingTaskInfo_Fields,
    IndexedVideoRenderingTask |-> IndexedVideoRenderingTask_Fields,
    VideoRenderingLogs |-> VideoRenderingLogs_Fields,
    VideoRenderingLogs_VideoRenderingLog |-> VideoRenderingLogs_VideoRenderingLog_Fields]

Size == [
    Params |-> Params_Size,
    GenesisState |-> GenesisState_Size,
    Worker |-> Worker_Size,
    Worker_Reputation |-> Worker_Reputation_Size,
    VideoRenderingTask |-> VideoRenderingTask_Size,
    VideoRenderingThread |-> VideoRenderingThread_Size,
    VideoRenderingThread_Solution |-> VideoRenderingThread_Solution_Size,
    VideoRenderingThread_Validation |-> VideoRenderingThread_Validation_Size,
    VideoRenderingThread_Frame |-> VideoRenderingThread_Frame_Size,
    VideoRenderingTaskInfo |-> VideoRenderingTaskInfo_Size,
    IndexedVideoRenderingTask |-> IndexedVideoRenderingTask_Size,
    VideoRenderingLogs |-> VideoRenderingLogs_Size,
    VideoRenderingLogs_VideoRenderingLog |-> VideoRenderingLogs_VideoRenderingLog_Size]

Marshal == [
    Params |-> Params_Marshal,
    GenesisState |-> GenesisState_Marshal,
    Worker |-> Worker_Marshal,
    Worker_Reputation |-> Worker_Reputation_Marshal,
    VideoRenderingTask |-> VideoRenderingTask_Marshal,
    VideoRenderingThread |-> VideoRenderingThread_Marshal,
    VideoRenderingThread_Solution |-> VideoRenderingThread_Solution_Marshal,
    VideoRenderingThread_Validation |-> VideoRenderingThread_Validation_Marshal,
    VideoRenderingThread_Frame |-> VideoRenderingThread_Frame_Marshal,
    VideoRenderingTaskInfo |-> VideoRenderingTaskInfo_Marshal,
    IndexedVideoRenderingTask |-> IndexedVideoRenderingTask_Marshal,
    VideoRenderingLogs |-> VideoRenderingLogs_Marshal,
    VideoRenderingLogs_VideoRenderingLog |-> VideoRenderingLogs_VideoRenderingLog_Marshal]

Unmarshal == [
    Params |-> Params_Unmarshal,
    GenesisState |-> GenesisState_Unmarshal,
    Worker |-> Worker_Unmarshal,
    Worker_Reputation |-> Worker_Reputation_Unmarshal,
    VideoRenderingTask |-> VideoRenderingTask_Unmarshal,
    VideoRenderingThread |-> VideoRenderingThread_Unmarshal,
    VideoRenderingThread_Solution |-> VideoRenderingThread_Solution_Unmarshal,
    VideoRenderingThread_Validation |-> VideoRenderingThread_Validation_Unmarshal,
    VideoRenderingThread_Frame |-> VideoRenderingThread_Frame_Unmarshal,
    VideoRenderingTaskInfo |-> VideoRenderingTaskInfo_Unmarshal,
    IndexedVideoRenderingTask |-> IndexedVideoRenderingTask_Unmarshal,
    VideoRenderingLogs |-> VideoRenderingLogs_Unmarshal,
    VideoRenderingLogs_VideoRenderingLog |-> VideoRenderingLogs_VideoRenderingLog_Unmarshal]

=============================================================================
