------------------------------ MODULE PulsarQuery ------------------------------
(*****************************************************************************)
(* What the generated code of api/v1/query.pulsar.go knows of the queries    *)
(* and their responses: the fields of each message in the order of Size,     *)
(* with the bytes of their tags; in the order of Marshal, which writes the   *)
(* last one first, with their tags; and the cases of Unmarshal, with the     *)
(* wire types a case accepts and its field number. For the reflection, the   *)
(* names a message switches on in Range, Has, Clear, Get, Set, Mutable and   *)
(* NewField, and the fields of the struct.                                   *)
(*****************************************************************************)

QueryGetVideoRenderingTaskRequest_Fields == <<<<"index", "string", "Index">>>>
QueryGetVideoRenderingTaskRequest_Size == <<<<1, "string", "Index">>>>
QueryGetVideoRenderingTaskRequest_Marshal == <<<<\hA, "string", "Index">>>>
QueryGetVideoRenderingTaskRequest_Unmarshal == <<<<{2}, "string", "Index", 1>>>>

QueryGetVideoRenderingTaskResponse_Fields == <<
    <<"video_rendering_task", "message", "VideoRenderingTask">>>>
QueryGetVideoRenderingTaskResponse_Size == <<<<1, "message", "VideoRenderingTask">>>>
QueryGetVideoRenderingTaskResponse_Marshal == <<
    <<\hA, "message", "VideoRenderingTask">>>>
QueryGetVideoRenderingTaskResponse_Unmarshal == <<
    <<{2}, "message", "VideoRenderingTask", 1>>>>

QueryGetVideoRenderingLogsRequest_Fields == <<<<"threadId", "string", "ThreadId">>>>
QueryGetVideoRenderingLogsRequest_Size == <<<<1, "string", "ThreadId">>>>
QueryGetVideoRenderingLogsRequest_Marshal == <<<<\hA, "string", "ThreadId">>>>
QueryGetVideoRenderingLogsRequest_Unmarshal == <<<<{2}, "string", "ThreadId", 1>>>>

QueryGetVideoRenderingLogsResponse_Fields == <<
    <<"video_rendering_logs", "message", "VideoRenderingLogs">>>>
QueryGetVideoRenderingLogsResponse_Size == <<<<1, "message", "VideoRenderingLogs">>>>
QueryGetVideoRenderingLogsResponse_Marshal == <<
    <<\hA, "message", "VideoRenderingLogs">>>>
QueryGetVideoRenderingLogsResponse_Unmarshal == <<
    <<{2}, "message", "VideoRenderingLogs", 1>>>>

QueryGetPendingVideoRenderingTaskRequest_Fields == <<>>
QueryGetPendingVideoRenderingTaskRequest_Size == <<>>
QueryGetPendingVideoRenderingTaskRequest_Marshal == <<>>
QueryGetPendingVideoRenderingTaskRequest_Unmarshal == <<>>

QueryGetPendingVideoRenderingTaskResponse_Fields == <<
    <<"video_rendering_tasks", "messages", "VideoRenderingTasks">>>>
QueryGetPendingVideoRenderingTaskResponse_Size == <<
    <<1, "messages", "VideoRenderingTasks">>>>
QueryGetPendingVideoRenderingTaskResponse_Marshal == <<
    <<\hA, "messages", "VideoRenderingTasks">>>>
QueryGetPendingVideoRenderingTaskResponse_Unmarshal == <<
    <<{2}, "messages", "VideoRenderingTasks", 1>>>>

QueryGetWorkerRequest_Fields == <<<<"worker", "string", "Worker">>>>
QueryGetWorkerRequest_Size == <<<<1, "string", "Worker">>>>
QueryGetWorkerRequest_Marshal == <<<<\hA, "string", "Worker">>>>
QueryGetWorkerRequest_Unmarshal == <<<<{2}, "string", "Worker", 1>>>>

QueryGetWorkerResponse_Fields == <<<<"worker", "message", "Worker">>>>
QueryGetWorkerResponse_Size == <<<<1, "message", "Worker">>>>
QueryGetWorkerResponse_Marshal == <<<<\hA, "message", "Worker">>>>
QueryGetWorkerResponse_Unmarshal == <<<<{2}, "message", "Worker", 1>>>>

Fields == [
    QueryGetVideoRenderingTaskRequest |-> QueryGetVideoRenderingTaskRequest_Fields,
    QueryGetVideoRenderingTaskResponse |-> QueryGetVideoRenderingTaskResponse_Fields,
    QueryGetVideoRenderingLogsRequest |-> QueryGetVideoRenderingLogsRequest_Fields,
    QueryGetVideoRenderingLogsResponse |-> QueryGetVideoRenderingLogsResponse_Fields,
    QueryGetPendingVideoRenderingTaskRequest |-> QueryGetPendingVideoRenderingTaskRequest_Fields,
    QueryGetPendingVideoRenderingTaskResponse |-> QueryGetPendingVideoRenderingTaskResponse_Fields,
    QueryGetWorkerRequest |-> QueryGetWorkerRequest_Fields,
    QueryGetWorkerResponse |-> QueryGetWorkerResponse_Fields]

Size == [
    QueryGetVideoRenderingTaskRequest |-> QueryGetVideoRenderingTaskRequest_Size,
    QueryGetVideoRenderingTaskResponse |-> QueryGetVideoRenderingTaskResponse_Size,
    QueryGetVideoRenderingLogsRequest |-> QueryGetVideoRenderingLogsRequest_Size,
    QueryGetVideoRenderingLogsResponse |-> QueryGetVideoRenderingLogsResponse_Size,
    QueryGetPendingVideoRenderingTaskRequest |-> QueryGetPendingVideoRenderingTaskRequest_Size,
    QueryGetPendingVideoRenderingTaskResponse |-> QueryGetPendingVideoRenderingTaskResponse_Size,
    QueryGetWorkerRequest |-> QueryGetWorkerRequest_Size,
    QueryGetWorkerResponse |-> QueryGetWorkerResponse_Size]

Marshal == [
    QueryGetVideoRenderingTaskRequest |-> QueryGetVideoRenderingTaskRequest_Marshal,
    QueryGetVideoRenderingTaskResponse |-> QueryGetVideoRenderingTaskResponse_Marshal,
    QueryGetVideoRenderingLogsRequest |-> QueryGetVideoRenderingLogsRequest_Marshal,
    QueryGetVideoRenderingLogsResponse |-> QueryGetVideoRenderingLogsResponse_Marshal,
    QueryGetPendingVideoRenderingTaskRequest |-> QueryGetPendingVideoRenderingTaskRequest_Marshal,
    QueryGetPendingVideoRenderingTaskResponse |-> QueryGetPendingVideoRenderingTaskResponse_Marshal,
    QueryGetWorkerRequest |-> QueryGetWorkerRequest_Marshal,
    QueryGetWorkerResponse |-> QueryGetWorkerResponse_Marshal]

Unmarshal == [
    QueryGetVideoRenderingTaskRequest |-> QueryGetVideoRenderingTaskRequest_Unmarshal,
    QueryGetVideoRenderingTaskResponse |-> QueryGetVideoRenderingTaskResponse_Unmarshal,
    QueryGetVideoRenderingLogsRequest |-> QueryGetVideoRenderingLogsRequest_Unmarshal,
    QueryGetVideoRenderingLogsResponse |-> QueryGetVideoRenderingLogsResponse_Unmarshal,
    QueryGetPendingVideoRenderingTaskRequest |-> QueryGetPendingVideoRenderingTaskRequest_Unmarshal,
    QueryGetPendingVideoRenderingTaskResponse |-> QueryGetPendingVideoRenderingTaskResponse_Unmarshal,
    QueryGetWorkerRequest |-> QueryGetWorkerRequest_Unmarshal,
    QueryGetWorkerResponse |-> QueryGetWorkerResponse_Unmarshal]

=============================================================================
