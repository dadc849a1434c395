------------------------------ MODULE GogoQuery ------------------------------
(*****************************************************************************)
(* What the generated code of query.pb.go knows of the queries and their     *)
(* responses: the fields of each message in the order of Size, with the      *)
(* bytes of their tags; in the order of Marshal, which writes the last one   *)
(* first, with their tags; and the cases of Unmarshal, with the wire types a *)
(* case accepts and its field number.                                        *)
(*****************************************************************************)

QueryGetVideoRenderingTaskRequest_Size == <<<<1, "string", "Index">>>>
QueryGetVideoRenderingTaskRequest_Marshal == <<<<\hA, "string", "Index">>>>
QueryGetVideoRenderingTaskRequest_Unmarshal == <<<<{2}, "string", "Index", 1>>>>

QueryGetVideoRenderingTaskResponse_Size == <<<<1, "message", "VideoRenderingTask">>>>
QueryGetVideoRenderingTaskResponse_Marshal == <<
    <<\hA, "message", "VideoRenderingTask">>>>
QueryGetVideoRenderingTaskResponse_Unmarshal == <<
    <<{2}, "message", "VideoRenderingTask", 1>>>>

QueryGetVideoRenderingLogsRequest_Size == <<<<1, "string", "ThreadId">>>>
QueryGetVideoRenderingLogsRequest_Marshal == <<<<\hA, "string", "ThreadId">>>>
QueryGetVideoRenderingLogsRequest_Unmarshal == <<<<{2}, "string", "ThreadId", 1>>>>

QueryGetVideoRenderingLogsResponse_Size == <<<<1, "message", "VideoRenderingLogs">>>>
QueryGetVideoRenderingLogsResponse_Marshal == <<
    <<\hA, "message", "VideoRenderingLogs">>>>
QueryGetVideoRenderingLogsResponse_Unmarshal == <<
    <<{2}, "message", "VideoRenderingLogs", 1>>>>

QueryGetPendingVideoRenderingTaskRequest_Size == <<>>
QueryGetPendingVideoRenderingTaskRequest_Marshal == <<>>
QueryGetPendingVideoRenderingTaskRequest_Unmarshal == <<>>

QueryGetPendingVideoRenderingTaskResponse_Size == <<
    <<1, "messages", "VideoRenderingTasks">>>>
QueryGetPendingVideoRenderingTaskResponse_Marshal == <<
    <<\hA, "messages", "VideoRenderingTasks">>>>
QueryGetPendingVideoRenderingTaskResponse_Unmarshal == <<
    <<{2}, "messages", "VideoRenderingTasks", 1>>>>

QueryGetWorkerRequest_Size == <<<<1, "string", "Worker">>>>
QueryGetWorkerRequest_Marshal == <<<<\hA, "string", "Worker">>>>
QueryGetWorkerRequest_Unmarshal == <<<<{2}, "string", "Worker", 1>>>>

QueryGetWorkerResponse_Size == <<<<1, "message", "Worker">>>>
QueryGetWorkerResponse_Marshal == <<<<\hA, "message", "Worker">>>>
QueryGetWorkerResponse_Unmarshal == <<<<{2}, "message", "Worker", 1>>>>

Size == [
    QueryGetVideoRenderingTaskRequest |-> QueryGetVideoRenderingTaskRequest_Size,
    QueryGetVideoRenderingTaskResponse |-> QueryGetVideoRenderingTaskResponse_Size,
    QueryGetVideoRenderingLogsRequest |-> QueryGetVideoRenderingLogsRequest_Size,
    QueryGetVideoRenderingLogsResponse |-> QueryGetVideoRenderingLogsResponse_Size,
    QueryGetPendingVideoRenderingTaskRequest |-> QueryGetPendingVideoRenderingTaskRequest_Size,
    QueryGetPendingVideoRenderingTaskResponse |-> QueryGetPendingVideoRenderingTaskResponse_Size,
    QueryGetWorkerRequest |-> QueryGetWorkerRequest_Size,
    QueryGetWorkerResponse |-> QueryGetWorkerResponse_Size]

Marshal == [
    QueryGetVideoRenderingTaskRequest |-> QueryGetVideoRenderingTaskRequest_Marshal,
    QueryGetVideoRenderingTaskResponse |-> QueryGetVideoRenderingTaskResponse_Marshal,
    QueryGetVideoRenderingLogsRequest |-> QueryGetVideoRenderingLogsRequest_Marshal,
    QueryGetVideoRenderingLogsResponse |-> QueryGetVideoRenderingLogsResponse_Marshal,
    QueryGetPendingVideoRenderingTaskRequest |-> QueryGetPendingVideoRenderingTaskRequest_Marshal,
    QueryGetPendingVideoRenderingTaskResponse |-> QueryGetPendingVideoRenderingTaskResponse_Marshal,
    QueryGetWorkerRequest |-> QueryGetWorkerRequest_Marshal,
    QueryGetWorkerResponse |-> QueryGetWorkerResponse_Marshal]

Unmarshal == [
    QueryGetVideoRenderingTaskRequest |-> QueryGetVideoRenderingTaskRequest_Unmarshal,
    QueryGetVideoRenderingTaskResponse |-> QueryGetVideoRenderingTaskResponse_Unmarshal,
    QueryGetVideoRenderingLogsRequest |-> QueryGetVideoRenderingLogsRequest_Unmarshal,
    QueryGetVideoRenderingLogsResponse |-> QueryGetVideoRenderingLogsResponse_Unmarshal,
    QueryGetPendingVideoRenderingTaskRequest |-> QueryGetPendingVideoRenderingTaskRequest_Unmarshal,
    QueryGetPendingVideoRenderingTaskResponse |-> QueryGetPendingVideoRenderingTaskResponse_Unmarshal,
    QueryGetWorkerRequest |-> QueryGetWorkerRequest_Unmarshal,
    QueryGetWorkerResponse |-> QueryGetWorkerResponse_Unmarshal]

\* The fields that have a coin somewhere inside.
Coins == [
    QueryGetVideoRenderingTaskResponse |-> {"VideoRenderingTask"},
    QueryGetPendingVideoRenderingTaskResponse |-> {"VideoRenderingTasks"},
    QueryGetWorkerResponse |-> {"Worker"}]

=============================================================================
