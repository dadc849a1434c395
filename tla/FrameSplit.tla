----------------------------- MODULE FrameSplit -----------------------------
(***************************************************************************)
(* The loop of splitFrames in VideoRenderingTask.go, one step per          *)
(* iteration, over every request whose thread count is positive: a task    *)
(* without threads panics before the loop.  The frame numbers of a request *)
(* are int32 and the arithmetic is on 64-bit ints, so nothing overflows.   *)
(***************************************************************************)
EXTENDS Frames, Sequences

CONSTANTS FrameNumber, ThreadCount   \* what requests ask for

ASSUME InputAssumption == FrameNumber \subseteq Int /\ ThreadCount \subseteq Nat \ {0}

VARIABLES
    startFrame, endFrame, threads,   \* the arguments
    i,                               \* iterations done
    currentStart, remainder,         \* the loop's variables
    result                           \* the ranges written so far

args == <<startFrame, endFrame, threads>>
vars == <<startFrame, endFrame, threads, i, currentStart, remainder, result>>

framesPerThread == Quotient(FrameCount(startFrame, endFrame), threads)

Init ==
    /\ startFrame \in FrameNumber
    /\ endFrame \in FrameNumber
    /\ threads \in ThreadCount
    /\ i = 0
    /\ currentStart = startFrame
    /\ remainder = Remainder(FrameCount(startFrame, endFrame), threads)
    /\ result = <<>>

\* The extra frame is handed out without being taken from the remainder.
Iterate_RemainderKept ==
    LET extra == IF remainder > 0 THEN 1 ELSE 0
        end == currentStart + framesPerThread + extra - 1
    IN  /\ i < threads
        /\ i' = i + 1
        /\ result' = Append(result, [start |-> currentStart, end |-> end])
        /\ currentStart' = end + 1
        /\ UNCHANGED <<args, remainder>>

\* The next range starts on the last frame of this one.
Iterate_Overlaps ==
    LET extra == IF remainder > 0 THEN 1 ELSE 0
        end == currentStart + framesPerThread + extra - 1
    IN  /\ i < threads
        /\ i' = i + 1
        /\ remainder' = remainder - extra
        /\ result' = Append(result, [start |-> currentStart, end |-> end])
        /\ currentStart' = end
        /\ UNCHANGED args

\* All of the remainder goes to the first thread.
Iterate_AllToFirst ==
    LET extra == IF remainder > 0 THEN remainder ELSE 0
        end == currentStart + framesPerThread + extra - 1
    IN  /\ i < threads
        /\ i' = i + 1
        /\ remainder' = remainder - extra
        /\ result' = Append(result, [start |-> currentStart, end |-> end])
        /\ currentStart' = end + 1
        /\ UNCHANGED args

\* One iteration too many.
Iterate_OneTooMany ==
    LET extra == IF remainder > 0 THEN 1 ELSE 0
        end == currentStart + framesPerThread + extra - 1
    IN  /\ i <= threads
        /\ i' = i + 1
        /\ remainder' = remainder - extra
        /\ result' = Append(result, [start |-> currentStart, end |-> end])
        /\ currentStart' = end + 1
        /\ UNCHANGED args

Iterate ==
    LET extra == IF remainder > 0 THEN 1 ELSE 0
        end == currentStart + framesPerThread + extra - 1
    IN  /\ i < threads
        /\ i' = i + 1
        /\ remainder' = remainder - extra
        /\ result' = Append(result, [start |-> currentStart, end |-> end])
        /\ currentStart' = end + 1
        /\ UNCHANGED args

Done == i = threads /\ UNCHANGED vars

Next == Iterate \/ Done

Spec == Init /\ [][Next]_vars

-----------------------------------------------------------------------------
Size(range) == range.end - range.start + 1

TypeOK ==
    /\ startFrame \in Int /\ endFrame \in Int /\ threads \in Nat \ {0}
    /\ i \in 0 .. threads
    /\ currentStart \in Int /\ remainder \in Int
    /\ result \in Seq([start: Int, end: Int])
    /\ Len(result) = i

\* The ranges follow each other from the first frame of the request and, unless the
\* request's range is reversed, the last one ends with its last frame: every frame
\* is rendered by exactly one thread.
Partition ==
    /\ \A k \in 1 .. i :
           result[k].start = IF k = 1 THEN startFrame ELSE result[k - 1].end + 1
    /\ i = threads /\ FrameCount(startFrame, endFrame) >= 0 => result[i].end = endFrame

\* No thread has more frames than the one before it, or two fewer than the first.
\* When there are at least as many frames as threads every thread has one; when
\* there are none, or the range is reversed, no thread has any.
Balanced ==
    LET total == FrameCount(startFrame, endFrame)
    IN  /\ \A k \in 1 .. i : Size(result[1]) - Size(result[k]) \in {0, 1}
        /\ \A k \in 1 .. i : /\ total >= threads => Size(result[k]) >= 1
                             /\ total <= 0 => Size(result[k]) <= 0

\* The closed form from which the chain's model takes the frames of a thread.
ClosedForm ==
    \A k \in 1 .. i :
        /\ result[k].start = ThreadStart(startFrame, endFrame, threads, k)
        /\ result[k].end = ThreadStart(startFrame, endFrame, threads, k + 1) - 1

=============================================================================
