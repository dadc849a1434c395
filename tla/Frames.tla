------------------------------- MODULE Frames -------------------------------
(***************************************************************************)
(* The frames that splitFrames gives to each thread of a task, in closed   *)
(* form.  Module FrameSplit has the loop of the code and shows that it     *)
(* computes these.                                                         *)
(***************************************************************************)
EXTENDS Integers

\* Go's / truncates towards zero and its % takes the sign of the dividend.
Quotient(a, b) == IF a >= 0 THEN a \div b ELSE -((-a) \div b)
Remainder(a, b) == a - b * Quotient(a, b)

FrameCount(startFrame, endFrame) == endFrame - startFrame + 1

\* How many of the threads before the i-th, counted from 1, get an extra frame.
Extras(rest, i) == IF rest <= 0 THEN 0 ELSE IF i - 1 < rest THEN i - 1 ELSE rest

\* The first frame of the i-th thread; it ends where the next one starts.
ThreadStart(startFrame, endFrame, threads, i) ==
    LET total == FrameCount(startFrame, endFrame)
    IN  startFrame + (i - 1) * Quotient(total, threads) + Extras(Remainder(total, threads), i)

=============================================================================
