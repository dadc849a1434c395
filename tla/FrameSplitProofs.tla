--------------------------- MODULE FrameSplitProofs ---------------------------
(***************************************************************************)
(* The loop of splitFrames computes the closed form of module Frames, and  *)
(* with it splits every range of frames, for any number of threads.        *)
(***************************************************************************)
EXTENDS FrameSplit, TLAPS

total == FrameCount(startFrame, endFrame)
rest == Remainder(total, threads)
StartOf(k) == ThreadStart(startFrame, endFrame, threads, k)

\* After i iterations the loop is where the closed form says thread i + 1 starts.
IInv ==
    /\ TypeOK
    /\ currentStart = StartOf(i + 1)
    /\ remainder = rest - Extras(rest, i + 1)
    /\ \A k \in 1 .. i : result[k] = [start |-> StartOf(k), end |-> StartOf(k + 1) - 1]

-----------------------------------------------------------------------------
\* Division in Go: the remainder is smaller than the divisor and has the sign of
\* the dividend, the quotient is positive only if the dividend reaches the divisor.
LEMMA DivisionFacts ==
    ASSUME NEW a \in Int, NEW b \in Nat \ {0}
    PROVE  /\ Quotient(a, b) \in Int /\ Remainder(a, b) \in Int
           /\ a = b * Quotient(a, b) + Remainder(a, b)
           /\ a >= 0 => Remainder(a, b) \in 0 .. b - 1
           /\ a <= 0 => Remainder(a, b) <= 0 /\ Quotient(a, b) <= 0
           /\ a >= b => Quotient(a, b) >= 1
<1> DEFINE q == Quotient(a, b)
<1>1. CASE a >= 0
    <2>1. q = a \div b
        BY <1>1 DEF Quotient
    <2>2. q \in Int /\ b * q \in Int
        BY <2>1
    <2>3. Remainder(a, b) = a - b * q
        BY DEF Remainder
    <2>4. b * (a \div b) <= a /\ a < b * (a \div b) + b
        OBVIOUS
    <2>5. Remainder(a, b) \in 0 .. b - 1
        BY <2>1, <2>2, <2>3, <2>4
    <2>6. a = 0 => q = 0
        BY <2>1
    <2>7. a >= b => q >= 1
        BY <2>1
    <2>8. a = b * q + Remainder(a, b)
        BY <2>2, <2>3
    <2>9. a = 0 => Remainder(a, b) = 0
        BY <2>2, <2>3, <2>6
    <2> HIDE DEF q
    <2> QED
        BY <1>1, <2>2, <2>5, <2>6, <2>7, <2>8, <2>9 DEF q
<1>2. CASE a < 0
    <2> DEFINE p == (-a) \div b
    <2>1. q = -p /\ p \in Int /\ p >= 0
        BY <1>2 DEF Quotient
    <2>2. b * p <= -a
        BY <1>2
    <2>3. Remainder(a, b) = a - b * q
        BY DEF Remainder
    <2> HIDE DEF p
    <2>4. b * q = -(b * p) /\ b * p \in Int
        BY <2>1
    <2> HIDE DEF q
    <2> QED
        BY <1>2, <2>1, <2>2, <2>3, <2>4 DEF q
<1> QED
    BY <1>1, <1>2

\* A thread gets the quotient, and an extra frame while there is a remainder.
LEMMA NextStart ==
    ASSUME NEW s \in Int, NEW e \in Int, NEW n \in Nat \ {0}, NEW k \in Nat \ {0}
    PROVE  LET q == Quotient(FrameCount(s, e), n)
               r == Remainder(FrameCount(s, e), n)
           IN  /\ ThreadStart(s, e, n, k) \in Int
               /\ ThreadStart(s, e, n, k + 1) =
                      ThreadStart(s, e, n, k) + q + (IF k - 1 < r THEN 1 ELSE 0)
<1> DEFINE q == Quotient(FrameCount(s, e), n)
           r == Remainder(FrameCount(s, e), n)
<1>1. FrameCount(s, e) \in Int
    BY DEF FrameCount
<1>2. q \in Int /\ r \in Int
    BY <1>1, DivisionFacts
<1>3. /\ ThreadStart(s, e, n, k) = s + (k - 1) * q + Extras(r, k)
      /\ ThreadStart(s, e, n, k + 1) = s + ((k + 1) - 1) * q + Extras(r, k + 1)
    BY DEF ThreadStart
<1> HIDE DEF q, r
<1>4. ((k + 1) - 1) * q = (k - 1) * q + q /\ (k - 1) * q \in Int
    BY <1>2
<1>5. /\ Extras(r, k) \in Int
      /\ Extras(r, k + 1) = Extras(r, k) + (IF k - 1 < r THEN 1 ELSE 0)
    BY <1>2 DEF Extras
<1> QED
    BY <1>2, <1>3, <1>4, <1>5 DEF q, r

\* The loop starts where the closed form puts the first thread.
LEMMA InitIInv ==
    ASSUME Init
    PROVE  IInv
<1>1. startFrame \in Int /\ endFrame \in Int /\ threads \in Nat \ {0} /\ i = 0
    BY InputAssumption DEF Init
<1>2. total \in Int
    BY <1>1 DEF total, FrameCount
<1>3. Quotient(total, threads) \in Int /\ rest \in Int
    BY <1>1, <1>2, DivisionFacts DEF rest
<1>4. Extras(rest, 1) = 0
    BY <1>3 DEF Extras
<1>5. StartOf(1) = startFrame + 0 * Quotient(total, threads) + Extras(rest, 1)
    BY DEF StartOf, ThreadStart, total, rest
<1>6. StartOf(i + 1) = currentStart
    BY <1>1, <1>3, <1>4, <1>5 DEF Init
<1>7. remainder = rest - Extras(rest, i + 1)
    BY <1>1, <1>3, <1>4 DEF Init, rest, total
<1>8. TypeOK
    BY <1>1, <1>3 DEF Init, TypeOK, rest, total
<1> QED
    BY <1>1, <1>6, <1>7, <1>8 DEF IInv

\* One iteration writes the range of thread i + 1.
LEMMA IterateIInv ==
    ASSUME IInv, Iterate
    PROVE  IInv'
<1> DEFINE extra == IF remainder > 0 THEN 1 ELSE 0
           end == currentStart + framesPerThread + extra - 1
           range == [start |-> currentStart, end |-> end]
<1>1. /\ startFrame \in Int /\ endFrame \in Int /\ threads \in Nat \ {0}
      /\ i \in Nat /\ i < threads /\ i' = i + 1 /\ UNCHANGED args
      /\ currentStart \in Int /\ remainder \in Int /\ result \in Seq([start: Int, end: Int])
      /\ Len(result) = i
    BY DEF IInv, TypeOK, Iterate
<1>2. total \in Int
    BY <1>1 DEF total, FrameCount
<1>3. framesPerThread \in Int /\ rest \in Int
    BY <1>1, <1>2, DivisionFacts DEF rest, framesPerThread, total
<1>4. /\ result' = Append(result, range) /\ currentStart' = end + 1
      /\ remainder' = remainder - extra
    BY DEF Iterate
<1>5. /\ extra = (IF (i + 1) - 1 < rest THEN 1 ELSE 0)
      /\ remainder' = rest - Extras(rest, i + 2)
    BY <1>1, <1>3, <1>4 DEF IInv, Extras
<1>6. extra \in {0, 1}
    OBVIOUS
<1> HIDE DEF extra
<1>7. end + 1 = StartOf(i + 2) /\ currentStart = StartOf(i + 1) /\ end = StartOf(i + 2) - 1
    <2>1. StartOf((i + 1) + 1) = StartOf(i + 1) + framesPerThread + extra
        BY <1>1, <1>5, NextStart DEF StartOf, framesPerThread, rest, total
    <2>2. (i + 1) + 1 = i + 2
        BY <1>1
    <2> QED
        BY <1>1, <1>3, <1>6, <2>1, <2>2 DEF IInv
<1> HIDE DEF end
<1>8. end \in Int /\ range \in [start: Int, end: Int]
    BY <1>1, <1>3, <1>6 DEF end
<1>9. /\ total' = total /\ rest' = rest
      /\ \A k : StartOf(k)' = StartOf(k)
    BY <1>1 DEF args, total, rest, StartOf, FrameCount
<1> HIDE DEF range
<1>10. /\ result' \in Seq([start: Int, end: Int]) /\ Len(result') = i'
       /\ result'[i + 1] = range
       /\ \A k \in 1 .. i : result'[k] = result[k]
    BY <1>1, <1>4, <1>8
<1>11. TypeOK'
    BY <1>1, <1>4, <1>6, <1>7, <1>8, <1>10, SMTT(30) DEF TypeOK, args
<1>12. \A k \in 1 .. i' : result'[k] = [start |-> StartOf(k), end |-> StartOf(k + 1) - 1]
    <2> SUFFICES ASSUME NEW k \in 1 .. i + 1
                 PROVE  result'[k] = [start |-> StartOf(k), end |-> StartOf(k + 1) - 1]
        BY <1>1
    <2>1. CASE k \in 1 .. i
        BY <2>1, <1>10 DEF IInv
    <2>2. CASE k = i + 1
        <3>1. k + 1 = i + 2
            BY <1>1, <2>2
        <3> QED
            BY <2>2, <3>1, <1>7, <1>10 DEF range
    <2> QED
        BY <1>1, <2>1, <2>2
<1>13. i' + 1 = i + 2
    BY <1>1
<1>14. currentStart' = StartOf(i' + 1) /\ remainder' = rest - Extras(rest, i' + 1)
    BY <1>4, <1>5, <1>7, <1>13
<1> QED
    BY <1>9, <1>11, <1>12, <1>14 DEF IInv

\* A range that was written starts and ends where the closed form says.
LEMMA RangeEnds ==
    ASSUME IInv, NEW k \in 1 .. i
    PROVE  result[k].start = StartOf(k) /\ result[k].end = StartOf(k + 1) - 1
<1>1. result[k] = [start |-> StartOf(k), end |-> StartOf(k + 1) - 1]
    BY DEF IInv
<1> QED
    BY <1>1

\* In every state the loop is where the closed form says.
THEOREM LoopInvariant == Spec => []IInv
<1>1. IInv /\ [Next]_vars => IInv'
    <2> SUFFICES ASSUME IInv, [Next]_vars
                 PROVE  IInv'
        OBVIOUS
    <2>1. CASE Iterate
        BY <2>1, IterateIInv
    <2>2. CASE UNCHANGED vars
        BY <2>2 DEF vars, IInv, TypeOK, total, rest, StartOf
    <2> QED
        BY <2>1, <2>2 DEF Next, Done
<1> QED
    BY InitIInv, <1>1, PTL DEF Spec

\* The loop's variables stay integers, however the division of a request turns out.
THEOREM LoopTypeCorrect == Spec => []TypeOK
<1>1. IInv => TypeOK
    BY DEF IInv
<1> QED
    BY LoopInvariant, <1>1, PTL

\* The loop computes the ranges from which the chain's model takes its threads.
THEOREM ComputesClosedForm == Spec => []ClosedForm
<1>1. IInv => ClosedForm
    BY RangeEnds DEF ClosedForm, StartOf
<1> QED
    BY LoopInvariant, <1>1, PTL

\* The ranges of the closed form follow each other and end with the last frame.
LEMMA PartitionOfClosedForm ==
    ASSUME IInv
    PROVE  Partition
<1>1. /\ startFrame \in Int /\ endFrame \in Int /\ threads \in Nat \ {0} /\ i \in 0 .. threads
    BY DEF IInv, TypeOK
<1>2. total \in Int
    BY <1>1 DEF total, FrameCount
<1> DEFINE q == Quotient(total, threads)
<1>3. /\ q \in Int /\ rest \in Int /\ total = threads * q + rest
      /\ total >= 0 => rest \in 0 .. threads - 1
    BY <1>1, <1>2, DivisionFacts DEF rest
<1>4. \A k \in Nat \ {0} : StartOf(k) \in Int
    BY <1>1, NextStart DEF StartOf
<1>5. StartOf(1) = startFrame
    <2>1. StartOf(1) = startFrame + 0 * q + Extras(rest, 1)
        BY DEF StartOf, ThreadStart, total, rest
    <2>2. Extras(rest, 1) = 0
        BY <1>3 DEF Extras
    <2> HIDE DEF q
    <2> QED
        BY <1>1, <1>3, <2>1, <2>2
<1>6. ASSUME NEW k \in 1 .. i
      PROVE  result[k].start = IF k = 1 THEN startFrame ELSE result[k - 1].end + 1
    <2>1. CASE k = 1
        BY <2>1, <1>5, RangeEnds
    <2>2. CASE k # 1
        <3>1. k - 1 \in 1 .. i /\ (k - 1) + 1 = k /\ k \in Nat \ {0}
            BY <1>1, <2>2
        <3>2. result[k].start = StartOf(k) /\ result[k - 1].end = StartOf(k) - 1
            BY <3>1, RangeEnds
        <3> QED
            BY <2>2, <3>1, <3>2, <1>4
    <2> QED
        BY <2>1, <2>2
<1>7. ASSUME i = threads, total >= 0
      PROVE  result[i].end = endFrame
    <2>1. Extras(rest, threads + 1) = rest
        BY <1>1, <1>3, <1>7 DEF Extras
    <2>2. StartOf(threads + 1) = startFrame + ((threads + 1) - 1) * q + Extras(rest, threads + 1)
        BY DEF StartOf, ThreadStart, total, rest
    <2> HIDE DEF q
    <2>3. ((threads + 1) - 1) * q = threads * q /\ threads * q \in Int
        BY <1>1, <1>3
    <2>4. StartOf(threads + 1) = startFrame + total
        BY <1>1, <1>2, <1>3, <2>1, <2>2, <2>3
    <2>5. total = endFrame - startFrame + 1
        BY DEF total, FrameCount
    <2>6. result[i].end = StartOf(threads + 1) - 1
        BY <1>1, <1>7, RangeEnds
    <2> QED
        BY <1>1, <2>4, <2>5, <2>6
<1> QED
    BY <1>6, <1>7 DEF Partition, total

\* Every frame of a request goes to exactly one thread: the ranges follow each
\* other, from the first frame to the last.
THEOREM RangesPartition == Spec => []Partition
BY LoopInvariant, PartitionOfClosedForm, PTL

\* The ranges of the closed form differ by one frame at most.
LEMMA BalanceOfClosedForm ==
    ASSUME IInv
    PROVE  Balanced
<1>1. startFrame \in Int /\ endFrame \in Int /\ threads \in Nat \ {0} /\ i \in 0 .. threads
    BY DEF IInv, TypeOK
<1>2. total \in Int
    BY <1>1 DEF total, FrameCount
<1> DEFINE q == Quotient(total, threads)
<1>3. /\ q \in Int /\ rest \in Int
      /\ total <= 0 => rest <= 0 /\ q <= 0
      /\ total >= threads => q >= 1
    BY <1>1, <1>2, DivisionFacts DEF rest
<1>4. ASSUME NEW k \in 1 .. i
      PROVE  Size(result[k]) = q + (IF k - 1 < rest THEN 1 ELSE 0)
    <2>1. result[k] = [start |-> StartOf(k), end |-> StartOf(k + 1) - 1]
        BY DEF IInv
    <2>2. /\ StartOf(k) \in Int
          /\ StartOf(k + 1) = StartOf(k) + q + (IF k - 1 < rest THEN 1 ELSE 0)
        BY <1>1, NextStart DEF StartOf, total, rest
    <2> HIDE DEF q
    <2> QED
        BY <1>3, <2>1, <2>2 DEF Size
<1> HIDE DEF q
<1>5. ASSUME NEW k \in 1 .. i
      PROVE  Size(result[1]) - Size(result[k]) \in {0, 1}
    <2>1. 1 \in 1 .. i /\ k \in Nat /\ k >= 1
        BY <1>1
    <2> QED
        BY <1>3, <1>4, <2>1
<1>6. ASSUME NEW k \in 1 .. i
      PROVE  /\ total >= threads => Size(result[k]) >= 1
             /\ total <= 0 => Size(result[k]) <= 0
    BY <1>1, <1>3, <1>4
<1> QED
    BY <1>5, <1>6 DEF Balanced, total

\* The load is even: threads differ by one frame at most, the earlier ones having
\* more, and nobody goes without a frame when there are enough of them.
THEOREM RangesBalanced == Spec => []Balanced
BY LoopInvariant, BalanceOfClosedForm, PTL

=============================================================================
