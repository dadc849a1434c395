------------------------------ MODULE CodecProofs ------------------------------
(***************************************************************************)
(* The proofs of the codecs, for messages whose tables agree:              *)
(* that Size and Marshal count the same bytes (BuffersAreFilled); that what*)
(* one codec writes both read as it was written (MessagesSurvive), whatever*)
(* the values of the fields; that the arguments of a command reach the     *)
(* fields they were passed for (CommandsAreUnderstood); and that of any    *)
(* bytes, however many and whoever wrote them, pulsar reads all that gogo  *)
(* reads, with the last part of each submessage (CodecsReadAlike).         *)
(*                                                                         *)
(* Written, SumOf and what a buffer is read as are recursive: the facts    *)
(* about them are proved by induction on the number of fields and parts,   *)
(* which rests on the least element of a set of numbers (LeastNumber).     *)
(***************************************************************************)
EXTENDS Codec, WellFoundedInduction, TLAPS

-----------------------------------------------------------------------------
(***************************************************************************)
(* Reading one part.                                                       *)
(***************************************************************************)
Table(codec) == UnmarshalTable[codec][type]

\* A reader has its three fields.
ReaderOK(read) ==
    /\ read = [message |-> read.message, unknown |-> read.unknown, failed |-> read.failed]
    /\ read.failed \in BOOLEAN

-----------------------------------------------------------------------------
\* Fields that are alike have the same value when they are not set.
LEMMA AlikeZero ==
    ASSUME NEW field, NEW other, Alike(field, other)
    PROVE  Zero(field[2]) = Zero(other[2])
<1>1. CASE field[2] = other[2]
    BY <1>1
<1>2. CASE {field[2], other[2]} = {"embedded", "message"}
    <2>1. field[2] \in {"embedded", "message"} /\ other[2] \in {"embedded", "message"}
        BY <1>2
    <2> QED
        BY <2>1 DEF Zero, Scalar
<1> QED
    BY <1>1, <1>2 DEF Alike

\* And they are updated to the same value, unless they are one submessage.
LEMMA AlikeUpdated ==
    ASSUME NEW field, NEW other, Alike(field, other), field[2] \notin Single, NEW old, NEW content
    PROVE  Updated("gogo", field[2], old, content) = Updated("pulsar", other[2], old, content)
<1>1. other[2] = field[2]
    BY DEF Alike, Single
<1>2. Updated("gogo", field[2], old, content) = Updated("pulsar", field[2], old, content)
    BY DEF Updated
<1> QED
    BY <1>1, <1>2

\* Of one submessage gogo keeps all parts and pulsar the one it has just read.
LEMMA SingleUpdated ==
    ASSUME NEW kind \in Single, NEW old, NEW content
    PROVE  /\ Updated("gogo", kind, old, content) = Append(old, content[1])
           /\ Updated("pulsar", kind, old, content) = <<content[1]>>
BY DEF Updated, Single

\* The kind of a field is that of the one case it has.
LEMMA KindIsUnique ==
    ASSUME NEW table, OneCaseEach(table), NEW k \in DOMAIN table
    PROVE  KindOf(table, table[k][3]) = table[k][2]
<1> DEFINE chosen == CHOOSE l \in DOMAIN table : table[l][3] = table[k][3]
<1>1. chosen \in DOMAIN table /\ table[chosen][3] = table[k][3]
    OBVIOUS
<1>2. chosen = k
    BY <1>1 DEF OneCaseEach
<1> QED
    BY <1>2 DEF KindOf

\* Both codecs start from the same empty message.
LEMMA SameZeroMessage ==
    ASSUME CasesAgree
    PROVE  ZeroMessage(Table("gogo")) = ZeroMessage(Table("pulsar"))
<1> DEFINE gogo == Table("gogo")
           pulsar == Table("pulsar")
<1>1. /\ OneCaseEach(gogo) /\ OneCaseEach(pulsar)
      /\ \A k \in DOMAIN gogo : \E l \in DOMAIN pulsar : Alike(gogo[k], pulsar[l])
      /\ \A l \in DOMAIN pulsar : \E k \in DOMAIN gogo : Alike(gogo[k], pulsar[l])
    BY DEF CasesAgree, TypesWithSameCases, CasesAgreeOn, Table
<1> HIDE DEF gogo, pulsar
<1>2. NamesOf(gogo) = NamesOf(pulsar)
    BY <1>1 DEF NamesOf, Alike
<1>3. ASSUME NEW name \in NamesOf(gogo)
      PROVE  Zero(KindOf(gogo, name)) = Zero(KindOf(pulsar, name))
    <2>1. PICK k \in DOMAIN gogo : name = gogo[k][3]
        BY DEF NamesOf
    <2>2. PICK l \in DOMAIN pulsar : Alike(gogo[k], pulsar[l])
        BY <1>1
    <2>3. KindOf(gogo, name) = gogo[k][2]
        BY <1>1, <2>1, KindIsUnique
    <2>4. name = pulsar[l][3]
        BY <2>1, <2>2 DEF Alike
    <2>5. KindOf(pulsar, name) = pulsar[l][2]
        BY <1>1, <2>4, KindIsUnique
    <2> QED
        BY <2>2, <2>3, <2>5, AlikeZero
<1> QED
    BY <1>2, <1>3 DEF ZeroMessage, gogo, pulsar

\* A part has a case in both or in neither, at most one in each, and those are alike.
LEMMA SameCases ==
    ASSUME CasesAgree, NEW part
    PROVE  \/ CasesOf("gogo", part) = {} /\ CasesOf("pulsar", part) = {}
           \/ \E k \in DOMAIN Table("gogo"), l \in DOMAIN Table("pulsar") :
                  /\ CasesOf("gogo", part) = {k} /\ CasesOf("pulsar", part) = {l}
                  /\ Alike(Table("gogo")[k], Table("pulsar")[l])
<1> DEFINE gogo == Table("gogo")
           pulsar == Table("pulsar")
<1>1. /\ OneCaseEach(gogo) /\ OneCaseEach(pulsar)
      /\ \A k \in DOMAIN gogo : \E l \in DOMAIN pulsar : Alike(gogo[k], pulsar[l])
      /\ \A l \in DOMAIN pulsar : \E k \in DOMAIN gogo : Alike(gogo[k], pulsar[l])
    BY DEF CasesAgree, TypesWithSameCases, CasesAgreeOn, Table
<1>2. /\ CasesOf("gogo", part) = {k \in DOMAIN gogo : gogo[k][4] = NumberOf(part)}
      /\ CasesOf("pulsar", part) = {l \in DOMAIN pulsar : pulsar[l][4] = NumberOf(part)}
    BY DEF CasesOf, Table
<1> HIDE DEF gogo, pulsar
<1>3. ASSUME NEW k \in DOMAIN gogo, NEW l \in DOMAIN pulsar, Alike(gogo[k], pulsar[l]),
             gogo[k][4] = NumberOf(part)
      PROVE  CasesOf("gogo", part) = {k} /\ CasesOf("pulsar", part) = {l}
    <2>1. pulsar[l][4] = NumberOf(part)
        BY <1>3 DEF Alike
    <2>2. \A m \in DOMAIN gogo : gogo[m][4] = NumberOf(part) => m = k
        BY <1>1, <1>3 DEF OneCaseEach
    <2>3. \A m \in DOMAIN pulsar : pulsar[m][4] = NumberOf(part) => m = l
        BY <1>1, <2>1 DEF OneCaseEach
    <2>4. CasesOf("gogo", part) = {k}
        BY <1>2, <1>3, <2>2
    <2>5. CasesOf("pulsar", part) = {l}
        BY <1>2, <2>1, <2>3
    <2> QED
        BY <2>4, <2>5
<1>4. ASSUME NEW k \in CasesOf("gogo", part)
      PROVE  \E l \in DOMAIN pulsar : /\ CasesOf("gogo", part) = {k} /\ CasesOf("pulsar", part) = {l}
                                      /\ Alike(gogo[k], pulsar[l])
    BY <1>1, <1>2, <1>3
<1>5. ASSUME NEW l \in CasesOf("pulsar", part)
      PROVE  \E k \in DOMAIN gogo : gogo[k][4] = NumberOf(part)
    BY <1>1, <1>2 DEF Alike
<1>6. CASE CasesOf("gogo", part) = {}
    BY <1>2, <1>5, <1>6
<1>7. CASE CasesOf("gogo", part) # {}
    <2>1. PICK k \in CasesOf("gogo", part) : TRUE
        BY <1>7
    <2>2. k \in DOMAIN gogo
        BY <1>2
    <2> QED
        BY <1>4, <2>2 DEF gogo, pulsar
<1> QED
    BY <1>6, <1>7

\* What is illegal to pulsar is so to gogo, and gogo alone refuses only an amount.
LEMMA SameIllegal ==
    ASSUME CasesAgree, NEW part
    PROVE  /\ Illegal("pulsar", part) => Illegal("gogo", part)
           /\ Illegal("gogo", part) /\ ~Illegal("pulsar", part) => part.flaw = "amount"
<1>1. CASE CasesOf("gogo", part) = {} /\ CasesOf("pulsar", part) = {}
    BY <1>1 DEF Illegal
<1>2. ASSUME NEW k \in DOMAIN Table("gogo"), NEW l \in DOMAIN Table("pulsar"),
             CasesOf("gogo", part) = {k}, CasesOf("pulsar", part) = {l},
             Alike(Table("gogo")[k], Table("pulsar")[l])
      PROVE  /\ Illegal("pulsar", part) => Illegal("gogo", part)
             /\ Illegal("gogo", part) /\ ~Illegal("pulsar", part) => part.flaw = "amount"
    <2> DEFINE f == UnmarshalTable["gogo"][type][k]
               h == UnmarshalTable["pulsar"][type][l]
               rest == WireType(part) \in {4, 6, 7} \/ NumberOf(part) = 0 \/ ~part.whole
    <2>1. f[1] = h[1] /\ (f[2] \in Nested <=> h[2] \in Nested)
        BY <1>2 DEF Alike, Table, Nested
    <2>2. /\ Refuses("pulsar", part.flaw) => Refuses("gogo", part.flaw)
          /\ Refuses("gogo", part.flaw) /\ ~Refuses("pulsar", part.flaw) => part.flaw = "amount"
        BY DEF Refuses
    <2>3. Illegal("gogo", part) <=>
              rest \/ WireType(part) \notin f[1] \/ (f[2] \in Nested /\ Refuses("gogo", part.flaw))
        BY <1>2 DEF Illegal
    <2>4. Illegal("pulsar", part) <=>
              rest \/ WireType(part) \notin h[1] \/ (h[2] \in Nested /\ Refuses("pulsar", part.flaw))
        BY <1>2 DEF Illegal
    <2> HIDE DEF f, h, rest
    <2> QED
        BY <2>1, <2>2, <2>3, <2>4
<1> QED
    BY <1>1, <1>2, SameCases

\* What a part makes of a reader that has not given up.
LEMMA UnmarshalFacts ==
    ASSUME NEW codec \in Codecs, NEW read, ReaderOK(read), NEW part
    PROVE  LET after == Unmarshal(codec, read, part)
           IN  /\ ReaderOK(after)
               /\ read.failed => after.failed
               /\ ~read.failed => (after.failed <=> Illegal(codec, part))
               /\ CasesOf(codec, part) = {} => after.message = read.message
               /\ \A k : /\ ~read.failed /\ ~Illegal(codec, part) /\ CasesOf(codec, part) = {k}
                         => after.message =
                                [read.message EXCEPT ![Table(codec)[k][3]] =
                                     Updated(codec, Table(codec)[k][2], @, part.content)]
<1> DEFINE after == Unmarshal(codec, read, part)
           field == UnmarshalTable[codec][type][CHOOSE k \in CasesOf(codec, part) : TRUE]
           changed == [read.message EXCEPT ![field[3]] = Updated(codec, field[2], @, part.content)]
<1>1. CASE read.failed
    <2>1. after = read
        BY <1>1 DEF Unmarshal
    <2> QED
        BY <1>1, <2>1
<1>2. CASE ~read.failed /\ Illegal(codec, part)
    <2>1. after = [read EXCEPT !.failed = TRUE]
        BY <1>2 DEF Unmarshal
    <2>2. after = [message |-> read.message, unknown |-> read.unknown, failed |-> TRUE]
        BY <2>1 DEF ReaderOK
    <2> QED
        BY <1>2, <2>2 DEF ReaderOK
<1>3. CASE ~read.failed /\ ~Illegal(codec, part) /\ CasesOf(codec, part) = {}
    <2>1. after = Skip(codec, read, part)
        BY <1>3 DEF Unmarshal
    <2>2. \/ after = read
          \/ after = [message |-> read.message, unknown |-> Append(read.unknown, part),
                      failed |-> read.failed]
        BY <2>1 DEF Skip, ReaderOK
    <2> QED
        BY <1>3, <2>2 DEF ReaderOK
<1>4. CASE ~read.failed /\ ~Illegal(codec, part) /\ CasesOf(codec, part) # {}
    <2>1. after = [read EXCEPT !.message[field[3]] = Updated(codec, field[2], @, part.content)]
        BY <1>4 DEF Unmarshal
    <2>2. after = [message |-> changed, unknown |-> read.unknown, failed |-> read.failed]
        BY <2>1 DEF ReaderOK
    <2> HIDE DEF after, changed
    <2>3. ReaderOK(after) /\ after.message = changed /\ ~after.failed
        BY <1>4, <2>2 DEF ReaderOK
    <2>4. ASSUME NEW k, CasesOf(codec, part) = {k}
          PROVE  changed = [read.message EXCEPT ![Table(codec)[k][3]] =
                                Updated(codec, Table(codec)[k][2], @, part.content)]
        <3>1. (CHOOSE l \in CasesOf(codec, part) : TRUE) = k
            BY <2>4
        <3> QED
            BY <3>1 DEF changed, Table
    <2> QED
        BY <1>4, <2>3, <2>4 DEF after
<1> QED
    BY <1>1, <1>2, <1>3, <1>4

-----------------------------------------------------------------------------
(***************************************************************************)
(* Induction, recursion and sums.                                          *)
(***************************************************************************)
\* Every set of numbers has a least one, because < is well founded.
LEMMA LeastNumber ==
    ASSUME NEW T \in SUBSET Nat, T # {}
    PROVE  \E m \in T : \A k \in T : m <= k
<1> DEFINE less == {pair \in Nat \X Nat : pair[1] < pair[2]}
<1>1. IsWellFoundedOn(less, Nat)
    BY NatLessThanWellFounded DEF OpToRel
<1>2. \A k, l \in Nat : k < l => <<k, l>> \in less
    OBVIOUS
<1> HIDE DEF less
<1>3. PICK m \in T : \A k \in T : <<k, m>> \notin less
    BY <1>1, WFMin
<1>4. \A k \in T : ~(k < m)
    BY <1>2, <1>3
<1>5. \A k \in T : m <= k
    BY <1>4
<1> QED
    BY <1>5

\* A set with 0 and the successor of each of its numbers has all of them.
LEMMA Induction ==
    ASSUME NEW S, 0 \in S, \A n \in Nat : n \in S => n + 1 \in S
    PROVE  Nat \subseteq S
<1> SUFFICES ASSUME Nat \ S # {} PROVE FALSE
    OBVIOUS
<1>1. PICK m \in Nat \ S : \A k \in Nat \ S : m <= k
    BY LeastNumber
<1>2. m - 1 \in Nat /\ m - 1 \in S
    BY <1>1
<1> QED
    BY <1>1, <1>2

\* f is what a step makes of a value n times.
Iterates(f, V, base, n, step) ==
    f \in [0 .. n -> V] /\ f[0] = base /\ \A k \in 1 .. n : f[k] = step[<<f[k - 1], k>>]

\* Recursion along the numbers up to n defines a function.
LEMMA Recursion ==
    ASSUME NEW V, NEW base \in V, NEW n \in Nat, NEW step \in [V \X (1 .. n) -> V]
    PROVE  \E f : Iterates(f, V, base, n, step)
<1> DEFINE Follows(f, m) ==
               f \in [0 .. m -> V] /\ f[0] = base /\ \A k \in 1 .. m : f[k] = step[<<f[k - 1], k>>]
           S == {m \in Nat : m <= n => \E f : Follows(f, m)}
<1>1. 0 \in S
    <2>1. Follows([k \in 0 .. 0 |-> base], 0)
        OBVIOUS
    <2> QED
        BY <2>1
<1>2. ASSUME NEW m \in Nat, m \in S
      PROVE  m + 1 \in S
    <2> SUFFICES ASSUME m + 1 <= n
                 PROVE  \E f : Follows(f, m + 1)
        OBVIOUS
    <2>1. PICK f : Follows(f, m)
        BY <1>2
    <2> DEFINE g == [k \in 0 .. m + 1 |-> IF k <= m THEN f[k] ELSE step[<<f[m], k>>]]
    <2>2. f[m] \in V /\ <<f[m], m + 1>> \in V \X (1 .. n)
        BY <2>1
    <2>3. step[<<f[m], m + 1>>] \in V
        BY <2>2
    <2>4. g \in [0 .. m + 1 -> V]
        BY <2>1, <2>3
    <2>5. g[0] = base
        BY <2>1
    <2>6. ASSUME NEW k \in 1 .. m + 1 
          PROVE  g[k] = step[<<g[k - 1], k>>]
        <3>1. CASE k <= m
            <4>1. k \in 1 .. m /\ g[k] = f[k] /\ g[k - 1] = f[k - 1]
                BY <3>1
            <4> QED
                BY <2>1, <4>1
        <3>2. CASE k = m + 1
            <4>1. g[k] = step[<<f[m], k>>] /\ g[k - 1] = f[m]
                BY <3>2
            <4> QED
                BY <4>1
        <3> QED
            BY <3>1, <3>2
    <2> QED
        BY <2>4, <2>5, <2>6
<1> HIDE DEF S
<1>3. n \in S
    BY <1>1, <1>2, Induction
<1> QED
    BY <1>3 DEF S, Iterates

-----------------------------------------------------------------------------
\* sum holds the sums of the first elements of s.
IsSum(s, sum) == sum = [k \in 0 .. Len(s) |-> IF k = 0 THEN 0 ELSE sum[k - 1] + s[k]]

\* Every sequence has such sums,
LEMMA SumsExist ==
    ASSUME NEW s \in Seq(Int)
    PROVE  \E sum \in [0 .. Len(s) -> Int] : IsSum(s, sum)
<1> DEFINE n == Len(s)
           step == [x \in Int \X (1 .. n) |-> x[1] + s[x[2]]]
<1>1. n \in Nat /\ \A k \in 1 .. n : s[k] \in Int
    OBVIOUS
<1> HIDE DEF n
<1>2. step \in [Int \X (1 .. n) -> Int]
    BY <1>1
<1>3. \A a \in Int, k \in 1 .. n : step[<<a, k>>] = a + s[k]
    OBVIOUS
<1>4. 0 \in Int
    OBVIOUS
<1> HIDE DEF step
<1>5. PICK f : Iterates(f, Int, 0, n, step)
    BY <1>1, <1>2, <1>4, Recursion
<1>8. f \in [0 .. n -> Int] /\ f[0] = 0 /\ \A k \in 1 .. n : f[k] = step[<<f[k - 1], k>>]
    BY <1>5 DEF Iterates
<1>6. ASSUME NEW k \in 1 .. n
      PROVE  f[k] = f[k - 1] + s[k]
    <2>1. f[k - 1] \in Int
        BY <1>1, <1>8
    <2> QED
        BY <1>3, <1>8, <2>1
<1>7. f = [k \in 0 .. n |-> IF k = 0 THEN 0 ELSE f[k - 1] + s[k]]
    BY <1>1, <1>8, <1>6
<1> QED
    BY <1>8, <1>7 DEF IsSum, n

\* and no others,
LEMMA SumsAreUnique ==
    ASSUME NEW s \in Seq(Int), NEW sum, IsSum(s, sum), NEW other, IsSum(s, other)
    PROVE  \A k \in 0 .. Len(s) : sum[k] = other[k]
<1> DEFINE S == {k \in Nat : k <= Len(s) => sum[k] = other[k]}
<1>1. Len(s) \in Nat
    OBVIOUS
<1>2. \A k \in 0 .. Len(s) : sum[k] = IF k = 0 THEN 0 ELSE sum[k - 1] + s[k]
    BY DEF IsSum
<1>3. \A k \in 0 .. Len(s) : other[k] = IF k = 0 THEN 0 ELSE other[k - 1] + s[k]
    BY DEF IsSum
<1>4. 0 \in S
    BY <1>1, <1>2, <1>3
<1>5. ASSUME NEW k \in Nat, k \in S
      PROVE  k + 1 \in S
    BY <1>1, <1>2, <1>3, <1>5
<1> HIDE DEF S
<1>6. Nat \subseteq S
    BY <1>4, <1>5, Induction
<1> QED
    BY <1>6 DEF S

\* so that SumOf is the last of them.
LEMMA SumIs ==
    ASSUME NEW s \in Seq(Int), NEW sum, IsSum(s, sum)
    PROVE  SumOf(s) = sum[Len(s)]
<1> DEFINE chosen == CHOOSE f : IsSum(s, f)
<1>1. IsSum(s, chosen)
    OBVIOUS
<1>2. SumOf(s) = chosen[Len(s)]
    BY DEF SumOf, IsSum
<1> HIDE DEF chosen
<1>3. Len(s) \in 0 .. Len(s)
    OBVIOUS
<1> QED
    BY <1>1, <1>2, <1>3, SumsAreUnique

\* What SumOf makes of no number, of one, and of a sequence after another.
LEMMA SumOfEmpty == SumOf(<<>>) = 0
<1>1. <<>> \in Seq(Int) /\ Len(<<>>) = 0
    OBVIOUS
<1>2. PICK sum : IsSum(<<>>, sum)
    BY <1>1, SumsExist
<1>3. sum[0] = 0
    BY <1>1, <1>2 DEF IsSum
<1> QED
    BY <1>1, <1>2, <1>3, SumIs

LEMMA SumOfType ==
    ASSUME NEW s \in Seq(Int)
    PROVE  SumOf(s) \in Int
<1>1. PICK sum \in [0 .. Len(s) -> Int] : IsSum(s, sum)
    BY SumsExist
<1> QED
    BY <1>1, SumIs

LEMMA SumOfOne ==
    ASSUME NEW x \in Int
    PROVE  SumOf(<<x>>) = x
<1> DEFINE sum == [k \in 0 .. 1 |-> IF k = 0 THEN 0 ELSE x]
<1>1. <<x>> \in Seq(Int) /\ Len(<<x>>) = 1 /\ <<x>>[1] = x
    OBVIOUS
<1>2. \A k \in 0 .. 1 : sum[k] = IF k = 0 THEN 0 ELSE sum[k - 1] + <<x>>[k]
    OBVIOUS
<1>3. IsSum(<<x>>, sum)
    BY <1>1, <1>2 DEF IsSum
<1>4. sum[1] = x
    OBVIOUS
<1> HIDE DEF sum
<1> QED
    BY <1>1, <1>3, <1>4, SumIs

LEMMA SumOfConcat ==
    ASSUME NEW s \in Seq(Int), NEW t \in Seq(Int)
    PROVE  SumOf(s \o t) = SumOf(s) + SumOf(t)
<1> DEFINE m == Len(s)
           n == Len(t)
           u == s \o t
<1>1. m \in Nat /\ n \in Nat /\ u \in Seq(Int) /\ Len(u) = m + n
    OBVIOUS
<1>2. PICK f \in [0 .. m -> Int] : IsSum(s, f)
    BY SumsExist
<1>3. PICK g \in [0 .. n -> Int] : IsSum(t, g)
    BY SumsExist
<1>4. f[0] = 0 /\ \A k \in 1 .. m : f[k] = f[k - 1] + s[k]
    <2>1. \A k \in 0 .. m : f[k] = IF k = 0 THEN 0 ELSE f[k - 1] + s[k]
        BY <1>2 DEF IsSum
    <2> HIDE DEF m
    <2> QED
        BY <1>1, <2>1
<1>5. g[0] = 0 /\ \A k \in 1 .. n : g[k] = g[k - 1] + t[k]
    <2>1. \A k \in 0 .. n : g[k] = IF k = 0 THEN 0 ELSE g[k - 1] + t[k]
        BY <1>3 DEF IsSum
    <2> HIDE DEF n
    <2> QED
        BY <1>1, <2>1
<1>6. /\ \A k \in 1 .. m : u[k] = s[k]
      /\ \A k \in m + 1 .. m + n : u[k] = t[k - m]
    OBVIOUS
<1>7. /\ \A k \in 1 .. m : s[k] \in Int
      /\ \A k \in 1 .. n : t[k] \in Int
    OBVIOUS
<1>8. SumOf(s) = f[m] /\ SumOf(t) = g[n]
    BY <1>2, <1>3, SumIs
<1> DEFINE h == [k \in 0 .. m + n |-> IF k <= m THEN f[k] ELSE f[m] + g[k - m]]
<1> HIDE DEF m, n, u
<1>9. ASSUME NEW k \in 0 .. m + n
      PROVE  h[k] = IF k = 0 THEN 0 ELSE h[k - 1] + u[k]
    <2>1. CASE k <= m
        <3>1. h[k] = f[k] /\ (k # 0 => h[k - 1] = f[k - 1])
            BY <1>1, <2>1
        <3>2. k # 0 => k \in 1 .. m
            BY <1>1, <2>1
        <3> HIDE DEF h
        <3> QED
            BY <1>4, <1>6, <3>1, <3>2
    <2>2. CASE k > m
        <3>1. k - m \in 1 .. n /\ k \in m + 1 .. m + n /\ k # 0 /\ k - m - 1 \in 0 .. n
            BY <1>1, <2>2
        <3>2. h[k] = f[m] + g[k - m]
            BY <1>1, <2>2
        <3>3. h[k - 1] = f[m] + g[k - m - 1]
            <4>1. CASE k - 1 = m
                <5>1. h[k - 1] = f[m]
                    BY <1>1, <2>2, <4>1
                <5>2. k - m - 1 = 0 /\ f[m] \in Int
                    BY <1>1, <1>2, <4>1
                <5> HIDE DEF h
                <5> QED
                    BY <1>5, <5>1, <5>2
            <4>2. CASE k - 1 > m
                <5>1. k - 1 \in 0 .. m + n /\ (k - 1) - m = k - m - 1
                    BY <1>1, <2>2
                <5> QED
                    BY <1>1, <4>2, <5>1
            <4> QED
                BY <1>1, <2>2, <4>1, <4>2
        <3>4. g[k - m] = g[k - m - 1] + t[k - m] /\ u[k] = t[k - m]
            BY <1>5, <1>6, <3>1
        <3>5. f[m] \in Int /\ g[k - m - 1] \in Int /\ t[k - m] \in Int
            BY <1>1, <1>2, <1>3, <1>7, <3>1, SMTT(30)
        <3> HIDE DEF h
        <3> QED
            BY <3>1, <3>2, <3>3, <3>4, <3>5, SMTT(30)
    <2> QED
        BY <1>1, <2>1, <2>2
<1>10. IsSum(u, h)
    BY <1>1, <1>9 DEF IsSum
<1>11. SumOf(u) = h[m + n]
    BY <1>1, <1>10, SumIs
<1>12. h[m + n] = f[m] + g[n]
    <2>1. CASE n = 0
        <3>1. m + n = m /\ m \in 0 .. m + n /\ f[m] \in Int
            BY <1>1, <1>2, <2>1
        <3>2. h[m] = f[m]
            BY <1>1, <3>1
        <3> HIDE DEF h
        <3> QED
            BY <1>5, <2>1, <3>1, <3>2
    <2>2. CASE n # 0
        BY <1>1, <2>2
    <2> QED
        BY <2>1, <2>2
<1> HIDE DEF h
<1> QED
    BY <1>8, <1>11, <1>12 DEF u

-----------------------------------------------------------------------------
(***************************************************************************)
(* Parts and their lengths.                                                *)
(***************************************************************************)
\* What the parts of the bytes range over: a part has content, in any case, and an amount
\* only if there is a coin in the type.
FlawSet == IF CoinFields[type] = {} THEN {"none", "cut"} ELSE {"none", "cut", "amount"}

PartSet ==
    [tag : Nat, content : Seq(Int) \ {<<>>}, length : Int, whole : BOOLEAN, flaw : FlawSet]

LEMMA SamePartSet ==
    ASSUME type' = type
    PROVE  PartSet' = PartSet
BY DEF PartSet, FlawSet

\* A varint and a delimited content take a number of bytes.
LEMMA SovType ==
    ASSUME NEW x \in Int
    PROVE  Sov(x) \in Int /\ Delimited(x) \in Int
<1>1. Sov(x) \in {1, 2, 3, 10}
    BY DEF Sov
<1>2. \A n \in {1, 2, 3, 10} : n \in Int /\ n + x \in Int
    OBVIOUS
<1> QED
    BY <1>1, <1>2, Zenon DEF Delimited

\* A sequence with its elements replaced.
LEMMA Mapped ==
    ASSUME NEW S, NEW T, NEW s \in Seq(S), NEW t \in [DOMAIN s -> T]
    PROVE  t \in Seq(T) /\ Len(t) = Len(s) /\ DOMAIN t = 1 .. Len(s)
<1>1. DOMAIN s = 1 .. Len(s) /\ Len(s) \in Nat
    OBVIOUS
<1>2. t \in [1 .. Len(s) -> T]
    BY <1>1
<1>3. t \in Seq(T)
    BY <1>1, <1>2
<1> QED
    BY <1>1, <1>2, <1>3

\* What the library knows of one sequence after another.
LEMMA Concatenated ==
    ASSUME NEW S, NEW s \in Seq(S), NEW t \in Seq(S)
    PROVE  /\ s \o t \in Seq(S)
           /\ Len(s \o t) = Len(s) + Len(t)
           /\ DOMAIN (s \o t) = 1 .. Len(s) + Len(t)
           /\ \A k \in 1 .. Len(s) + Len(t) :
                  (s \o t)[k] = IF k <= Len(s) THEN s[k] ELSE t[k - Len(s)]
OBVIOUS

\* So do packed numbers.
LEMMA SovSumType ==
    ASSUME NEW s \in Seq(Int)
    PROVE  SovSum(s) \in Int
<1> DEFINE t == [k \in DOMAIN s |-> Sov(s[k])]
<1>1. ASSUME NEW k \in DOMAIN s
      PROVE  Sov(s[k]) \in Int
    <2>1. s[k] \in Int
        OBVIOUS
    <2> QED
        BY <2>1, SovType
<1>2. t \in [DOMAIN s -> Int]
    BY <1>1
<1>3. t \in Seq(Int)
    BY <1>2, Mapped
<1> QED
    BY <1>3, SumOfType DEF SovSum

\* The bytes of some parts and of others after them are added up.
LEMMA LengthOfConcat ==
    ASSUME NEW s \in Seq(PartSet), NEW t \in Seq(PartSet)
    PROVE  /\ LengthOf(s) \in Int /\ LengthOf(t) \in Int
           /\ LengthOf(s \o t) = LengthOf(s) + LengthOf(t)
<1> DEFINE a == [k \in DOMAIN s |-> s[k].length]
           b == [k \in DOMAIN t |-> t[k].length]
           c == [k \in DOMAIN (s \o t) |-> (s \o t)[k].length]
<1>1. \A part \in PartSet : part.length \in Int
    BY DEF PartSet
<1>2. /\ a \in Seq(Int) /\ Len(a) = Len(s) /\ DOMAIN a = 1 .. Len(s)
      /\ b \in Seq(Int) /\ Len(b) = Len(t) /\ DOMAIN b = 1 .. Len(t)
    <2>1. a \in [DOMAIN s -> Int] /\ b \in [DOMAIN t -> Int]
        BY <1>1
    <2> HIDE DEF a, b
    <2> QED
        BY <2>1, Mapped
<1>3. c = a \o b
    <2> DEFINE u == s \o t
    <2>1. /\ u \in Seq(PartSet) /\ Len(u) = Len(s) + Len(t) /\ DOMAIN u = 1 .. Len(s) + Len(t)
          /\ \A k \in 1 .. Len(s) + Len(t) :
                 u[k] = IF k <= Len(s) THEN s[k] ELSE t[k - Len(s)]
        BY Concatenated
    <2>2. /\ \A k \in 1 .. Len(s) : a[k] = s[k].length
          /\ \A k \in 1 .. Len(t) : b[k] = t[k].length
        OBVIOUS
    <2>3. c = [k \in 1 .. Len(s) + Len(t) |-> u[k].length]
        BY <2>1
    <2>4. a \o b = [k \in 1 .. Len(s) + Len(t) |->
                        IF k <= Len(s) THEN a[k] ELSE b[k - Len(s)]]
        <3> HIDE DEF a, b
        <3> DEFINE w == a \o b
        <3>1. /\ w \in Seq(Int) /\ Len(w) = Len(s) + Len(t)
              /\ \A k \in 1 .. Len(s) + Len(t) : w[k] = IF k <= Len(s) THEN a[k] ELSE b[k - Len(s)]
            <4>1. /\ w \in Seq(Int) /\ Len(w) = Len(a) + Len(b)
                  /\ \A k \in 1 .. Len(a) + Len(b) :
                         w[k] = IF k <= Len(a) THEN a[k] ELSE b[k - Len(a)]
                BY <1>2, Concatenated, ZenonT(40)
            <4> QED
                BY <1>2, <4>1, Zenon
        <3> HIDE DEF w
        <3>2. w = [k \in 1 .. Len(s) + Len(t) |-> w[k]]
            BY <3>1
        <3> QED
            BY <3>1, <3>2 DEF w
    <2>5. ASSUME NEW k \in 1 .. Len(s) + Len(t)
          PROVE  u[k].length = IF k <= Len(s) THEN a[k] ELSE b[k - Len(s)]
        <3>1. Len(s) \in Nat /\ Len(t) \in Nat
            OBVIOUS
        <3>2. CASE k <= Len(s)
            BY <2>1, <2>2, <3>1, <3>2
        <3>3. CASE k > Len(s)
            <4>1. k - Len(s) \in 1 .. Len(t) /\ ~(k <= Len(s))
                BY <3>1, <3>3
            <4> HIDE DEF u, a, b
            <4> QED
                BY <2>1, <2>2, <4>1
        <3> QED
            BY <3>1, <3>2, <3>3
    <2> HIDE DEF u, a, b, c
    <2> QED
        BY <2>3, <2>4, <2>5
<1>4. LengthOf(s) = SumOf(a) /\ LengthOf(t) = SumOf(b) /\ LengthOf(s \o t) = SumOf(c)
    BY DEF LengthOf
<1> HIDE DEF a, b, c
<1> QED
    BY <1>2, <1>3, <1>4, SumOfType, SumOfConcat

\* The parts that Marshal writes are parts, of one byte for the tag and the rest.
LEMMA PartType ==
    ASSUME NEW tag \in Nat, NEW content \in Seq(Int) \ {<<>>}, NEW length \in Int
    PROVE  /\ Part(tag, content, length) \in PartSet
           /\ Part(tag, content, length).length = 1 + length
BY DEF Part, PartSet, FlawSet

LEMMA BytesType ==
    ASSUME NEW tag \in Nat, NEW x \in Int
    PROVE  /\ Bytes(tag, x) \in PartSet /\ Bytes(tag, x).length = 1 + Delimited(x)
           /\ Varint(tag, x) \in PartSet /\ Varint(tag, x).length = 1 + Sov(x)
           /\ Delimited(x) \in Int /\ Sov(x) \in Int
<1>1. <<x>> \in Seq(Int) \ {<<>>}
    OBVIOUS
<1>2. Delimited(x) \in Int /\ Sov(x) \in Int
    BY SovType
<1> QED
    BY <1>1, <1>2, PartType DEF Bytes, Varint

\* One part takes its own bytes.
LEMMA LengthOfOne ==
    ASSUME NEW part \in PartSet
    PROVE  LengthOf(<<part>>) = part.length
<1>1. part.length \in Int
    BY DEF PartSet
<1>2. [k \in DOMAIN <<part>> |-> <<part>>[k].length] = <<part.length>>
    OBVIOUS
<1> QED
    BY <1>1, <1>2, SumOfOne DEF LengthOf

\* Size adds for a field the bytes of the parts that Marshal writes for it, whatever its
\* kind and its value.
LEMMA PartsOfField ==
    ASSUME NEW tag \in Nat, NEW kind, NEW v \in Values(kind)
    PROVE  /\ PartsOf(tag, kind, v) \in Seq(PartSet)
           /\ SizeOf(1, kind, v) \in Int
           /\ LengthOf(PartsOf(tag, kind, v)) = SizeOf(1, kind, v)
<1> DEFINE parts == PartsOf(tag, kind, v)
           size == SizeOf(1, kind, v)
<1>1. CASE v = Zero(kind) /\ kind = "embedded"
    <2>1. parts = <<Bytes(tag, 0)>> /\ size = 1 + Delimited(0)
        BY <1>1 DEF PartsOf, SizeOf
    <2>2. Bytes(tag, 0) \in PartSet /\ Bytes(tag, 0).length = 1 + Delimited(0)
        BY BytesType
    <2> QED
        BY <2>1, <2>2, LengthOfOne, SovType
<1>2. CASE v = Zero(kind) /\ kind # "embedded"
    <2>1. parts = <<>> /\ size = 0
        BY <1>2 DEF PartsOf, SizeOf
    <2>2. LengthOf(<<>>) = 0
        <3>1. [k \in DOMAIN <<>> |-> <<>>[k].length] = <<>>
            OBVIOUS
        <3> QED
            BY <3>1, SumOfEmpty DEF LengthOf
    <2> QED
        BY <2>1, <2>2
<1>3. CASE v # Zero(kind) /\ kind \in Scalar
    <2>1. v \in Int
        BY <1>3 DEF Values, Scalar, Single
    <2>2. CASE kind \in {"number", "bool"}
        <3>1. parts = <<Varint(tag, v)>>
            BY <1>3, <2>2 DEF PartsOf
        <3>2. size = 1 + Sov(v)
            <4>1. CASE kind = "number"
                BY <1>3, <4>1 DEF SizeOf
            <4>2. CASE kind = "bool"
                <5>1. size = 2
                    BY <1>3, <4>2 DEF SizeOf
                <5>2. v = 1
                    BY <1>3, <4>2 DEF Values, Zero, Scalar, Single
                <5> QED
                    BY <5>1, <5>2 DEF Sov
            <4> QED
                BY <2>2, <4>1, <4>2
        <3>3. Varint(tag, v) \in PartSet /\ Varint(tag, v).length = 1 + Sov(v)
            BY <2>1, BytesType
        <3> QED
            BY <2>1, <3>1, <3>2, <3>3, LengthOfOne, SovType
    <2>3. CASE kind = "string"
        <3>1. parts = <<Bytes(tag, v)>> /\ size = 1 + Delimited(v)
            BY <1>3, <2>3 DEF PartsOf, SizeOf
        <3>2. Bytes(tag, v) \in PartSet /\ Bytes(tag, v).length = 1 + Delimited(v)
            BY <2>1, BytesType
        <3> QED
            BY <2>1, <3>1, <3>2, LengthOfOne, SovType
    <2> QED
        BY <1>3, <2>2, <2>3 DEF Scalar
<1>4. CASE v # Zero(kind) /\ kind = "packed"
    <2>1. v \in Seq(Int) /\ v # <<>>
        BY <1>4 DEF Values, Zero, Scalar
    <2>2. parts = <<Part(tag, v, Delimited(SovSum(v)))>> /\ size = 1 + Delimited(SovSum(v))
        BY <1>4 DEF PartsOf, SizeOf
    <2>3. Delimited(SovSum(v)) \in Int
        BY <2>1, SovType, SovSumType
    <2> DEFINE part == Part(tag, v, Delimited(SovSum(v)))
    <2>4. part \in PartSet /\ part.length = 1 + Delimited(SovSum(v))
        BY <2>1, <2>3, PartType
    <2> HIDE DEF part
    <2>5. parts = <<part>>
        BY <2>2 DEF part
    <2> HIDE DEF parts, size
    <2>6. parts \in Seq(PartSet) /\ size \in Int /\ LengthOf(parts) = size
        BY <2>2, <2>3, <2>4, <2>5, LengthOfOne
    <2> QED
        BY <2>6 DEF parts, size
<1>5. CASE v # Zero(kind) /\ kind \notin Scalar /\ kind # "packed"
    <2>1. v \in Seq(Nat)
        BY <1>5 DEF Values, Scalar, Single
    <2> DEFINE lengths == [k \in DOMAIN v |-> 1 + Delimited(v[k])]
    <2>2. parts = [k \in DOMAIN v |-> Bytes(tag, v[k])] /\ size = SumOf(lengths)
        BY <1>5 DEF PartsOf, SizeOf, Scalar
    <2>3. ASSUME NEW k \in DOMAIN v
          PROVE  /\ Bytes(tag, v[k]) \in PartSet
                 /\ Bytes(tag, v[k]).length = 1 + Delimited(v[k])
                 /\ 1 + Delimited(v[k]) \in Int
        <3>1. v[k] \in Int
            BY <2>1
        <3>2. /\ Bytes(tag, v[k]) \in PartSet
              /\ Bytes(tag, v[k]).length = 1 + Delimited(v[k])
              /\ Delimited(v[k]) \in Int
            BY <3>1, BytesType, Zenon
        <3> QED
            BY <3>2
    <2>4. lengths \in Seq(Int)
        BY <2>1, <2>3
    <2>5. parts \in Seq(PartSet) /\ DOMAIN parts = DOMAIN v
        BY <2>1, <2>2, <2>3, SMTT(30)
    <2>6. [k \in DOMAIN parts |-> parts[k].length] = lengths
        BY <2>2, <2>3
    <2> QED
        BY <2>2, <2>4, <2>5, <2>6, SumOfType DEF LengthOf
<1> QED
    BY <1>1, <1>2, <1>3, <1>4, <1>5

-----------------------------------------------------------------------------
(***************************************************************************)
(* What the tables say.                                                    *)
(***************************************************************************)
\* The hypotheses: the functions of both codecs agree on the type of the message.
TypeAgrees == CasesAgree /\ TablesAgree /\ type \in Message

\* The number of its fields.
Count == Len(Fields)

\* The k-th case of Unmarshal: the wire types it accepts, the kind, name and number of
\* the field.
CaseOf(codec, k) == UnmarshalTable[codec][type][k]

\* Each table has a row for each field.
LEMMA TableTypes ==
    ASSUME TypeAgrees, NEW codec \in Codecs
    PROVE  /\ Count \in Nat /\ DOMAIN Fields = 1 .. Count
           /\ Len(SizeTable[codec][type]) = Count /\ DOMAIN SizeTable[codec][type] = 1 .. Count
           /\ Len(MarshalTable[codec][type]) = Count /\ DOMAIN MarshalTable[codec][type] = 1 .. Count
           /\ DOMAIN UnmarshalTable[codec][type] = 1 .. Count
           /\ \A k \in 1 .. Count :
                  /\ CaseOf(codec, k)[2] \in Kind
                  /\ CaseOf(codec, k) = <<CaseOf(codec, k)[1], CaseOf(codec, k)[2],
                                          CaseOf(codec, k)[3], CaseOf(codec, k)[4]>>
<1> DEFINE size == SizeTable[codec][type]
           marshal == MarshalTable[codec][type]
           cases == UnmarshalTable[codec][type]
           fields == Fields
<1>1. /\ fields \in Seq(STRING \X Kind \X STRING)
      /\ size \in Seq(Nat \X Kind \X STRING)
      /\ marshal \in Seq(Nat \X Kind \X STRING)
      /\ cases \in Seq((SUBSET (0 .. 7)) \X Kind \X STRING \X Nat)
    BY TableAssumption DEF TypeAgrees, Fields
<1>2. Len(size) = Len(fields) /\ Len(marshal) = Len(fields) /\ Len(cases) = Len(fields)
    BY DEF TypeAgrees, TablesAgree, TypesWithTables, FunctionsAgreeOn, Fields
<1> HIDE DEF size, marshal, cases, fields
<1>3. /\ Len(fields) \in Nat /\ DOMAIN fields = 1 .. Len(fields) /\ DOMAIN size = 1 .. Len(size)
      /\ DOMAIN marshal = 1 .. Len(marshal) /\ DOMAIN cases = 1 .. Len(cases)
    BY <1>1
<1>4. ASSUME NEW k \in 1 .. Len(cases)
      PROVE  /\ cases[k][2] \in Kind
             /\ cases[k] = <<cases[k][1], cases[k][2], cases[k][3], cases[k][4]>>
    <2>1. cases[k] \in (SUBSET (0 .. 7)) \X Kind \X STRING \X Nat
        BY <1>1, <1>3
    <2> QED
        BY <2>1
<1> QED
    BY <1>2, <1>3, <1>4 DEF size, marshal, cases, fields, Count, CaseOf

\* What the tables say of the k-th field.
LEMMA FieldFacts ==
    ASSUME TypeAgrees, NEW codec \in Codecs, NEW k \in 1 .. Count
    PROVE  LET wires == CaseOf(codec, k)[1]  kind == CaseOf(codec, k)[2]
               name == CaseOf(codec, k)[3]  number == CaseOf(codec, k)[4]
           IN  /\ SizeTable[codec][type][k] = <<1, kind, name>>
               /\ MarshalTable[codec][type][Count + 1 - k] =
                      <<8 * number + WireOf(kind), kind, name>>
               /\ WireOf(kind) \in wires /\ number \in 1 .. 14
               /\ name \in NamesOf(Fields) /\ Fields[k][3] = name
               /\ KindOf(UnmarshalTable[codec][type], name) = kind
               /\ KindOf(Fields, name) = IF kind = "embedded" THEN "message" ELSE kind
               /\ kind = "embedded" => codec = "gogo"
<1> DEFINE cases == UnmarshalTable[codec][type]
           wires == cases[k][1]
           kind == cases[k][2]
           name == cases[k][3]
           number == cases[k][4]
<1>1. /\ SizeTable[codec][type][k] = <<1, kind, name>>
      /\ MarshalTable[codec][type][Count + 1 - k] = <<8 * number + WireOf(kind), kind, name>>
      /\ WireOf(kind) \in wires /\ number \in 1 .. 14
      /\ Fields[k][2] = IF kind = "embedded" THEN "message" ELSE kind
      /\ kind = "embedded" => codec = "gogo"
    BY DEF TypeAgrees, TablesAgree, TypesWithTables, FunctionsAgreeOn, Count, Fields
<1>2. \A l \in 1 .. Count : Fields[l][3] = cases[l][3]
    BY DEF TypeAgrees, TablesAgree, TypesWithTables, FunctionsAgreeOn, Count, Fields
<1>3. DOMAIN Fields = 1 .. Count /\ DOMAIN cases = 1 .. Count
    BY TableTypes
<1>4. OneCaseEach(cases)
    BY DEF TypeAgrees, CasesAgree, TypesWithSameCases, CasesAgreeOn, Codecs
<1>5. name \in NamesOf(Fields)
    BY <1>2, <1>3 DEF NamesOf
<1>6. KindOf(cases, name) = kind
    BY <1>3, <1>4, KindIsUnique
<1>7. KindOf(Fields, name) = Fields[k][2]
    <2> DEFINE chosen == CHOOSE l \in DOMAIN Fields : Fields[l][3] = name
    <2>1. chosen \in DOMAIN Fields /\ Fields[chosen][3] = name
        BY <1>2, <1>3, SMTT(30)
    <2>2. cases[chosen][3] = cases[k][3] /\ chosen \in DOMAIN cases
        BY <1>2, <1>3, <2>1, SMTT(30)
    <2>3. chosen = k
        BY <1>3, <1>4, <2>2 DEF OneCaseEach
    <2> QED
        BY <2>3 DEF KindOf
<1> QED
    BY <1>1, <1>2, <1>5, <1>6, <1>7 DEF CaseOf

\* The cases are for the fields, and for no others.
LEMMA EveryName ==
    ASSUME TypeAgrees, NEW codec \in Codecs, NEW name \in NamesOf(Fields)
    PROVE  \E k \in 1 .. Count : name = CaseOf(codec, k)[3]
<1>1. PICK k \in 1 .. Count : name = Fields[k][3]
    BY TableTypes DEF NamesOf
<1> QED
    BY <1>1, FieldFacts

LEMMA EveryCase ==
    ASSUME TypeAgrees, NEW codec \in Codecs
    PROVE  NamesOf(UnmarshalTable[codec][type]) = NamesOf(Fields)
<1>1. NamesOf(UnmarshalTable[codec][type]) = {CaseOf(codec, k)[3] : k \in 1 .. Count}
    BY TableTypes DEF NamesOf, CaseOf
<1> QED
    BY <1>1, EveryName, FieldFacts

\* A message in the struct has the values of a message that is pointed to.
LEMMA SameValues ==
    ASSUME TypeAgrees, NEW codec \in Codecs, NEW k \in 1 .. Count
    PROVE  LET kind == CaseOf(codec, k)[2]
               other == KindOf(Fields, CaseOf(codec, k)[3])
           IN  Values(kind) = Values(other) /\ Zero(kind) = Zero(other)
<1>1. CASE CaseOf(codec, k)[2] = "embedded"
    BY <1>1, FieldFacts DEF Values, Zero, Scalar, Single
<1>2. CASE CaseOf(codec, k)[2] # "embedded"
    BY <1>2, FieldFacts
<1> QED
    BY <1>1, <1>2

-----------------------------------------------------------------------------
(***************************************************************************)
(* Writing.                                                                *)
(***************************************************************************)
\* Every field has a value of its kind.
MessageTyped ==
    /\ DOMAIN message = NamesOf(Fields)
    /\ \A name \in NamesOf(Fields) : message[name] \in Values(KindOf(Fields, name))

\* The parts that Marshal writes for the k-th field of its table.
FieldParts(codec, k) ==
    PartsOf(MarshalTable[codec][type][k][1], MarshalTable[codec][type][k][2],
            message[MarshalTable[codec][type][k][3]])

\* So the tables of both codecs understand each value.
LEMMA FieldValue ==
    ASSUME TypeAgrees, MessageTyped, NEW codec \in Codecs, NEW k \in 1 .. Count
    PROVE  message[CaseOf(codec, k)[3]] \in Values(CaseOf(codec, k)[2])
<1>1. message[CaseOf(codec, k)[3]] \in Values(KindOf(Fields, CaseOf(codec, k)[3]))
    BY FieldFacts DEF MessageTyped
<1> QED
    BY <1>1, SameValues

\* What is written of a field, and that it takes what Size counts.
LEMMA FieldPartsFacts ==
    ASSUME TypeAgrees, MessageTyped, NEW codec \in Codecs, NEW k \in 1 .. Count
    PROVE  LET f == CaseOf(codec, k)
               parts == FieldParts(codec, Count + 1 - k)
           IN  /\ parts = PartsOf(8 * f[4] + WireOf(f[2]), f[2], message[f[3]])
               /\ parts \in Seq(PartSet)
               /\ LengthOf(parts) = SizeOf(1, f[2], message[f[3]])
               /\ SizeOf(1, f[2], message[f[3]]) \in Int
<1> DEFINE f == CaseOf(codec, k)
           tag == 8 * f[4] + WireOf(f[2])
<1>1. MarshalTable[codec][type][Count + 1 - k] = <<tag, f[2], f[3]>> /\ f[4] \in 1 .. 14
    BY FieldFacts
<1>2. tag \in Nat
    BY <1>1 DEF WireOf
<1>3. message[f[3]] \in Values(f[2])
    BY FieldValue
<1> HIDE DEF f, tag
<1>4. FieldParts(codec, Count + 1 - k) = PartsOf(tag, f[2], message[f[3]])
    BY <1>1 DEF FieldParts
<1> QED
    BY <1>2, <1>3, <1>4, PartsOfField DEF f, tag

LEMMA FieldPartsType ==
    ASSUME TypeAgrees, MessageTyped, NEW codec \in Codecs, NEW k \in 1 .. Count
    PROVE  FieldParts(codec, k) \in Seq(PartSet)
<1>1. Count \in Nat
    BY TableTypes
<1>2. Count + 1 - k \in 1 .. Count /\ Count + 1 - (Count + 1 - k) = k
    BY <1>1
<1>3. FieldParts(codec, Count + 1 - (Count + 1 - k)) \in Seq(PartSet)
    BY <1>2, FieldPartsFacts
<1> QED
    BY <1>2, <1>3

\* w holds what is written of the first fields of Marshal and of the unknown ones.
IsWritten(codec, w) ==
    w = [k \in 0 .. Len(MarshalTable[codec][type]) |->
            IF k = 0 THEN unknown ELSE FieldParts(codec, k) \o w[k - 1]]

\* Written is what is written of all fields; the fields are put before one another.
LEMMA WrittenIs ==
    ASSUME TypeAgrees, MessageTyped, unknown \in Seq(PartSet), NEW codec \in Codecs
    PROVE  \E w \in [0 .. Count -> Seq(PartSet)] :
               /\ w[0] = unknown
               /\ \A k \in 1 .. Count : w[k] = FieldParts(codec, k) \o w[k - 1]
               /\ Written(codec) = w[Count]
<1> DEFINE n == Count
           V == Seq(PartSet)
           step == [x \in V \X (1 .. n) |-> FieldParts(codec, x[2]) \o x[1]]
<1>1. n \in Nat /\ Len(MarshalTable[codec][type]) = n
    BY TableTypes
<1>2. \A k \in 1 .. n : FieldParts(codec, k) \in V
    BY FieldPartsType
<1>3. \A s, t \in V : s \o t \in V
    BY Concatenated
<1> HIDE DEF n, V
<1>4. step \in [V \X (1 .. n) -> V]
    BY <1>2, <1>3
<1>5. \A s \in V, k \in 1 .. n : step[<<s, k>>] = FieldParts(codec, k) \o s
    OBVIOUS
<1>6. unknown \in V
    BY DEF V
<1> HIDE DEF step
<1>7. PICK f : Iterates(f, V, unknown, n, step)
    BY <1>1, <1>4, <1>6, Recursion
<1>8. f \in [0 .. n -> V] /\ f[0] = unknown /\ \A k \in 1 .. n : f[k] = step[<<f[k - 1], k>>]
    BY <1>7 DEF Iterates
<1>9. ASSUME NEW k \in 1 .. n
      PROVE  f[k] = FieldParts(codec, k) \o f[k - 1]
    <2>1. f[k - 1] \in V
        BY <1>1, <1>8
    <2> QED
        BY <1>5, <1>8, <2>1
<1>10. IsWritten(codec, f)
    BY <1>1, <1>8, <1>9 DEF IsWritten
<1> DEFINE w == CHOOSE g : IsWritten(codec, g)
<1>11. IsWritten(codec, w)
    BY <1>10
<1>12. Written(codec) = w[n]
    <2>1. Written(codec) = w[Len(MarshalTable[codec][type])]
        BY DEF Written, IsWritten, FieldParts
    <2> QED
        BY <1>1, <2>1
<1> HIDE DEF w
<1>13. w = [k \in 0 .. n |-> IF k = 0 THEN unknown ELSE FieldParts(codec, k) \o w[k - 1]]
    BY <1>1, <1>11 DEF IsWritten
<1>14. w[0] = unknown /\ \A k \in 1 .. n : w[k] = FieldParts(codec, k) \o w[k - 1]
    <2>1. \A k \in 0 .. n : w[k] = IF k = 0 THEN unknown ELSE FieldParts(codec, k) \o w[k - 1]
        BY <1>13
    <2>2. w[0] = unknown
        BY <1>1, <2>1
    <2>3. ASSUME NEW k \in 1 .. n
          PROVE  w[k] = FieldParts(codec, k) \o w[k - 1]
        <3>1. k \in 0 .. n /\ k # 0
            BY <1>1
        <3> QED
            BY <2>1, <3>1, Zenon
    <2> QED
        BY <2>2, <2>3
<1> DEFINE S == {k \in Nat : k <= n => w[k] \in V}
<1>15. 0 \in S
    BY <1>6, <1>14
<1>16. ASSUME NEW k \in Nat, k \in S
       PROVE  k + 1 \in S
    <2> SUFFICES ASSUME k + 1 <= n
                 PROVE  w[k + 1] \in V
        OBVIOUS
    <2>1. k + 1 \in 1 .. n /\ (k + 1) - 1 = k /\ w[k] \in V
        BY <1>1, <1>16
    <2>2. w[k + 1] = FieldParts(codec, k + 1) \o w[k]
        BY <1>14, <2>1
    <2> QED
        BY <1>2, <1>3, <2>1, <2>2
<1> HIDE DEF S
<1>17. Nat \subseteq S
    BY <1>15, <1>16, Induction
<1>18. \A k \in 0 .. n : w[k] \in V
    BY <1>1, <1>17 DEF S
<1>19. w \in [0 .. n -> V]
    BY <1>13, <1>18
<1> QED
    BY <1>12, <1>14, <1>19 DEF n, V

\* Size and Marshal count the same bytes.
LEMMA SizeIsLength ==
    ASSUME TypeAgrees, MessageTyped, unknown \in Seq(PartSet), NEW codec \in Codecs
    PROVE  Size(codec) = LengthOf(Written(codec)) /\ Size(codec) \in Int
<1> DEFINE n == Count
           size == SizeTable[codec][type]
           sizes == [k \in DOMAIN size |-> SizeOf(size[k][1], size[k][2], message[size[k][3]])]
<1>1. n \in Nat /\ DOMAIN size = 1 .. n
    BY TableTypes
<1>2. ASSUME NEW k \in 1 .. n
      PROVE  sizes[k] = LengthOf(FieldParts(codec, n + 1 - k)) /\ sizes[k] \in Int
    <2> DEFINE f == CaseOf(codec, k)
    <2>1. size[k] = <<1, f[2], f[3]>>
        BY FieldFacts
    <2>2. sizes[k] = SizeOf(1, f[2], message[f[3]])
        BY <1>1, <2>1
    <2>3. /\ LengthOf(FieldParts(codec, n + 1 - k)) = SizeOf(1, f[2], message[f[3]])
          /\ SizeOf(1, f[2], message[f[3]]) \in Int
        BY FieldPartsFacts
    <2> QED
        BY <2>2, <2>3
<1>3. Size(codec) = LengthOf(unknown) + SumOf(sizes)
    BY DEF Size
<1> HIDE DEF n, size, sizes
<1>4. sizes \in Seq(Int) /\ Len(sizes) = n
    <2>1. sizes = [k \in 1 .. n |-> sizes[k]]
        BY <1>1 DEF sizes
    <2>2. sizes \in [1 .. n -> Int]
        BY <1>2, <2>1
    <2> QED
        BY <1>1, <2>2
<1>5. PICK f \in [0 .. n -> Int] : IsSum(sizes, f)
    BY <1>4, SumsExist
<1>6. f[0] = 0 /\ \A k \in 1 .. n : f[k] = f[k - 1] + sizes[k]
    <2>1. \A k \in 0 .. n : f[k] = IF k = 0 THEN 0 ELSE f[k - 1] + sizes[k]
        BY <1>4, <1>5 DEF IsSum
    <2> QED
        BY <1>1, <2>1
<1>7. SumOf(sizes) = f[n]
    BY <1>4, <1>5, SumIs
<1>8. PICK w \in [0 .. n -> Seq(PartSet)] :
          /\ w[0] = unknown
          /\ \A k \in 1 .. n : w[k] = FieldParts(codec, k) \o w[k - 1]
          /\ Written(codec) = w[n]
    BY WrittenIs DEF n
<1>9. LengthOf(unknown) \in Int
    BY LengthOfConcat
<1> DEFINE S == {k \in Nat : k <= n => LengthOf(w[k]) = LengthOf(unknown) + (f[n] - f[n - k])}
<1>10. 0 \in S
    <2>1. n - 0 = n /\ f[n] \in Int
        BY <1>1, <1>5
    <2> QED
        BY <1>8, <1>9, <2>1
<1>11. ASSUME NEW k \in Nat, k \in S
       PROVE  k + 1 \in S
    <2> SUFFICES ASSUME k + 1 <= n
                 PROVE  LengthOf(w[k + 1]) = LengthOf(unknown) + (f[n] - f[n - (k + 1)])
        OBVIOUS
    <2>1. /\ k + 1 \in 1 .. n /\ (k + 1) - 1 = k /\ n - k \in 1 .. n
          /\ n + 1 - (n - k) = k + 1 /\ n - (k + 1) = n - k - 1 /\ n - k - 1 \in 0 .. n
        BY <1>1
    <2>2. LengthOf(w[k]) = LengthOf(unknown) + (f[n] - f[n - k])
        BY <1>1, <1>11
    <2>3. w[k + 1] = FieldParts(codec, k + 1) \o w[k]
        BY <1>8, <2>1
    <2>4. FieldParts(codec, k + 1) \in Seq(PartSet) /\ w[k] \in Seq(PartSet)
        BY <1>1, <1>8, <2>1, FieldPartsType DEF n
    <2>5. LengthOf(w[k + 1]) = LengthOf(FieldParts(codec, k + 1)) + LengthOf(w[k])
        BY <2>3, <2>4, LengthOfConcat
    <2>6. LengthOf(FieldParts(codec, k + 1)) = sizes[n - k] /\ sizes[n - k] \in Int
        BY <1>2, <2>1
    <2>7. f[n - k] = f[n - (k + 1)] + sizes[n - k]
        BY <1>6, <2>1
    <2>8. f[n] \in Int /\ f[n - k] \in Int /\ f[n - (k + 1)] \in Int
        BY <1>1, <1>5, <2>1
    <2>9. \A u, s, a, b, c \in Int : b = c + s => s + (u + (a - b)) = u + (a - c)
        OBVIOUS
    <2>10. LengthOf(w[k + 1]) = sizes[n - k] + (LengthOf(unknown) + (f[n] - f[n - k]))
        BY <2>2, <2>5, <2>6
    <2> QED
        BY <1>9, <2>6, <2>7, <2>8, <2>9, <2>10, SMTT(30)
<1> HIDE DEF S
<1>12. Nat \subseteq S
    BY <1>10, <1>11, Induction
<1>13. LengthOf(w[n]) = LengthOf(unknown) + (f[n] - f[n - n])
    BY <1>1, <1>12 DEF S
<1>14. f[n - n] = 0 /\ f[n] \in Int
    BY <1>1, <1>5, <1>6
<1> QED
    BY <1>3, <1>7, <1>8, <1>9, <1>13, <1>14

-----------------------------------------------------------------------------
(***************************************************************************)
(* Reading.                                                                *)
(***************************************************************************)
\* The parts, read one after the other, make one reader of another.
Reads(codec, from, parts, to) ==
    \E r : /\ r[0] = from /\ r[Len(parts)] = to
           /\ \A k \in 1 .. Len(parts) : r[k] = Unmarshal(codec, r[k - 1], parts[k])

\* Reading nothing, one part, some parts and then others, and one part before the rest.
LEMMA ReadsNothing ==
    ASSUME NEW codec, NEW read
    PROVE  /\ Reads(codec, read, <<>>, read)
           /\ \A to : Reads(codec, read, <<>>, to) => to = read
<1>1. Len(<<>>) = 0 /\ 1 .. 0 = {}
    OBVIOUS
<1>2. [k \in 0 .. 0 |-> read][0] = read
    OBVIOUS
<1>3. Reads(codec, read, <<>>, read)
    BY <1>1, <1>2 DEF Reads
<1> QED
    BY <1>1, <1>3 DEF Reads

LEMMA ReadsOne ==
    ASSUME NEW codec, NEW read, NEW part
    PROVE  Reads(codec, read, <<part>>, Unmarshal(codec, read, part))
<1> DEFINE to == Unmarshal(codec, read, part)
           r == [k \in 0 .. 1 |-> IF k = 0 THEN read ELSE to]
<1>1. Len(<<part>>) = 1 /\ <<part>>[1] = part
    OBVIOUS
<1>2. r[0] = read /\ r[1] = to
    OBVIOUS
<1>3. \A k \in 1 .. Len(<<part>>) : r[k] = Unmarshal(codec, r[k - 1], <<part>>[k])
    BY <1>1, <1>2
<1> HIDE DEF r, to
<1> QED
    BY <1>1, <1>2, <1>3 DEF Reads, to

LEMMA ReadsConcat ==
    ASSUME NEW codec, NEW S, NEW s \in Seq(S), NEW t \in Seq(S), NEW a, NEW b, NEW c,
           Reads(codec, a, s, b), Reads(codec, b, t, c)
    PROVE  Reads(codec, a, s \o t, c)
<1> DEFINE m == Len(s)
           n == Len(t)
           u == s \o t
<1>1. /\ m \in Nat /\ n \in Nat /\ Len(u) = m + n
      /\ \A k \in 1 .. m + n : u[k] = IF k <= m THEN s[k] ELSE t[k - m]
    BY Concatenated
<1>2. PICK f : f[0] = a /\ f[m] = b /\ \A k \in 1 .. m : f[k] = Unmarshal(codec, f[k - 1], s[k])
    BY DEF Reads
<1>3. PICK g : g[0] = b /\ g[n] = c /\ \A k \in 1 .. n : g[k] = Unmarshal(codec, g[k - 1], t[k])
    BY DEF Reads
<1> DEFINE r == [k \in 0 .. m + n |-> IF k <= m THEN f[k] ELSE g[k - m]]
<1> HIDE DEF m, n, u
<1>4. \A k \in 0 .. m : r[k] = f[k]
    BY <1>1
<1>5. ASSUME NEW k \in 0 .. n
      PROVE  r[m + k] = g[k]
    <2>1. CASE k = 0
        <3>1. m + k = m /\ m \in 0 .. m
            BY <1>1, <2>1
        <3> HIDE DEF r
        <3> QED
            BY <1>2, <1>3, <1>4, <2>1, <3>1
    <2>2. CASE k # 0
        <3>1. m + k \in 0 .. m + n /\ ~(m + k <= m) /\ (m + k) - m = k
            BY <1>1, <2>2
        <3> QED
            BY <3>1
    <2> QED
        BY <2>1, <2>2
<1> HIDE DEF r
<1>6. ASSUME NEW k \in 1 .. m + n
      PROVE  r[k] = Unmarshal(codec, r[k - 1], u[k])
    <2>1. CASE k <= m
        <3>1. k \in 1 .. m /\ k \in 0 .. m /\ k - 1 \in 0 .. m
            BY <1>1, <2>1
        <3> QED
            BY <1>1, <1>2, <1>4, <2>1, <3>1
    <2>2. CASE k > m
        <3> DEFINE l == k - m
        <3>1. /\ l \in 1 .. n /\ l \in 0 .. n /\ l - 1 \in 0 .. n /\ k = m + l
              /\ k - 1 = m + (l - 1) /\ ~(k <= m)
            BY <1>1, <2>2
        <3>2. u[k] = t[l]
            BY <1>1, <3>1
        <3> HIDE DEF l
        <3>3. r[k] = g[l] /\ r[k - 1] = g[l - 1]
            BY <1>5, <3>1
        <3> QED
            BY <1>3, <3>1, <3>2, <3>3
    <2> QED
        BY <1>1, <2>1, <2>2
<1>7. r[0] = a /\ r[m + n] = c
    BY <1>1, <1>2, <1>3, <1>4, <1>5
<1>8. Len(u) = m + n
    BY <1>1
<1>9. Reads(codec, a, u, c)
    BY <1>6, <1>7, <1>8 DEF Reads
<1> QED
    BY <1>9 DEF u

LEMMA ReadsTail ==
    ASSUME NEW codec, NEW S, NEW s \in Seq(S), s # <<>>, NEW a, NEW b, Reads(codec, a, s, b)
    PROVE  Reads(codec, Unmarshal(codec, a, Head(s)), Tail(s), b)
<1> DEFINE n == Len(s)
           t == Tail(s)
<1>1. /\ n \in Nat \ {0} /\ Len(t) = n - 1 /\ Head(s) = s[1]
      /\ \A k \in 1 .. n - 1 : t[k] = s[k + 1]
    OBVIOUS
<1>2. PICK f : f[0] = a /\ f[n] = b /\ \A k \in 1 .. n : f[k] = Unmarshal(codec, f[k - 1], s[k])
    BY DEF Reads
<1> DEFINE r == [k \in 0 .. n - 1 |-> f[k + 1]]
<1> HIDE DEF n, t
<1>3. \A k \in 0 .. n - 1 : r[k] = f[k + 1]
    OBVIOUS
<1> HIDE DEF r
<1>4. ASSUME NEW k \in 1 .. n - 1
      PROVE  r[k] = Unmarshal(codec, r[k - 1], t[k])
    <2>1. /\ k \in 0 .. n - 1 /\ k - 1 \in 0 .. n - 1 /\ k + 1 \in 1 .. n
          /\ (k - 1) + 1 = k /\ (k + 1) - 1 = k
        BY <1>1
    <2> QED
        BY <1>1, <1>2, <1>3, <2>1
<1>5. r[0] = Unmarshal(codec, a, s[1])
    <2>1. 0 \in 0 .. n - 1 /\ 0 + 1 = 1 /\ 1 \in 1 .. n /\ 1 - 1 = 0
        BY <1>1
    <2>2. r[0] = f[1]
        BY <1>3, <2>1
    <2> QED
        BY <1>2, <2>1, <2>2
<1>6. r[n - 1] = b
    <2>1. n - 1 \in 0 .. n - 1 /\ (n - 1) + 1 = n
        BY <1>1
    <2> QED
        BY <1>2, <1>3, <2>1
<1>7. Len(t) = n - 1 /\ Head(s) = s[1]
    BY <1>1
<1>8. Reads(codec, Unmarshal(codec, a, s[1]), t, b)
    BY <1>4, <1>5, <1>6, <1>7 DEF Reads
<1> QED
    BY <1>7, <1>8 DEF t

-----------------------------------------------------------------------------
\* The k-th cases of both codecs are of the same field.
LEMMA SameCase ==
    ASSUME TypeAgrees, NEW k \in 1 .. Count, NEW codec \in Codecs, NEW other \in Codecs
    PROVE  /\ CaseOf(codec, k)[3] = CaseOf(other, k)[3]
           /\ CaseOf(codec, k)[4] = CaseOf(other, k)[4]
           /\ \/ CaseOf(codec, k)[2] = CaseOf(other, k)[2]
              \/ {CaseOf(codec, k)[2], CaseOf(other, k)[2]} = {"embedded", "message"}
<1>1. Alike(CaseOf("gogo", k), CaseOf("pulsar", k))
    <2> DEFINE gogo == UnmarshalTable["gogo"][type]
               pulsar == UnmarshalTable["pulsar"][type]
    <2>1. DOMAIN gogo = 1 .. Count /\ DOMAIN pulsar = 1 .. Count
        BY TableTypes DEF Codecs
    <2>2. PICK l \in 1 .. Count : Alike(gogo[k], pulsar[l])
        BY <2>1 DEF TypeAgrees, CasesAgree, TypesWithSameCases, CasesAgreeOn
    <2>3. Fields[k][3] = gogo[k][3] /\ Fields[k][3] = pulsar[k][3]
        BY FieldFacts DEF CaseOf, Codecs
    <2>4. pulsar[l][3] = pulsar[k][3]
        BY <2>2, <2>3 DEF Alike
    <2>5. l = k
        BY <2>1, <2>4 DEF TypeAgrees, CasesAgree, TypesWithSameCases, CasesAgreeOn, OneCaseEach
    <2> QED
        BY <2>2, <2>5 DEF CaseOf
<1> QED
    BY <1>1 DEF Alike, Codecs

\* A reader that has not given up.
Reader(m, rest) == [message |-> m, unknown |-> rest, failed |-> FALSE]

\* A part as a codec writes it, with the tag of the k-th field.
Sound(part) == part.whole = TRUE /\ part.flaw = "none"

IsPartOf(codec, k, part) ==
    part.tag = 8 * CaseOf(codec, k)[4] + WireOf(CaseOf(codec, k)[2]) /\ Sound(part)

\* A message with its k-th field updated.
Change(codec, k, m, content) ==
    [m EXCEPT ![CaseOf(codec, k)[3]] =
        Updated(codec, CaseOf(codec, k)[2], m[CaseOf(codec, k)[3]], content)]

\* A part with the tag of a field updates this field.
LEMMA UnmarshalField ==
    ASSUME TypeAgrees, NEW codec \in Codecs, NEW k \in 1 .. Count, NEW m, NEW rest, NEW part,
           IsPartOf(codec, k, part)
    PROVE  Unmarshal(codec, Reader(m, rest), part) = Reader(Change(codec, k, m, part.content), rest)
<1> DEFINE f == CaseOf(codec, k)
           table == UnmarshalTable[codec][type]
           read == Reader(m, rest)
<1>1. /\ f[4] \in 1 .. 14 /\ WireOf(f[2]) \in {0, 2} /\ WireOf(f[2]) \in f[1]
      /\ DOMAIN table = 1 .. Count /\ f = table[k]
    BY FieldFacts, TableTypes DEF WireOf, CaseOf
<1>2. OneCaseEach(table)
    BY DEF TypeAgrees, CasesAgree, TypesWithSameCases, CasesAgreeOn, Codecs
<1> HIDE DEF f, table
<1>3. NumberOf(part) = f[4] /\ WireType(part) = WireOf(f[2])
    <2>1. \A number \in 1 .. 14, wire \in {0, 2} :
              (8 * number + wire) \div 8 = number /\ (8 * number + wire) % 8 = wire
        OBVIOUS
    <2>2. part.tag = 8 * f[4] + WireOf(f[2])
        BY DEF f, IsPartOf
    <2> QED
        BY <1>1, <2>1, <2>2 DEF NumberOf, WireType
<1>4. CasesOf(codec, part) = {k}
    <2>1. CasesOf(codec, part) = {l \in 1 .. Count : table[l][4] = f[4]}
        BY <1>1, <1>3 DEF CasesOf, table
    <2>2. \A l \in 1 .. Count : table[l][4] = f[4] => l = k
        BY <1>1, <1>2 DEF OneCaseEach
    <2>3. table[k][4] = f[4]
        BY <1>1
    <2> QED
        BY <2>1, <2>2, <2>3
<1>5. ~Illegal(codec, part)
    <2>1. part.whole = TRUE /\ ~Refuses(codec, part.flaw)
        BY DEF IsPartOf, Sound, Refuses
    <2>2. WireType(part) \notin {4, 6, 7} /\ NumberOf(part) # 0
        <3>1. \A number \in 1 .. 14, wire \in {0, 2} : wire \notin {4, 6, 7} /\ number # 0
            OBVIOUS
        <3>2. f[4] \in 1 .. 14 /\ WireOf(f[2]) \in {0, 2}
            BY <1>1
        <3> QED
            BY <1>3, <3>1, <3>2, Zenon
    <2>3. \A l \in CasesOf(codec, part) : WireType(part) \in table[l][1]
        BY <1>1, <1>3, <1>4
    <2> QED
        BY <2>1, <2>2, <2>3 DEF Illegal, table
<1>6. /\ ReaderOK(read) /\ ~read.failed /\ read.message = m /\ read.unknown = rest
    BY DEF Reader, ReaderOK
<1> DEFINE after == Unmarshal(codec, read, part)
<1>7. after = [read EXCEPT !.message[table[k][3]] = Updated(codec, table[k][2], @, part.content)]
    <2>1. (CHOOSE l \in CasesOf(codec, part) : TRUE) = k
        BY <1>4
    <2>2. CasesOf(codec, part) # {}
        BY <1>4
    <2>3. ~read.failed
        BY <1>6
    <2> HIDE DEF read
    <2> QED
        BY <1>5, <2>1, <2>2, <2>3 DEF Unmarshal, table
<1>8. after = Reader([m EXCEPT ![table[k][3]] =
                          Updated(codec, table[k][2], m[table[k][3]], part.content)], rest)
    BY <1>6, <1>7 DEF Reader
<1> HIDE DEF after
<1> QED
    BY <1>1, <1>8 DEF f, after, Change

\* What is read of the k-th field when it was empty before.
ValueRead(k) ==
    LET field == CaseOf(writer, k)
    IN  IF field[2] = "embedded" /\ message[field[3]] = <<>> THEN <<0>> ELSE message[field[3]]

\* A prefix and the element after it.
LEMMA NextPrefix ==
    ASSUME NEW S, NEW v \in Seq(S), NEW k \in 1 .. Len(v)
    PROVE  Append(SubSeq(v, 1, k - 1), v[k]) = SubSeq(v, 1, k)
OBVIOUS

\* What was written of a field is read as its value into a message that has none yet.
LEMMA ReadsField ==
    ASSUME TypeAgrees, MessageTyped, writer \in Codecs, NEW codec \in Codecs, NEW k \in 1 .. Count,
           NEW rest, NEW m, m = [name \in DOMAIN m |-> m[name]], CaseOf(codec, k)[3] \in DOMAIN m,
           m[CaseOf(codec, k)[3]] = Zero(CaseOf(codec, k)[2])
    PROVE  Reads(codec, Reader(m, rest), FieldParts(writer, Count + 1 - k),
                 Reader([m EXCEPT ![CaseOf(codec, k)[3]] = ValueRead(k)], rest))
<1> DEFINE f == CaseOf(codec, k)
           g == CaseOf(writer, k)
           name == f[3]
           tag == 8 * g[4] + WireOf(g[2])
           v == message[g[3]]
           parts == FieldParts(writer, Count + 1 - k)
           after(x) == Reader([m EXCEPT ![name] = x], rest)
<1>1. g[3] = f[3] /\ g[4] = f[4] /\ (g[2] = f[2] \/ {f[2], g[2]} = {"embedded", "message"})
    BY SameCase
<1>2. v \in Values(g[2]) /\ g[4] \in 1 .. 14 /\ g[2] \in Kind
    BY FieldValue, FieldFacts, TableTypes
<1>3. parts = PartsOf(tag, g[2], v)
    BY FieldPartsFacts
<1>4. Values(f[2]) = Values(g[2]) /\ Zero(f[2]) = Zero(g[2])
    BY <1>1, SameValues
<1>5. tag = 8 * f[4] + WireOf(f[2]) /\ tag \in Nat
    <2>1. WireOf(f[2]) = WireOf(g[2])
        <3>1. CASE g[2] = f[2]
            BY <3>1
        <3>2. CASE {f[2], g[2]} = {"embedded", "message"}
            <4>1. f[2] \in {"embedded", "message"} /\ g[2] \in {"embedded", "message"}
                BY <3>2
            <4> QED
                BY <4>1 DEF WireOf
        <3> QED
            BY <1>1, <3>1, <3>2
    <2> QED
        BY <1>1, <1>2, <2>1 DEF WireOf
<1>6. ValueRead(k) = IF g[2] = "embedded" /\ v = <<>> THEN <<0>> ELSE v
    BY DEF ValueRead
<1>7. m[name] = Zero(g[2])
    BY <1>4
<1>9. ASSUME NEW part, part.tag = tag, Sound(part), parts = <<part>>,
             Updated(codec, f[2], Zero(f[2]), part.content) = ValueRead(k)
      PROVE  Reads(codec, Reader(m, rest), parts, after(ValueRead(k)))
    <2>1. Unmarshal(codec, Reader(m, rest), part) =
              Reader([m EXCEPT ![f[3]] = Updated(codec, f[2], m[f[3]], part.content)], rest)
        <3>1. part.tag = 8 * f[4] + WireOf(f[2]) /\ Sound(part)
            BY <1>5, <1>9
        <3>2. Unmarshal(codec, Reader(m, rest), part) =
                  Reader(Change(codec, k, m, part.content), rest)
            <4>1. IsPartOf(codec, k, part)
                BY <3>1 DEF IsPartOf
            <4> QED
                BY <4>1, UnmarshalField
        <3> QED
            BY <3>2 DEF Change
    <2>2. Updated(codec, f[2], m[f[3]], part.content) = ValueRead(k)
        BY <1>9
    <2>3. Unmarshal(codec, Reader(m, rest), part) = after(ValueRead(k))
        BY <2>1, <2>2
    <2>4. Reads(codec, Reader(m, rest), <<part>>, Unmarshal(codec, Reader(m, rest), part))
        BY ReadsOne
    <2> HIDE DEF parts, after
    <2> QED
        BY <1>9, <2>3, <2>4
<1>10. CASE v = Zero(g[2]) /\ g[2] # "embedded"
    <2>1. parts = <<>>
        BY <1>3, <1>10 DEF PartsOf
    <2>2. ValueRead(k) = m[name]
        BY <1>6, <1>7, <1>10
    <2>3. [m EXCEPT ![name] = m[name]] = m
        OBVIOUS
    <2>4. after(ValueRead(k)) = Reader(m, rest)
        BY <2>2, <2>3
    <2> HIDE DEF parts, after
    <2>5. Reads(codec, Reader(m, rest), parts, after(ValueRead(k)))
        BY <2>1, <2>4, ReadsNothing
    <2> QED
        BY <2>5 DEF parts, after
<1>11. CASE v = Zero(g[2]) /\ g[2] = "embedded"
    <2>1. parts = <<Bytes(tag, 0)>>
        BY <1>3, <1>11 DEF PartsOf
    <2>2. v = <<>> /\ ValueRead(k) = <<0>>
        BY <1>6, <1>11 DEF Zero, Scalar
    <2>3. f[2] \in {"embedded", "message"}
        BY <1>1, <1>11
    <2>4. Updated(codec, f[2], Zero(f[2]), Bytes(tag, 0).content) = <<0>>
        <3>1. Bytes(tag, 0).content[1] = 0
            BY DEF Bytes, Part, Sound
        <3>2. Zero(f[2]) = <<>>
            BY <2>3 DEF Zero, Scalar
        <3>3. Updated(codec, f[2], Zero(f[2]), Bytes(tag, 0).content) \in {Append(<<>>, 0), <<0>>}
            BY <2>3, <3>1, <3>2 DEF Updated, Single
        <3> QED
            BY <3>3
    <2>5. Bytes(tag, 0).tag = tag /\ Sound(Bytes(tag, 0))
        BY DEF Bytes, Part, Sound
    <2> QED
        BY <1>9, <2>1, <2>2, <2>4, <2>5
<1>12. CASE v # Zero(g[2]) /\ g[2] \in {"number", "bool"}
    <2>1. parts = <<Varint(tag, v)>>
        BY <1>3, <1>12 DEF PartsOf
    <2>2. f[2] = g[2]
        BY <1>1, <1>12
    <2>3. ValueRead(k) = v
        BY <1>6, <1>12
    <2>4. Varint(tag, v).tag = tag /\ Sound(Varint(tag, v)) /\ Varint(tag, v).content[1] = v
        BY DEF Varint, Part, Sound
    <2>5. Updated(codec, f[2], Zero(f[2]), Varint(tag, v).content) = v
        <3>1. CASE g[2] = "number"
            BY <2>2, <2>4, <3>1 DEF Updated, Single
        <3>2. CASE g[2] = "bool"
            <4>1. v = 1
                BY <1>2, <1>12, <3>2 DEF Values, Zero, Scalar, Single
            <4> QED
                BY <2>2, <2>4, <3>2, <4>1 DEF Updated, Single
        <3> QED
            BY <1>12, <3>1, <3>2
    <2> QED
        BY <1>9, <2>1, <2>3, <2>4, <2>5
<1>13. CASE v # Zero(g[2]) /\ g[2] = "string"
    <2>1. parts = <<Bytes(tag, v)>>
        BY <1>3, <1>13 DEF PartsOf
    <2>2. f[2] = g[2] /\ ValueRead(k) = v
        BY <1>1, <1>6, <1>13
    <2>3. Bytes(tag, v).tag = tag /\ Sound(Bytes(tag, v)) /\ Bytes(tag, v).content[1] = v
        BY DEF Bytes, Part, Sound
    <2>4. Updated(codec, f[2], Zero(f[2]), Bytes(tag, v).content) = v
        BY <1>13, <2>2, <2>3 DEF Updated, Single
    <2> QED
        BY <1>9, <2>1, <2>2, <2>3, <2>4
<1>14. CASE v # Zero(g[2]) /\ g[2] = "packed"
    <2> DEFINE part == Part(tag, v, Delimited(SovSum(v)))
    <2>1. parts = <<part>>
        BY <1>3, <1>14 DEF PartsOf
    <2>2. f[2] = g[2] /\ ValueRead(k) = v
        BY <1>1, <1>6, <1>14
    <2>3. part.tag = tag /\ Sound(part) /\ part.content = v
        BY DEF Part, Sound
    <2> HIDE DEF part
    <2>4. Updated(codec, f[2], Zero(f[2]), part.content) = v
        <3>1. v \in Seq(Int)
            BY <1>2, <1>14 DEF Values
        <3>2. Zero(f[2]) = <<>>
            BY <1>14, <2>2 DEF Zero, Scalar
        <3>3. <<>> \o v = v
            BY <3>1
        <3> QED
            BY <1>14, <2>2, <2>3, <3>2, <3>3 DEF Updated, Single
    <2> QED
        BY <1>9, <2>1, <2>2, <2>3, <2>4
<1>15. CASE v # Zero(g[2]) /\ g[2] \notin {"number", "bool", "string", "packed"}
    <2>1. v \in Seq(Nat) /\ (g[2] \in Single => Len(v) <= 1)
        BY <1>2, <1>15 DEF Values, Single
    <2>2. parts = [l \in DOMAIN v |-> Bytes(tag, v[l])] /\ DOMAIN v = 1 .. Len(v) /\ Len(v) \in Nat
        BY <1>3, <1>15, <2>1 DEF PartsOf
    <2>3. Len(parts) = Len(v) /\ \A l \in 1 .. Len(v) : parts[l] = Bytes(tag, v[l])
        BY <2>2
    <2>4. f[2] \notin {"number", "bool", "string", "packed"} /\ f[2] \notin Scalar
        BY <1>1, <1>15 DEF Scalar
    <2>5. m[name] = <<>>
        BY <2>4 DEF Zero
    <2>6. v # <<>> /\ ValueRead(k) = v
        BY <1>6, <1>15 DEF Zero, Scalar
    <2> DEFINE r == [l \in 0 .. Len(v) |-> after(SubSeq(v, 1, l))]
    <2>7. r[0] = Reader(m, rest)
        <3>1. SubSeq(v, 1, 0) = <<>>
            BY <2>1
        <3>2. [m EXCEPT ![name] = m[name]] = m
            OBVIOUS
        <3>3. 0 \in 0 .. Len(v)
            BY <2>2
        <3> QED
            BY <2>5, <3>1, <3>2, <3>3
    <2>8. r[Len(v)] = after(v)
        <3>1. SubSeq(v, 1, Len(v)) = v /\ Len(v) \in 0 .. Len(v)
            BY <2>1, <2>2
        <3> QED
            BY <3>1
    <2>9. ASSUME NEW l \in 1 .. Len(v)
          PROVE  r[l] = Unmarshal(codec, r[l - 1], parts[l])
        <3> DEFINE n == [m EXCEPT ![name] = SubSeq(v, 1, l - 1)]
                   part == Bytes(tag, v[l])
        <3>1. r[l - 1] = Reader(n, rest) /\ r[l] = after(SubSeq(v, 1, l))
            BY <2>2
        <3>2. n[name] = SubSeq(v, 1, l - 1)
            OBVIOUS
        <3>3. part.tag = tag /\ Sound(part) /\ part.content[1] = v[l]
            BY DEF Bytes, Part, Sound
        <3> HIDE DEF part
        <3>4. Updated(codec, f[2], n[name], part.content) = SubSeq(v, 1, l)
            <4>1. CASE f[2] \notin Single
                <5>1. Updated(codec, f[2], n[name], part.content) = Append(n[name], v[l])
                    BY <2>4, <3>3, <4>1 DEF Updated
                <5> HIDE DEF n
                <5> QED
                    BY <2>1, <3>2, <5>1, NextPrefix
            <4>2. CASE f[2] \in Single
                <5>1. g[2] \in Single
                    BY <1>1, <4>2 DEF Single
                <5>2. l - 1 = 0
                    <6>1. Len(v) \in Nat /\ Len(v) <= 1
                        BY <2>1, <2>2, <5>1
                    <6> HIDE DEF v
                    <6> QED
                        BY <6>1
                <5>3. SubSeq(v, 1, l - 1) = <<>> /\ \A x : Append(<<>>, x) = <<x>>
                    BY <2>1, <5>2
                <5>4. Updated(codec, f[2], n[name], part.content)
                          \in {Append(n[name], v[l]), <<v[l]>>}
                    BY <2>4, <3>3, <4>2 DEF Updated
                <5> HIDE DEF n
                <5> QED
                    BY <2>1, <3>2, <5>3, <5>4, NextPrefix
            <4> QED
                BY <4>1, <4>2
        <3>5. [n EXCEPT ![name] = SubSeq(v, 1, l)] = [m EXCEPT ![name] = SubSeq(v, 1, l)]
            OBVIOUS
        <3> HIDE DEF n
        <3>6. Unmarshal(codec, Reader(n, rest), part) =
                  Reader([n EXCEPT ![name] = Updated(codec, f[2], n[name], part.content)], rest)
            <4>1. part.tag = 8 * f[4] + WireOf(f[2]) /\ Sound(part)
                BY <1>5, <3>3
            <4>2. IsPartOf(codec, k, part)
                BY <4>1 DEF IsPartOf
            <4>3. Unmarshal(codec, Reader(n, rest), part) =
                      Reader(Change(codec, k, n, part.content), rest)
                BY <4>2, UnmarshalField
            <4> QED
                BY <4>3 DEF Change
        <3>7. parts[l] = part
            BY <2>3 DEF part
        <3> HIDE DEF parts
        <3> QED
            BY <3>1, <3>4, <3>5, <3>6, <3>7
    <2> HIDE DEF r, parts
    <2>10. Reads(codec, Reader(m, rest), parts, after(v))
        BY <2>3, <2>7, <2>8, <2>9 DEF Reads
    <2> QED
        BY <2>6, <2>10 DEF parts
<1> QED
    BY <1>10, <1>11, <1>12, <1>13, <1>14, <1>15

-----------------------------------------------------------------------------
(***************************************************************************)
(* A message is read as it was written.                                    *)
(***************************************************************************)
\* What is read of a field: an embedded message is always there.
ReadName(name) ==
    IF KindOf(UnmarshalTable[writer][type], name) = "embedded" /\ message[name] = <<>>
    THEN <<0>> ELSE message[name]

\* The message that is read in the end.
ReadMessage == [name \in NamesOf(Fields) |-> ReadName(name)]

\* A message of which the first j fields have been read.
ReadUpTo(codec, j) ==
    [name \in NamesOf(Fields) |->
        IF \E l \in 1 .. j : name = CaseOf(codec, l)[3]
        THEN ReadName(name) ELSE Zero(KindOf(Fields, name))]

\* A message has at most one field that its type does not know.
UnknownOK == unknown \in {<<>>, <<NewerField>>}

\* What a codec has read in the end.
Good(codec) == Reader(ReadMessage, IF codec = "pulsar" THEN unknown ELSE <<>>)

\* ValueRead is the same by name.
LEMMA ValueOfName ==
    ASSUME TypeAgrees, writer \in Codecs, NEW codec \in Codecs, NEW k \in 1 .. Count
    PROVE  ValueRead(k) = ReadName(CaseOf(codec, k)[3])
<1>1. CaseOf(writer, k)[3] = CaseOf(codec, k)[3]
    BY SameCase
<1>2. KindOf(UnmarshalTable[writer][type], CaseOf(writer, k)[3]) = CaseOf(writer, k)[2]
    BY FieldFacts
<1> QED
    BY <1>1, <1>2 DEF ValueRead, ReadName

\* Reading starts with an empty message, ends with the whole one, and adds a field at a
\* time.
LEMMA ReadUpToNone ==
    ASSUME TypeAgrees, NEW codec \in Codecs
    PROVE  ReadUpTo(codec, 0) = ZeroMessage(UnmarshalTable[codec][type])
<1>1. NamesOf(UnmarshalTable[codec][type]) = NamesOf(Fields)
    BY EveryCase
<1>2. ASSUME NEW name \in NamesOf(Fields)
      PROVE  Zero(KindOf(Fields, name)) = Zero(KindOf(UnmarshalTable[codec][type], name))
    <2>1. PICK k \in 1 .. Count : name = CaseOf(codec, k)[3]
        BY EveryName
    <2>2. KindOf(UnmarshalTable[codec][type], name) = CaseOf(codec, k)[2]
        BY <2>1, FieldFacts
    <2> QED
        BY <2>1, <2>2, SameValues
<1>3. 1 .. 0 = {}
    OBVIOUS
<1> QED
    BY <1>1, <1>2, <1>3 DEF ReadUpTo, ZeroMessage

LEMMA ReadUpToAll ==
    ASSUME TypeAgrees, NEW codec \in Codecs
    PROVE  ReadUpTo(codec, Count) = ReadMessage
BY EveryName DEF ReadUpTo, ReadMessage

LEMMA ReadUpToNext ==
    ASSUME TypeAgrees, NEW codec \in Codecs, NEW j \in 1 .. Count
    PROVE  LET before == ReadUpTo(codec, j - 1)
               name == CaseOf(codec, j)[3]
           IN  /\ before = [other \in DOMAIN before |-> before[other]]
               /\ name \in DOMAIN before
               /\ before[name] = Zero(CaseOf(codec, j)[2])
               /\ [before EXCEPT ![name] = ReadName(name)] = ReadUpTo(codec, j)
<1> DEFINE before == ReadUpTo(codec, j - 1)
           name == CaseOf(codec, j)[3]
           names == NamesOf(Fields)
<1>1. Count \in Nat /\ name \in names
    BY TableTypes, FieldFacts
<1>2. \A k, l \in 1 .. Count : CaseOf(codec, k)[3] = CaseOf(codec, l)[3] => k = l
    <2> DEFINE cases == UnmarshalTable[codec][type]
    <2>1. OneCaseEach(cases)
        BY DEF TypeAgrees, CasesAgree, TypesWithSameCases, CasesAgreeOn, Codecs
    <2>2. DOMAIN cases = 1 .. Count
        BY TableTypes
    <2> HIDE DEF cases
    <2>3. \A k, l \in 1 .. Count : cases[k][3] = cases[l][3] => k = l
        BY <2>1, <2>2 DEF OneCaseEach
    <2> QED
        BY <2>3 DEF cases, CaseOf
<1>3. ~ \E l \in 1 .. j - 1 : name = CaseOf(codec, l)[3]
    <2>1. \A l \in 1 .. j - 1 : l \in 1 .. Count /\ l # j
        BY <1>1
    <2> HIDE DEF name
    <2> QED
        BY <1>2, <2>1 DEF name
<1>4. before[name] = Zero(CaseOf(codec, j)[2])
    <2>1. before[name] = Zero(KindOf(Fields, name))
        BY <1>1, <1>3 DEF ReadUpTo
    <2> QED
        BY <2>1, SameValues
<1>5. [before EXCEPT ![name] = ReadName(name)] = ReadUpTo(codec, j)
    <2>1. \A l \in 1 .. j : l = j \/ l \in 1 .. j - 1
        BY <1>1
    <2>2. \A l \in 1 .. j - 1 : l \in 1 .. j
        BY <1>1
    <2>3. j \in 1 .. j
        BY <1>1
    <2> HIDE DEF name
    <2>4. ASSUME NEW other \in names, other # name
          PROVE  (\E l \in 1 .. j : other = CaseOf(codec, l)[3])
                     <=> (\E l \in 1 .. j - 1 : other = CaseOf(codec, l)[3])
        BY <2>1, <2>2, <2>4 DEF name
    <2>5. \E l \in 1 .. j : name = CaseOf(codec, l)[3]
        BY <2>3 DEF name
    <2> QED
        BY <1>1, <2>4, <2>5 DEF ReadUpTo
<1>6. before = [other \in DOMAIN before |-> before[other]] /\ name \in DOMAIN before
    BY <1>1 DEF ReadUpTo
<1> QED
    BY <1>4, <1>5, <1>6

\* A field that the type does not know is kept by pulsar only.
LEMMA ReadsUnknown ==
    ASSUME TypeAgrees, UnknownOK, NEW codec \in Codecs, NEW m
    PROVE  Reads(codec, Reader(m, <<>>), unknown,
                 Reader(m, IF codec = "pulsar" THEN unknown ELSE <<>>))
<1>1. CASE unknown = <<>>
    BY <1>1, ReadsNothing
<1>2. CASE unknown = <<NewerField>>
    <2> DEFINE read == Reader(m, <<>>)
    <2>1. NumberOf(NewerField) = 15 /\ WireType(NewerField) = 2 /\ NewerField.whole = TRUE
        BY DEF NumberOf, WireType, NewerField, Bytes, Part
    <2>2. CasesOf(codec, NewerField) = {}
        <3>1. ASSUME NEW k \in 1 .. Count
              PROVE  CaseOf(codec, k)[4] # 15
            <4>1. CaseOf(codec, k)[4] \in 1 .. 14
                BY FieldFacts
            <4> QED
                BY <4>1
        <3> QED
            BY <2>1, <3>1, TableTypes DEF CasesOf, CaseOf
    <2>3. ~Illegal(codec, NewerField)
        BY <2>1, <2>2 DEF Illegal
    <2>4. ~read.failed
        BY DEF Reader
    <2>5. Unmarshal(codec, read, NewerField) = Skip(codec, read, NewerField)
        BY <2>2, <2>3, <2>4 DEF Unmarshal
    <2>6. Skip(codec, read, NewerField) =
              Reader(m, IF codec = "pulsar" THEN unknown ELSE <<>>)
        <3>1. Append(<<>>, NewerField) = <<NewerField>>
            OBVIOUS
        <3>2. CASE codec = "pulsar"
            <4>1. Skip(codec, read, NewerField) = Reader(m, Append(<<>>, NewerField))
                BY <3>2 DEF Skip, Reader
            <4> QED
                BY <1>2, <3>1, <3>2, <4>1
        <3>3. CASE codec # "pulsar"
            <4>1. Skip(codec, read, NewerField) = read
                BY <3>3 DEF Skip
            <4> QED
                BY <3>3, <4>1
        <3> QED
            BY <3>2, <3>3
    <2>7. Reads(codec, read, <<NewerField>>, Unmarshal(codec, read, NewerField))
        BY ReadsOne
    <2> HIDE DEF read
    <2> QED
        BY <1>2, <2>5, <2>6, <2>7 DEF read
<1> QED
    BY <1>1, <1>2 DEF UnknownOK

\* That field is a part.
LEMMA UnknownType ==
    ASSUME UnknownOK
    PROVE  unknown \in Seq(PartSet)
<1>1. NewerField \in PartSet
    BY BytesType DEF NewerField
<1>2. <<>> \in Seq(PartSet) /\ \A part \in PartSet : <<part>> \in Seq(PartSet)
    OBVIOUS
<1> QED
    BY <1>1, <1>2 DEF UnknownOK

\* What a codec has written, each codec reads as the message that was written.
LEMMA ReadsWritten ==
    ASSUME TypeAgrees, MessageTyped, UnknownOK, writer \in Codecs, NEW codec \in Codecs
    PROVE  Reads(codec, Reader(ZeroMessage(UnmarshalTable[codec][type]), <<>>),
                 Written(writer), Good(codec))
<1> DEFINE n == Count
<1>1. n \in Nat
    BY TableTypes
<1>2. PICK w \in [0 .. n -> Seq(PartSet)] :
          /\ w[0] = unknown
          /\ \A k \in 1 .. n : w[k] = FieldParts(writer, k) \o w[k - 1]
          /\ Written(writer) = w[n]
    BY UnknownType, WrittenIs
<1> DEFINE S == {k \in Nat : k <= n =>
                     Reads(codec, Reader(ReadUpTo(codec, n - k), <<>>), w[k], Good(codec))}
<1>3. 0 \in S
    <2>1. n - 0 = n
        BY <1>1
    <2>2. Reads(codec, Reader(ReadMessage, <<>>), unknown, Good(codec))
        BY ReadsUnknown DEF Good
    <2>3. ReadUpTo(codec, n - 0) = ReadMessage
        BY <2>1, ReadUpToAll
    <2> QED
        BY <1>2, <2>2, <2>3
<1>4. ASSUME NEW k \in Nat, k \in S
      PROVE  k + 1 \in S
    <2> SUFFICES ASSUME k + 1 <= n
                 PROVE  Reads(codec, Reader(ReadUpTo(codec, n - (k + 1)), <<>>), w[k + 1],
                              Good(codec))
        OBVIOUS
    <2> DEFINE j == n - k
               name == CaseOf(codec, j)[3]
               before == ReadUpTo(codec, j - 1)
    <2>1. /\ j \in 1 .. Count /\ k + 1 \in 1 .. n /\ (k + 1) - 1 = k /\ Count + 1 - j = k + 1
          /\ n - (k + 1) = j - 1 /\ k \in 0 .. n /\ k <= n
        BY <1>1
    <2> HIDE DEF n
    <2>2. Reads(codec, Reader(ReadUpTo(codec, j), <<>>), w[k], Good(codec))
        BY <1>4, <2>1
    <2> HIDE DEF j, S
    <2>3. /\ before = [other \in DOMAIN before |-> before[other]] /\ name \in DOMAIN before
          /\ before[name] = Zero(CaseOf(codec, j)[2])
          /\ [before EXCEPT ![name] = ReadName(name)] = ReadUpTo(codec, j)
        BY <2>1, ReadUpToNext
    <2>4. Reads(codec, Reader(before, <<>>), FieldParts(writer, Count + 1 - j),
                Reader([before EXCEPT ![name] = ValueRead(j)], <<>>))
        <3> HIDE DEF before
        <3> QED
            BY <2>1, <2>3, ReadsField
    <2>5. ValueRead(j) = ReadName(name)
        BY <2>1, ValueOfName
    <2>6. Reads(codec, Reader(before, <<>>), FieldParts(writer, k + 1),
                Reader(ReadUpTo(codec, j), <<>>))
        <3> HIDE DEF before
        <3> QED
            BY <2>1, <2>3, <2>4, <2>5
    <2>7. FieldParts(writer, k + 1) \in Seq(PartSet) /\ w[k] \in Seq(PartSet)
        BY <1>2, <2>1, FieldPartsType DEF n
    <2>8. w[k + 1] = FieldParts(writer, k + 1) \o w[k]
        BY <1>2, <2>1
    <2>9. Reads(codec, Reader(before, <<>>), FieldParts(writer, k + 1) \o w[k], Good(codec))
        BY <2>2, <2>6, <2>7, ReadsConcat
    <2> QED
        BY <2>1, <2>8, <2>9
<1> HIDE DEF S
<1>5. Nat \subseteq S
    BY <1>3, <1>4, Induction
<1>6. Reads(codec, Reader(ReadUpTo(codec, n - n), <<>>), w[n], Good(codec))
    BY <1>1, <1>5 DEF S
<1>7. n - n = 0
    BY <1>1
<1> QED
    BY <1>2, <1>6, <1>7, ReadUpToNone

-----------------------------------------------------------------------------
(***************************************************************************)
(* The invariant.                                                          *)
(***************************************************************************)
\* What arguments range over.
ArgumentSet == Int \cup Seq(Int)

\* The arguments that have been passed are in the fields they were passed for.
ArgsOK ==
    /\ args \in Seq(ArgumentSet)
    /\ args # <<>> =>
           /\ type \in DOMAIN ArgumentTable /\ writer = "pulsar"
           /\ Len(args) <= Len(ArgumentTable[type])
           /\ \A k \in 1 .. Len(args) : message[ArgumentTable[type][k]] = args[k]

\* What a field that has been read may be, whoever wrote it.
ValueType(kind) == IF kind \in Scalar THEN Int ELSE Seq(Int)

\* A reader knows every field, and no other.
ReaderTyped(codec, read) ==
    /\ ReaderOK(read)
    /\ read.message = [name \in NamesOf(Fields) |-> read.message[name]]
    /\ \A k \in 1 .. Count : read.message[CaseOf(codec, k)[3]] \in ValueType(CaseOf(codec, k)[2])

\* The inductive invariant: what the variables range over,
TypedInv ==
    /\ type \in Message /\ writer \in Codecs \cup {"other"} /\ phase \in {"build", "read"}
    /\ MessageTyped /\ UnknownOK /\ i = 0 /\ ArgsOK
    /\ buffer \in Seq(PartSet)
    /\ \A codec \in Codecs : ReaderTyped(codec, reader[codec])

\* Nothing has been read before the reading starts.
Unread ==
    \A codec \in Codecs : reader[codec] = Reader(ZeroMessage(UnmarshalTable[codec][type]), <<>>)

\* What is left in the buffer completes what has been read.
Completes == \A codec \in Codecs : Reads(codec, reader[codec], buffer, Good(codec))

\* and how far the reading is.
CodecInv ==
    /\ TypedInv
    /\ phase = "build" => Unread
    /\ phase = "read" /\ writer \in Codecs => Completes

\* The tables agree.  TLC checks this of every message of the repository.
Agree == CasesAgree /\ TablesAgree

\* The kinds of fields, their values when they are not set, and when they are.
LEMMA FieldKind ==
    ASSUME TypeAgrees, NEW name \in NamesOf(Fields)
    PROVE  KindOf(Fields, name) \in Kind \ {"embedded"}
<1>1. "gogo" \in Codecs
    BY DEF Codecs
<1>2. PICK k \in 1 .. Count : name = CaseOf("gogo", k)[3]
    BY <1>1, EveryName
<1>3. CaseOf("gogo", k)[2] \in Kind
    BY <1>1, TableTypes
<1>4. KindOf(Fields, name) =
          IF CaseOf("gogo", k)[2] = "embedded" THEN "message" ELSE CaseOf("gogo", k)[2]
    BY <1>1, <1>2, FieldFacts
<1> QED
    BY <1>3, <1>4 DEF Kind

LEMMA ZeroValue ==
    ASSUME NEW kind
    PROVE  Zero(kind) \in Values(kind)
<1>1. CASE kind = "number" \/ kind = "bool" \/ kind = "string"
    BY <1>1 DEF Zero, Values, Scalar, Single
<1>2. CASE kind \notin {"number", "bool", "string"}
    <2>1. Zero(kind) = <<>>
        BY <1>2 DEF Zero, Scalar
    <2>2. Values(kind) \in {Seq(Int), Seq(Nat), {v \in Seq(Nat) : Len(v) <= 1}}
        BY <1>2 DEF Values
    <2>3. <<>> \in Seq(Int) /\ <<>> \in Seq(Nat) /\ Len(<<>>) <= 1
        OBVIOUS
    <2> QED
        BY <2>1, <2>2, <2>3
<1> QED
    BY <1>1, <1>2

LEMMA ValuesOfKind ==
    ASSUME NEW kind \in Kind, NEW v \in Values(kind)
    PROVE  v \in ValueType(kind) /\ v \in ArgumentSet
<1>1. CASE kind \in Scalar
    <2>1. v \in Int
        BY <1>1 DEF Values, Scalar, Single
    <2> QED
        BY <1>1, <2>1 DEF ValueType, ArgumentSet
<1>2. CASE kind \notin Scalar
    <2>1. v \in Seq(Int)
        BY <1>2 DEF Values, Scalar
    <2> QED
        BY <1>2, <2>1 DEF ValueType, ArgumentSet
<1> QED
    BY <1>1, <1>2

-----------------------------------------------------------------------------
\* What a reader makes of a part is typed.
LEMMA UpdatedType ==
    ASSUME NEW codec, NEW kind, NEW old \in ValueType(kind), NEW content \in Seq(Int) \ {<<>>}
    PROVE  Updated(codec, kind, old, content) \in ValueType(kind)
<1>1. content[1] \in Int
    OBVIOUS
<1>2. CASE kind \in Scalar
    <2>1. Updated(codec, kind, old, content) \in Int
        BY <1>1, <1>2 DEF Updated, Scalar, Single
    <2> QED
        BY <1>2, <2>1 DEF ValueType
<1>3. CASE kind \notin Scalar
    <2>1. old \in Seq(Int)
        BY <1>3 DEF ValueType
    <2>2. /\ old \o content \in Seq(Int) /\ Append(old, content[1]) \in Seq(Int)
          /\ <<content[1]>> \in Seq(Int)
        BY <1>1, <2>1
    <2>3. Updated(codec, kind, old, content)
              \in {old \o content, Append(old, content[1]), <<content[1]>>}
        BY <1>3 DEF Updated, Scalar
    <2> QED
        BY <1>3, <2>2, <2>3 DEF ValueType
<1> QED
    BY <1>2, <1>3

\* Whatever the part, and whether it is read, skipped or refused.
LEMMA UnmarshalTyped ==
    ASSUME TypeAgrees, NEW codec \in Codecs, NEW read, ReaderTyped(codec, read),
           NEW part \in PartSet
    PROVE  ReaderTyped(codec, Unmarshal(codec, read, part))
<1> DEFINE after == Unmarshal(codec, read, part)
           k == CHOOSE l \in CasesOf(codec, part) : TRUE
           f == CaseOf(codec, k)
           old == read.message
<1>1. /\ ReaderOK(read) /\ old = [name \in NamesOf(Fields) |-> old[name]]
      /\ \A l \in 1 .. Count : old[CaseOf(codec, l)[3]] \in ValueType(CaseOf(codec, l)[2])
    BY DEF ReaderTyped
<1>2. CASE read.failed
    <2>1. after = read
        BY <1>2 DEF Unmarshal
    <2> QED
        BY <2>1
<1>3. CASE ~read.failed /\ Illegal(codec, part)
    <2>1. after = [read EXCEPT !.failed = TRUE]
        BY <1>3 DEF Unmarshal
    <2>2. after = [message |-> old, unknown |-> read.unknown, failed |-> TRUE]
        BY <1>1, <2>1 DEF ReaderOK
    <2>3. ReaderOK(after) /\ after.message = old
        BY <2>2 DEF ReaderOK
    <2> HIDE DEF after
    <2> QED
        BY <1>1, <2>3 DEF ReaderTyped, after
<1>4. CASE ~read.failed /\ ~Illegal(codec, part) /\ CasesOf(codec, part) = {}
    <2>1. after = Skip(codec, read, part)
        BY <1>4 DEF Unmarshal
    <2>2. \/ after = read
          \/ after = [message |-> old, unknown |-> Append(read.unknown, part),
                      failed |-> read.failed]
        BY <1>1, <2>1 DEF Skip, ReaderOK
    <2>3. ReaderOK(after) /\ after.message = old
        BY <1>1, <2>2 DEF ReaderOK
    <2> HIDE DEF after
    <2> QED
        BY <1>1, <2>3 DEF ReaderTyped, after
<1>5. CASE ~read.failed /\ ~Illegal(codec, part) /\ CasesOf(codec, part) # {}
    <2>1. k \in CasesOf(codec, part)
        BY <1>5
    <2>2. k \in 1 .. Count
        BY <2>1, TableTypes DEF CasesOf
    <2> DEFINE value == Updated(codec, f[2], old[f[3]], part.content)
               new == [old EXCEPT ![f[3]] = value]
    <2>3. after = [read EXCEPT !.message[f[3]] = Updated(codec, f[2], @, part.content)]
        BY <1>5 DEF Unmarshal, CaseOf
    <2>4. after = [message |-> new, unknown |-> read.unknown, failed |-> read.failed]
        BY <1>1, <2>3 DEF ReaderOK
    <2> HIDE DEF after, new, k
    <2>5. ReaderOK(after) /\ after.message = new
        BY <1>1, <2>4 DEF ReaderOK
    <2>6. value \in ValueType(f[2])
        <3>1. part.content \in Seq(Int) \ {<<>>}
            BY DEF PartSet
        <3>2. old[f[3]] \in ValueType(f[2])
            BY <1>1, <2>2
        <3> QED
            BY <3>1, <3>2, UpdatedType
    <2>7. f[3] \in NamesOf(Fields)
        BY <2>2, FieldFacts
    <2> HIDE DEF value
    <2>8. new = [name \in NamesOf(Fields) |-> new[name]]
        <3> HIDE DEF f, old
        <3> QED
            BY <1>1, <2>7 DEF new
    <2>9. ASSUME NEW l \in 1 .. Count
          PROVE  new[CaseOf(codec, l)[3]] \in ValueType(CaseOf(codec, l)[2])
        <3>1. CASE l = k
            <4> HIDE DEF old
            <4>1. new[f[3]] = value
                BY <1>1, <2>7 DEF new
            <4> QED
                BY <2>6, <3>1, <4>1
        <3>2. CASE l # k
            <4>1. CaseOf(codec, l)[3] # f[3]
                <5>1. \A a, b \in DOMAIN UnmarshalTable[codec][type] :
                          UnmarshalTable[codec][type][a][3] = UnmarshalTable[codec][type][b][3]
                          => a = b
                    <6>1. OneCaseEach(UnmarshalTable[codec][type])
                        BY DEF TypeAgrees, CasesAgree, TypesWithSameCases, CasesAgreeOn, Codecs
                    <6> QED
                        BY <6>1 DEF OneCaseEach
                <5> QED
                    BY <2>2, <3>2, <5>1, TableTypes DEF CaseOf
            <4>2. CaseOf(codec, l)[3] \in NamesOf(Fields)
                BY FieldFacts
            <4> DEFINE name == CaseOf(codec, l)[3]
            <4> HIDE DEF name, old, f
            <4>3. new[name] = old[name]
                BY <1>1, <4>1, <4>2 DEF new, name
            <4> QED
                BY <1>1, <4>3 DEF name
        <3> QED
            BY <3>1, <3>2
    <2> QED
        BY <2>5, <2>8, <2>9 DEF ReaderTyped, after
<1> QED
    BY <1>2, <1>3, <1>4, <1>5

-----------------------------------------------------------------------------
\* Reading depends on the type only.
LEMMA SameReads ==
    ASSUME type' = type, NEW codec, NEW from, NEW parts, NEW to
    PROVE  Reads(codec, from, parts, to)' <=> Reads(codec, from, parts, to)
<1>1. \A part : CasesOf(codec, part)' = CasesOf(codec, part)
    BY DEF CasesOf, NumberOf
<1>2. \A part : Illegal(codec, part)' <=> Illegal(codec, part)
    BY <1>1 DEF Illegal, NumberOf, WireType
<1>3. ASSUME NEW read, NEW part
      PROVE  Unmarshal(codec, read, part)' = Unmarshal(codec, read, part)
    BY <1>1, <1>2 DEF Unmarshal, Skip
<1> QED
    BY <1>3 DEF Reads

\* And so does being typed.
LEMMA SameTyped ==
    ASSUME type' = type, NEW codec, NEW read
    PROVE  ReaderTyped(codec, read)' <=> ReaderTyped(codec, read)
BY DEF ReaderTyped, ReaderOK, Fields, NamesOf, Count, CaseOf

\* A message of which one field is set to a value of its kind.
LEMMA FieldSet ==
    ASSUME MessageTyped, type' = type, NEW name \in NamesOf(Fields),
           NEW v \in Values(KindOf(Fields, name)), message' = [message EXCEPT ![name] = v]
    PROVE  /\ MessageTyped'
           /\ message'[name] = v
           /\ \A other \in NamesOf(Fields) \ {name} : message'[other] = message[other]
<1>1. Fields' = Fields
    BY DEF Fields
<1>2. /\ DOMAIN message' = DOMAIN message /\ message'[name] = v
      /\ \A other \in NamesOf(Fields) \ {name} : message'[other] = message[other]
    BY DEF MessageTyped
<1>3. \A other \in NamesOf(Fields) : message'[other] \in Values(KindOf(Fields, other))
    BY <1>2 DEF MessageTyped
<1> QED
    BY <1>1, <1>2, <1>3 DEF MessageTyped

\* The arguments stay where they are.
LEMMA SameArgs ==
    ASSUME ArgsOK, type' = type, writer' = writer, args' = args, message' = message \/ args = <<>>
    PROVE  ArgsOK'
BY DEF ArgsOK

\* What is left to show of a step of the writer.
LEMMA WriterStep ==
    ASSUME CodecInv, phase = "build", phase' = "build", type' = type, writer' = writer,
           i' = i, reader' = reader, MessageTyped', UnknownOK', ArgsOK', buffer' \in Seq(PartSet)
    PROVE  CodecInv'
<1>1. \A codec \in Codecs : ReaderTyped(codec, reader[codec])'
    <2>1. \A codec \in Codecs : ReaderTyped(codec, reader'[codec])
        BY DEF CodecInv, TypedInv
    <2> QED
        BY <2>1, SameTyped
<1>2. TypedInv'
    BY <1>1, SamePartSet DEF CodecInv, TypedInv
<1>3. Unread'
    BY DEF CodecInv, Unread
<1> QED
    BY <1>2, <1>3 DEF CodecInv

\* A step that sets a field.
LEMMA FieldStep ==
    ASSUME CodecInv, NEW name \in NamesOf(Fields), NEW v \in Values(KindOf(Fields, name)),
           phase = "build", args = <<>>, message' = [message EXCEPT ![name] = v],
           UNCHANGED <<type, writer, phase, args, unknown, i, buffer, reader>>
    PROVE  CodecInv'
<1>1. MessageTyped'
    BY FieldSet DEF CodecInv, TypedInv
<1>2. UnknownOK' /\ ArgsOK'
    BY SameArgs DEF CodecInv, TypedInv, UnknownOK, NewerField, Bytes, Part
<1> QED
    BY <1>1, <1>2, WriterStep DEF CodecInv, TypedInv

\* The steps that build a message, by hand or through reflection, set one field.
LEMMA SetKeeps ==
    ASSUME CodecInv, TypeAgrees, NEW name \in NamesOf(Fields), Set(name)
    PROVE  CodecInv'
<1>1. PICK v \in Sample[KindOf(Fields, name)] : message' = [message EXCEPT ![name] = v]
    BY DEF Set
<1>2. v \in Values(KindOf(Fields, name))
    BY FieldKind, SampleAssumption
<1> QED
    BY <1>1, <1>2, FieldStep DEF Set, MayGrow

LEMMA ClearKeeps ==
    ASSUME CodecInv, TypeAgrees, NEW name \in NamesOf(Fields), Clear(name)
    PROVE  CodecInv'
BY ZeroValue, FieldStep DEF Clear

LEMMA MutableKeeps ==
    ASSUME CodecInv, TypeAgrees, NEW name \in NamesOf(Fields), Mutable(name)
    PROVE  CodecInv'
<1>1. <<0>> \in Values(KindOf(Fields, name))
    <2>1. KindOf(Fields, name) = "message"
        BY DEF Mutable
    <2>2. Values("message") = {v \in Seq(Nat) : Len(v) <= 1}
        BY DEF Values, Single
    <2>3. <<0>> \in Seq(Nat) /\ Len(<<0>>) <= 1
        OBVIOUS
    <2> QED
        BY <2>1, <2>2, <2>3
<1> QED
    BY <1>1, FieldStep DEF Mutable, MayGrow

\* Lists stay lists.
LEMMA ListValues ==
    ASSUME NEW kind \in {"strings", "messages", "packed"}, NEW v \in Values(kind)
    PROVE  /\ Append(v, 0) \in Values(kind)
           /\ v # Zero(kind) => Front(v) \in Values(kind)
<1>1. Zero(kind) = <<>>
    BY DEF Zero, Scalar
<1>2. \A s \in Seq(Nat) : /\ Append(s, 0) \in Seq(Nat)
                          /\ s # <<>> => SubSeq(s, 1, Len(s) - 1) \in Seq(Nat)
    OBVIOUS
<1>3. \A s \in Seq(Int) : /\ Append(s, 0) \in Seq(Int)
                          /\ s # <<>> => SubSeq(s, 1, Len(s) - 1) \in Seq(Int)
    OBVIOUS
<1>4. Values(kind) \in {Seq(Nat), Seq(Int)}
    BY DEF Values, Single
<1> QED
    BY <1>1, <1>2, <1>3, <1>4 DEF Front

\* So they do when the list is changed.
LEMMA ListAppendKeeps ==
    ASSUME CodecInv, TypeAgrees, NEW name \in NamesOf(Fields), ListAppend(name)
    PROVE  CodecInv'
<1>1. Append(message[name], 0) \in Values(KindOf(Fields, name))
    BY ListValues DEF ListAppend, CodecInv, TypedInv, MessageTyped
<1> QED
    BY <1>1, FieldStep DEF ListAppend, MayGrow

LEMMA ListTruncateKeeps ==
    ASSUME CodecInv, TypeAgrees, NEW name \in NamesOf(Fields), ListTruncate(name)
    PROVE  CodecInv'
<1>1. Front(message[name]) \in Values(KindOf(Fields, name))
    BY ListValues DEF ListTruncate, Has, CodecInv, TypedInv, MessageTyped
<1> QED
    BY <1>1, FieldStep DEF ListTruncate

\* A field the type does not know goes with the message.
LEMMA CarryUnknownKeeps ==
    ASSUME CodecInv, CarryUnknown
    PROVE  CodecInv'
<1>1. MessageTyped' /\ ArgsOK'
    BY SameArgs DEF CarryUnknown, CodecInv, TypedInv, MessageTyped, Fields
<1>2. UnknownOK'
    BY DEF CarryUnknown, UnknownOK, NewerField, Bytes, Part
<1> QED
    BY <1>1, <1>2, WriterStep DEF CarryUnknown, CodecInv, TypedInv

\* An argument is put into the field it was passed for, and none before it is lost.
LEMMA PassArgumentKeeps ==
    ASSUME CodecInv, TypeAgrees, PassArgument
    PROVE  CodecInv'
<1> DEFINE k == Len(args) + 1
           passed == ArgumentTable[type]
           name == passed[k]
<1>1. /\ phase = "build" /\ writer = "pulsar"
      /\ type \in DOMAIN ArgumentTable /\ k \in DOMAIN passed
      /\ UNCHANGED <<type, writer, phase, unknown, i, buffer, reader>>
    BY DEF PassArgument
<1>2. PICK v \in Sample[KindOf(Fields, name)] :
          /\ args' = Append(args, v)
          /\ message' = [message EXCEPT ![FieldNamed(Fields, PositionalTable[type][k])] = v]
    BY DEF PassArgument
<1>3. /\ name \in NamesOf(Fields) /\ FieldNamed(Fields, PositionalTable[type][k]) = name
      /\ \A l, j \in DOMAIN passed : passed[l] = passed[j] => l = j
      /\ \A l \in DOMAIN passed : passed[l] \in NamesOf(Fields)
    BY <1>1 DEF TypeAgrees, TablesAgree, TypesWithTables, ArgumentsAgreeOn, Fields
<1>4. DOMAIN passed = 1 .. Len(passed) /\ Len(passed) \in Nat
    BY <1>1, TableAssumption
<1>5. v \in Values(KindOf(Fields, name)) /\ v \in ArgumentSet
    <2>1. KindOf(Fields, name) \in Kind \ {"embedded"}
        BY <1>3, FieldKind
    <2>2. v \in Values(KindOf(Fields, name))
        BY <2>1, SampleAssumption
    <2> QED
        BY <2>1, <2>2, ValuesOfKind
<1> HIDE DEF name, passed
<1>6. /\ MessageTyped' /\ message'[name] = v
      /\ \A other \in NamesOf(Fields) \ {name} : message'[other] = message[other]
    BY <1>1, <1>2, <1>3, <1>5, FieldSet DEF CodecInv, TypedInv
<1>7. args \in Seq(ArgumentSet) /\ Len(args) \in Nat
    BY DEF CodecInv, TypedInv, ArgsOK
<1>8. /\ args' \in Seq(ArgumentSet) /\ Len(args') = k /\ args'[k] = v
      /\ \A l \in 1 .. Len(args) : args'[l] = args[l]
    BY <1>2, <1>5, <1>7
<1>9. ASSUME NEW l \in 1 .. k
      PROVE  message'[passed[l]] = args'[l]
    <2>1. CASE l = k
        BY <1>6, <1>8, <2>1 DEF name
    <2>2. CASE l # k
        <3>1. l \in 1 .. Len(args) /\ l \in DOMAIN passed /\ args # <<>>
            BY <1>1, <1>4, <1>7, <2>2
        <3>2. message[passed[l]] = args[l]
            BY <3>1 DEF CodecInv, TypedInv, ArgsOK, passed
        <3>3. passed[l] \in NamesOf(Fields) \ {name}
            BY <1>1, <1>3, <2>2, <3>1 DEF name
        <3> QED
            BY <1>6, <1>8, <3>1, <3>2, <3>3
    <2> QED
        BY <2>1, <2>2
<1>10. k <= Len(passed)
    BY <1>1, <1>4
<1> HIDE DEF k
<1>11. ArgsOK'
    <2>1. /\ args' \in Seq(ArgumentSet) /\ type' \in DOMAIN ArgumentTable /\ writer' = "pulsar"
          /\ Len(args') <= Len(ArgumentTable[type'])
        BY <1>1, <1>8, <1>10 DEF passed
    <2>2. \A l \in 1 .. Len(args') : message'[ArgumentTable[type'][l]] = args'[l]
        BY <1>1, <1>8, <1>9 DEF passed
    <2> QED
        BY <2>1, <2>2 DEF ArgsOK
<1>12. UnknownOK'
    BY <1>1 DEF CodecInv, TypedInv, UnknownOK, NewerField, Bytes, Part
<1> QED
    BY <1>1, <1>6, <1>11, <1>12, WriterStep DEF CodecInv, TypedInv

\* Bytes of another program are parts too.
LEMMA ArriveKeeps ==
    ASSUME CodecInv, TypeAgrees, Arrive
    PROVE  CodecInv'
<1> DEFINE k == 16 * ((Len(buffer) + 1) % 2)
<1>1. buffer \in Seq(PartSet) /\ k \in Int
    BY DEF CodecInv, TypedInv
<1> HIDE DEF k
<1>2. PICK whole \in BOOLEAN : \E part \in ForeignParts(k, whole) : buffer' = Append(buffer, part)
    BY DEF Arrive, k
<1>3. ASSUME NEW number \in Nat, NEW wire \in Nat
      PROVE  /\ ForeignPart(number, wire, k, whole) \in PartSet
             /\ \A flaw \in FlawSet :
                    [ForeignPart(number, wire, k, whole) EXCEPT !.flaw = flaw] \in PartSet
    <2> DEFINE content == IF wire = 2 THEN <<k, 0>> ELSE <<k>>
               part == ForeignPart(number, wire, k, whole)
    <2>1. content \in Seq(Int) \ {<<>>}
        BY <1>1
    <2>2. 8 * number + wire \in Nat /\ 1 + k \in Int /\ "none" \in FlawSet
        BY <1>1 DEF FlawSet
    <2> HIDE DEF content
    <2>3. part = [tag |-> 8 * number + wire, content |-> content, length |-> 1 + k,
                  whole |-> whole, flaw |-> "none"]
        BY DEF ForeignPart, Part, content
    <2>4. part \in PartSet
        BY <2>1, <2>2, <2>3 DEF PartSet
    <2>5. \A flaw \in FlawSet : [part EXCEPT !.flaw = flaw] \in PartSet
        BY <2>4 DEF PartSet
    <2> QED
        BY <2>4, <2>5
<1>4. ForeignParts(k, whole) \subseteq PartSet
    <2> DEFINE table == UnmarshalTable["gogo"][type]
               numbers == {table[n][4] : n \in DOMAIN table}
               known == {ForeignPart(number, wire, k, whole) : number \in numbers, wire \in {0, 2}}
               unknowns == {ForeignPart(number, wire, k, whole) :
                                number \in {0, 2, 15}, wire \in {0, 2, 4, 5}}
               flawed(n) == {[ForeignPart(table[n][4], 2, k, whole) EXCEPT !.flaw = flaw] :
                                 flaw \in Flaws(table[n], k)}
    <2>1. \A n \in DOMAIN table : table[n][4] \in Nat
        <3>1. "gogo" \in Codecs
            BY DEF Codecs
        <3>2. \A n \in 1 .. Count : CaseOf("gogo", n)[4] \in Nat
            BY <3>1, FieldFacts
        <3> QED
            BY <3>1, <3>2, TableTypes DEF CaseOf
    <2>2. ForeignParts(k, whole) = known \cup unknowns \cup UNION {flawed(n) : n \in DOMAIN table}
        BY DEF ForeignParts
    <2>3. ASSUME NEW field
          PROVE  Flaws(field, k) \subseteq FlawSet
        BY DEF Flaws, FlawSet
    <2> HIDE DEF table
    <2>4. known \subseteq PartSet
        BY <1>3, <2>1
    <2>5. unknowns \subseteq PartSet
        <3>1. {0, 2, 15} \subseteq Nat /\ {0, 2, 4, 5} \subseteq Nat
            OBVIOUS
        <3>2. \A number \in {0, 2, 15}, wire \in {0, 2, 4, 5} :
                  ForeignPart(number, wire, k, whole) \in PartSet
            BY <1>3, <3>1
        <3> QED
            BY <3>2
    <2>6. ASSUME NEW n \in DOMAIN table
          PROVE  flawed(n) \subseteq PartSet
        BY <1>3, <2>1, <2>3
    <2> HIDE DEF known, unknowns, flawed
    <2> QED
        BY <2>2, <2>4, <2>5, <2>6
<1>5. buffer' \in Seq(PartSet)
    BY <1>1, <1>2, <1>4
<1>6. MessageTyped' /\ ArgsOK' /\ UnknownOK'
    BY SameArgs DEF Arrive, CodecInv, TypedInv, MessageTyped, Fields, UnknownOK, NewerField,
                    Bytes, Part
<1> QED
    BY <1>5, <1>6, WriterStep DEF Arrive

-----------------------------------------------------------------------------
\* Nothing but the buffer, the phase and the readers changes while a message is read.
LEMMA SameMessage ==
    ASSUME CodecInv, UNCHANGED <<type, writer, message, args, unknown>>
    PROVE  MessageTyped' /\ UnknownOK' /\ ArgsOK' /\ \A codec : Good(codec)' = Good(codec)
<1>1. MessageTyped'
    BY DEF CodecInv, TypedInv, MessageTyped, Fields
<1>2. UnknownOK' /\ ArgsOK'
    BY SameArgs DEF CodecInv, TypedInv, UnknownOK, NewerField, Bytes, Part
<1>3. ReadMessage' = ReadMessage
    BY DEF ReadMessage, ReadName, Fields
<1>4. ASSUME NEW codec
      PROVE  Good(codec)' = Good(codec)
    BY <1>3 DEF Good, Reader
<1> QED
    BY <1>1, <1>2, <1>4

\* Marshal fills its buffer, and leaves in it what makes both readers complete.
LEMMA MarshalKeeps ==
    ASSUME CodecInv, TypeAgrees, Marshal
    PROVE  CodecInv'
<1>1. /\ phase = "build" /\ writer \in Codecs /\ phase' = "read"
      /\ i' = Size(writer) - LengthOf(Written(writer))
      /\ buffer' = Padding(i') \o Written(writer)
      /\ UNCHANGED <<type, writer, message, args, unknown, reader>>
    BY DEF Marshal
<1>2. MessageTyped /\ UnknownOK /\ unknown \in Seq(PartSet) /\ Unread
    BY <1>1, UnknownType DEF CodecInv, TypedInv
<1>3. i' = 0
    <2>1. Size(writer) = LengthOf(Written(writer)) /\ Size(writer) \in Int
        <3>1. writer \in Codecs /\ MessageTyped /\ unknown \in Seq(PartSet)
            BY <1>1, <1>2
        <3> QED
            BY <3>1, SizeIsLength, Zenon
    <2>2. \A x \in Int : x - x = 0
        OBVIOUS
    <2> QED
        BY <1>1, <2>1, <2>2
<1>4. Written(writer) \in Seq(PartSet)
    <2>1. Count \in Nat
        BY <1>1, TableTypes
    <2>2. PICK w \in [0 .. Count -> Seq(PartSet)] : Written(writer) = w[Count]
        <3>1. writer \in Codecs /\ MessageTyped /\ unknown \in Seq(PartSet)
            BY <1>1, <1>2
        <3> QED
            BY <3>1, WrittenIs, Zenon
    <2> QED
        BY <2>1, <2>2
<1>5. buffer' = Written(writer)
    <2>1. Padding(0) = <<>>
        BY DEF Padding
    <2>2. buffer' = <<>> \o Written(writer)
        BY <1>1, <1>3, <2>1, Zenon
    <2> QED
        BY <1>4, <2>2
<1>6. MessageTyped' /\ UnknownOK' /\ ArgsOK' /\ \A codec : Good(codec)' = Good(codec)
    BY <1>1, SameMessage
<1>7. \A codec \in Codecs : ReaderTyped(codec, reader[codec])'
    <2>1. \A codec \in Codecs : ReaderTyped(codec, reader'[codec])
        BY <1>1 DEF CodecInv, TypedInv
    <2> QED
        BY <1>1, <2>1, SameTyped
<1>8. Completes'
    <2>1. ASSUME NEW codec \in Codecs
          PROVE  Reads(codec, reader'[codec], buffer', Good(codec))
        <3>1. Reads(codec, Reader(ZeroMessage(UnmarshalTable[codec][type]), <<>>),
                    Written(writer), Good(codec))
            BY <1>1, <1>2, ReadsWritten
        <3>2. reader'[codec] = Reader(ZeroMessage(UnmarshalTable[codec][type]), <<>>)
            BY <1>1, <1>2 DEF Unread
        <3> QED
            BY <1>5, <3>1, <3>2
    <2> QED
        BY <1>1, <1>6, <2>1, SameReads DEF Completes
<1>9. TypedInv'
    BY <1>1, <1>3, <1>4, <1>5, <1>6, <1>7, SamePartSet DEF CodecInv, TypedInv
<1> QED
    BY <1>1, <1>8, <1>9 DEF CodecInv

\* Bytes of another program promise nothing.
LEMMA StartReadingKeeps ==
    ASSUME CodecInv, StartReading
    PROVE  CodecInv'
<1>1. /\ writer = "other" /\ phase' = "read"
      /\ UNCHANGED <<type, writer, message, args, unknown, i, buffer, reader>>
    BY DEF StartReading
<1>2. MessageTyped' /\ UnknownOK' /\ ArgsOK'
    BY <1>1, SameMessage
<1>3. \A codec \in Codecs : ReaderTyped(codec, reader[codec])'
    <2>1. \A codec \in Codecs : ReaderTyped(codec, reader'[codec])
        BY <1>1 DEF CodecInv, TypedInv
    <2> QED
        BY <1>1, <2>1, SameTyped
<1>4. TypedInv'
    BY <1>1, <1>2, <1>3, SamePartSet DEF CodecInv, TypedInv
<1>5. writer' \notin Codecs
    BY <1>1 DEF Codecs
<1> QED
    BY <1>1, <1>4, <1>5 DEF CodecInv

\* A part that is read is one less to complete the message.
LEMMA ReadPartKeeps ==
    ASSUME CodecInv, TypeAgrees, ReadPart
    PROVE  CodecInv'
<1> DEFINE part == Head(buffer)
<1>1. /\ phase = "read" /\ buffer # <<>> /\ buffer' = Tail(buffer)
      /\ \A codec \in Codecs : reader'[codec] = Unmarshal(codec, reader[codec], part)
      /\ UNCHANGED <<type, writer, phase, message, args, unknown, i>>
    BY DEF ReadPart
<1>2. buffer \in Seq(PartSet) /\ part \in PartSet /\ Tail(buffer) \in Seq(PartSet)
    BY <1>1 DEF CodecInv, TypedInv
<1> HIDE DEF part
<1>3. MessageTyped' /\ UnknownOK' /\ ArgsOK' /\ \A codec : Good(codec)' = Good(codec)
    BY <1>1, SameMessage
<1>4. \A codec \in Codecs : ReaderTyped(codec, reader[codec])'
    <2>1. \A codec \in Codecs : ReaderTyped(codec, reader'[codec])
        BY <1>1, <1>2, UnmarshalTyped DEF CodecInv, TypedInv
    <2> QED
        BY <1>1, <2>1, SameTyped
<1>5. ASSUME writer' \in Codecs
      PROVE  Completes'
    <2>1. Completes
        BY <1>1, <1>5 DEF CodecInv
    <2>2. ASSUME NEW codec \in Codecs
          PROVE  Reads(codec, reader'[codec], buffer', Good(codec))
        <3>1. Reads(codec, reader[codec], buffer, Good(codec))
            BY <2>1 DEF Completes
        <3>2. Reads(codec, Unmarshal(codec, reader[codec], part), Tail(buffer), Good(codec))
            BY <1>1, <1>2, <3>1, ReadsTail DEF part
        <3> QED
            BY <1>1, <3>2
    <2> QED
        BY <1>1, <1>3, <2>2, SameReads DEF Completes
<1>6. TypedInv'
    BY <1>1, <1>2, <1>3, <1>4, SamePartSet DEF CodecInv, TypedInv
<1> QED
    BY <1>1, <1>5, <1>6 DEF CodecInv

\* When nothing changes the invariant stays.
LEMMA StutterKeeps ==
    ASSUME CodecInv, UNCHANGED vars
    PROVE  CodecInv'
<1>1. UNCHANGED <<type, writer, phase, message, args, unknown, i, buffer, reader>>
    BY DEF vars
<1>2. MessageTyped' /\ UnknownOK' /\ ArgsOK' /\ \A codec : Good(codec)' = Good(codec)
    BY <1>1, SameMessage
<1>3. \A codec \in Codecs : ReaderTyped(codec, reader[codec])'
    <2>1. \A codec \in Codecs : ReaderTyped(codec, reader'[codec])
        BY <1>1 DEF CodecInv, TypedInv
    <2> QED
        BY <1>1, <2>1, SameTyped
<1>4. TypedInv'
    BY <1>1, <1>2, <1>3, SamePartSet DEF CodecInv, TypedInv
<1>5. Unread => Unread'
    BY <1>1 DEF Unread
<1>6. Completes => Completes'
    <2>1. SUFFICES ASSUME Completes, NEW codec \in Codecs
                   PROVE  Reads(codec, reader[codec], buffer, Good(codec))'
        BY DEF Completes
    <2>2. Reads(codec, reader'[codec], buffer', Good(codec))
        BY <1>1, <2>1 DEF Completes
    <2> QED
        BY <1>1, <1>2, <2>2, SameReads
<1> QED
    BY <1>1, <1>4, <1>5, <1>6 DEF CodecInv

\* It holds when the message is empty, and after every step.
LEMMA InitEstablishes ==
    ASSUME Init, Agree
    PROVE  CodecInv
<1>1. /\ type \in Message /\ writer \in Codecs \cup {"other"} /\ phase = "build"
      /\ message = ZeroMessage(Fields) /\ args = <<>> /\ unknown = <<>> /\ i = 0 /\ buffer = <<>>
      /\ \A codec \in Codecs :
             reader[codec] = Reader(ZeroMessage(UnmarshalTable[codec][type]), <<>>)
    BY DEF Init, Reader
<1>2. TypeAgrees
    BY <1>1 DEF TypeAgrees, Agree
<1>3. MessageTyped
    BY <1>1, ZeroValue DEF MessageTyped, ZeroMessage
<1>4. UnknownOK /\ ArgsOK /\ buffer \in Seq(PartSet)
    <2>1. <<>> \in Seq(ArgumentSet) /\ <<>> \in Seq(PartSet)
        OBVIOUS
    <2> QED
        BY <1>1, <2>1 DEF UnknownOK, ArgsOK
<1>5. ASSUME NEW codec \in Codecs
      PROVE  ReaderTyped(codec, reader[codec])
    <2> DEFINE zero == ZeroMessage(UnmarshalTable[codec][type])
               read == Reader(zero, <<>>)
    <2>1. zero = [name \in NamesOf(Fields) |-> zero[name]]
        BY <1>2, EveryCase DEF ZeroMessage
    <2>2. ASSUME NEW k \in 1 .. Count
          PROVE  zero[CaseOf(codec, k)[3]] \in ValueType(CaseOf(codec, k)[2])
        <3>1. zero[CaseOf(codec, k)[3]] = Zero(CaseOf(codec, k)[2])
            BY <1>2, EveryCase, FieldFacts DEF ZeroMessage
        <3>2. Zero(CaseOf(codec, k)[2]) \in Values(CaseOf(codec, k)[2])
            BY ZeroValue
        <3>3. CaseOf(codec, k)[2] \in Kind
            BY <1>2, TableTypes
        <3> QED
            BY <3>1, <3>2, <3>3, ValuesOfKind
    <2> HIDE DEF zero
    <2>3. ReaderOK(read) /\ read.message = zero
        BY DEF Reader, ReaderOK
    <2> HIDE DEF read
    <2>4. ReaderTyped(codec, read)
        BY <2>1, <2>2, <2>3 DEF ReaderTyped
    <2> QED
        BY <1>1, <2>4 DEF read, zero
<1> QED
    BY <1>1, <1>3, <1>4, <1>5 DEF CodecInv, TypedInv, Unread

LEMMA NextKeeps ==
    ASSUME CodecInv, Agree, [Next]_vars
    PROVE  CodecInv'
<1>1. TypeAgrees
    BY DEF TypeAgrees, Agree, CodecInv, TypedInv
<1>2. CASE \E name \in NamesOf(Fields) :
               Set(name) \/ Clear(name) \/ Mutable(name) \/ ListAppend(name) \/ ListTruncate(name)
    BY <1>1, <1>2, SetKeeps, ClearKeeps, MutableKeeps, ListAppendKeeps, ListTruncateKeeps
<1>3. CASE CarryUnknown
    BY <1>3, CarryUnknownKeeps
<1>4. CASE PassArgument
    BY <1>1, <1>4, PassArgumentKeeps
<1>5. CASE Marshal
    BY <1>1, <1>5, MarshalKeeps
<1>6. CASE Arrive
    BY <1>1, <1>6, ArriveKeeps
<1>7. CASE StartReading
    BY <1>7, StartReadingKeeps
<1>8. CASE ReadPart
    BY <1>1, <1>8, ReadPartKeeps
<1>9. CASE Done \/ UNCHANGED vars
    BY <1>9, StutterKeeps DEF Done
<1> QED
    BY <1>2, <1>3, <1>4, <1>5, <1>6, <1>7, <1>8, <1>9 DEF Next

\* In every execution, of every message whose tables agree: Size and Marshal count the
\* same bytes, and what is left in the buffer completes what each codec has read.
THEOREM CodecInvariant == Spec => [](Agree => CodecInv)
<1>1. Init => (Agree => CodecInv)
    BY InitEstablishes
<1>2. (Agree => CodecInv) /\ [Next]_vars => (Agree => CodecInv)'
    <2> SUFFICES ASSUME Agree => CodecInv, [Next]_vars, Agree'
                 PROVE  CodecInv'
        OBVIOUS
    <2>1. type' = type
        BY DEF Next, Set, Clear, Mutable, ListAppend, ListTruncate, CarryUnknown, PassArgument,
               Marshal, Arrive, StartReading, ReadPart, Done, vars
    <2>2. CasesAgree
        BY <2>1 DEF Agree, CasesAgree, TypesWithSameCases, CasesAgreeOn
    <2>3. TablesAgree
        BY <2>1 DEF Agree, TablesAgree, TypesWithTables, ArgumentsAgreeOn, FunctionsAgreeOn
    <2> QED
        BY <2>2, <2>3, NextKeeps DEF Agree
<1> QED
    BY <1>1, <1>2, PTL DEF Spec

\* What the invariant says of the properties.
LEMMA InvariantTypes ==
    ASSUME CodecInv, Agree
    PROVE  CodecTypeOK
<1>1. TypeAgrees
    BY DEF TypeAgrees, Agree, CodecInv, TypedInv
<1>2. \A kind, v : v \in ValueType(kind) => FieldOK(kind, v)
    <2>1. \A v \in Seq(Int) : DOMAIN v = 1 .. Len(v) /\ \A k \in DOMAIN v : v[k] \in Int
        OBVIOUS
    <2> QED
        BY <2>1 DEF ValueType, FieldOK
<1>3. MessageOK(Fields, message)
    <2>1. ASSUME NEW name \in NamesOf(Fields)
          PROVE  FieldOK(KindOf(Fields, name), message[name])
        <3>1. message[name] \in Values(KindOf(Fields, name)) /\ KindOf(Fields, name) \in Kind
            BY <1>1, FieldKind DEF CodecInv, TypedInv, MessageTyped
        <3> QED
            BY <1>2, <3>1, ValuesOfKind
    <2> QED
        BY <2>1 DEF MessageOK, CodecInv, TypedInv, MessageTyped
<1>4. ASSUME NEW codec \in Codecs
      PROVE  /\ MessageOK(UnmarshalTable[codec][type], reader[codec].message)
             /\ DOMAIN reader[codec].message = DOMAIN message
             /\ reader[codec].failed \in BOOLEAN
    <2> DEFINE m == reader[codec].message
    <2>1. ReaderTyped(codec, reader[codec])
        BY DEF CodecInv, TypedInv
    <2>2. DOMAIN m = NamesOf(Fields) /\ reader[codec].failed \in BOOLEAN
        BY <2>1 DEF ReaderTyped, ReaderOK
    <2>3. NamesOf(UnmarshalTable[codec][type]) = NamesOf(Fields)
        BY <1>1, EveryCase
    <2>4. ASSUME NEW name \in NamesOf(Fields)
          PROVE  FieldOK(KindOf(UnmarshalTable[codec][type], name), m[name])
        <3>1. PICK k \in 1 .. Count : name = CaseOf(codec, k)[3]
            BY <1>1, EveryName
        <3>2. KindOf(UnmarshalTable[codec][type], name) = CaseOf(codec, k)[2]
            BY <1>1, <3>1, FieldFacts
        <3>3. m[name] \in ValueType(CaseOf(codec, k)[2])
            BY <2>1, <3>1 DEF ReaderTyped
        <3> QED
            BY <1>2, <3>2, <3>3
    <2>5. DOMAIN message = NamesOf(Fields)
        BY DEF CodecInv, TypedInv, MessageTyped
    <2> QED
        BY <2>2, <2>3, <2>4, <2>5 DEF MessageOK
<1>5. args # <<>> => Len(args) \in 1 .. Len(ArgumentTable[type])
    <2> SUFFICES ASSUME args # <<>>
                 PROVE  Len(args) \in 1 .. Len(ArgumentTable[type])
        OBVIOUS
    <2>1. /\ args \in Seq(ArgumentSet) /\ Len(args) <= Len(ArgumentTable[type])
          /\ type \in DOMAIN ArgumentTable
        BY DEF CodecInv, TypedInv, ArgsOK
    <2>2. Len(ArgumentTable[type]) \in Nat /\ Len(args) \in Nat \ {0}
        BY <2>1, TableAssumption
    <2> QED
        BY <2>1, <2>2
<1> QED
    BY <1>3, <1>4, <1>5 DEF CodecTypeOK, CodecInv, TypedInv

\* An empty message is the only value that is read as another, and it counts as the same.
LEMMA SameAsWritten ==
    ASSUME TypeAgrees, writer \in Codecs, NEW name \in NamesOf(Fields)
    PROVE  Same(name, ReadName(name), message[name])
<1> DEFINE kind == KindOf(UnmarshalTable["gogo"][type], name)
<1>1. CASE ReadName(name) = message[name]
    BY <1>1 DEF Same
<1>2. CASE ReadName(name) # message[name]
    <2>1. /\ KindOf(UnmarshalTable[writer][type], name) = "embedded" /\ message[name] = <<>>
          /\ ReadName(name) = <<0>>
        BY <1>2 DEF ReadName
    <2>2. PICK k \in 1 .. Count : name = CaseOf(writer, k)[3]
        BY EveryName
    <2>3. CaseOf(writer, k)[2] = "embedded"
        BY <2>1, <2>2, FieldFacts
    <2>4. writer = "gogo"
        BY <2>3, FieldFacts
    <2>5. SumOf(<<0>>) = 0 /\ SumOf(<<>>) = 0
        BY SumOfOne, SumOfEmpty
    <2> QED
        BY <2>1, <2>4, <2>5 DEF Same
<1> QED
    BY <1>1, <1>2

\* In the end each codec has read what was written.
LEMMA AllRead ==
    ASSUME CodecInv, phase = "read", buffer = <<>>, writer \in Codecs, NEW codec \in Codecs
    PROVE  /\ reader[codec].message = ReadMessage /\ ~reader[codec].failed
           /\ reader[codec].unknown = IF codec = "pulsar" THEN unknown ELSE <<>>
<1>1. Reads(codec, reader[codec], <<>>, Good(codec))
    BY DEF CodecInv, Completes
<1>2. Good(codec) = reader[codec]
    BY <1>1, ReadsNothing
<1> QED
    BY <1>2 DEF Good, Reader

\* Nothing written is lost.
LEMMA InvariantRoundTrip ==
    ASSUME CodecInv, Agree
    PROVE  RoundTrip
<1> SUFFICES ASSUME phase = "read", buffer = <<>>, writer \in Codecs
             PROVE  /\ \A codec \in Codecs :
                           /\ ~reader[codec].failed
                           /\ \A name \in DOMAIN message :
                                  Same(name, reader[codec].message[name], message[name])
                    /\ reader["pulsar"].unknown = unknown
    BY DEF RoundTrip
<1>1. TypeAgrees /\ DOMAIN message = NamesOf(Fields)
    BY DEF TypeAgrees, Agree, CodecInv, TypedInv, MessageTyped
<1>2. ASSUME NEW codec \in Codecs, NEW name \in DOMAIN message
      PROVE  Same(name, reader[codec].message[name], message[name])
    <2>1. reader[codec].message[name] = ReadName(name)
        BY <1>1, AllRead DEF ReadMessage
    <2> QED
        BY <1>1, <2>1, SameAsWritten
<1> QED
    BY <1>2, AllRead DEF Codecs

\* No argument is put where another belongs.
LEMMA InvariantCommand ==
    ASSUME CodecInv, Agree
    PROVE  CommandIsUnderstood
<1> SUFFICES ASSUME phase = "read", buffer = <<>>, NEW k \in DOMAIN args
             PROVE  Same(ArgumentTable[type][k],
                         reader["gogo"].message[ArgumentTable[type][k]], args[k])
    BY DEF CommandIsUnderstood
<1> DEFINE name == ArgumentTable[type][k]
<1>1. TypeAgrees /\ ArgsOK
    BY DEF TypeAgrees, Agree, CodecInv, TypedInv
<1>2. args # <<>> /\ k \in 1 .. Len(args)
    BY <1>1 DEF ArgsOK
<1>3. /\ writer = "pulsar" /\ message[name] = args[k] /\ type \in DOMAIN ArgumentTable
      /\ Len(args) <= Len(ArgumentTable[type])
    BY <1>1, <1>2 DEF ArgsOK
<1>4. k \in DOMAIN ArgumentTable[type]
    <2>1. /\ DOMAIN ArgumentTable[type] = 1 .. Len(ArgumentTable[type])
          /\ Len(ArgumentTable[type]) \in Nat /\ Len(args) \in Nat
        BY <1>1, <1>3, TableAssumption DEF ArgsOK
    <2> QED
        BY <1>2, <1>3, <2>1
<1>5. name \in NamesOf(Fields)
    BY <1>1, <1>3, <1>4 DEF TypeAgrees, TablesAgree, TypesWithTables, ArgumentsAgreeOn, Fields
<1>6. "gogo" \in Codecs /\ writer \in Codecs
    BY <1>3 DEF Codecs
<1>7. reader["gogo"].message[name] = ReadName(name)
    BY <1>5, <1>6, AllRead DEF ReadMessage
<1> QED
    BY <1>1, <1>3, <1>5, <1>6, <1>7, SameAsWritten

\* Size and Marshal of a codec count the same bytes: Marshal, which writes from the end,
\* neither runs out of its buffer, which would be a panic, nor leaves zeros before the
\* message.  For any values of the fields, lists of any length included.
THEOREM BuffersAreFilled == Spec => [](CasesAgree /\ TablesAgree => BufferFilled)
<1>1. (Agree => CodecInv) => (CasesAgree /\ TablesAgree => BufferFilled)
    BY DEF Agree, CodecInv, TypedInv, BufferFilled
<1> QED
    BY <1>1, CodecInvariant, PTL

\* Messages and readers keep their types, whatever bytes arrive.
THEOREM CodecTypes == Spec => [](CasesAgree /\ TablesAgree => CodecTypeOK)
<1>1. (Agree => CodecInv) => (CasesAgree /\ TablesAgree => CodecTypeOK)
    BY InvariantTypes DEF Agree
<1> QED
    BY <1>1, CodecInvariant, PTL

\* What one codec writes, both read as the message that was written, and what pulsar did
\* not know it passes on.
THEOREM MessagesSurvive == Spec => [](CasesAgree /\ TablesAgree => RoundTrip)
<1>1. (Agree => CodecInv) => (CasesAgree /\ TablesAgree => RoundTrip)
    BY InvariantRoundTrip DEF Agree
<1> QED
    BY <1>1, CodecInvariant, PTL

\* The arguments that a node passes to a command are, in what the handlers read, in the
\* fields the node passed them for.
THEOREM CommandsAreUnderstood == Spec => [](CasesAgree /\ TablesAgree => CommandIsUnderstood)
<1>1. (Agree => CodecInv) => (CasesAgree /\ TablesAgree => CommandIsUnderstood)
    BY InvariantCommand DEF Agree
<1> QED
    BY <1>1, CodecInvariant, PTL

-----------------------------------------------------------------------------
(***************************************************************************)
(* Any bytes are read alike.                                               *)
(***************************************************************************)
\* A part that both read leaves them in agreement.
LEMMA ReadPartAgrees ==
    ASSUME CodecInv, TypeAgrees, ReadersAgree, ReadPart
    PROVE  ReadersAgree'
<1> DEFINE part == Head(buffer)
           g == reader["gogo"]
           p == reader["pulsar"]
           g2 == Unmarshal("gogo", g, part)
           p2 == Unmarshal("pulsar", p, part)
           names == NamesOf(Fields)
<1>1. /\ reader'["gogo"] = g2 /\ reader'["pulsar"] = p2 /\ buffer # <<>>
      /\ type' = type /\ message' = message
    BY DEF ReadPart, Codecs
<1>2. /\ "gogo" \in Codecs /\ "pulsar" \in Codecs /\ DOMAIN message = names
      /\ ReaderTyped("gogo", g) /\ ReaderTyped("pulsar", p) /\ CasesAgree
    BY DEF CodecInv, TypedInv, MessageTyped, Codecs, TypeAgrees
<1>3. part \in PartSet
    BY <1>1 DEF CodecInv, TypedInv
<1>4. /\ ~g.failed => /\ ~p.failed
                      /\ \A name \in names : p.message[name] = LastOf(name, g.message[name])
      /\ g.failed /\ ~p.failed => CoinFields[type] # {}
    BY <1>2 DEF ReadersAgree
<1>5. /\ part.content \in Seq(Int) \ {<<>>}
      /\ part.flaw = "amount" => CoinFields[type] # {}
    BY <1>3 DEF PartSet, FlawSet
<1> HIDE DEF part, g, p, g2, p2, names
<1>6. ReaderOK(g) /\ ReaderOK(p) /\ DOMAIN g.message = names /\ DOMAIN p.message = names
    BY <1>2 DEF ReaderTyped, names
<1>7. /\ ReaderOK(g2)
      /\ g.failed => g2.failed
      /\ ~g.failed => (g2.failed <=> Illegal("gogo", part))
      /\ CasesOf("gogo", part) = {} => g2.message = g.message
      /\ \A k : /\ ~g.failed /\ ~Illegal("gogo", part) /\ CasesOf("gogo", part) = {k}
                => g2.message = [g.message EXCEPT ![Table("gogo")[k][3]] =
                                     Updated("gogo", Table("gogo")[k][2], @, part.content)]
    BY <1>2, <1>6, UnmarshalFacts DEF g2
<1>8. /\ ReaderOK(p2)
      /\ p.failed => p2.failed
      /\ ~p.failed => (p2.failed <=> Illegal("pulsar", part))
      /\ CasesOf("pulsar", part) = {} => p2.message = p.message
      /\ \A l : /\ ~p.failed /\ ~Illegal("pulsar", part) /\ CasesOf("pulsar", part) = {l}
                => p2.message = [p.message EXCEPT ![Table("pulsar")[l][3]] =
                                     Updated("pulsar", Table("pulsar")[l][2], @, part.content)]
    BY <1>2, <1>6, UnmarshalFacts DEF p2
<1>9. /\ Illegal("pulsar", part) => Illegal("gogo", part)
      /\ Illegal("gogo", part) /\ ~Illegal("pulsar", part) => part.flaw = "amount"
    BY <1>2, SameIllegal
<1>10. ASSUME ~g2.failed, NEW name \in names
       PROVE  ~p2.failed /\ p2.message[name] = LastOf(name, g2.message[name])
    <2>1. ~g.failed /\ ~p.failed /\ ~Illegal("gogo", part) /\ ~Illegal("pulsar", part) /\ ~p2.failed
        BY <1>4, <1>7, <1>8, <1>9, <1>10
    <2>2. p.message[name] = LastOf(name, g.message[name])
        BY <1>4, <1>10, <2>1
    <2>3. CASE CasesOf("gogo", part) = {} /\ CasesOf("pulsar", part) = {}
        BY <1>7, <1>8, <2>1, <2>2, <2>3
    <2>4. ASSUME NEW k \in DOMAIN Table("gogo"), NEW l \in DOMAIN Table("pulsar"),
                 CasesOf("gogo", part) = {k}, CasesOf("pulsar", part) = {l},
                 Alike(Table("gogo")[k], Table("pulsar")[l])
          PROVE  p2.message[name] = LastOf(name, g2.message[name])
        <3> DEFINE field == Table("gogo")[k]
                   other == Table("pulsar")[l]
                   old == g.message[field[3]]
                   before == p.message[field[3]]
        <3>1. field[3] = other[3]
            BY <2>4 DEF Alike
        <3>2. /\ g2.message = [g.message EXCEPT ![field[3]] =
                                   Updated("gogo", field[2], old, part.content)]
              /\ p2.message = [p.message EXCEPT ![field[3]] =
                                   Updated("pulsar", other[2], before, part.content)]
            BY <1>7, <1>8, <2>1, <2>4, <3>1
        <3>3. CASE name # field[3]
            <4> HIDE DEF field
            <4>1. g2.message[name] = g.message[name] /\ p2.message[name] = p.message[name]
                BY <1>6, <3>2, <3>3
            <4> QED
                BY <2>2, <4>1
        <3>4. CASE name = field[3]
            <4>1. /\ g2.message[name] = Updated("gogo", field[2], old, part.content)
                  /\ p2.message[name] = Updated("pulsar", other[2], before, part.content)
                <5> HIDE DEF field, other, old, before
                <5> QED
                    BY <1>6, <3>2, <3>4
            <4>2. KindOf(UnmarshalTable["gogo"][type], name) = field[2]
                <5>1. OneCaseEach(Table("gogo"))
                    BY <1>2 DEF CasesAgree, TypesWithSameCases, CasesAgreeOn, Table
                <5>2. KindOf(Table("gogo"), field[3]) = field[2]
                    BY <2>4, <5>1, KindIsUnique
                <5> QED
                    BY <3>4, <5>2 DEF Table
            <4>3. CASE field[2] \in Single
                <5>1. old \in Seq(Int)
                    <6>1. k \in 1 .. Count /\ CaseOf("gogo", k) = field
                        BY <1>2, <2>4, TableTypes DEF Table, CaseOf
                    <6>2. old \in ValueType(field[2])
                        BY <1>2, <6>1 DEF ReaderTyped
                    <6> QED
                        BY <4>3, <6>2 DEF ValueType, Single, Scalar
                <5>4. other[2] \in Single
                    BY <2>4, <4>3 DEF Alike, Single
                <5>5. part.content[1] \in Int
                    BY <1>5
                <5> DEFINE x == part.content[1]
                <5>2. g2.message[name] = Append(old, x) /\ p2.message[name] = <<x>>
                    BY <4>1, <4>3, <5>4, SingleUpdated
                <5> HIDE DEF x, old
                <5>3. LET merged == Append(old, x)
                      IN  merged # <<>> /\ merged[Len(merged)] = x
                    BY <5>1, <5>5 DEF x
                <5> QED
                    BY <4>2, <4>3, <5>2, <5>3 DEF LastOf, Last
            <4>4. CASE field[2] \notin Single
                <5>1. \A v : LastOf(name, v) = v
                    BY <4>2, <4>4 DEF LastOf
                <5>2. before = old
                    BY <2>2, <3>4, <5>1
                <5>3. Updated("gogo", field[2], old, part.content)
                          = Updated("pulsar", other[2], old, part.content)
                    BY <2>4, <4>4, AlikeUpdated
                <5> QED
                    BY <4>1, <5>1, <5>2, <5>3
            <4> QED
                BY <4>3, <4>4
        <3> QED
            BY <3>3, <3>4
    <2> QED
        BY <1>2, <2>1, <2>3, <2>4, SameCases
<1>11. ASSUME ~g2.failed
       PROVE  ~p2.failed
    BY <1>4, <1>7, <1>8, <1>9, <1>11
<1>12. ASSUME g2.failed, ~p2.failed
       PROVE  CoinFields[type] # {}
    BY <1>4, <1>5, <1>7, <1>8, <1>9, <1>12
<1>13. \A name, v : LastOf(name, v)' = LastOf(name, v)
    BY <1>1 DEF LastOf
<1>14. ReadersAgree' <=>
          /\ ~g2.failed => /\ ~p2.failed
                           /\ \A name \in names : p2.message[name] = LastOf(name, g2.message[name])
          /\ g2.failed /\ ~p2.failed => CoinFields[type] # {}
    BY <1>1, <1>2 DEF ReadersAgree, LastOf
<1> QED
    BY <1>10, <1>11, <1>12, <1>14

\* Before anything is read both readers have no value of any field.
LEMMA InitAgrees ==
    ASSUME Init, Agree
    PROVE  ReadersAgree
<1>1. CodecInv /\ TypeAgrees
    BY InitEstablishes DEF TypeAgrees, Agree, CodecInv, TypedInv
<1>2. ASSUME NEW codec \in Codecs
      PROVE  reader[codec].message = ZeroMessage(Table(codec)) /\ reader[codec].failed = FALSE
    BY DEF Init, Table
<1>3. ZeroMessage(Table("gogo")) = ZeroMessage(Table("pulsar"))
    BY SameZeroMessage DEF Agree
<1>4. /\ "gogo" \in Codecs /\ "pulsar" \in Codecs /\ DOMAIN message = NamesOf(Fields)
      /\ NamesOf(Table("gogo")) = NamesOf(Fields)
    BY <1>1, EveryCase DEF Codecs, Table, CodecInv, TypedInv, MessageTyped
<1>5. ASSUME NEW name \in NamesOf(Fields)
      PROVE  LastOf(name, ZeroMessage(Table("gogo"))[name]) = ZeroMessage(Table("gogo"))[name]
    <2>1. ZeroMessage(Table("gogo"))[name] = Zero(KindOf(UnmarshalTable["gogo"][type], name))
        BY <1>4 DEF ZeroMessage, Table
    <2> QED
        BY <2>1 DEF LastOf, Zero, Single, Scalar
<1> QED
    BY <1>2, <1>3, <1>4, <1>5 DEF ReadersAgree

\* Of any bytes, of any length and from any program, of a message whose tables agree,
\* pulsar reads all that gogo reads: the same value of every field, of a submessage in
\* several parts the last one.  gogo alone refuses them only when the type has a coin.
THEOREM CodecsReadAlike == Spec => [](CasesAgree /\ TablesAgree => ReadersAgree)
<1>1. Init => (Agree => ReadersAgree)
    BY InitAgrees
<1>2. (Agree => CodecInv) /\ (Agree => ReadersAgree) /\ [Next]_vars => (Agree => ReadersAgree)'
    <2> SUFFICES ASSUME Agree => CodecInv, Agree => ReadersAgree, [Next]_vars, Agree'
                 PROVE  ReadersAgree'
        OBVIOUS
    <2>1. type' = type
        BY DEF Next, Set, Clear, Mutable, ListAppend, ListTruncate, CarryUnknown, PassArgument,
               Marshal, Arrive, StartReading, ReadPart, Done, vars
    <2>2. Agree
        BY <2>1 DEF Agree, CasesAgree, TypesWithSameCases, CasesAgreeOn, TablesAgree,
                    TypesWithTables, ArgumentsAgreeOn, FunctionsAgreeOn
    <2>3. CodecInv /\ ReadersAgree /\ TypeAgrees
        BY <2>2 DEF TypeAgrees, Agree, CodecInv, TypedInv
    <2>4. CASE ReadPart
        BY <2>3, <2>4, ReadPartAgrees
    <2>5. CASE ~ReadPart
        <3>1. CodecInv'
            BY <2>2, <2>3, NextKeeps
        <3>2. reader' = reader
            BY <2>5 DEF Next, Set, Clear, Mutable, ListAppend, ListTruncate, CarryUnknown,
                        PassArgument, Marshal, Arrive, StartReading, Done, vars
        <3>3. DOMAIN message' = DOMAIN message
            BY <2>1, <2>3, <3>1 DEF CodecInv, TypedInv, MessageTyped, Fields
        <3> QED
            BY <2>1, <2>3, <3>2, <3>3 DEF ReadersAgree, LastOf
    <2> QED
        BY <2>4, <2>5
<1>3. (Agree => ReadersAgree) <=> (CasesAgree /\ TablesAgree => ReadersAgree)
    BY DEF Agree
<1> QED
    BY <1>1, <1>2, <1>3, CodecInvariant, PTL DEF Spec

===============================================================================
