-------------------------------- MODULE Codec --------------------------------
(***************************************************************************)
(* The encoding of the messages of this module (transactions, queries and  *)
(* stored state) by the generated code.  The same messages have two        *)
(* codecs: gogo (types.pb.go, tx.pb.go, query.pb.go), with which handlers  *)
(* and store work, and pulsar (api/v1), with which the command line builds *)
(* messages by reflection (x/autocli.go) and the SDK finds their signers.  *)
(* What they write for each other is right only as long as they, and Size, *)
(* Marshal, Unmarshal and the reflection of each of them, agree on every   *)
(* field.  What each of those functions knows of a message is in a table   *)
(* of its own, in the modules GogoTypes, PulsarTypes and so on; this       *)
(* module is how they run.                                                 *)
(*                                                                         *)
(* Content is abstracted to its length: a string or a submessage is the    *)
(* number of its bytes.  A field is a number, a bool (0 or 1), a string,   *)
(* or a sequence: of strings, of messages, of packed numbers, or of the    *)
(* parts of one message, none when the pointer is nil.  "embedded" is a    *)
(* message in the struct itself, which cannot be nil: gogo only.           *)
(*                                                                         *)
(* The bytes inside a submessage are those of a message of its own type,   *)
(* which is read by its own Unmarshal: what is left of it here is whether  *)
(* that Unmarshal refuses the bytes (flaw).  The codecs differ there: the  *)
(* amount of a coin is a math.Int in gogo, which refuses text that is no   *)
(* number, and a string in pulsar.  They differ too on a submessage that   *)
(* occurs more than once: gogo reads it into the struct it already has, so *)
(* that the parts are merged, and pulsar resets it before.                 *)
(***************************************************************************)
EXTENDS Integers, Sequences, FiniteSets, SequencesExt

CONSTANTS
    Message,          \* names of message types
    SizeTable,        \* of a codec and a type: the fields in the order of Size,
    MarshalTable,     \* in the order of Marshal, the last one first,
    UnmarshalTable,   \* and the cases of Unmarshal
    FieldTable,       \* of a type: the fields its reflection switches on
    ArgumentTable,    \* of a message a node sends: the fields it passes, in order
    PositionalTable,  \* and the fields its command puts them in
    CoinFields,       \* of a type: the fields that are coins or have one inside
    Sample,           \* of a kind of field: values a field may be set to
    \* Bounds: fields set at a time; parts of bytes that no codec has written.
    MaxSet, MaxForeign

Codecs == {"gogo", "pulsar"}

\* Kinds of fields that are submessages, and that are one submessage.
Nested == {"message", "messages", "embedded"}
Single == {"message", "embedded"}

\* What a field of a kind may be set to: a submessage in one part.
Values(kind) ==
    CASE kind = "number" -> Int
      [] kind = "bool" -> {0, 1}
      [] kind = "string" -> Nat
      [] kind = "packed" -> Seq(Int)
      [] kind \in Single -> {v \in Seq(Nat) : Len(v) <= 1}
      [] OTHER -> Seq(Nat)

Kind == {"number", "bool", "string", "strings", "message", "messages", "packed", "embedded"}

ASSUME SampleAssumption ==
    /\ DOMAIN Sample = Kind \ {"embedded"}
    /\ \A kind \in DOMAIN Sample : Sample[kind] \subseteq Values(kind)

ASSUME TableAssumption ==
    /\ \A m \in Message :
           /\ FieldTable[m] \in Seq(STRING \X Kind \X STRING)
           /\ \A codec \in Codecs :
                  /\ SizeTable[codec][m] \in Seq(Nat \X Kind \X STRING)
                  /\ MarshalTable[codec][m] \in Seq(Nat \X Kind \X STRING)
                  /\ UnmarshalTable[codec][m] \in Seq((SUBSET (0 .. 7)) \X Kind \X STRING \X Nat)
    /\ \A m \in DOMAIN ArgumentTable : ArgumentTable[m] \in Seq(STRING)

VARIABLES
    type,       \* the type of the message
    writer,     \* the codec that writes it, "other" for bytes from elsewhere
    phase,      \* "build" or "read"
    message,    \* the fields to be written
    args,       \* what a node has passed to a command
    unknown,    \* unknownFields of a pulsar message: parts it was read with
    i,          \* bytes of the buffer that Marshal has left unwritten
    buffer,     \* the parts that are yet to be read
    reader      \* of each codec: what it has read, and whether it gave up

vars == <<type, writer, phase, message, args, unknown, i, buffer, reader>>

-----------------------------------------------------------------------------
Scalar == {"number", "bool", "string"}

Zero(kind) == IF kind \in Scalar THEN 0 ELSE <<>>

NamesOf(table) == {table[k][3] : k \in DOMAIN table}

KindOf(table, name) == table[CHOOSE k \in DOMAIN table : table[k][3] = name][2]

ZeroMessage(table) == [name \in NamesOf(table) |-> Zero(KindOf(table, name))]

\* The bytes of a varint.  A negative number is sign extended to 64 bits.
Sov(x) ==
    CASE x < 0 -> 10
      [] x \in 0 .. 127 -> 1
      [] x \in 128 .. 16383 -> 2
      [] OTHER -> 3

Delimited(length) == Sov(length) + length

SumOf(s) ==
    LET sum[k \in 0 .. Len(s)] == IF k = 0 THEN 0 ELSE sum[k - 1] + s[k]
    IN  sum[Len(s)]

SovSum(s) == SumOf([k \in DOMAIN s |-> Sov(s[k])])

\* What Size adds for a field whose tag takes this many bytes.
SizeOf(tagSize, kind, v) ==
    IF v = Zero(kind)
    THEN IF kind = "embedded" THEN tagSize + Delimited(0) ELSE 0
    ELSE CASE kind = "number" -> tagSize + Sov(v)
           [] kind = "bool" -> tagSize + 1
           [] kind = "string" -> tagSize + Delimited(v)
           [] kind = "packed" -> tagSize + Delimited(SovSum(v))
           [] OTHER -> SumOf([k \in DOMAIN v |-> tagSize + Delimited(v[k])])

\* A part of the bytes: one tag, below 128, with its content after it.  What the codecs
\* write has no flaw: submessages are built of values that both of them accept.
Part(tag, content, length) ==
    [tag |-> tag, content |-> content, length |-> 1 + length, whole |-> TRUE, flaw |-> "none"]

Varint(tag, x) == Part(tag, <<x>>, Sov(x))

Bytes(tag, length) == Part(tag, <<length>>, Delimited(length))

\* What Marshal writes for a field, first part first.
PartsOf(tag, kind, v) ==
    IF v = Zero(kind)
    THEN IF kind = "embedded" THEN <<Bytes(tag, 0)>> ELSE <<>>
    ELSE CASE kind \in {"number", "bool"} -> <<Varint(tag, v)>>
           [] kind = "string" -> <<Bytes(tag, v)>>
           [] kind = "packed" -> <<Part(tag, v, Delimited(SovSum(v)))>>
           [] OTHER -> [k \in DOMAIN v |-> Bytes(tag, v[k])]

LengthOf(parts) == SumOf([k \in DOMAIN parts |-> parts[k].length])

-----------------------------------------------------------------------------
(***************************************************************************)
(* Building a message: through reflection, or, for gogo, by assignment.    *)
(***************************************************************************)
Fields == FieldTable[type]

\* Has of the reflection: a field that is not set is not there.
Has(name) == message[name] # Zero(KindOf(Fields, name))

MayGrow(name) ==
    /\ phase = "build" /\ writer \in Codecs /\ args = <<>>
    /\ Has(name) \/ Cardinality({other \in NamesOf(Fields) : Has(other)}) < MaxSet

Set(name) ==
    /\ MayGrow(name)
    /\ \E v \in Sample[KindOf(Fields, name)] : message' = [message EXCEPT ![name] = v]
    /\ UNCHANGED <<type, writer, phase, args, unknown, i, buffer, reader>>

Clear(name) ==
    /\ phase = "build" /\ args = <<>> /\ Has(name)
    /\ message' = [message EXCEPT ![name] = Zero(KindOf(Fields, name))]
    /\ UNCHANGED <<type, writer, phase, args, unknown, i, buffer, reader>>

\* Mutable allocates a submessage that is nil.
Mutable(name) ==
    /\ MayGrow(name) /\ writer = "pulsar"
    /\ KindOf(Fields, name) = "message" /\ ~Has(name)
    /\ message' = [message EXCEPT ![name] = <<0>>]
    /\ UNCHANGED <<type, writer, phase, args, unknown, i, buffer, reader>>

\* The list that Mutable returns is the field itself: what is appended to it or
\* truncated is in the message.  Lists are kept below 3 elements.
ListAppend(name) ==
    /\ MayGrow(name) /\ writer = "pulsar"
    /\ KindOf(Fields, name) \in {"strings", "messages", "packed"} /\ Len(message[name]) < 2
    /\ message' = [message EXCEPT ![name] = Append(@, 0)]
    /\ UNCHANGED <<type, writer, phase, args, unknown, i, buffer, reader>>

ListTruncate(name) ==
    /\ phase = "build" /\ writer = "pulsar" /\ args = <<>>
    /\ KindOf(Fields, name) \in {"strings", "messages", "packed"} /\ Has(name)
    /\ message' = [message EXCEPT ![name] = Front(@)]
    /\ UNCHANGED <<type, writer, phase, args, unknown, i, buffer, reader>>

\* A message that was read may have brought a field that its type does not know.
NewerField == Bytes(8 * 15 + 2, 1)

CarryUnknown ==
    /\ phase = "build" /\ writer = "pulsar" /\ args = <<>>
    /\ unknown' = <<NewerField>>
    /\ UNCHANGED <<type, writer, phase, message, args, i, buffer, reader>>

\* A node sends a transaction by running a command: the k-th argument is set in the
\* field that the k-th descriptor of the command names, a list taking all that are
\* left.  The field of the signer is set by the SDK.
FieldNamed(fields, name) == fields[CHOOSE k \in DOMAIN fields : fields[k][1] = name][3]

PassArgument ==
    LET k == Len(args) + 1
    IN  /\ phase = "build" /\ writer = "pulsar"
        /\ type \in DOMAIN ArgumentTable /\ k \in DOMAIN ArgumentTable[type]
        /\ args = <<>> => message = ZeroMessage(Fields)
        /\ \E v \in Sample[KindOf(Fields, ArgumentTable[type][k])] :
               /\ args' = Append(args, v)
               /\ message' = [message EXCEPT ![FieldNamed(Fields, PositionalTable[type][k])] = v]
        /\ UNCHANGED <<type, writer, phase, unknown, i, buffer, reader>>

-----------------------------------------------------------------------------
(***************************************************************************)
(* Writing.  The buffer has as many bytes as Size says and is written from *)
(* its end: unknown fields, then one field after the other.  i is the      *)
(* position that has been reached: below 0 is a panic; the bytes before it *)
(* are 0, and gogo returns as many bytes less of the end.                  *)
(***************************************************************************)
Size(codec) ==
    LET table == SizeTable[codec][type]
    IN  LengthOf(unknown)
            + SumOf([k \in DOMAIN table |-> SizeOf(table[k][1], table[k][2], message[table[k][3]])])

Written(codec) ==
    LET table == MarshalTable[codec][type]
        written[k \in 0 .. Len(table)] ==
            IF k = 0 THEN unknown
            ELSE PartsOf(table[k][1], table[k][2], message[table[k][3]]) \o written[k - 1]
    IN  written[Len(table)]

Padding(position) == IF position > 0 THEN <<Varint(0, 0)>> ELSE <<>>

Marshal ==
    LET written == Written(writer)
    IN  /\ phase = "build" /\ writer \in Codecs
        /\ args # <<>> => Len(args) = Len(ArgumentTable[type])
        /\ i' = Size(writer) - LengthOf(written)
        /\ buffer' = Padding(i') \o written
        /\ phase' = "read"
        /\ UNCHANGED <<type, writer, message, args, unknown, reader>>

-----------------------------------------------------------------------------
(***************************************************************************)
(* Reading.  Both codecs read the same bytes.                              *)
(***************************************************************************)
NumberOf(part) == part.tag \div 8
WireType(part) == part.tag % 8

CasesOf(codec, part) ==
    LET table == UnmarshalTable[codec][type]
    IN  {k \in DOMAIN table : table[k][4] = NumberOf(part)}

\* What a case of Unmarshal makes of the field.
Updated(codec, kind, old, content) ==
    CASE kind \in {"number", "string"} -> content[1]
      [] kind = "bool" -> IF content[1] = 0 THEN 0 ELSE 1
      [] kind = "packed" -> old \o content
      [] kind \in Single /\ codec = "pulsar" -> <<content[1]>>
      [] OTHER -> Append(old, content[1])

\* Whether the Unmarshal of a submessage fails: its bytes are cut off in one of their
\* own parts, or a coin has an amount that is no number.
Refuses(codec, flaw) == flaw = "cut" \/ (flaw = "amount" /\ codec = "gogo")

\* The end of a group, a wire type there is none of, field 0, the wrong wire type for a
\* field, a submessage that is refused, and bytes that end too early are errors.
Illegal(codec, part) ==
    \/ WireType(part) \in {4, 6, 7}
    \/ NumberOf(part) = 0
    \/ \E k \in CasesOf(codec, part) :
           LET field == UnmarshalTable[codec][type][k]
           IN  WireType(part) \notin field[1] \/ (field[2] \in Nested /\ Refuses(codec, part.flaw))
    \/ ~part.whole

\* Unknown fields are skipped; pulsar keeps their bytes.
Skip(codec, read, part) ==
    IF codec = "pulsar" THEN [read EXCEPT !.unknown = Append(@, part)] ELSE read

Unmarshal(codec, read, part) ==
    LET field == UnmarshalTable[codec][type][CHOOSE k \in CasesOf(codec, part) : TRUE]
    IN  CASE read.failed -> read
          [] ~read.failed /\ Illegal(codec, part) -> [read EXCEPT !.failed = TRUE]
          [] ~read.failed /\ ~Illegal(codec, part) /\ CasesOf(codec, part) = {} ->
                 Skip(codec, read, part)
          [] OTHER -> [read EXCEPT !.message[field[3]] = Updated(codec, field[2], @, part.content)]

ReadPart ==
    /\ phase = "read" /\ buffer # <<>>
    /\ buffer' = Tail(buffer)
    /\ reader' = [codec \in Codecs |-> Unmarshal(codec, reader[codec], Head(buffer))]
    /\ UNCHANGED <<type, writer, phase, message, args, unknown, i>>

\* Bytes of another program: fields in any order, more than once, unknown ones, of
\* another wire type, cut off, or with a submessage that is refused.
ForeignPart(number, wire, k, whole) ==
    [Part(8 * number + wire, IF wire = 2 THEN <<k, 0>> ELSE <<k>>, k) EXCEPT !.whole = whole]

Flaws(field, length) ==
    {flaw \in {"cut", "amount"} :
        /\ field[2] \in Nested /\ length > 0
        /\ flaw = "amount" => field[3] \in CoinFields[type]}

ForeignParts(k, whole) ==
    LET table == UnmarshalTable["gogo"][type]
    IN  {ForeignPart(number, wire, k, whole) :
             number \in {table[n][4] : n \in DOMAIN table}, wire \in {0, 2}}
        \cup {ForeignPart(number, wire, k, whole) : number \in {0, 2, 15}, wire \in {0, 2, 4, 5}}
        \cup UNION {{[ForeignPart(table[n][4], 2, k, whole) EXCEPT !.flaw = flaw] :
                          flaw \in Flaws(table[n], k)} : n \in DOMAIN table}

\* Every other part has content, a number or as many bytes, enough for a coin; only the
\* last one may be cut off.
Arrive ==
    /\ phase = "build" /\ writer = "other"
    /\ Len(buffer) < MaxForeign
    /\ buffer # <<>> => Last(buffer).whole
    /\ \E whole \in BOOLEAN : \E part \in ForeignParts(16 * ((Len(buffer) + 1) % 2), whole) :
           buffer' = Append(buffer, part)
    /\ UNCHANGED <<type, writer, phase, message, args, unknown, i, reader>>

StartReading ==
    /\ phase = "build" /\ writer = "other"
    /\ phase' = "read"
    /\ UNCHANGED <<type, writer, message, args, unknown, i, buffer, reader>>

Done ==
    /\ phase = "read" /\ buffer = <<>>
    /\ UNCHANGED vars

-----------------------------------------------------------------------------
Init ==
    /\ type \in Message
    /\ writer \in Codecs \cup {"other"}
    /\ phase = "build"
    /\ message = ZeroMessage(Fields)
    /\ args = <<>>
    /\ unknown = <<>>
    /\ i = 0
    /\ buffer = <<>>
    /\ reader = [codec \in Codecs |->
           [message |-> ZeroMessage(UnmarshalTable[codec][type]), unknown |-> <<>>, failed |-> FALSE]]

Next ==
    \/ \E name \in NamesOf(Fields) :
           Set(name) \/ Clear(name) \/ Mutable(name) \/ ListAppend(name) \/ ListTruncate(name)
    \/ CarryUnknown \/ PassArgument \/ Marshal
    \/ Arrive \/ StartReading
    \/ ReadPart \/ Done

Spec == Init /\ [][Next]_vars

-----------------------------------------------------------------------------
(***************************************************************************)
(* Properties.                                                             *)
(***************************************************************************)
FieldOK(kind, v) ==
    IF kind \in Scalar THEN v \in Int
    ELSE /\ DOMAIN v = 1 .. Len(v)
         /\ \A k \in DOMAIN v : v[k] \in Int

MessageOK(table, m) ==
    /\ DOMAIN m = NamesOf(table)
    /\ \A name \in DOMAIN m : FieldOK(KindOf(table, name), m[name])

\* What the variables range over: messages of their type, and readers that know
\* every field of it and no other.
CodecTypeOK ==
    /\ type \in Message /\ writer \in Codecs \cup {"other"} /\ phase \in {"build", "read"}
    /\ i \in Int
    /\ MessageOK(Fields, message)
    /\ args # <<>> => Len(args) \in 1 .. Len(ArgumentTable[type])
    /\ \A codec \in Codecs :
           /\ MessageOK(UnmarshalTable[codec][type], reader[codec].message)
           /\ DOMAIN reader[codec].message = DOMAIN message
           /\ reader[codec].failed \in BOOLEAN

\* A message in a struct is always written, so that an empty one is read where
\* there was none: they count as the same.
Same(name, v, w) ==
    IF KindOf(UnmarshalTable["gogo"][type], name) = "embedded" THEN SumOf(v) = SumOf(w) ELSE v = w

\* Size and Marshal of a codec count the same bytes for the same message: Marshal,
\* which writes from the end, neither runs out of its buffer, which would be a panic,
\* nor leaves zeros at its beginning, which nobody can read.
BufferFilled == phase = "read" => i = 0

\* What one codec writes, both read as the message that was written: no field is
\* lost, moved to another one or changed, and what pulsar did not know it passes on.
\* (Of messages with submessages that both accept, see Part.)
RoundTrip ==
    phase = "read" /\ buffer = <<>> /\ writer \in Codecs =>
        /\ \A codec \in Codecs :
               /\ ~reader[codec].failed
               /\ \A name \in DOMAIN message : Same(name, reader[codec].message[name], message[name])
        /\ reader["pulsar"].unknown = unknown

OneCaseEach(table) ==
    \A k, l \in DOMAIN table : table[k][3] = table[l][3] \/ table[k][4] = table[l][4] => k = l

Alike(field, other) ==
    /\ field[1] = other[1] /\ field[3] = other[3] /\ field[4] = other[4]
    /\ field[2] = other[2] \/ {field[2], other[2]} = {"embedded", "message"}

CasesAgreeOn(t) ==
    LET gogo == UnmarshalTable["gogo"][t]
        pulsar == UnmarshalTable["pulsar"][t]
    IN  /\ OneCaseEach(gogo) /\ OneCaseEach(pulsar)
        /\ \A k \in DOMAIN gogo : \E l \in DOMAIN pulsar : Alike(gogo[k], pulsar[l])
        /\ \A l \in DOMAIN pulsar : \E k \in DOMAIN gogo : Alike(gogo[k], pulsar[l])

TypesWithSameCases == {t \in Message : CasesAgreeOn(t)}

\* The two generated Unmarshals have the same cases, each field number and each field
\* in one: the .proto files may have changed between the two generators.
CasesAgree == type \in TypesWithSameCases

\* The wire type that Marshal writes a kind of field with.
WireOf(kind) == IF kind \in {"number", "bool"} THEN 0 ELSE 2

\* What the functions of one codec know of a message.
FunctionsAgreeOn(t, codec) ==
    LET size == SizeTable[codec][t]
        marshal == MarshalTable[codec][t]
        cases == UnmarshalTable[codec][t]
        fields == FieldTable[t]
        n == Len(fields)
    IN  /\ Len(size) = n /\ Len(marshal) = n /\ Len(cases) = n
        /\ \A k \in 1 .. n :
               LET wires == cases[k][1]  kind == cases[k][2]  name == cases[k][3]
                   number == cases[k][4]
               IN  /\ size[k] = <<1, kind, name>>
                   /\ marshal[n + 1 - k] = <<8 * number + WireOf(kind), kind, name>>
                   /\ WireOf(kind) \in wires /\ number \in 1 .. 14
                   /\ fields[k][3] = name
                   /\ fields[k][2] = IF kind = "embedded" THEN "message" ELSE kind
                   /\ kind = "embedded" => codec = "gogo"

\* The fields in which a command puts its arguments are those they were passed for.
ArgumentsAgreeOn(t) ==
    t \in DOMAIN ArgumentTable =>
        LET passed == ArgumentTable[t]
            fields == FieldTable[t]
        IN  /\ \A k \in DOMAIN passed :
                   /\ passed[k] \in NamesOf(fields)
                   /\ FieldNamed(fields, PositionalTable[t][k]) = passed[k]
            /\ \A k, l \in DOMAIN passed : passed[k] = passed[l] => k = l

TypesWithTables ==
    {t \in Message : ArgumentsAgreeOn(t) /\ \A codec \in Codecs : FunctionsAgreeOn(t, codec)}

\* Size, Marshal, Unmarshal and the reflection name the fields of a message in the same
\* order, Marshal from the last one, each with the same kind, a message in the struct
\* itself in gogo only; Marshal writes the tag that the case of Unmarshal is for, of one
\* byte; and a command puts each argument a node passes into the field it was passed for,
\* no two into the same one.
TablesAgree == type \in TypesWithTables

\* Of a submessage in several parts, the last one.
LastOf(name, v) ==
    IF KindOf(UnmarshalTable["gogo"][type], name) \in Single /\ v # <<>> THEN <<Last(v)>> ELSE v

\* What gogo, the codec of the handlers, reads of any bytes, pulsar, the codec of the
\* signers and the command line, reads too: the same value of every field, but only the
\* last part of a submessage that gogo has merged of several.  And gogo alone refuses
\* bytes only of a type that has a coin somewhere inside.
ReadersAgree ==
    /\ ~reader["gogo"].failed =>
           /\ ~reader["pulsar"].failed
           /\ \A name \in DOMAIN message :
                  reader["pulsar"].message[name] = LastOf(name, reader["gogo"].message[name])
    /\ reader["gogo"].failed /\ ~reader["pulsar"].failed => CoinFields[type] # {}

\* The arguments that a node passes are, in what the handler reads, the fields the
\* node passed them for: the goroutines and the command line agree on their order.
CommandIsUnderstood ==
    phase = "read" /\ buffer = <<>> =>
        \A k \in DOMAIN args :
            LET name == ArgumentTable[type][k]
            IN  Same(name, reader["gogo"].message[name], args[k])

=============================================================================
