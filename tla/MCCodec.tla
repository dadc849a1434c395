------------------------------ MODULE MCCodec --------------------------------
(* All messages of the repository, with the tables of their two codecs. *)
EXTENDS Codec, TLC

GT == INSTANCE GogoTypes
GX == INSTANCE GogoTx
GQ == INSTANCE GogoQuery
PT == INSTANCE PulsarTypes
PX == INSTANCE PulsarTx
PQ == INSTANCE PulsarQuery
CL == INSTANCE CommandLine

MCSize == [gogo |-> GT!Size @@ GX!Size @@ GQ!Size, pulsar |-> PT!Size @@ PX!Size @@ PQ!Size]
MCMarshal ==
    [gogo |-> GT!Marshal @@ GX!Marshal @@ GQ!Marshal,
     pulsar |-> PT!Marshal @@ PX!Marshal @@ PQ!Marshal]
MCUnmarshal ==
    [gogo |-> GT!Unmarshal @@ GX!Unmarshal @@ GQ!Unmarshal,
     pulsar |-> PT!Unmarshal @@ PX!Unmarshal @@ PQ!Unmarshal]
MCFields == PT!Fields @@ PX!Fields @@ PQ!Fields
MCMessage == DOMAIN MCFields
MCCoins ==
    LET coins == GT!Coins @@ GX!Coins @@ GQ!Coins
    IN  [m \in MCMessage |-> IF m \in DOMAIN coins THEN coins[m] ELSE {}]
MCArguments == CL!Arguments
MCPositional == CL!Positional

\* Lengths and numbers on both sides of a second byte, negative ones, empty
\* submessages and list elements.
MCSample == [
    number |-> {1, 128, -1},
    bool |-> {1},
    string |-> {1, 128},
    strings |-> {<<1>>, <<0, 128>>},
    message |-> {<<0>>, <<128>>},
    messages |-> {<<1>>, <<0, 128>>},
    packed |-> {<<0>>, <<1, -1>>}]
=============================================================================
