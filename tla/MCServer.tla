------------------------------ MODULE MCServer ------------------------------
(***************************************************************************)
(* Instances of the components in which clients meet one another: blocking *)
(* list operations, publish and subscribe, and the parser of what a client *)
(* sends.  They share no state, so a behaviour moves one of them: the run  *)
(* is over the sum of their state spaces and not over the product.         *)
(***************************************************************************)
EXTENDS Blocking, PubSub, TLC

CONSTANTS k1, k2, ch1, ch2, p1, p2, MaxPieces, InlineMax, QuerybufMax

VARIABLES
    active,             \* the component that moves
    conn, network, received, executed   \* of Protocol

(* The parser of one connection.  NUL is a byte no line is found after.    *)
Parser == INSTANCE Protocol WITH
    Pieces <- {<<"*", "1", "\r", "\n">>, <<"*", "2", "\r", "\n">>, <<"*", "0", "\r", "\n">>,
               <<"$", "1", "\r", "\n", "a", "\r", "\n">>, <<"$", "2", "\r", "\n">>,
               <<"*", "a", "\r">>, <<"\n">>, <<"q", "\r", "\n">>, <<" ", "a", "\r", "\n">>,
               <<"0x00">>},
    Quit <- <<"q">>, BulkMax <- 2, MultibulkMax <- 2

parserVars == <<conn, network, received, executed>>

MCKeyTuples == {<<k1, k2>>, <<k2, k2>>}
MCMatching == (p1 :> {ch1} @@ p2 :> {ch1, ch2})
Sym == Permutations(Clients)

MCInit ==
    /\ active \in {"blocking", "pubsub", "parser"}
    /\ BlockingInit /\ (active # "blocking" => lists = [k \in ListKeys |-> <<>>])
    /\ PubSubInit
    /\ Parser!ProtocolInit

MCNext ==
    \/ active = "blocking" /\ BlockingNext /\ UNCHANGED <<active, pubsubVars, parserVars>>
    \/ active = "pubsub" /\ PubSubNext /\ UNCHANGED <<active, blockingVars, parserVars>>
    \/ active = "parser" /\ Parser!ProtocolNext /\ UNCHANGED <<active, blockingVars, pubsubVars>>

MCSpec == MCInit /\ [][MCNext]_<<active, blockingVars, pubsubVars, parserVars>>

(* The commands executed are those of the stream, however it is cut into   *)
(* reads: ParsedAsSent of Protocol, about processInputBuffer().            *)
RequestsAreParsed == Parser!ParsedAsSent
=============================================================================
