--------------------------- MODULE Subscriptions ---------------------------
(***************************************************************************)
(* What publish and subscribe promises: who is subscribed to what is a     *)
(* relation, and a message published on a channel reaches every client     *)
(* once for the channel and once for every pattern of its own that         *)
(* matches.  PubSub implements it.                                         *)
(***************************************************************************)
EXTENDS Naturals, FiniteSets

CONSTANTS Clients, Channels, Patterns, Matching

VARIABLES
    subs,               \* pairs of a client and a channel or pattern
    sent                \* who got the last message, through what, and the
                        \* number of receivers the publisher was told

Of(c) == {s \in subs : s[1] = c}

Subscribe(c, topics) == subs' = subs \cup ({c} \X topics)
Unsubscribe(c, topics) == subs' = subs \ ({c} \X topics)

Reached(ch) == {s \in subs : s[2] = ch \/ (s[2] \in Patterns /\ ch \in Matching[s[2]])}

Publish(ch) ==
    /\ sent' = [to |-> Reached(ch), receivers |-> Cardinality(Reached(ch))]
    /\ UNCHANGED subs

SubsInit == subs = {} /\ sent = [to |-> {}, receivers |-> 0]

SubsNext ==
    \/ \E ch \in Channels : Publish(ch)
    \/ /\ \E c \in Clients, topics \in (SUBSET Channels) \cup (SUBSET Patterns) :
            Subscribe(c, topics) \/ Unsubscribe(c, topics)
       /\ sent' = [to |-> {}, receivers |-> 0]
    \/ /\ \E c \in Clients : subs' = subs \ Of(c)
       /\ sent' = [to |-> {}, receivers |-> 0]

SubsSpec == SubsInit /\ [][SubsNext]_<<subs, sent>>
=============================================================================
