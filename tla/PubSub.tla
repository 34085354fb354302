------------------------------- MODULE PubSub -------------------------------
(***************************************************************************)
(* Publish and subscribe (pubsub.c).  A subscription is kept twice: with   *)
(* the client, to undo it, and with the server, to find the receivers of a *)
(* message.  Seen from outside it is the relation of Subscriptions.        *)
(***************************************************************************)
EXTENDS Integers, Sequences, FiniteSets, SequencesExt

CONSTANTS
    PsClients,          \* the connections
    Channels, Patterns,
    MaxTopics,          \* bound: arguments of one command
    MaxPatterns,        \* bound: patterns subscribed to at a time
    Matching            \* pattern -> the channels it matches (stringmatchlen)

ASSUME PubSubAssumption ==
    /\ MaxTopics \in Nat /\ MaxPatterns \in Nat
    /\ Channels \cap Patterns = {}   \* a name is a channel or a pattern by its command
    /\ Matching \in [Patterns -> SUBSET Channels]

VARIABLES
    psChannels,         \* server.pubsub_channels: channel -> clients, in order;
                        \* a channel without clients has no entry
    psPatterns,         \* server.pubsub_patterns: <<client, pattern>>, in order
    cliChannels,        \* c->pubsub_channels
    cliPatterns,        \* c->pubsub_patterns
    psLive,             \* the clients that are connected
    psSent              \* the replies a PUBLISH produced, and its own reply

pubsubVars == <<psChannels, psPatterns, cliChannels, cliPatterns, psLive, psSent>>

NothingSent == [to |-> <<>>, receivers |-> 0]

\* The state the functions of pubsub.c work on.
Ps == [chans |-> psChannels, pats |-> psPatterns, cc |-> cliChannels, cp |-> cliPatterns]

PsBecomes(s) ==
    /\ psChannels' = s.chans /\ psPatterns' = s.pats
    /\ cliChannels' = s.cc /\ cliPatterns' = s.cp

\* listDelNode(l, listSearchKey(l, e))
DelFirst(l, e) == LET i == SelectInSeq(l, LAMBDA x : x = e) IN RemoveAt(l, i)

ClientsOn(s, ch) == IF ch \in DOMAIN s.chans THEN s.chans[ch] ELSE <<>>

WithList(chans, ch, l) ==
    [x \in (DOMAIN chans \cup {ch}) \ (IF l = <<>> THEN {ch} ELSE {}) |->
        IF x = ch THEN l ELSE chans[x]]

\* Mutant: a client that is subscribed is listed once more.
subscribeAgain(s, c, ch) ==
    [s EXCEPT !.cc[c] = @ \cup {ch},
              !.chans = WithList(@, ch, Append(ClientsOn(s, ch), c))]

pubsubSubscribeChannel(s, c, ch) ==
    IF ch \in s.cc[c] THEN s
    ELSE [s EXCEPT !.cc[c] = @ \cup {ch},
                   !.chans = WithList(@, ch, Append(ClientsOn(s, ch), c))]

pubsubUnsubscribeChannel(s, c, ch) ==
    IF ch \notin s.cc[c] THEN s
    ELSE [s EXCEPT !.cc[c] = @ \ {ch},
                   !.chans = WithList(@, ch, DelFirst(ClientsOn(s, ch), c))]

pubsubSubscribePattern(s, c, p) ==
    IF p \in Range(s.cp[c]) THEN s
    ELSE [s EXCEPT !.cp[c] = Append(@, p), !.pats = Append(@, <<c, p>>)]

\* Mutant: the first node with the pattern goes, whosever it is.
unsubscribeAnyones(s, c, p) ==
    IF p \notin Range(s.cp[c]) THEN s
    ELSE [s EXCEPT !.cp[c] = DelFirst(@, p),
                   !.pats = RemoveAt(@, SelectInSeq(@, LAMBDA x : x[2] = p))]

pubsubUnsubscribePattern(s, c, p) ==
    IF p \notin Range(s.cp[c]) THEN s
    ELSE [s EXCEPT !.cp[c] = DelFirst(@, p), !.pats = DelFirst(@, <<c, p>>)]

\* The safe iterator of the client's channels gives each of them once.
pubsubUnsubscribeAllChannels(s, c) ==
    FoldLeft(LAMBDA t, ch : pubsubUnsubscribeChannel(t, c, ch), s, SetToSeq(s.cc[c]))

pubsubUnsubscribeAllPatterns(s, c) ==
    FoldLeft(LAMBDA t, p : pubsubUnsubscribePattern(t, c, p), s, s.cp[c])

\* Mutant: a client that has the message through the channel is passed over.
publishOncePerClient(s, ch) ==
    LET direct == [i \in DOMAIN ClientsOn(s, ch) |-> <<ClientsOn(s, ch)[i], ch>>]
        matched == SelectSeq(s.pats, LAMBDA p : /\ ch \in Matching[p[2]]
                                               /\ p[1] \notin Range(ClientsOn(s, ch)))
    IN  [to |-> direct \o matched, receivers |-> Len(direct) + Len(matched)]

\* To the clients of the channel, then to those of every pattern that matches.
pubsubPublishMessage(s, ch) ==
    LET direct == [i \in DOMAIN ClientsOn(s, ch) |-> <<ClientsOn(s, ch)[i], ch>>]
        matched == FoldLeft(LAMBDA l, p : IF ch \in Matching[p[2]] THEN Append(l, p) ELSE l,
                            <<>>, s.pats)
    IN  [to |-> direct \o matched, receivers |-> Len(direct) + Len(matched)]

-----------------------------------------------------------------------------
PubSubInit ==
    /\ psChannels = <<>> /\ psPatterns = <<>>
    /\ cliChannels = [c \in PsClients |-> {}] /\ cliPatterns = [c \in PsClients |-> <<>>]
    /\ psLive = PsClients /\ psSent = NothingSent

\* (P)SUBSCRIBE and (P)UNSUBSCRIBE take the arguments one after the other.
Topics(S) == UNION {[1..n -> S] : n \in 1..MaxTopics}

subscribeCommand == \E c \in psLive, t \in Topics(Channels) :
    /\ PsBecomes(FoldLeft(LAMBDA s, ch : pubsubSubscribeChannel(s, c, ch), Ps, t))
    /\ psSent' = NothingSent /\ UNCHANGED psLive

unsubscribeCommand == \E c \in psLive :
    /\ \/ PsBecomes(pubsubUnsubscribeAllChannels(Ps, c))
       \/ \E t \in Topics(Channels) :
            PsBecomes(FoldLeft(LAMBDA s, ch : pubsubUnsubscribeChannel(s, c, ch), Ps, t))
    /\ psSent' = NothingSent /\ UNCHANGED psLive

psubscribeCommand == \E c \in psLive, t \in Topics(Patterns) :
    /\ PsBecomes(FoldLeft(LAMBDA s, p : pubsubSubscribePattern(s, c, p), Ps, t))
    /\ Len(psPatterns') <= MaxPatterns
    /\ psSent' = NothingSent /\ UNCHANGED psLive

punsubscribeCommand == \E c \in psLive :
    /\ \/ PsBecomes(pubsubUnsubscribeAllPatterns(Ps, c))
       \/ \E t \in Topics(Patterns) :
            PsBecomes(FoldLeft(LAMBDA s, p : pubsubUnsubscribePattern(s, c, p), Ps, t))
    /\ psSent' = NothingSent /\ UNCHANGED psLive

\* processCommand() refuses it to a client with subscriptions of its own.
publishCommand == \E c \in psLive, ch \in Channels :
    /\ cliChannels[c] = {} /\ cliPatterns[c] = <<>>
    /\ psSent' = pubsubPublishMessage(Ps, ch)
    /\ UNCHANGED <<psChannels, psPatterns, cliChannels, cliPatterns, psLive>>

\* freeClient()
psFreeClient == \E c \in psLive :
    /\ PsBecomes(pubsubUnsubscribeAllPatterns(pubsubUnsubscribeAllChannels(Ps, c), c))
    /\ psLive' = psLive \ {c} /\ psSent' = NothingSent

\* A connection of the same client again.
psConnect == \E c \in PsClients \ psLive :
    /\ psLive' = psLive \cup {c}
    /\ psSent' = NothingSent
    /\ UNCHANGED <<psChannels, psPatterns, cliChannels, cliPatterns>>

PubSubNext ==
    \/ subscribeCommand \/ unsubscribeCommand \/ psubscribeCommand
    \/ punsubscribeCommand \/ publishCommand \/ psFreeClient \/ psConnect

PubSubSpec == PubSubInit /\ [][PubSubNext]_pubsubVars

-----------------------------------------------------------------------------
\* The two indices hold the same subscriptions, each once, and none is of a client
\* that is gone: a message never goes to freed memory.
IndicesAgree ==
    /\ \A ch \in Channels : LET l == ClientsOn(Ps, ch) IN
         /\ IsInjective(l) /\ Range(l) = {c \in PsClients : ch \in cliChannels[c]}
         /\ ch \in DOMAIN psChannels => l # <<>>
    /\ IsInjective(psPatterns)
    /\ Range(psPatterns) = UNION {{c} \X Range(cliPatterns[c]) : c \in PsClients}
    /\ \A c \in PsClients \ psLive : cliChannels[c] = {} /\ cliPatterns[c] = <<>>

\* Every operation is the one of the relation, and a message reaches exactly the
\* subscribers, as often as the publisher is told.
Subs == INSTANCE Subscriptions WITH Clients <- PsClients,
    subs <- (UNION {{c} \X cliChannels[c] : c \in PsClients}) \cup Range(psPatterns),
    sent <- [to |-> Range(psSent.to), receivers |-> psSent.receivers]

ImplementsSubscriptions == Subs!SubsSpec
=============================================================================
