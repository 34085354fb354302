------------------------------ MODULE Protocol ------------------------------
(***************************************************************************)
(* How the bytes a client sends become commands: src/networking.c, from    *)
(* readQueryFromClient() to the call of processCommand().  The network     *)
(* delivers the stream in pieces of any size, so that a request may be cut *)
(* anywhere, and several may come at once.  A byte is a one letter string; *)
(* a command is the sequence of its arguments, and processCommand() is     *)
(* only what it does to the parser: QUIT closes, all others are executed.  *)
(***************************************************************************)
EXTENDS Integers, SequencesExt

CONSTANTS
    Pieces,          \* what a client appends to its stream, byte strings
    MaxPieces,       \* bound: pieces sent by one client
    Quit,            \* the argument that is the name of QUIT
    InlineMax,       \* REDIS_INLINE_MAX_SIZE
    QuerybufMax,     \* server.client_max_querybuf_len
    MultibulkMax,    \* 1024*1024, the most arguments of a request
    BulkMax          \* 512*1024*1024, the longest argument

VARIABLES
    conn,            \* the parsing state of redisClient
    network,         \* bytes sent and not yet read
    received,        \* bytes read so far (history)
    executed         \* commands given to processCommand() so far (history)

protocolVars == <<conn, network, received, executed>>

CR == "\r"
LF == "\n"
NUL == "0x00"
Digits == [d \in {"0", "1", "2", "3"} |->
             CASE d = "0" -> 0 [] d = "1" -> 1 [] d = "2" -> 2 [] OTHER -> 3]

(* strchr(): the first ch at or after pos; a NUL byte ends the search.     *)
strchr(s, pos, ch) ==
    LET at == {i \in pos..Len(s) :
                 s[i] = ch /\ \A j \in pos..(i - 1) : s[j] # NUL}
    IN  IF at = {} THEN 0 ELSE Min(at)

(* strstr(s, "\r\n").                                                      *)
strstrCRLF(s) ==
    LET at == {i \in 1..(Len(s) - 1) :
                 s[i] = CR /\ s[i + 1] = LF /\ \A j \in 1..i : s[j] # NUL}
    IN  IF at = {} THEN 0 ELSE Min(at)

(* string2ll(), in util.c, for numbers of one digit: -1 for an error.      *)
string2ll(s) == IF Len(s) = 1 /\ s[1] \in DOMAIN Digits THEN Digits[s[1]] ELSE -1

(* sdssplitlen() by blanks, without the empty words.                       *)
RECURSIVE Words(_)
Words(s) ==
    LET blank == strchr(s, 1, " ")
        word == IF blank = 0 THEN s ELSE SubSeq(s, 1, blank - 1)
        more == IF blank = 0 THEN <<>> ELSE Words(SubSeq(s, blank + 1, Len(s)))
    IN  IF word = <<>> THEN more ELSE <<word>> \o more

From(s, pos) == SubSeq(s, pos, Len(s))

(* resetClient().                                                          *)
resetClient(c) ==
    [c EXCEPT !.argv = <<>>, !.reqtype = "none", !.multibulklen = 0, !.bulklen = -1]

(* setProtocolError(); why is the text of the error.                       *)
setProtocolError(c, pos, why) ==
    [c EXCEPT !.close = why, !.querybuf = From(@, pos)]

(* The guard of the three "too big" errors.                                *)
TooBig(c) ==
    IF Len(c.querybuf) > InlineMax THEN setProtocolError(c, 1, "too big") ELSE c

(* processInlineBuffer().                                                  *)
processInlineBuffer(c) ==
    LET newline == strstrCRLF(c.querybuf)
    IN  IF newline = 0
        THEN [c |-> TooBig(c), ok |-> FALSE]
        ELSE [c |-> [c EXCEPT !.argv = Words(SubSeq(c.querybuf, 1, newline - 1)),
                              !.querybuf = From(@, newline + 2)],
              ok |-> TRUE]

(* Mutant of trim: the bulk length already read is forgotten.              *)
trimForgets(c, pos) == [c EXCEPT !.querybuf = From(@, pos), !.bulklen = -1]

(* "Trim to pos", before processMultibulkBuffer() returns.                 *)
trim(c, pos) == [c EXCEPT !.querybuf = From(@, pos)]

(* The length of a bulk: the line from pos, if all of it is there.         *)
BulkLine(c, pos) ==
    LET newline == strchr(c.querybuf, pos, CR)
    IN  CASE newline = 0 -> [got |-> "none", at |-> 0, ll |-> -1]
          [] newline >= Len(c.querybuf) -> [got |-> "cut", at |-> 0, ll |-> -1]
          [] OTHER ->
               [got |-> IF c.querybuf[pos] = "$" THEN "line" ELSE "wrong",
                at |-> newline,
                ll |-> string2ll(SubSeq(c.querybuf, pos + 1, newline - 1))]

(* The loop of processMultibulkBuffer(), from a position in the buffer.    *)
RECURSIVE ReadBulks(_, _)
ReadBulks(c, pos) ==
    LET line == BulkLine(c, pos)
        more == [c |-> trim(c, pos), ok |-> FALSE]
        wrong == [c |-> setProtocolError(c, pos, "wrong"), ok |-> FALSE]
    IN  CASE c.multibulklen = 0 -> [c |-> trim(c, pos), ok |-> TRUE]
          [] c.multibulklen > 0 /\ c.bulklen = -1 ->
               (CASE line.got = "none" -> [c |-> trim(TooBig(c), pos), ok |-> FALSE]
                  [] line.got = "cut" -> more
                  [] line.got = "wrong" -> wrong
                  [] line.got = "line" /\ line.ll \notin 0..BulkMax -> wrong
                  [] OTHER ->
                       ReadBulks([c EXCEPT !.bulklen = line.ll], line.at + 2))
          [] OTHER ->
               IF Len(c.querybuf) - (pos - 1) < c.bulklen + 2
               THEN more
               ELSE ReadBulks([c EXCEPT
                        !.argv = Append(@, SubSeq(c.querybuf, pos, pos + c.bulklen - 1)),
                        !.bulklen = -1, !.multibulklen = @ - 1],
                      pos + c.bulklen + 2)

(* processMultibulkBuffer(): the number of bulks, then the bulks.          *)
processMultibulkBuffer(c) ==
    LET newline == strchr(c.querybuf, 1, CR)
        ll == string2ll(SubSeq(c.querybuf, 2, newline - 1))
    IN  CASE c.multibulklen > 0 -> ReadBulks(c, 1)
          [] c.multibulklen = 0 /\ newline = 0 -> [c |-> TooBig(c), ok |-> FALSE]
          [] c.multibulklen = 0 /\ newline # 0 /\ newline >= Len(c.querybuf) ->
               [c |-> c, ok |-> FALSE]
          [] OTHER ->
               CASE ll \notin 0..MultibulkMax ->
                      [c |-> setProtocolError(c, 1, "wrong"), ok |-> FALSE]
                 [] ll = 0 -> [c |-> trim(c, newline + 2), ok |-> TRUE]
                 [] OTHER -> ReadBulks([c EXCEPT !.multibulklen = ll], newline + 2)

(* processCommand(), as far as the parser sees it: QUIT returns REDIS_ERR  *)
(* and the client is not reset.                                            *)
processCommand(c) ==
    IF c.argv[1] = Quit THEN [c EXCEPT !.close = "quit"] ELSE resetClient(c)

(* processInputBuffer(): returns the client and the commands it executed.  *)
RECURSIVE processInputBuffer(_)
processInputBuffer(c) ==
    LET typed == IF c.reqtype # "none" THEN c
                 ELSE [c EXCEPT !.reqtype = IF c.querybuf[1] = "*"
                                            THEN "multibulk" ELSE "inline"]
        read == IF typed.reqtype = "inline" THEN processInlineBuffer(typed)
                ELSE processMultibulkBuffer(typed)
        ran == IF read.c.argv = <<>> THEN <<>> ELSE <<read.c.argv>>
        next == processInputBuffer(IF ran = <<>> THEN resetClient(read.c)
                                   ELSE processCommand(read.c))
    IN  IF c.querybuf = <<>> \/ c.close # "no" THEN [c |-> c, ran |-> <<>>]
        ELSE IF ~read.ok THEN [c |-> read.c, ran |-> <<>>]
        ELSE [c |-> next.c, ran |-> ran \o next.ran]

NewClient == [querybuf |-> <<>>, reqtype |-> "none", multibulklen |-> 0,
              bulklen |-> -1, argv |-> <<>>, close |-> "no"]

(* createClient(): a connection and what its client is going to send.      *)
createClient ==
    /\ conn.close = "freed"
    /\ conn' = NewClient
    /\ \E n \in 1..MaxPieces : \E p \in [1..n -> Pieces] : network' = FlattenSeq(p)
    /\ received' = <<>>
    /\ executed' = <<>>

(* freeClient(): the peer closes, read() fails, or the reply has been sent *)
(* to a client that is to be closed after it (sendReplyToClient()).        *)
freeClient ==
    /\ conn.close # "freed"
    /\ conn' = [NewClient EXCEPT !.close = "freed"]
    /\ network' = <<>>
    /\ received' = <<>>
    /\ executed' = <<>>

(* readQueryFromClient(): read() returns the next n bytes; EAGAIN changes  *)
(* nothing.  A buffer beyond its limit costs the connection at once.       *)
readQueryFromClient(n) ==
    LET c == [conn EXCEPT !.querybuf = @ \o SubSeq(network, 1, n)]
        p == processInputBuffer(c)
    IN  \/ Len(c.querybuf) > QuerybufMax /\ freeClient
        \/ /\ Len(c.querybuf) <= QuerybufMax
           /\ conn' = p.c
           /\ network' = From(network, n + 1)
           /\ received' = received \o SubSeq(network, 1, n)
           /\ executed' = executed \o p.ran

ProtocolInit ==
    /\ conn = [NewClient EXCEPT !.close = "freed"]
    /\ network = <<>>
    /\ received = <<>>
    /\ executed = <<>>

ProtocolNext ==
    \/ createClient
    \/ \E n \in 1..Len(network) : readQueryFromClient(n)
    \/ freeClient

ProtocolSpec == ProtocolInit /\ [][ProtocolNext]_protocolVars

-----------------------------------------------------------------------------
(* What a stream means, read from its first byte and as a whole.           *)

(* k arguments at the start of s: all of them, a part, or no arguments.    *)
RECURSIVE Bulks(_, _)
Bulks(s, k) ==
    LET end == strchr(s, 1, CR)
        ll == string2ll(SubSeq(s, 2, end - 1))
        more == Bulks(From(s, end + 2 + ll + 2), k - 1)
    IN  CASE k = 0 -> [got |-> "all", args |-> <<>>, rest |-> s]
          [] k > 0 /\ (end = 0 \/ end >= Len(s)) ->
               [got |-> "part", args |-> <<>>, rest |-> s]
          [] OTHER ->
               CASE s[1] # "$" \/ ll \notin 0..BulkMax ->
                      [got |-> "wrong", args |-> <<>>, rest |-> s]
                 [] s[1] = "$" /\ ll \in 0..BulkMax /\ Len(s) < end + 1 + ll + 2 ->
                      [got |-> "part", args |-> <<>>, rest |-> s]
                 [] OTHER ->
                      [more EXCEPT !.args =
                         <<SubSeq(s, end + 2, end + 1 + ll)>> \o @]

(* The commands of a stream, and whether it ends in one that closes.       *)
RECURSIVE Meaning(_)
Meaning(s) ==
    LET multi == s # <<>> /\ s[1] = "*"
        end == IF multi THEN strchr(s, 1, CR) ELSE strstrCRLF(s)
        whole == end # 0 /\ end < Len(s)
        ll == string2ll(SubSeq(s, 2, end - 1))
        request == IF multi THEN Bulks(From(s, end + 2), ll)
                   ELSE [got |-> "all", args |-> Words(SubSeq(s, 1, end - 1)),
                         rest |-> From(s, end + 2)]
        next == Meaning(request.rest)
    IN  IF ~whole THEN [ran |-> <<>>, close |-> "no"]
        ELSE IF multi /\ ll \notin 0..MultibulkMax THEN [ran |-> <<>>, close |-> "wrong"]
        ELSE IF request.got = "part" THEN [ran |-> <<>>, close |-> "no"]
        ELSE IF request.got = "wrong" THEN [ran |-> <<>>, close |-> "wrong"]
        ELSE IF request.args = <<>> THEN next
        ELSE IF request.args[1] = Quit THEN [ran |-> <<request.args>>, close |-> "quit"]
        ELSE [next EXCEPT !.ran = <<request.args>> \o @]

(* However the stream of a client is cut into reads, the commands executed *)
(* are those of the stream, in its order, each as soon as its last byte is *)
(* read, and the connection is given up for a wrong request or QUIT and    *)
(* for nothing else: the state processMultibulkBuffer() leaves in argc,    *)
(* multibulklen, bulklen and querybuf is where it goes on.  A client that  *)
(* is refused for the size of its buffer has executed the first of them.   *)
ParsedAsSent ==
    LET m == Meaning(received)
    IN  /\ IsPrefix(executed, m.ran)
        /\ conn.close \notin {"too big", "freed"} =>
              executed = m.ran /\ conn.close = m.close
=============================================================================
