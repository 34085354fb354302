---------------------------- MODULE MCSlaveLink ----------------------------
(***************************************************************************)
(* The link of a slave to its master, and the bytes of the dump that comes *)
(* over it, side by side: a behaviour moves one of the two, and the run is *)
(* over the sum of their state spaces.  A byte of the dump has four bits,  *)
(* so that lengths change their form at 4 and 64 and integers at 8, 128    *)
(* and 32768.                                                              *)
(***************************************************************************)
EXTENDS MCReplSlave, SequencesExt

VARIABLES
    encodes,                              \* the behaviour is one of Rdb
    dataset, saved, file, slave, loaded   \* of Rdb

(* Strings at the edges of the encodings; 11 is a letter, 0 to 9 digits.   *)
Letters(n) == [i \in 1..n |-> 11]
Numbers == {<<7>>, <<8>>, <<10, 8>>, <<10, 9>>, <<1, 2, 7>>, <<1, 2, 8>>, <<10, 1, 2, 9>>,
            <<3, 2, 7, 6, 8>>, <<10, 3, 2, 7, 6, 8>>, <<0, 0, 7>>, <<10, 0>>, <<10>>}
Strings == Numbers \cup {Letters(n) : n \in {0, 3, 4, 63, 64}} \cup {[i \in 1..30 |-> 5]}

(* A compressor that knows the strings of one repeated byte 5.             *)
MCCompress(s) == IF \A i \in DOMAIN s : s[i] = 5 THEN <<5>> ELSE <<>>
MCDecompress(c, n) == [i \in 1..n |-> c[1]]

String(s) == [type |-> 0, value |-> s]
Score(is, digits) == [is |-> is, digits |-> digits]
Objects ==
    {String(s) : s \in Strings}
      \cup {[type |-> 1, value |-> [i \in 1..n |-> <<1, 1>>]] : n \in {0, 3, 4}}
      \cup {[type |-> 2, value |-> <<Letters(1), <<8>>>>],
            [type |-> 4, value |-> <<<<Letters(1), <<10, 9>>>>, <<<<3>>, Letters(5)>>>>],
            [type |-> 3, value |-> <<<<Letters(1), Score("digits", <<2, 12, 5>>)>>,
                                     <<Letters(2), Score("-inf", <<>>)>>,
                                     <<Letters(3), Score("+inf", <<>>)>>>>]}
      \cup {[type |-> t, value |-> <<13, 14, 15, 0>>] : t \in 9..12}

Entry(db, key, object, expire) ==
    [db |-> db, key |-> key, object |-> object, expire |-> expire]
Keys == {<<7>>, Letters(2)}

(* Every object under every key, and two keys in one or two databases.     *)
MCDataSets ==
    {<<>>} \cup {<<Entry(db, k, o, e)>> : db \in {0, 1}, k \in Keys, o \in Objects, e \in {-1, 2}}
      \cup {<<Entry(0, <<7>>, o, e), Entry(db, Letters(2), String(Letters(1)), f)>> :
              o \in Objects, db \in {0, 1}, e \in {-1, 2}, f \in {-1, 1, 2}}

D == INSTANCE Rdb WITH
       ByteBits <- 4, DataSets <- MCDataSets, Dbnum <- 2, Times <- {1, 2, 3}, LzfMin <- 20,
       compress <- MCCompress, decompress <- MCDecompress

rdbVars == <<dataset, saved, file, slave, loaded>>

MCInit ==
    /\ encodes \in BOOLEAN
    /\ Init
    /\ D!RdbInit
    /\ ~encodes => dataset = <<>> /\ saved = 1 /\ slave

MCNext ==
    /\ UNCHANGED encodes
    /\ \/ encodes /\ D!RdbNext /\ UNCHANGED vars
       \/ ~encodes /\ Next /\ UNCHANGED rdbVars

MCSpec == MCInit /\ [][MCNext]_<<encodes, vars, rdbVars>>

(* What rdbLoad() reads is what rdbSave() wrote, for every data set, and a *)
(* dump cut short is refused: DumpReadsBack of Rdb.                        *)
DumpReadsBack == D!DumpReadsBack
=============================================================================
