-------------------------------- MODULE Rdb --------------------------------
(***************************************************************************)
(* The dump file: src/rdb.c, how a data set is written to dump.rdb and     *)
(* read again, by the same server later or by a slave, from a file that    *)
(* may have been cut short.  The file is a sequence of bytes of ByteBits   *)
(* bits, eight in the code, so that the lengths and integers at which the  *)
(* encoding changes are small here: a length has ByteBits - 2 bits, twice  *)
(* the byte less two, or four bytes.  Compression is a library.            *)
(***************************************************************************)
EXTENDS Integers, SequencesExt

CONSTANTS
    ByteBits,        \* bits of a byte, at least four
    DataSets,        \* data sets: sequences of entries, as they are iterated
    Dbnum,           \* server.dbnum
    Times,           \* values of time(NULL) at the save and at the load
    LzfMin,          \* 20, the longest string not worth compressing
    compress(_),     \* lzf_compress(), or the empty sequence
    decompress(_, _) \* lzf_decompress(), to a length

VARIABLES
    dataset,         \* what is in memory at the save
    saved,           \* time(NULL) at the save
    file,            \* dump.rdb
    slave,           \* the file is loaded by a slave
    loaded           \* what rdbLoad() returned, and when

rdbVars == <<dataset, saved, file, slave, loaded>>

Byte == 2^ByteBits
LenUnit == 2^(ByteBits - 2)       \* the two upper bits of a byte are a type

REDIS_EOF == Byte - 1
REDIS_SELECTDB == Byte - 2
REDIS_EXPIRETIME == Byte - 3
REDIS_STRING == 0
REDIS_LIST == 1
REDIS_SET == 2
REDIS_ZSET == 3
REDIS_HASH == 4
Blobs == 9..12                    \* zipmap, ziplist, intset, ziplist of a zset
Magic == <<5, 2>>                 \* "REDIS" and the version

(* k bytes of n, the low ones first; a negative n in two's complement.     *)
LittleEndian(n, k) == [i \in 1..k |-> ((n % Byte^k) \div Byte^(i - 1)) % Byte]
Unsigned(bytes) == FoldRight(LAMBDA b, n : b + Byte * n, bytes, 0)
Signed(bytes) ==
    LET signed(n) == IF n >= Byte^Len(bytes) \div 2 THEN n - Byte^Len(bytes) ELSE n
    IN  signed(Unsigned(bytes))

(* ll2string(): digits are the bytes 0 to 9, the minus sign is 10.         *)
Minus == 10
RECURSIVE DigitsOf(_)
DigitsOf(n) == IF n < 10 THEN <<n>> ELSE Append(DigitsOf(n \div 10), n % 10)
ll2string(n) == IF n < 0 THEN <<Minus>> \o DigitsOf(-n) ELSE DigitsOf(n)

(* The number that strtoll() finds in a string, if all of it is one.       *)
IsNumber(s) ==
    LET digits == IF s # <<>> /\ s[1] = Minus THEN Tail(s) ELSE s
    IN  digits # <<>> /\ \A i \in DOMAIN digits : digits[i] \in 0..9
strtoll(s) ==
    LET abs(d) == FoldLeft(LAMBDA n, b : 10 * n + b, 0, d)
    IN  IF s[1] = Minus THEN -abs(Tail(s)) ELSE abs(s)

-----------------------------------------------------------------------------
(* Writing.                                                                *)

(* Mutant of rdbSaveLen: the boundary of the short form is off by one.     *)
saveLenOffByOne(n) ==
    CASE n <= LenUnit -> <<n>>
      [] n > LenUnit /\ n < LenUnit * Byte -> <<LenUnit + n \div Byte, n % Byte>>
      [] OTHER -> <<2 * LenUnit>> \o Reverse(LittleEndian(n, 4))

(* rdbSaveLen(): six bits, fourteen, or four bytes in network order.       *)
rdbSaveLen(n) ==
    CASE n < LenUnit -> <<n>>
      [] n >= LenUnit /\ n < LenUnit * Byte -> <<LenUnit + n \div Byte, n % Byte>>
      [] OTHER -> <<2 * LenUnit>> \o Reverse(LittleEndian(n, 4))

(* rdbEncodeInteger(): one, two or four bytes; empty if it takes more.     *)
rdbEncodeInteger(v) ==
    LET fits(k) == v >= -(Byte^k \div 2) /\ v < Byte^k \div 2
        coded(type, k) == <<3 * LenUnit + type>> \o LittleEndian(v, k)
    IN  CASE fits(1) -> coded(0, 1)
          [] ~fits(1) /\ fits(2) -> coded(1, 2)
          [] ~fits(2) /\ fits(4) -> coded(2, 4)
          [] OTHER -> <<>>

(* rdbTryIntegerEncoding(): the number has to convert back to the string.  *)
rdbTryIntegerEncoding(s) ==
    LET back(n) == IF ll2string(n) = s THEN rdbEncodeInteger(n) ELSE <<>>
    IN  IF IsNumber(s) THEN back(strtoll(s)) ELSE <<>>

(* rdbSaveLzfStringObject().                                               *)
rdbSaveLzfStringObject(s) ==
    LET put(out) ==
          IF out = <<>> \/ Len(out) > Len(s) - 4 THEN <<>>
          ELSE <<3 * LenUnit + 3>> \o rdbSaveLen(Len(out)) \o rdbSaveLen(Len(s)) \o out
    IN  put(compress(s))

(* rdbSaveRawString(), and rdbSaveStringObject(): an object that is held   *)
(* as an integer is written as its string would be.                        *)
rdbSaveRawString(s) ==
    LET firstOf(number, lzf) == IF number # <<>> THEN number
                                ELSE IF lzf # <<>> THEN lzf ELSE rdbSaveLen(Len(s)) \o s
    IN  firstOf(IF Len(s) <= 11 THEN rdbTryIntegerEncoding(s) ELSE <<>>,
                IF Len(s) > LzfMin THEN rdbSaveLzfStringObject(s) ELSE <<>>)

(* rdbSaveDoubleValue(): the length of its digits, or one of three values. *)
rdbSaveDoubleValue(d) ==
    CASE d.is = "nan" -> <<Byte - 3>>
      [] d.is = "+inf" -> <<Byte - 2>>
      [] d.is = "-inf" -> <<Byte - 1>>
      [] OTHER -> <<Len(d.digits)>> \o d.digits

(* rdbSaveObject(): a string, or the number of members and the members.    *)
rdbSaveObject(o) ==
    LET one(m) ==
          CASE o.type = REDIS_ZSET -> rdbSaveRawString(m[1]) \o rdbSaveDoubleValue(m[2])
            [] o.type = REDIS_HASH -> rdbSaveRawString(m[1]) \o rdbSaveRawString(m[2])
            [] OTHER -> rdbSaveRawString(m)
    IN  IF o.type = REDIS_STRING \/ o.type \in Blobs THEN rdbSaveRawString(o.value)
        ELSE rdbSaveLen(Len(o.value)) \o FlattenSeq([i \in DOMAIN o.value |-> one(o.value[i])])

(* An entry of the loop of rdbSave(): nothing for a key that has expired.  *)
SaveEntry(e, now) ==
    IF e.expire # -1 /\ e.expire < now THEN <<>>
    ELSE (IF e.expire = -1 THEN <<>> ELSE <<REDIS_EXPIRETIME>> \o LittleEndian(e.expire, 4))
           \o <<e.object.type>> \o rdbSaveRawString(e.key) \o rdbSaveObject(e.object)

(* rdbSave(): the databases that are not empty, and the end.               *)
rdbSave(ds, now) ==
    LET saveDb(j, es) == IF es = <<>> THEN <<>>
                         ELSE <<REDIS_SELECTDB>> \o rdbSaveLen(j)
                                \o FlattenSeq([i \in DOMAIN es |-> SaveEntry(es[i], now)])
        dbs == [j \in 1..Dbnum |-> saveDb(j - 1, SelectSeq(ds, LAMBDA e : e.db = j - 1))]
    IN  Magic \o FlattenSeq(dbs) \o <<REDIS_EOF>>

-----------------------------------------------------------------------------
(* Reading: a value, the place after it, and whether all of it was there.  *)

Got(v, at) == [ok |-> TRUE, val |-> v, at |-> at]
Short == [ok |-> FALSE, val |-> <<>>, at |-> 0]
Then(r, next(_, _)) == IF r.ok THEN next(r.val, r.at) ELSE Short

(* fread() of n bytes.                                                     *)
fread(f, at, n) == IF at + n - 1 > Len(f) THEN Short ELSE Got(SubSeq(f, at, at + n - 1), at + n)

(* Mutant of rdbLoadType: -1 becomes the unsigned byte REDIS_EOF.          *)
loadTypeUnsigned(f, at) == IF at > Len(f) THEN REDIS_EOF ELSE f[at]

(* rdbLoadType(): -1 at the end of the file.                               *)
rdbLoadType(f, at) == IF at > Len(f) THEN -1 ELSE f[at]

(* rdbLoadLen(): val is the length, or the encoding if encoded.            *)
rdbLoadLen(f, at) ==
    LET type == f[at] \div LenUnit
        low == f[at] % LenUnit
    IN  IF at > Len(f) THEN Short
        ELSE CASE type = 0 \/ type = 3 -> Got(low, at + 1)
               [] type = 1 -> Then(fread(f, at + 1, 1), LAMBDA b, to : Got(low * Byte + b[1], to))
               [] OTHER -> Then(fread(f, at + 1, 4), LAMBDA b, to : Got(Unsigned(Reverse(b)), to))

(* rdbLoadIntegerObject(): the string of the number.                       *)
rdbLoadIntegerObject(f, at, enc) ==
    Then(fread(f, at, <<1, 2, 4>>[enc + 1]), LAMBDA b, to : Got(ll2string(Signed(b)), to))

(* rdbLoadLzfStringObject().                                               *)
rdbLoadLzfStringObject(f, at) ==
    Then(rdbLoadLen(f, at), LAMBDA clen, p :
    Then(rdbLoadLen(f, p), LAMBDA len, q :
    Then(fread(f, q, clen), LAMBDA c, to : Got(decompress(c, len), to))))

(* rdbGenericLoadStringObject().                                           *)
rdbGenericLoadStringObject(f, at) ==
    LET encoded == f[at] \div LenUnit = 3
    IN  Then(rdbLoadLen(f, at), LAMBDA len, p :
             CASE encoded /\ len < 3 -> rdbLoadIntegerObject(f, p, len)
               [] encoded /\ len = 3 -> rdbLoadLzfStringObject(f, p)
               [] OTHER -> fread(f, p, len))

(* rdbLoadDoubleValue().                                                   *)
rdbLoadDoubleValue(f, at) ==
    LET special(name) == Got([is |-> name, digits |-> <<>>], at + 1)
    IN  IF at > Len(f) THEN Short
        ELSE CASE f[at] = Byte - 1 -> special("-inf")
               [] f[at] = Byte - 2 -> special("+inf")
               [] f[at] = Byte - 3 -> special("nan")
               [] OTHER -> Then(fread(f, at + 1, f[at]), LAMBDA s, to :
                                Got([is |-> "digits", digits |-> s], to))

(* A member of rdbLoadObject(): a string, with a score or a value.         *)
LoadMember(f, at, type) ==
    Then(rdbGenericLoadStringObject(f, at), LAMBDA first, p :
         CASE type = REDIS_ZSET ->
                Then(rdbLoadDoubleValue(f, p), LAMBDA score, to : Got(<<first, score>>, to))
           [] type = REDIS_HASH ->
                Then(rdbGenericLoadStringObject(f, p), LAMBDA v, to : Got(<<first, v>>, to))
           [] OTHER -> Got(first, p))

(* Its loops: n more members after those that were read.                   *)
RECURSIVE LoadMembers(_, _, _, _, _)
LoadMembers(f, at, type, n, members) ==
    IF n = 0 THEN Got(members, at)
    ELSE Then(LoadMember(f, at, type), LAMBDA m, to :
              LoadMembers(f, to, type, n - 1, Append(members, m)))

(* rdbLoadObject().                                                        *)
rdbLoadObject(f, at, type) ==
    Then(IF type = REDIS_STRING \/ type \in Blobs THEN rdbGenericLoadStringObject(f, at)
         ELSE Then(rdbLoadLen(f, at), LAMBDA len, p : LoadMembers(f, p, type, len, <<>>)),
         LAMBDA v, to : Got([type |-> type, value |-> v], to))

Ended(how, keys) == [end |-> how, keys |-> keys]

(* The key and the object of an entry; nothing for a type there is not.    *)
LoadEntry(f, at, type) ==
    Then(rdbGenericLoadStringObject(f, at), LAMBDA key, p :
         IF type \notin REDIS_STRING..REDIS_HASH \cup Blobs THEN Got(<<>>, p)
         ELSE Then(rdbLoadObject(f, p, type), LAMBDA o, to : Got(<<key, o>>, to)))

(* The loop of rdbLoad() over a file that is read up to `at', the keys     *)
(* added so far: an expire time, which is an error if it is -1, a type,    *)
(* and what it announces.                                                  *)
RECURSIVE LoadLoop(_, _, _, _, _, _)
LoadLoop(f, at, db, now, keep, keys) ==
    LET hasTime == rdbLoadType(f, at) = REDIS_EXPIRETIME
        select(id) == CASE ~id.ok -> Ended("short", keys)
                        [] id.ok /\ id.val >= Dbnum -> Ended("too many", keys)
                        [] OTHER -> LoadLoop(f, id.at, id.val, now, keep, keys)
        add(e, expire) ==
          CASE ~e.ok -> Ended("short", keys)
            [] e.ok /\ e.val = <<>> -> Ended("panic", keys)
            [] OTHER -> LoadLoop(f, e.at, db, now, keep, keys \cup
                 (IF keep \/ expire = -1 \/ expire >= now
                  THEN {[db |-> db, key |-> e.val[1], object |-> e.val[2], expire |-> expire]}
                  ELSE {}))
        typed(type, typeAt, expire) ==
          CASE type = -1 -> Ended("short", keys)
            [] type = REDIS_EOF -> Ended("ok", keys)
            [] type = REDIS_SELECTDB -> select(rdbLoadLen(f, typeAt + 1))
            [] OTHER -> add(LoadEntry(f, typeAt + 1, type), expire)
        timed(t) == IF ~t.ok \/ Signed(t.val) = -1 THEN Ended("short", keys)
                    ELSE typed(rdbLoadType(f, t.at), t.at, Signed(t.val))
    IN  IF hasTime THEN timed(fread(f, at + 1, 4)) ELSE typed(rdbLoadType(f, at), at, -1)

(* rdbLoad(): a slave adds the keys that have expired too.                 *)
rdbLoad(f, now, keep) ==
    LET signed(head) == CASE ~head.ok -> Ended("short", {})
                          [] head.ok /\ head.val # Magic -> Ended("signature", {})
                          [] OTHER -> LoadLoop(f, head.at, 0, now, keep, {})
    IN  signed(fread(f, 1, Len(Magic)))

-----------------------------------------------------------------------------
NotLoaded == [end |-> "none", keys |-> {}, at |-> -1]

RdbInit ==
    /\ dataset \in DataSets
    /\ saved \in Times
    /\ file = <<>>
    /\ slave \in BOOLEAN
    /\ loaded = NotLoaded

(* The data set is saved, in the server or in its child.                   *)
Save ==
    /\ file = <<>>
    /\ file' = rdbSave(dataset, saved)
    /\ UNCHANGED <<dataset, saved, slave, loaded>>

(* The file that is loaded ends early: a disk that was full, a copy or a   *)
(* transfer that was broken off.                                           *)
Cut(n) ==
    /\ loaded = NotLoaded
    /\ file' = SubSeq(file, 1, n)
    /\ UNCHANGED <<dataset, saved, slave, loaded>>

(* The file is loaded at a later time.                                     *)
Load(now) ==
    /\ file # <<>> /\ loaded = NotLoaded /\ now >= saved
    /\ \E r \in {rdbLoad(file, now, slave)} :
         loaded' = [end |-> r.end, keys |-> r.keys, at |-> now]
    /\ UNCHANGED <<dataset, saved, file, slave>>

(* The server that could not load its file exits, or the data is served:   *)
(* in either case the next save is another one.                            *)
Again ==
    /\ loaded # NotLoaded
    /\ file' = <<>> /\ loaded' = NotLoaded
    /\ UNCHANGED <<dataset, saved, slave>>

RdbNext ==
    \/ Save
    \/ \E n \in 1..(Len(file) - 1) : Cut(n)
    \/ \E now \in Times : Load(now)
    \/ Again

-----------------------------------------------------------------------------
(* A file that was written completely is loaded, and what it gives is the  *)
(* data set with every key, member, score and expire as it was, whatever   *)
(* lengths and integers are at the edge of an encoding; only keys whose    *)
(* time had come at the save are missing, or at the load on a master.      *)
DumpHoldsDataSet ==
    file = rdbSave(dataset, saved) /\ loaded # NotLoaded =>
      /\ loaded.end = "ok"
      /\ loaded.keys = {e \in ToSet(dataset) :
            e.expire = -1 \/ e.expire >= (IF slave THEN saved ELSE loaded.at)}

(* rdbLoad() never takes a file that was cut short for a complete one: a   *)
(* part of the data set is not served as if it were all of it.             *)
ShortDumpsAreRefused ==
    loaded # NotLoaded /\ file # rdbSave(dataset, saved) => loaded.end = "short"

(* A dump reads back to the data set it was made from, and only whole.     *)
DumpReadsBack == DumpHoldsDataSet /\ ShortDumpsAreRefused
=============================================================================
