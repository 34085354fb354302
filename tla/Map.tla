-------------------------------- MODULE Map --------------------------------
(***************************************************************************)
(* What a hash table promises its callers (dict.h): it is a function from  *)
(* keys to values, every operation takes effect at once, and its result is *)
(* the one that function gives.  Dict implements it.                       *)
(***************************************************************************)
CONSTANTS DictKeys, DictVals

VARIABLES
    contents,           \* what is stored: the function, as a set of pairs
    reply               \* what the last operation returned, as a tuple; the
                        \* empty one once the caller has used it

Of(k) == {e \in contents : e[1] = k}

\* Add a key that is absent.
Add(k, v) ==
    \/ reply' = <<"OK">> /\ Of(k) = {} /\ contents' = contents \cup {<<k, v>>}
    \/ reply' = <<"ERR">> /\ Of(k) # {} /\ UNCHANGED contents

\* Add a key, or give the key a new value.
Replace(k, v) ==
    /\ \/ reply' = <<"added">> /\ Of(k) = {}
       \/ reply' = <<"updated">> /\ Of(k) # {}
    /\ contents' = (contents \ Of(k)) \cup {<<k, v>>}

Delete(k) ==
    \/ reply' = <<"OK">> /\ Of(k) # {} /\ contents' = contents \ Of(k)
    \/ reply' = <<"ERR">> /\ Of(k) = {} /\ UNCHANGED contents

Find(k) ==
    /\ \/ reply' = <<"NULL">> /\ Of(k) = {}
       \/ reply' \in Of(k)
    /\ UNCHANGED contents

RandomKey ==
    /\ \/ reply' = <<"NULL">> /\ contents = {}
       \/ reply' \in contents
    /\ UNCHANGED contents

Clear == contents' = {} /\ reply' = <<>>

\* The caller has used the result.
Used == reply' = <<>> /\ UNCHANGED contents

MapInit == contents = {} /\ reply = <<>>

MapNext ==
    \/ Used \/ Clear \/ RandomKey
    \/ \E k \in DictKeys : Delete(k) \/ Find(k)
    \/ \E k \in DictKeys : \E v \in DictVals[k] : Add(k, v) \/ Replace(k, v)

MapSpec == MapInit /\ [][MapNext]_<<contents, reply>>
=============================================================================
