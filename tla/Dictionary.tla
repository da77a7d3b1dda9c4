------------------------------ MODULE Dictionary -----------------------------
(***************************************************************************)
(* What the hash map of the library promises to its client: at most one    *)
(* value per key, whatever the buckets, the chains and the reallocations   *)
(* behind it.  An insertion may be refused for want of space; it is        *)
(* refused with XT_EEXIST exactly when the key is there.  Calls that fail, *)
(* resize the map or iterate over it leave the contents alone.             *)
(***************************************************************************)
CONSTANTS Keys, Values,
          Refusals   \* errors that say nothing about the contents

VARIABLES dict,      \* the value of each key that is present
          answer     \* what the last call returned

Init == dict = [k \in {} |-> 0] /\ answer = "ok"

Present == DOMAIN dict

Insert(k, v) ==
  /\ answer' = "added"
  /\ k \notin Present
  /\ dict' = [x \in Present \cup {k} |-> IF x = k THEN v ELSE dict[x]]

InsertAgain(k) == answer' = "XT_EEXIST" /\ k \in Present /\ UNCHANGED dict

Delete(k) ==
  /\ answer' = "removed"
  /\ k \in Present
  /\ dict' = [x \in Present \ {k} |-> dict[x]]

\* Looking up or deleting a key that is not there.
Miss(k) == answer' = "XT_ENOENT" /\ k \notin Present /\ UNCHANGED dict

Lookup(k) ==
  /\ answer' \in Values
  /\ k \in Present /\ answer' = dict[k]
  /\ UNCHANGED dict

\* Iterating hands out keys that are present.
Enumerate ==
  /\ answer' \in Keys \cup {"false"}
  /\ answer' # "false" => answer' \in Present
  /\ UNCHANGED dict

Clear == answer' = "void" /\ dict' = [k \in {} |-> 0]

Refuse == answer' \in Refusals \cup {"ok"} /\ UNCHANGED dict

Next ==
  \/ \E k \in Keys, v \in Values : Insert(k, v)
  \/ \E k \in Keys : InsertAgain(k) \/ Delete(k) \/ Miss(k) \/ Lookup(k)
  \/ Enumerate \/ Clear \/ Refuse

Spec == Init /\ [][Next]_<<dict, answer>>
=============================================================================
