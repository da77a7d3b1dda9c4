------------------------------ MODULE MCHashmap -----------------------------
(***************************************************************************)
(* Instances of Hashmap with three keys: two share a hash, and the third   *)
(* shares a bucket with them in a map of two buckets but not in one of     *)
(* three, so that growth both breaks chains and makes them.                *)
(***************************************************************************)
EXTENDS Hashmap, TLC

CONSTANTS k1, k2, k3

MCKeys == {k1, k2, k3}

MCHash == k1 :> 1 @@ k2 :> 3 @@ k3 :> 3

\* No growth, and growth by a half.
MCGrows == {2, 3}

\* Next to the default limit of three quarters, one element per bucket and one
\* so low that the new map of a rehash has to grow itself.
MCLimits == {1, 4}

MCFlags == {{}, {"key"}}

\* Values are only stored and handed out.
MCValueSymmetry == Permutations(Values)
=============================================================================
