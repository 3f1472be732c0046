--------------------------- MODULE AffinityLookup ---------------------------
(***************************************************************************)
(* KeyToQueue (internal/controllers/util.go): the map from a pod-template  *)
(* hash to the queue of nodes on which pods of that template were stopped. *)
(* A map is a function whose domain is its set of keys.  The operators are *)
(* the single accesses to the map that the methods are made of;            *)
(* PodPreprocess runs the methods one access at a time, because nothing    *)
(* locks the map.                                                          *)
(***************************************************************************)
EXTENDS Sequences, Naturals

\* The nil map of a freshly started process.
EmptyLookup == [k \in {} |-> <<>>]

IsEmpty(lookup) == DOMAIN lookup = {}

\* What indexing the map yields: the zero value (nil slice) for a missing key.
ValuesOf(lookup, key) == IF key \in DOMAIN lookup THEN lookup[key] ELSE <<>>

\* One map assignment, lookup[key] = values.
Put(lookup, key, values) ==
    [k \in DOMAIN lookup \cup {key} |-> IF k = key THEN values ELSE lookup[k]]

DeleteKey(lookup, key) == [k \in DOMAIN lookup \ {key} |-> lookup[k]]

HasFirstVal(lookup, key) == ValuesOf(lookup, key) # <<>>
=============================================================================
