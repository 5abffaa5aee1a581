------------------------------- MODULE UEMaps -------------------------------
(***************************************************************************)
(* The maps every component keeps: std::unordered_map in memory, and the   *)
(* tables of the SONiC databases.  A map is a function whose domain is the *)
(* set of keys present.                                                    *)
(***************************************************************************)
EXTENDS Functions

EmptyMap == [k \in {} |-> {}]

\* m[k] = v, or db->set(k, v): insert or overwrite.
Put(m, k, v) == [x \in DOMAIN m \cup {k} |-> IF x = k THEN v ELSE m[x]]

\* One Put for every key of n.
PutAll(m, n) ==
  [x \in DOMAIN m \cup DOMAIN n |-> IF x \in DOMAIN n THEN n[x] ELSE m[x]]

\* m.erase(k), or db->del(k), for every k in keys, present or not.
Without(m, keys) == Restrict(m, DOMAIN m \ keys)

\* m maps keys in K to values in V.
IsMap(m, K, V) == DOMAIN m \subseteq K /\ m \in [DOMAIN m -> V]
=============================================================================
