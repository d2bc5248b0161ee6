------------------------------- MODULE FifoStore -------------------------------
(***************************************************************************)
(* What NetCache (src/src/kml/base/net_cache.h) promises to its callers: a *)
(* store of at most MaxSize items that forgets in the order it was filled. *)
(* The order is kept as a relation, with no clock.                         *)
(***************************************************************************)
EXTENDS Naturals, FiniteSets

CONSTANTS Urls, Items, MaxSize, NULL

VARIABLES
    content,   \* the stored urls and their items, null items included
    before     \* <<u, v>>: u was stored before v

fvars == <<content, before>>

Stored == DOMAIN content

IsFirst(u) == \A v \in Stored \ {u} : <<u, v>> \in before

FInit == content = [u \in {} |-> NULL] /\ before = {}

(* Keep only the entries of S, in the order they had. *)
Keep(S) ==
    /\ content' = [u \in S |-> content[u]]
    /\ before' = before \cap (S \X S)

(* Store an item last, replacing a null item of the same url. *)
PutLast(S, u, item) ==
    /\ content' = [v \in S \cup {u} |-> IF v = u THEN item ELSE content[v]]
    /\ before' = (before \cap ((S \ {u}) \X (S \ {u})))
                    \cup {<<v, u>> : v \in S \ {u}}

Free(u) == u \in Stored => content[u] = NULL

Put(u, item) ==
    /\ Free(u)
    /\ \/ /\ Cardinality(Stored) # MaxSize \/ Stored = {}
          /\ PutLast(Stored, u, item)
       \/ /\ Cardinality(Stored) = MaxSize
          /\ \E first \in Stored : IsFirst(first) /\ PutLast(Stored \ {first}, u, item)

Forget(u) == u \in Stored /\ content[u] # NULL /\ Keep(Stored \ {u})

ForgetFirst == \E first \in Stored : IsFirst(first) /\ Keep(Stored \ {first})

FNext ==
    \/ \E u \in Urls :
         \/ Forget(u)
         \/ \E item \in Items \cup {NULL} : Put(u, item)
    \/ ForgetFirst

Spec == FInit /\ [][FNext]_fvars
=============================================================================
