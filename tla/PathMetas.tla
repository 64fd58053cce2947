------------------------------- MODULE PathMetas -------------------------------
(* The metas of paths (storage/path_meta.go): a password for a place, and maybe  *)
(* for those below, with a cache of the places that were asked for.  A call goes *)
(* from the cache to the table and back to the cache, or changes the table and   *)
(* then removes the item; those of concurrent calls interleave.                  *)
EXTENDS Naturals, Sequences, FiniteSets, SequencesExt

CONSTANTS
  MetaPlaces,   \* paths, as sequences of names, with their parents
  MetaCalls     \* requests

ASSUME MetasAssumption == \A p \in MetaPlaces : Len(p) \in Nat

VARIABLES
  metas,    \* what a place has: "none", "self", or "below" for those below it too
  metaSeen, \* the cache: what was read of a place, or "unread"
  metaOld,  \* the places whose item in the cache has expired
  metaCall, \* the calls
  metaRaced \* history: places changed between the read and the caching of another call

metaVars == <<metas, metaSeen, metaOld, metaCall, metaRaced>>

MetaValues == {"none", "self", "below"}
Above(p) == {q \in MetaPlaces : IsPrefix(q, p)}   \* PathParentTree
\* got: what was found, in the cache and then in the table; calm: history, the cache was
\* right of the places on the way and none of them has changed since.
MetaCall(step, p, got, missed, calm) == [step |-> step, path |-> p, got |-> got, missed |-> missed, calm |-> calm]
NoGot == [q \in MetaPlaces |-> "none"]
NoMetaCall == MetaCall("idle", <<>>, NoGot, {}, FALSE)

MetasInit ==
  /\ metas = [p \in MetaPlaces |-> "none"] /\ metaSeen = [p \in MetaPlaces |-> "unread"] /\ metaOld = {}
  /\ metaCall = [c \in MetaCalls |-> NoMetaCall] /\ metaRaced = {}

Changing(q) == \E c \in MetaCalls : metaCall[c].step = "evict" /\ metaCall[c].path = q
\* A call that has read q in the table is to cache what it read.
Fills(q) == {c \in MetaCalls : metaCall[c].step = "fill" /\ q \in metaCall[c].missed}
StillRaced(gone) == metaRaced' = {q \in metaRaced : q \notin gone \/ Fills(q) # {}}

\* getCached for the places on the way.  KVCache.Get removes an expired item, and answers
\* that there is one, which holds nothing: "hidden".
LookUp(c, p) ==
  LET missed == {q \in Above(p) : metaSeen[q] = "unread"}
      got == [q \in MetaPlaces |-> IF q \notin Above(p) \ missed THEN "none"
                                   ELSE IF q \in metaOld THEN "hidden" ELSE metaSeen[q]]
      calm == \A q \in Above(p) : q \notin metaRaced /\ ~Changing(q)
  IN  /\ metaCall[c].step = "idle"
      /\ metaCall' = [metaCall EXCEPT ![c] = MetaCall(IF missed = {} THEN "fill" ELSE "read", p, got, missed, calm)]
      /\ metaSeen' = [q \in MetaPlaces |-> IF q \in Above(p) \cap metaOld THEN "unread" ELSE metaSeen[q]]
      /\ metaOld' = metaOld \ Above(p) /\ StillRaced(Above(p) \cap metaOld) /\ UNCHANGED metas

\* Gets reads what was not cached, or cannot.
ReadMetas(c) ==
  /\ metaCall[c].step = "read"
  /\ \/ metaCall' = [metaCall EXCEPT ![c].step = "fill",
                        ![c].got = [q \in MetaPlaces |-> IF q \in metaCall[c].missed THEN metas[q] ELSE @[q]]]
     \/ metaCall' = [metaCall EXCEPT ![c] = NoMetaCall]
  /\ UNCHANGED <<metas, metaSeen, metaOld, metaRaced>>

\* It caches what it read, what is not there too, and answers.
FillMetas(c) ==
  LET m == metaCall[c] IN
  /\ m.step = "fill"
  /\ metaSeen' = [q \in MetaPlaces |-> IF q \in m.missed THEN m.got[q] ELSE metaSeen[q]]
  /\ metaOld' = metaOld \ m.missed
  /\ metaCall' = [metaCall EXCEPT ![c] = NoMetaCall] /\ UNCHANGED <<metas, metaRaced>>

\* The first that applies, which is the deepest when all of Gets was cached, and the
\* shortest when one had to be read, for then the result is sorted.
Applies(p, q, v) == v = "below" \/ (v = "self" /\ p = q)
GetMerged(m) ==
  LET there == {q \in Above(m.path) : Applies(m.path, q, m.got[q])}
  IN  IF m.missed # {} THEN {q \in there : \A r \in there : Len(q) <= Len(r)}
      ELSE {q \in there : \A r \in there : Len(r) <= Len(q)}

\* The transaction of Set and Delete; one that fails changes nothing.
SetMeta(c, p, v) ==
  /\ metaCall[c].step = "idle" /\ metas[p] # v
  /\ metas' = [metas EXCEPT ![p] = v]
  /\ metaRaced' = IF Fills(p) = {} THEN metaRaced ELSE metaRaced \cup {p}
  /\ metaCall' = [d \in MetaCalls |-> IF d = c THEN MetaCall("evict", p, NoGot, {}, FALSE)
                                      ELSE [metaCall[d] EXCEPT !.calm = @ /\ p \notin Above(metaCall[d].path)]]
  /\ UNCHANGED <<metaSeen, metaOld>>

\* Mutant: the item stays for its two hours.
KeepItem(c) ==
  /\ metaCall[c].step = "evict"
  /\ metaCall' = [metaCall EXCEPT ![c] = NoMetaCall] /\ UNCHANGED <<metas, metaSeen, metaOld, metaRaced>>

\* cache.Remove, after the transaction.
RemoveItem(c) ==
  LET p == metaCall[c].path IN
  /\ metaCall[c].step = "evict"
  /\ metaCall' = [metaCall EXCEPT ![c] = NoMetaCall]
  /\ metaSeen' = [q \in MetaPlaces |-> IF q = p THEN "unread" ELSE metaSeen[q]]
  /\ metaOld' = metaOld \ {p} /\ StillRaced({p}) /\ UNCHANGED metas

\* Two hours pass.
AgeMeta(p) ==
  /\ metaSeen[p] # "unread" /\ p \notin metaOld /\ metaOld' = metaOld \cup {p}
  /\ UNCHANGED <<metas, metaSeen, metaCall, metaRaced>>
\* KVCache.evict, each hour.
EvictMetas ==
  /\ metaOld # {} /\ metaOld' = {} /\ StillRaced(metaOld)
  /\ metaSeen' = [q \in MetaPlaces |-> IF q \in metaOld THEN "unread" ELSE metaSeen[q]] /\ UNCHANGED <<metas, metaCall>>

MetasNext ==
  \/ EvictMetas
  \/ \E p \in MetaPlaces : AgeMeta(p)
  \/ \E c \in MetaCalls : ReadMetas(c) \/ FillMetas(c) \/ RemoveItem(c)
  \/ \E c \in MetaCalls, p \in MetaPlaces : LookUp(c, p) \/ \E v \in MetaValues : SetMeta(c, p, v)

MetasSpec == MetasInit /\ [][MetasNext]_metaVars
-----------------------------------------------------------------------------
\* An item of the cache is what the table has, but while a change has still to remove it,
\* and after a change that came between another call's read and its caching.
ItemsAreTable == \A q \in MetaPlaces : metaSeen[q] \in {"unread", metas[q]} \/ q \in metaRaced \/ Changing(q)

InTable(p) == {q \in Above(p) : Applies(p, q, metas[q])}
Answered(m) == m.step = "fill" /\ m.calm

\* What is merged of a path is what the table has for it, whatever was cached and whatever
\* calls crossed before, if nothing on the way changes in the meantime; unless two places
\* on the way both have something: which of them is taken then depends on the cache.  An
\* item that has expired hides what its place has, for one request.
MergedIsTable ==
  \A c \in MetaCalls : LET m == metaCall[c] IN
    /\ Answered(m) /\ \A q \in Above(m.path) : m.got[q] # "hidden"
    /\ \A q, r \in InTable(m.path) : q = r
    => GetMerged(m) = InTable(m.path)

MergedIsSettled == ItemsAreTable /\ MergedIsTable

\* "List checks if the path has a password set and validates it"
\* (drive/path_meta_wrapper.go:42): whoever lists a place below a password is asked for one.
PasswordIsAsked ==
  \A c \in MetaCalls : LET m == metaCall[c] IN Answered(m) /\ InTable(m.path) # {} => GetMerged(m) # {}
=============================================================================
