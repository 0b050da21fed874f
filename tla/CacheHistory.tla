---------------------------- MODULE CacheHistory ----------------------------
(***************************************************************************)
(* CoreCache with two history variables, which no step depends on.  recent *)
(* is the order of the last uses of the requests (a lookup that hit, or an *)
(* insertion): <<p, q>> \in recent says that p was used after q was last,  *)
(* or q never.  It is kept without looking at the list of the cache.       *)
(* drifted tells whether a copy that is not as large as its original was   *)
(* ever removed: until then cache->size is what the entries were charged.  *)
(***************************************************************************)
EXTENDS CoreCache

VARIABLES recent, drifted

historyVars == <<vars, recent, drifted>>

\* q is used now.
Uses(q) ==
    recent' = {use \in recent : q \notin {use[1], use[2]}}
              \cup ({q} \X (Request \ {q}))

\* What entries were charged when they were inserted, as a set to be counted.
Charges(A) ==
    UNION {{a} \X (1 .. AccountedSize(entries[a].request,
                                      ParsedSize[entries[a].response])) : a \in A}

Charged(A) == Cardinality(Charges(A))

\* The entries a step leaves as they are.
Kept == {a \in Live : a \in DOMAIN entries' /\ entries'[a] = entries[a]}

CopiedAlike(a) ==
    CopiedSize[entries[a].response] = ParsedSize[entries[a].response]

Drifts == drifted' = (drifted \/ \E a \in Live \ Kept : ~CopiedAlike(a))

HistoryInit == Init /\ recent = {} /\ drifted = FALSE

LookupUses ==
    \E q \in Request :
       \/ LookupHit(q) /\ Uses(q)
       \/ LookupMiss(q) /\ UNCHANGED recent

ReceiveUses ==
    \/ \E r \in Response :
          \/ ReceiveCached(r) /\ Uses(missed)
          \/ (ReceiveUncached(r) \/ ReceiveUnstored(r)) /\ UNCHANGED recent
    \/ ReceiveNothing /\ UNCHANGED recent

ClearUses == Clear /\ UNCHANGED recent

TickUses == Tick /\ UNCHANGED recent

HistoryNext == (LookupUses \/ ReceiveUses \/ ClearUses \/ TickUses) /\ Drifts

HistorySpec == HistoryInit /\ [][HistoryNext]_historyVars

-----------------------------------------------------------------------------
(* Properties. *)

\* The entries an insertion evicts were all used before any entry it keeps.
\* This is about the move to the head in __ndm_core_cache_get(), the insertion
\* at the head and the removal at the tail in __ndm_core_cache() together.
EvictionIsLru ==
    [][~Idle => \A a \in Live \ Kept, b \in Kept :
          <<entries[b].request, entries[a].request>> \in recent]_historyVars

\* As long as no copy of another size than its original is removed, cache->size
\* is what the entries were charged, whatever was moved, removed or not stored
\* for want of memory, and stays within MaxSize.  Even when it has wrapped below
\* zero, the loop of __ndm_core_cache() that evicts ends before the list does.
SizeIsCharged ==
    /\ ~drifted => size = Charged(Live) /\ size <= MaxSize
    /\ EvictionFindsRoom
=============================================================================
