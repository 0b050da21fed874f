----------------------------- MODULE CoreCache ------------------------------
(***************************************************************************)
(* The response cache of a core connection (struct ndm_core_cache_t in     *)
(* src/core.c): responses keyed by the serialized request, a time to live, *)
(* a bound on the accounted size, and eviction of the least recently used  *)
(* entry.  One action is one call of a cache function, with the lookup and *)
(* the insertion that __ndm_core_do_request() makes around one exchange.   *)
(*                                                                         *)
(* The doubly linked list of entries is its set of entry addresses and the *)
(* order of the list: <<a, b>> \in newer says that a stands nearer to the  *)
(* head than b.  A response is the value the core sent; its two sizes are  *)
(* constants, because __ndm_core_response_size() measures the dynamic      *)
(* blocks of the document's pool, and the document that was read and its   *)
(* copy in the cache do not allocate alike (a copy stores empty strings    *)
(* and shared values of its own).                                          *)
(***************************************************************************)
EXTENDS Integers, FiniteSets

CONSTANTS
    Request,        \* serialized requests: the keys
    Response,       \* what the core may answer
    Continued,      \* the responses with a "continued" node, never cached
    RequestSize,    \* request_size of each request
    ParsedSize,     \* size of each response as read from the socket
    CopiedSize,     \* size of the copy of each response kept in an entry
    EntrySize,      \* sizeof(struct ndm_core_cache_entry_t)
    SizeRange,      \* size_t counts modulo SizeRange
    MaxSize,        \* max_size
    Ttl,            \* ttl_msec
    TimeMax,        \* ndm_time_get_max()
    Addr,           \* addresses malloc() may return for an entry
    NoRequest,      \* no lookup waits for its exchange
    NoAnswer        \* the call returned NULL

ASSUME SizeAssumption ==
    /\ RequestSize \in [Request -> Nat]
    /\ ParsedSize \in [Response -> Nat]
    /\ CopiedSize \in [Response -> Nat]
    /\ EntrySize \in Nat \ {0}
    /\ SizeRange \in Nat
    /\ MaxSize \in 0 .. SizeRange - 1

ASSUME TimeAssumption == Ttl \in Int /\ TimeMax \in Int

ASSUME ValueAssumption ==
    /\ Continued \subseteq Response
    /\ NoRequest \notin Request
    /\ NoAnswer \notin [request : Request, response : Response,
                        cached : BOOLEAN]

VARIABLES
    now,              \* the monotonic clock
    entries,          \* what each entry address holds
    newer,            \* the order of the list
    size,             \* cache->size
    nextExpiration,   \* cache->next_expiration_time
    missed,           \* the request whose exchange is under way
    answer            \* what the last call of the connection returned

cacheVars == <<entries, newer, size, nextExpiration>>
vars == <<now, cacheVars, missed, answer>>

Entry == [request : Request, response : Response, expires : Int]
Answer == [request : Request, response : Response, cached : BOOLEAN]

-----------------------------------------------------------------------------
(* The list. *)

Live == DOMAIN entries

Older(a) == {b \in Live : <<a, b>> \in newer}

Newer(a) == {b \in Live : <<b, a>> \in newer}

\* ndm_dlist_insert_after(&cache->entries, a), the entries of A being the
\* others that stay in the list.
AtHead(a, A) == (newer \cap (A \X A)) \cup ({a} \X A)

\* The fields of the entries in A, the other ones being freed.
Keep(A) == [a \in A |-> entries[a]]

\* ndm_time_less(&e->expiration_time, &now)
Expired(a) == entries[a].expires < now

-----------------------------------------------------------------------------
(* Sizes. *)

\* __ndm_core_cache_entry_size() of a request and a response of the given size.
AccountedSize(request, responseSize) ==
    RequestSize[request] + EntrySize + responseSize

\* Mutant of RemovedSize: the request is charged and never given back.
RemovedSizeOfResponse(e) == EntrySize + CopiedSize[e.response]

\* What __ndm_core_cache_entry_remove() subtracts: it measures the copy.
RemovedSize(e) == AccountedSize(e.request, CopiedSize[e.response])

\* The sum of RemovedSize over the entries at the addresses in A.
Bytes(A) == UNION {{a} \X (1 .. RemovedSize(entries[a])) : a \in A}

SizeWithout(A) == (size - Cardinality(Bytes(A))) % SizeRange

\* cache->max_size - cache->size once the entries in A are removed
RoomWithout(A) == (MaxSize - SizeWithout(A)) % SizeRange

\* The entries the loop of __ndm_core_cache() removes: from the tail on, as
\* long as there is less room than needed.
Evicted(need) ==
    {a \in Live : \A b \in Older(a) \cup {a} : RoomWithout(Older(b)) < need}

-----------------------------------------------------------------------------
(* __ndm_core_cache_get() *)

Idle == missed = NoRequest

\* Mutant of Matches: request_size is compared, the bytes are not.
MatchesBySize(request) ==
    {a \in Live : /\ RequestSize[entries[a].request] = RequestSize[request]
                  /\ ~Expired(a)}

\* The entries a lookup of the request may stop at.
Matches(request) ==
    {a \in Live : entries[a].request = request /\ ~Expired(a)}

\* Mutant of LookupHit: the entry found stays where it is in the list.
LookupHitInPlace(request) ==
    /\ Idle
    /\ \E e \in Matches(request) :
          LET kept == Live \ {a \in Newer(e) : Expired(a)} IN
          /\ Newer(e) \cap Matches(request) = {}
          /\ entries' = Keep(kept)
          /\ newer' = newer \cap (kept \X kept)
          /\ size' = SizeWithout(Live \ kept)
          /\ answer' = [request |-> request,
                        response |-> entries[e].response, cached |-> TRUE]
    /\ UNCHANGED <<now, nextExpiration, missed>>

\* A hit: the first match from the head moves to the head, the expired entries
\* in front of it are freed.  The answer is the entry's response or a copy of
\* it; when that copy cannot be allocated the call fails.
LookupHit(request) ==
    /\ Idle
    /\ \E e \in Matches(request) :
          LET kept == Live \ {a \in Newer(e) : Expired(a)} IN
          /\ Newer(e) \cap Matches(request) = {}
          /\ entries' = Keep(kept)
          /\ newer' = AtHead(e, kept \ {e})
          /\ size' = SizeWithout(Live \ kept)
          /\ answer' \in {[request |-> request,
                           response |-> entries[e].response,
                           cached |-> TRUE], NoAnswer}
    /\ UNCHANGED <<now, nextExpiration, missed>>

\* Mutant of LookupMiss: expired entries are skipped, not freed.
LookupMissSkipping(request) ==
    /\ Idle
    /\ Matches(request) = {}
    /\ missed' = request
    /\ UNCHANGED <<now, cacheVars, answer>>

\* A miss: the whole list was scanned, every expired entry is freed, and the
\* request goes to the core.
LookupMiss(request) ==
    /\ Idle
    /\ Matches(request) = {}
    /\ LET kept == {a \in Live : ~Expired(a)} IN
          /\ entries' = Keep(kept)
          /\ newer' = newer \cap (kept \X kept)
          /\ size' = SizeWithout(Live \ kept)
    /\ missed' = request
    /\ UNCHANGED <<now, nextExpiration, answer>>

-----------------------------------------------------------------------------
(* The end of the exchange that follows a miss. *)

Fresh(response) == [request |-> missed, response |-> response, cached |-> FALSE]

Need(response) == AccountedSize(missed, ParsedSize[response])

Cacheable(response) == response \notin Continued /\ Need(response) <= MaxSize

\* A response that is continued or larger than the whole cache.
ReceiveUncached(response) ==
    /\ ~Idle
    /\ ~Cacheable(response)
    /\ answer' = Fresh(response)
    /\ missed' = NoRequest
    /\ UNCHANGED <<now, cacheVars>>

\* Mutant of ReceiveCached: next_expiration_time is set at every insertion.
ReceiveCachedResetting(response) ==
    /\ ~Idle
    /\ Cacheable(response)
    /\ LET kept == Live \ Evicted(Need(response)) IN
       \E a \in Addr \ kept :
          LET e == [request |-> missed, response |-> response,
                    expires |-> now + Ttl] IN
          /\ entries' = [b \in kept \cup {a} |->
                            IF b = a THEN e ELSE entries[b]]
          /\ newer' = AtHead(a, kept)
          /\ size' = (SizeWithout(Live \ kept) + Need(response)) % SizeRange
          /\ nextExpiration' = e.expires
    /\ answer' = Fresh(response)
    /\ missed' = NoRequest
    /\ UNCHANGED now

\* __ndm_core_cache(): make room, then insert a copy at the head.
ReceiveCached(response) ==
    /\ ~Idle
    /\ Cacheable(response)
    /\ LET kept == Live \ Evicted(Need(response)) IN
       \E a \in Addr \ kept :
          LET e == [request |-> missed, response |-> response,
                    expires |-> now + Ttl] IN
          /\ entries' = [b \in kept \cup {a} |->
                            IF b = a THEN e ELSE entries[b]]
          /\ newer' = AtHead(a, kept)
          /\ size' = (SizeWithout(Live \ kept) + Need(response)) % SizeRange
          /\ nextExpiration' = IF kept = {} THEN e.expires ELSE nextExpiration
    /\ answer' = Fresh(response)
    /\ missed' = NoRequest
    /\ UNCHANGED now

\* The same when malloc() fails for the entry or for the copy of the response:
\* what was evicted to make room stays evicted.
ReceiveUnstored(response) ==
    /\ ~Idle
    /\ Cacheable(response)
    /\ LET kept == Live \ Evicted(Need(response)) IN
          /\ entries' = Keep(kept)
          /\ newer' = newer \cap (kept \X kept)
          /\ size' = SizeWithout(Live \ kept)
    /\ answer' = Fresh(response)
    /\ missed' = NoRequest
    /\ UNCHANGED <<now, nextExpiration>>

\* The exchange failed: no response.
ReceiveNothing ==
    /\ ~Idle
    /\ answer' = NoAnswer
    /\ missed' = NoRequest
    /\ UNCHANGED <<now, cacheVars>>

-----------------------------------------------------------------------------
(* ndm_core_cache_clear() *)

ClearAll ==
    /\ Idle
    /\ entries' = Keep({})
    /\ newer' = {}
    /\ size' = SizeWithout(Live)
    /\ nextExpiration' = TimeMax
    /\ UNCHANGED <<now, missed, answer>>

\* clear(false) looks at the list only when next_expiration_time has passed.
ClearExpired ==
    /\ Idle
    /\ IF nextExpiration < now
       THEN LET kept == {a \in Live : ~Expired(a)}
                times == {TimeMax} \cup {entries[a].expires : a \in kept} IN
            /\ entries' = Keep(kept)
            /\ newer' = newer \cap (kept \X kept)
            /\ size' = SizeWithout(Live \ kept)
            /\ nextExpiration' \in {t \in times : \A u \in times : t <= u}
       ELSE UNCHANGED cacheVars
    /\ UNCHANGED <<now, missed, answer>>

Tick == now' = now + 1 /\ UNCHANGED <<cacheVars, missed, answer>>

-----------------------------------------------------------------------------
\* __ndm_core_cache_init()
Init ==
    /\ now = 0
    /\ entries = << >>
    /\ newer = {}
    /\ size = 0
    /\ nextExpiration = TimeMax
    /\ missed = NoRequest
    /\ answer = NoAnswer

Lookup == \E q \in Request : LookupHit(q) \/ LookupMiss(q)

Receive ==
    \/ \E r \in Response :
          ReceiveUncached(r) \/ ReceiveCached(r) \/ ReceiveUnstored(r)
    \/ ReceiveNothing

Clear == ClearAll \/ ClearExpired

Next == Lookup \/ Receive \/ Clear \/ Tick

Spec == Init /\ [][Next]_vars

-----------------------------------------------------------------------------
(* Properties. *)

TypeOK ==
    /\ now \in Int
    /\ Live \subseteq Addr /\ IsFiniteSet(Live)
    /\ entries \in [Live -> Entry]
    /\ newer \subseteq Live \X Live
    /\ size \in Int
    /\ nextExpiration \in Int
    /\ missed \in Request \cup {NoRequest}
    /\ answer \in Answer \cup {NoAnswer}

\* newer is a strict total order of the entries: the links of the list form
\* one chain through all of them, whatever was moved or removed.
ListOrder ==
    /\ \A a \in Live : <<a, a>> \notin newer
    /\ \A a, b \in Live : a # b => <<a, b>> \in newer \/ <<b, a>> \in newer
    /\ \A a, b, c \in Live :
          <<a, b>> \in newer /\ <<b, c>> \in newer => <<a, c>> \in newer

\* No request has two entries, although __ndm_core_cache() does not look for
\* one it would duplicate: it relies on being called after a miss only.
KeysUnique ==
    \A a, b \in Live : entries[a].request = entries[b].request => a = b

\* next_expiration_time is never later than the expiration of an entry.  It is
\* what entitles ndm_core_cache_clear(core, false) to skip the list and still leave no
\* expired entry, although neither a removal nor an insertion into a non-empty
\* list updates it.
NextExpirationIsBound ==
    \A a \in Live : nextExpiration <= entries[a].expires

\* The accounted size is what the removal of every entry would subtract.
SizeIsAccounted == size = Cardinality(Bytes(Live))

\* The memory of the entries stays within the size given to ndm_core_open().
CacheWithinMaxSize == Cardinality(Bytes(Live)) <= MaxSize

\* The eviction loop never runs out of entries: emptying the list makes room
\* for any response that passed the max_size test, so the loop never takes the
\* list's own sentinel for an entry.
EvictionFindsRoom ==
    \A r \in Response : ~Idle /\ Cacheable(r) => RoomWithout(Live) >= Need(r)

-----------------------------------------------------------------------------
(* What the cache promises: see ResponseCache. *)

\* the answers remembered in the entries es, the list and the sizes left out
KnownIn(es) ==
    [q \in {es[a].request : a \in DOMAIN es} |->
        LET a == CHOOSE b \in DOMAIN es : es[b].request = q IN
        [response |-> es[a].response, expires |-> es[a].expires]]

Promise == INSTANCE ResponseCache WITH known <- KnownIn(entries)

\* A response served from the cache is the last one the core gave to that very
\* request and has not expired; the core is asked only for want of such a one.
PromiseKept == Promise!Spec
=============================================================================
