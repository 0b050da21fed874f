----------------------------- MODULE StringMaps -----------------------------
(***************************************************************************)
(* What the string maps promise: each is a partial function from keys to   *)
(* values, keys being equal up to case where the map says so.  A call that *)
(* fails changes nothing, a copy takes over the way keys are compared.     *)
(***************************************************************************)
CONSTANTS Map, Class, Value

VARIABLES
    contents,   \* for each map, its function
    flags,      \* for each map, whether case is ignored
    done        \* what the last call returned

vars == <<contents, flags, done>>

\* f with x at k
With(f, k, x) == [j \in DOMAIN f \cup {k} |-> IF j = k THEN x ELSE f[j]]

Without(f, k) == [j \in DOMAIN f \ {k} |-> f[j]]

Init ==
    /\ contents = [m \in Map |-> << >>]
    /\ flags \in [Map -> BOOLEAN]
    /\ done = TRUE

Fail == done' = FALSE /\ UNCHANGED <<contents, flags>>

Put(m, k, x) ==
    /\ contents' = [contents EXCEPT ![m] = With(@, k, x)]
    /\ done' = TRUE
    /\ UNCHANGED flags

Drop(m, k) ==
    /\ contents' = [contents EXCEPT ![m] = Without(@, k)]
    /\ done' = (k \in DOMAIN contents[m])
    /\ UNCHANGED flags

Clear(m) ==
    /\ contents' = [contents EXCEPT ![m] = << >>]
    /\ done' = TRUE
    /\ UNCHANGED flags

Copy(d, s) ==
    /\ contents' = [contents EXCEPT ![d] = contents[s]]
    /\ flags' = [flags EXCEPT ![d] = flags[s]]
    /\ done' = TRUE

Swap(l, r) ==
    /\ contents' = [contents EXCEPT ![l] = contents[r], ![r] = contents[l]]
    /\ flags' = [flags EXCEPT ![l] = flags[r], ![r] = flags[l]]
    /\ done' = TRUE

Next ==
    \/ Fail
    \/ \E m \in Map :
          \/ Clear(m)
          \/ \E k \in Class : Drop(m, k) \/ \E x \in Value : Put(m, k, x)
    \/ \E l, r \in Map : Copy(l, r) \/ Swap(l, r)

Spec == Init /\ [][Next]_vars
=============================================================================
