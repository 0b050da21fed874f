------------------------------- MODULE TagMap -------------------------------
(***************************************************************************)
(* What a TLV table promises: a map from tags to values.  An operation     *)
(* does all of what it is asked, or says that it failed and changes        *)
(* nothing.                                                                *)
(***************************************************************************)
CONSTANTS
    Tag,      \* tags of entries
    Value     \* what an entry may hold

VARIABLES
    map,      \* the entries: a function on some of the tags
    answer    \* what the last call returned

tagVars == <<map, answer>>

Says(code, val) == answer' = [code |-> code, val |-> val]

TagMapInit == map = << >> /\ answer = [code |-> "done", val |-> << >>]

Put(tag, value) == /\ map' = [t \in DOMAIN map \cup {tag} |-> IF t = tag THEN value ELSE map[t]]
                   /\ Says("done", << >>)

Drop(tag) == /\ tag \in DOMAIN map
             /\ map' = [t \in DOMAIN map \ {tag} |-> map[t]]
             /\ Says("done", << >>)

Look(tag) == /\ IF tag \in DOMAIN map THEN Says("done", map[tag]) ELSE Says("none", << >>)
             /\ UNCHANGED map

Refuse == Says("failed", << >>) /\ UNCHANGED map

\* The image is parsed by another process: the same map is read back.
Reload == Says("done", << >>) /\ UNCHANGED map

TagMapNext == \/ Refuse \/ Reload
              \/ \E tag \in Tag : Look(tag) \/ Drop(tag) \/ \E x \in Value : Put(tag, x)

TagMapSpec == TagMapInit /\ [][TagMapNext]_tagVars
=============================================================================
