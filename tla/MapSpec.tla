-------------------------------- MODULE MapSpec --------------------------------
(***************************************************************************)
(* What a Nur map promises its callers (globals, map values, the module    *)
(* cache): a finite partial function from interned strings to values.  A   *)
(* caller issues one request at a time; the answer is computed in one      *)
(* atomic step.  ObjMap, the open-addressing table of vm_map.c, implements  *)
(* this specification as long as nothing is deleted.                       *)
(***************************************************************************)
CONSTANTS
    Keys,       \* the interned strings used as keys
    Values,     \* the values a key may be bound to
    NoValue     \* what the out-parameter of a failed lookup is left as

VARIABLES
    contents,   \* the partial function from Keys to Values
    pending,    \* the request being served, or NoRequest
    reply       \* the answer to the last request

vars == <<contents, pending, reply>>

NoRequest == [op |-> "none"]
InsertRequests == [op : {"insert"}, key : Keys, value : Values]
LookupRequests == [op : {"lookup"}, key : Keys]
Requests == InsertRequests \cup LookupRequests

Bind(m, k, v) == [x \in DOMAIN m \cup {k} |-> IF x = k THEN v ELSE m[x]]

Init ==
    /\ contents = [k \in {} |-> NoValue]
    /\ pending = NoRequest
    /\ reply = [ok |-> FALSE, value |-> NoValue]

Ask(r) ==
    /\ pending = NoRequest
    /\ pending' = r
    /\ UNCHANGED <<contents, reply>>

\* Inserting says whether the key is new.
AnswerInsert ==
    /\ pending.op = "insert"
    /\ contents' = Bind(contents, pending.key, pending.value)
    /\ reply' = [ok |-> pending.key \notin DOMAIN contents, value |-> NoValue]
    /\ pending' = NoRequest

\* Looking up says whether the key is bound, and to what.
AnswerLookup ==
    /\ pending.op = "lookup"
    /\ reply' = IF pending.key \in DOMAIN contents
                THEN [ok |-> TRUE, value |-> contents[pending.key]]
                ELSE [ok |-> FALSE, value |-> NoValue]
    /\ pending' = NoRequest
    /\ UNCHANGED contents

Next ==
    \/ \E r \in Requests : Ask(r)
    \/ AnswerInsert
    \/ AnswerLookup

Spec == Init /\ [][Next]_vars
================================================================================
