----------------------------- MODULE Dictionary -----------------------------
(***************************************************************************)
(* What a hash table promises: one value for each key that was put and not *)
(* deleted since, the value put last.                                      *)
(***************************************************************************)
CONSTANTS Items, Missing

VARIABLES
  map,     \* the keys present, each with its value
  reply    \* the last call and its answer

vars == <<map, reply>>

Put(item) ==
  /\ map' = [x \in DOMAIN map \cup {item.key} |->
               IF x = item.key THEN item.value ELSE map[x]]
  /\ reply' = <<"put", item.key, Missing>>

Get(k) ==
  /\ reply' = <<"get", k, IF k \in DOMAIN map THEN map[k] ELSE Missing>>
  /\ UNCHANGED map

Del(k) ==
  /\ map' = [x \in DOMAIN map \ {k} |-> map[x]]
  /\ reply' = <<"del", k, Missing>>

Init == map = <<>> /\ reply = <<"none", Missing, Missing>>

Next == \E item \in Items : Put(item) \/ Get(item.key) \/ Del(item.key)

Spec == Init /\ [][Next]_vars
=============================================================================
