----------------------------- MODULE BoundStackMap -----------------------------
(***************************************************************************)
(* BoundStackMap (lib/bstackmap.go): a map that holds the last Capacity    *)
(* keys pushed.  Every operation holds its lock and is one step.  The      *)
(* current capacity cc is the length of the ordered keys.                  *)
(***************************************************************************)
EXTENDS Integers, Sequences

CONSTANT Capacity           \* JOB_CACHE_SIZE for the jobs of a pool

ASSUME CapacityAssumption == Capacity \in Nat \ {0}

NewMap == [orderedKeys |-> <<>>, dataMap |-> <<>>]

Keys(bs) == DOMAIN bs.dataMap

Full(bs) == Len(bs.orderedKeys) = Capacity

Kept(bs) == IF Full(bs) THEN Tail(bs.orderedKeys) ELSE bs.orderedKeys

Left(bs) == IF Full(bs) THEN Keys(bs) \ {Head(bs.orderedKeys)} ELSE Keys(bs)

\* mutant: the oldest key is deleted after the new one was stored
PushThenDelete(bs, key, item) ==
    [orderedKeys |-> Append(Kept(bs), key),
     dataMap |-> [k \in IF Full(bs) THEN (Keys(bs) \cup {key}) \ {Head(bs.orderedKeys)}
                                    ELSE Keys(bs) \cup {key}
                    |-> IF k = key THEN item ELSE bs.dataMap[k]]]

\* a key pushed again is ordered twice
Push(bs, key, item) ==
    [orderedKeys |-> Append(Kept(bs), key),
     dataMap |-> [k \in Left(bs) \cup {key} |-> IF k = key THEN item ELSE bs.dataMap[k]]]

\* Range with a function that writes to every record
Updated(bs, F(_)) == [bs EXCEPT !.dataMap = [k \in Keys(bs) |-> F(bs.dataMap[k])]]

================================================================================
