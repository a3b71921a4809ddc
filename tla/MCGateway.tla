----------------------------- MODULE MCGateway -----------------------------
(* Instances of Gateway for TLC: the calls that clients send and the grants   *)
(* they send them under.                                                      *)
EXTENDS Gateway, TLC

CONSTANTS c1, c2, i1, h1, h2

Write == [cap |-> c1, kind |-> "write", id |-> i1, hash |-> h1]
Read == [cap |-> c1, kind |-> "read", id |-> NoId, hash |-> h1]
Catalog == [cap |-> c1, kind |-> "catalog", id |-> NoId, hash |-> h1]
Other == [cap |-> c2, kind |-> "write", id |-> i1, hash |-> h1]
Changed == [cap |-> c2, kind |-> "write", id |-> i1, hash |-> h2]

OneRead == {Read}
WriteRead == {Write, Read}
Mixed == {Write, Read, Catalog, Other, Changed}

Uncapped == [c \in Caps |-> 0]
FirstCappedAtOne == [c \in Caps |-> IF c = c1 THEN 1 ELSE 0]
OneAMinute == [c \in Caps |-> 1]
Plenty == [c \in Caps |-> Cardinality(Attempts)]
NoGate == [c \in Caps |-> {}]
AllGate == [c \in Caps |-> {"read", "write"}]

(* The run on files asks nothing about what was doomed or cut, two histories  *)
(* that no action reads.                                                      *)
FilesView ==
    <<lifecycle, calls, memory, vaultOpen, approvals, files, charged, authorized, sent, applied>>

Symmetric == Permutations(Attempts)
=============================================================================
