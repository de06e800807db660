------------------------------ MODULE MCHashMap ------------------------------
\* Instances of HashMap.  With tables of 8, 16 and 32 slots and chains of two,
\* w and x never part, x and y part at 32, and z stands in their way.
EXTENDS HashMap

CONSTANTS w, x, y, z, v1, v2

ThreeKeys == {x, y, z}
FourKeys  == {w, x, y, z}
Values    == {v1, v2}
HashOfKey == [k \in Key |-> CASE k = w -> 38 [] k = x -> 6 [] k = y -> 22
                             [] k = z -> 7]
==============================================================================
