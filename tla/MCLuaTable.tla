----------------------------- MODULE MCLuaTable ------------------------------
EXTENDS LuaTable

CONSTANTS a, o                 \* a string and an object

\* hashnum with 16 bit ints (the sum of the words of the double n + 1)
MCNumbers == {1, 2, 4, 5}
MCHash == [k \in Keys |-> CASE k = 1 -> 16384 [] k = 2 -> 16392
                            [] k = 4 -> 16404 [] k = 5 -> 16408
                            [] k = a -> 3 [] k = o -> 2]
=============================================================================
