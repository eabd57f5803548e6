------------------------- MODULE MCAccountConnections -------------------------
(* Instances of AccountConnections: tabs are interchangeable. *)
EXTENDS AccountConnections, TLC

TabSymmetry == Permutations(Tabs)

\* Nothing is promised once a race has disowned a connection: not continued.
Undisowned == races = {}

===============================================================================
