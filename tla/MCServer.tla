------------------------------ MODULE MCServer ------------------------------
(* Four versions of the configuration: a node is added, another one removed, and
   then all of them.                                                            *)
EXTENDS Server
CONSTANTS a, b
Versions == <<<<a>>, <<a, b>>, <<b>>, <<>>>>
Config == [v \in 0..MaxEdits |-> Versions[v + 1]]
=============================================================================
