-------------------------------- MODULE MCHost --------------------------------
(* Two versions of the configuration with a node that has a certificate.  *)
EXTENDS Host
CONSTANTS a, b
Versions == <<<<a>>, <<b, a>>>>
Config == [v \in 0..MaxEdits |-> Versions[v + 1]]
=============================================================================
