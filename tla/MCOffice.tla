-------------------------------- MODULE MCOffice --------------------------------
(* Two operators, two machines, one street in the first of two sectors.    *)
EXTENDS Office

CONSTANTS s1, s2

FirstSector(r) == s1
=============================================================================
