----------------------------- MODULE MCAgentWire ------------------------------
(* Values of AgentWire's constants for TLC.                                *)
EXTENDS AgentWire

CatalogValue == <<"bash", "cleave">>
TeamValue == [u \in 0 .. 3 |-> IF u < 2 THEN "A" ELSE "B"]
MaxHpValue == [u \in 0 .. 3 |-> IF u = 3 THEN 2 ELSE 1]
PlacesValue == {[x |-> 0, y |-> 1], [x |-> 2, y |-> 0]}
\* One of the two skills, not the first of the catalog; one skill twice.
EquippedValue == <<"cleave">>
TwiceValue == <<"cleave", "cleave">>
=============================================================================
