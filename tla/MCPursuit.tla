------------------------------ MODULE MCPursuit -------------------------------
(* Values of Pursuit's constants for TLC.                                  *)
EXTENDS Pursuit

MaxHpValue == <<1, 2, 1>>

PlacesValue == {[x |-> 0, y |-> 1], [x |-> 4, y |-> 3]}

LineupsValue ==
  {<<"focus-casters", <<"B", "B", "B">> >>, <<"aggro-lowest-hp", <<"B", "A", "B">> >>,
   <<"protect-allies", <<"A", "A", "A">> >>}
=============================================================================
