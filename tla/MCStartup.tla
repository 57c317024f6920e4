----------------------------- MODULE MCStartup ------------------------------
(***************************************************************************)
(* Values for the constants of Startup.                                    *)
(***************************************************************************)
EXTENDS Startup

Good == [data |-> "map", infraID |-> TRUE, namespace |-> "infra"]
AllConfigMaps ==
  {Good, [Good EXCEPT !.data = "missing"], [Good EXCEPT !.data = "noKey"],
   [Good EXCEPT !.data = "notAMap"], [Good EXCEPT !.infraID = FALSE],
   [Good EXCEPT !.namespace = NoKey], [Good EXCEPT !.namespace = ""]}
=============================================================================
