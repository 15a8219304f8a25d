--------------------------- MODULE DeliverySensorMC ---------------------------
(* DeliverySensor in ticks of half a minute, polls that take up to two of  *)
(* them, and estimates around each boundary: soon to be past, between the  *)
(* three and four minutes, and just beyond the six hours.                  *)
EXTENDS DeliverySensor
=============================================================================
