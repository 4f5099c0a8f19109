----------------------------- MODULE MCHAProxy -----------------------------
(***************************************************************************)
(* Requests with paths of up to three pieces: every prefix of the rules,   *)
(* repeated and mixed, the management path, and pieces no rule mentions.   *)
(***************************************************************************)
EXTENDS HAProxy

MCSegment == {"/auth", "/identity", "/optimize", "/modeler", "/console", "/connectors",
              "/orchestration", "/web-modeler", "/actuator", "/healthz", "/stats", "/v2"}

MCSuffix == {"-ws", "x"}
=============================================================================
