------------------------------- MODULE MCQueue -------------------------------
(***************************************************************************)
(* The analysis queue alone, for TLC: an application thread and a filter   *)
(* thread as producers, two packets besides those of the constructor, one  *)
(* of which the analyzers refuse.                                          *)
(***************************************************************************)
EXTENDS QueueProtocol

MCThread == {"app", "filter"}
MCRefused == {"q"}
MCPacket == {"frame", "scene", "p", "q"}
=============================================================================
