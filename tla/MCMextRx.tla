------------------------------ MODULE MCMextRx ------------------------------
(***************************************************************************)
(* Payload bytes that are also headers (0: query response, 33: key down),  *)
(* and one that is both the encoder subsystem and a size that is accepted: *)
(* a stream cut anywhere can be misread as every kind of message.          *)
(***************************************************************************)
EXTENDS MextRx

MCPayload == {0, 5, 33}
=============================================================================
