------------------------------ MODULE MC_CALoad ------------------------------
(* Two base64 lines tell the payloads of two blocks and their order apart. *)
EXTENDS CALoad

CONSTANTS d1, d2

MCData == {d1, d2}
==============================================================================
