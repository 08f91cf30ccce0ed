------------------------------ MODULE MCWhisper ------------------------------
EXTENDS Whisper

CONSTANTS alice, bob

(* Alice writes to Bob; both run the whole extension. *)
MCAgents == {alice, bob}
MCRoutes == {<<alice, bob>>}
=============================================================================
