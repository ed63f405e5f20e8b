-------------------------- MODULE MCReadPassphrase -------------------------
(* Lines of up to two characters, one of which fits into the buffer, and   *)
(* up to two signals at any time.                                          *)
EXTENDS ReadPassphrase
=============================================================================
