----------------------------- MODULE MCKeyboard -----------------------------
(* Keyboard for TLC: two keys, of which 1 is the space of the default       *)
(* script, and a DINO_KEYS script of two different keys.                   *)
EXTENDS Keyboard

MCScript == <<2, 1>>
=============================================================================
