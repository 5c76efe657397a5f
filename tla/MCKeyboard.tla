----------------------------- MODULE MCKeyboard -----------------------------
(***************************************************************************)
(* A ring of three slots, and few enough keys that every interleaving of   *)
(* presses, interrupts and getchar fits.                                   *)
(***************************************************************************)
EXTENDS Keyboard
=============================================================================
