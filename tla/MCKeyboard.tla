----------------------------- MODULE MCKeyboard -----------------------------
(* Two Alt keys, Ctrl, one lock, the function key of the second console, and *)
(* the space bar.                                                            *)
EXTENDS Keyboard

SecondConsole(f) == "vt2"
=============================================================================
