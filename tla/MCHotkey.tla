------------------------------ MODULE MCHotkey ------------------------------
(***************************************************************************)
(* An instance of Hotkey for TLC: two combinations, one of them under two  *)
(* spellings, and a shortcut parse rejects.                                *)
(***************************************************************************)
EXTENDS Hotkey

TextsMC == {<<"ctrl", "f8">>, <<"f8", "control">>, <<"win", "a">>, <<"ctrl", "mouse4">>}
=============================================================================
