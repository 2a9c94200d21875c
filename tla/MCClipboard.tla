----------------------------- MODULE MCClipboard -----------------------------
(* An instance of Clipboard for TLC. *)
EXTENDS Clipboard, TLC
=============================================================================
