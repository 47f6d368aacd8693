---------------------------- MODULE MCClipboard ----------------------------
(* Two X clients that offer different targets.                             *)
EXTENDS Clipboard, TLC

CONSTANTS d1, d2, xa, xb

MCTargetsOf == (xa :> {"text", "html"}) @@ (xb :> {"text"})
=============================================================================
