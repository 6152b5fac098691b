---------------------------- MODULE MCOnlineMode ----------------------------
(* One browser.  Five presses are enough for a visit, a Join pressed twice,*)
(* a Leave that races the second, and another press on top; three          *)
(* operations in flight are a poll, a Join and a Leave or Log out.         *)
EXTENDS OnlineMode
=============================================================================
