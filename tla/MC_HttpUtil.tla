---------------------------- MODULE MC_HttpUtil ----------------------------
(* A request with up to MaxCalls utility calls; body lengths 0..1, so that  *)
(* a body can be cut by max, overwritten at an offset and emptied.          *)
EXTENDS HttpUtil

MCLens == 0..1
=============================================================================
