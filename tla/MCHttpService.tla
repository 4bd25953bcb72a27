--------------------------- MODULE MCHttpService ---------------------------
(* Small instances of HttpService.                                         *)
EXTENDS HttpService, TLC
=============================================================================
