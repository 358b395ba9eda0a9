---------------------------- MODULE MCHttpClient ----------------------------
(* Instances of HttpClient for TLC. *)
EXTENDS HttpClient, TLC

CONSTANTS json, raw  \* a call of request(), one of requestRaw()
=============================================================================
