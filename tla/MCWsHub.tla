------------------------------- MODULE MCWsHub -------------------------------
(* WsHub for TLC: the subscriptions of the router under the hub.           *)
EXTENDS WsHub

ConnectionStream == Conn \X Streams
================================================================================
