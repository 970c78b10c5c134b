-------------------------- MODULE MCTrafficClient --------------------------
(* Three requests over two servers, two of them to the first.              *)
EXTENDS TrafficClient

MCReqServer == <<1, 1, 2>>
=============================================================================
