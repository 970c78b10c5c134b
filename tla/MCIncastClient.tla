--------------------------- MODULE MCIncastClient ---------------------------
(* Over two servers, two flows from one of them before one from each, for  *)
(* which a connection may be missing.  Over one server, three requests, to *)
(* see a request that comes after one that was given up: of one flow, and  *)
(* of two, so that half of the connections may be made.                    *)
EXTENDS IncastClient

TwoServers == << <<0, 2>>, <<1, 1>> >>
ThreeRequests == << <<1>>, <<2>>, <<1>> >>
LeftBehind == << <<2>>, <<2>>, <<1>> >>
=============================================================================
