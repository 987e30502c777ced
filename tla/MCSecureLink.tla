---------------------------- MODULE MCSecureLink ----------------------------
(***************************************************************************)
(* Two connections: a careful client, and one whose bytes come in any      *)
(* pieces.  Two requests of three or four bytes do not fit the four-byte   *)
(* buffer together, so a request can straddle its end.                     *)
(***************************************************************************)
EXTENDS SecureLink, TLC

CONSTANTS careful, careless

LinkConns == {careful, careless}
LinkLength == careful :> 4 @@ careless :> 3
=============================================================================
