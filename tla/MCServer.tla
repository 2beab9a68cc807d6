------------------------------- MODULE MCServer -------------------------------
(***************************************************************************)
(* Three connections and file descriptors for two of them at a time: one   *)
(* that carries several requests, one whose client may stall, and one that *)
(* only takes a place.                                                     *)
(***************************************************************************)
EXTENDS ServerProperties, TLC

CONSTANTS c1, c2, c3

MCConns == {c1, c2, c3}
MCStalled == {c3}
MCMaxRequests == c1 :> 0 @@ c2 :> 2 @@ c3 :> 1

=============================================================================
