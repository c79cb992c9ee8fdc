--------------------------- MODULE MCWsSignaling ---------------------------
(***************************************************************************)
(* TLC instance of WsSignaling.  Connections are interchangeable, and so   *)
(* are the ids of WebSocket peers and the rooms: the symmetry is used for  *)
(* the safety runs only.                                                   *)
(***************************************************************************)
EXTENDS WsSignaling, TLC

Symmetry == Permutations(Conn) \cup Permutations(WsId) \cup Permutations(Room)
=============================================================================
