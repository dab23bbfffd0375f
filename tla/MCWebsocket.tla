----------------------------- MODULE MCWebsocket -----------------------------
(* Instances of Websocket for TLC.                                          *)
EXTENDS Websocket, TLC

(* Nothing tells one unused client from another.                            *)
Symmetry == Permutations(Client)
=============================================================================
