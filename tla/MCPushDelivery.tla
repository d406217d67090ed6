--------------------------- MODULE MCPushDelivery ---------------------------
(***************************************************************************)
(* Push delivery on one browser that two users share.  The users are        *)
(* interchangeable.                                                        *)
(***************************************************************************)
EXTENDS PushDelivery, TLC

Symmetric == Permutations(Users)
=============================================================================
