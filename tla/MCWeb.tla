-------------------------------- MODULE MCWeb --------------------------------
(* Two routes with two clients; one socket, with a queue in which a message *)
(* can wait for another; two filters and two timeframes.                    *)
EXTENDS Web

MCShared == {"proposal", "stakingPools"}
=============================================================================
