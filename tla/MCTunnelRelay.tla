--------------------------- MODULE MCTunnelRelay ---------------------------
(* Checking TunnelRelay.                                                   *)
EXTENDS TunnelRelay

\* The local service sends up to two chunks, the public user one.
MCMaxChunks == [e \in Ends |-> IF e = "client" THEN 2 ELSE 1]
=============================================================================
