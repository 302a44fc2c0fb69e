--------------------------- MODULE MCMeshNetwork ---------------------------
(* Instances of MeshNetwork for TLC: two gRPC handlers that share          *)
(* grpc_service::_tx_frame, and the serial thread with its own _frame.     *)
EXTENDS MeshNetwork

CONSTANTS g1, g2, s, grpcFrame, serialFrame

MCBufferOf == [c \in Callers |-> IF c = s THEN serialFrame ELSE grpcFrame]
=============================================================================
