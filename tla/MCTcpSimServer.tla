--------------------------- MODULE MCTcpSimServer ---------------------------
(* Model checking of TcpSimServer.                                          *)
EXTENDS TcpSimServer
=============================================================================
