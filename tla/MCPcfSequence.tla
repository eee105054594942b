----------------------------- MODULE MCPcfSequence -----------------------------
(* An instance of ExchangeInSequence for TLC, with the nodes and links of  *)
(* MCPcfExchange.                                                          *)
EXTENDS MCPcfExchange, ExchangeInSequence
=============================================================================
