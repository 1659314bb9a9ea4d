--------------------------- MODULE MCPosixThreads ---------------------------
(* The example programs on PosixThreads, as TLC checks them.               *)
EXTENDS ThreadOutlines

BookPrograms == DOMAIN BookCode
IobufPrograms == {"mt_iobuf_mtx"}
=============================================================================
