------------------------------ MODULE MCFileCopy ------------------------------
(* FileCopy for small files: a source shorter than, as long as and longer   *)
(* than the number of threads and the block size.                          *)
EXTENDS FileCopy

Sizes == {0, 1, 3, 5}
=============================================================================
