--------------------------- MODULE MCBufferedSocket ---------------------------
(* A high water mark of 3 and messages of 2 and 3 bytes: a message behind  *)
(* the head can fill the queue by itself.                                  *)
EXTENDS BufferedSocket
=============================================================================
