----------------------------- MODULE MCTlsRecv -----------------------------
(* Sizes for the runs of TlsRecv, in cells: a record is a header, a body   *)
(* that ends within a chunk and a stride, and a tag in the granule of the  *)
(* body's end.  min_recv lacks the header and the type byte.               *)
EXTENDS TlsRecv

MinRecvOfServer == RecordLength - 1
=============================================================================
