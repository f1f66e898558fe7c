----------------------------- MODULE MCRecordLayout -----------------------------
(* RecordLayout over int8, int32, int64 (whose alignment in LLVM's default  *)
(* data layout is 4) and, for records in records, what those have made.     *)
EXTENDS RecordLayout

MCScalars == {<<1, 1, 1, 1>>, <<4, 4, 4, 4>>, <<8, 4, 8, 8>>}
===============================================================================
