--------------------------- MODULE MCEnclavePages ---------------------------
(* EnclavePages on small tables; u1 is a page of untrusted memory.          *)
EXTENDS EnclavePages
CONSTANT u1
=============================================================================
