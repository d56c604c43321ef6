---------------------------- MODULE MCSessionLog ----------------------------
(* A ring of three records in pages of two, and sessions of up to four throws: *)
(* the ring wraps around, and the export takes several pages.                  *)
EXTENDS SessionLog
=============================================================================
