--------------------------- MODULE MCSplitClient ----------------------------
(***************************************************************************)
(* SplitClient alone, with one line: enough for an ordinary session.       *)
(***************************************************************************)
EXTENDS SplitClient
=============================================================================
