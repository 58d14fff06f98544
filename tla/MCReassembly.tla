----------------------------- MODULE MCReassembly -----------------------------
(* Reassembly on a stream of seven different bytes. *)
EXTENDS ReassemblyLoop

MCSource == <<1, 2, 3, 4, 5, 6, 7>>
=============================================================================
