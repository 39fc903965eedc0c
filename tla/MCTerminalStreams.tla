------------------------- MODULE MCTerminalStreams -------------------------
(* A terminal's streams with one kind of loss at a time.                    *)
EXTENDS TerminalStreams

FewSlips == Cardinality(slips) <= 1
=============================================================================
