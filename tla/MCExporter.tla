----------------------------- MODULE MCExporter -----------------------------
(***************************************************************************)
(* The whole exporter for TLC, with the shortest times that keep every     *)
(* order of events.                                                        *)
(***************************************************************************)
EXTENDS Exporter
=============================================================================
