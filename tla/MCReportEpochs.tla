--------------------------- MODULE MCReportEpochs ---------------------------
(***************************************************************************)
(* Small instances of ReportEpochs.                                        *)
(***************************************************************************)
EXTENDS ReportEpochs
=============================================================================
