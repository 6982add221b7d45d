---------------------------- MODULE MCDesktopSync ----------------------------
(* DesktopSync alone, on one path; the passing run is MCServices.            *)
EXTENDS DesktopSync, TLC

=============================================================================
