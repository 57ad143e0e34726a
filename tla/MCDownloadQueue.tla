-------------------------- MODULE MCDownloadQueue --------------------------
(***************************************************************************)
(* Small instances of DownloadQueue: two or three downloads, one canceller.*)
(***************************************************************************)
EXTENDS DownloadQueue

CONSTANTS a, b, d, c
=============================================================================
