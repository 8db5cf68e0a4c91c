----------------------------- MODULE MCDownload -----------------------------
(* Instances of the download for TLC.                                      *)
EXTENDS Download

\* A byte every 16 clocks: _JTFRAME_SIM_SLOWLOAD makes it 32, and
\* _JTFRAME_SIM96 sends bytes at twice the rate of a 48 MHz SDRAM.
EveryPace == {<<FALSE, 8>>, <<FALSE, 16>>, <<TRUE, 16>>, <<FALSE, 32>>}

\* A header, both banks, PROMs and an NVRAM; only the first bank; a header
\* and PROMs; no header, both banks and a PROM.  A quick download sends all
\* of a long header, and with a short one many bytes for the SDRAM.  The last
\* file is long enough for refreshes to pile up, if they could.
FilesAll == {
  [len |-> 10, header |-> 1, ba1 |-> 4, prom |-> 7, nvram |-> 9, first |-> 1],
  [len |-> 6, header |-> 0, ba1 |-> 6, prom |-> 6, nvram |-> 6, first |-> 2],
  [len |-> 4, header |-> 2, ba1 |-> 2, prom |-> 2, nvram |-> 4, first |-> 2],
  [len |-> 9, header |-> 0, ba1 |-> 7, prom |-> 8, nvram |-> 9, first |-> 6],
  [len |-> 40, header |-> 0, ba1 |-> 30, prom |-> 40, nvram |-> 40, first |-> 40]}

=============================================================================
