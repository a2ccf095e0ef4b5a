--------------------------- MODULE MCFreezerTable ---------------------------
(* Values of the constants of FreezerTable for TLC.                        *)
EXTENDS FreezerTable

\* Blobs of one and of two bytes; every byte tells which blob it is from.
MCBlobs == {<<1>>, <<2, 3>>}
=============================================================================
