--------------------------- MODULE MCSarTransport ---------------------------
(***************************************************************************)
(* Instances of SarTransport.                                              *)
(***************************************************************************)
EXTENDS SarTransport

CONSTANTS i1, i2, c1, c2, w1, w2
==============================================================================
