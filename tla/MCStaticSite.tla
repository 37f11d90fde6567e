---------------------------- MODULE MCStaticSite ----------------------------
(* Instances of StaticSite for TLC.                                        *)
EXTENDS StaticSite

CONSTANTS j1, j2, shaX, shaY

=============================================================================
