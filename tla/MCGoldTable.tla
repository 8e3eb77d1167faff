---------------------------- MODULE MCGoldTable ----------------------------
(* An instance of GoldTable by itself: see its cfg.                         *)
EXTENDS GoldTable
=============================================================================
