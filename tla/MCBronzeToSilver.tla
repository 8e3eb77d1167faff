-------------------------- MODULE MCBronzeToSilver --------------------------
(* Instances of BronzeToSilver: one partition, and events of which one is   *)
(* of an area that the region file does not map.                            *)
EXTENDS BronzeToSilver

MCRecords == {"gangnam", "unmapped"}
OnePartition == {"p0"}
AllOnOne == [r \in MCRecords |-> "p0"]
MCMapped == {"gangnam"}
=============================================================================
