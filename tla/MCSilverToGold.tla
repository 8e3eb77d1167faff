-------------------------- MODULE MCSilverToGold --------------------------
(* Instances of SilverToGold: windows of two minutes, a watermark one      *)
(* minute behind.  Two areas share a district.                             *)
EXTENDS SilverToGold

Row(area, time) == [area |-> area, time |-> time]

(* A window with two rows, and a row that closes it.                       *)
MCRows == {Row("gangnam", 0), Row("yeoksam", 1), Row("gangnam", 3)}
MCDistrictOf == [a \in {"gangnam", "yeoksam"} |-> "gangnam-gu"]
=============================================================================
