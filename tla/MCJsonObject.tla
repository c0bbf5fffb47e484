---------------------------- MODULE MCJsonObject ----------------------------
(***************************************************************************)
(* Four names for tables of four and of eight cells.  Two of them share    *)
(* the last cell as their home, so that probes wrap round; the others are  *)
(* at home in the cells before and after it, in either table.              *)
(***************************************************************************)
EXTENDS JsonObject

MCNames == {"a", "b", "c", "d"}
MCHash == [name \in MCNames |->
    CASE name = "a" -> 7 [] name = "b" -> 15 [] name = "c" -> 0 [] OTHER -> 6]
=============================================================================
