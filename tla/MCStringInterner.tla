-------------------------- MODULE MCStringInterner --------------------------
(***************************************************************************)
(* StringInterner on a table of four buckets that grows to eight.  Strings *)
(* "a" and "b" have the same hash, "c" shares their home bucket with a     *)
(* hash of its own, that bucket is the last one, so that their probes wrap *)
(* around, "d" lives where they spill to, and in the table of eight "c"    *)
(* parts from "a" and "b".                                                 *)
(***************************************************************************)
EXTENDS StringInterner

MCStrings == {"a", "b", "c", "d", "e"}

MCHash == [s \in MCStrings |->
             CASE s \in {"a", "b"} -> 7
               [] s = "c" -> 3
               [] s = "d" -> 8
               [] s = "e" -> 2]
=============================================================================
