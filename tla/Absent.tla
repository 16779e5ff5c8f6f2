---- MODULE Absent ----
(* The value of a field that is NULL, empty or missing in the code.        *)

CONSTANT None
====
