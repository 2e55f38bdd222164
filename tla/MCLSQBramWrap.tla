--------------------------- MODULE MCLSQBramWrap ----------------------------
(* LSQBram on bounded programs with more stores than tags. *)
EXTENDS LSQBram, BoundedPrograms
=============================================================================
