----------------------------- MODULE MCLSQBram ------------------------------
(* LSQBram on bounded programs; their tags do not wrap. *)
EXTENDS LSQBramInv, BoundedPrograms
=============================================================================
