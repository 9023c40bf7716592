---------------------------- MODULE MCUploadStore ----------------------------
(* Instances of UploadStore for TLC. *)
EXTENDS UploadStore

CONSTANTS f1, f2, d1

\* Both uploads carry the same content.
SameContent == [u \in Uploads |-> d1]
=============================================================================
