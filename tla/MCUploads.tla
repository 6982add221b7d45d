------------------------------ MODULE MCUploads ------------------------------
(* A page and a phone upload the same photo. *)
EXTENDS Uploads

Photograph == CHOOSE c \in Contents : TRUE
MCWebFile == [x \in Web |-> Photograph]
MCPhoto == [v \in Versions |-> Photograph]

=============================================================================
