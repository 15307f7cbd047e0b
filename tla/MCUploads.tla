----------------------------- MODULE MCUploads -----------------------------
(* Uploads with a few files and calls; the files with the right *)
(* bytes are alike, and so are the calls. *)
EXTENDS Uploads, TLC

Same == Permutations(Files \ Bad) \cup Permutations(Requests)
=============================================================================
