-------------------------- MODULE MCUploadAdmission --------------------------
(***************************************************************************)
(* An instance of UploadAdmission for TLC: more uploads than slots, and    *)
(* time enough for an upload to outlive the cutoff, and for the next one.  *)
(***************************************************************************)
EXTENDS UploadAdmission, TLC

UploadSymmetry == Permutations(Uploads)
=============================================================================
