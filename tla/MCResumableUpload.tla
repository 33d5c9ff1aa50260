-------------------------- MODULE MCResumableUpload --------------------------
(* ResumableUpload on small instances.                                      *)
EXTENDS ResumableUpload
==============================================================================
