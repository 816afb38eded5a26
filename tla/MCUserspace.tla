---------------------------- MODULE MCUserspace -----------------------------
(* Instances of Userspace: the words that decide something, and for p1ctl one
   that sets options and one that clears them all. *)
EXTENDS Userspace

KWords == {{}, {force_revert}}
PWords == {{}, {rootful}, {rootful, clean_fakefs}}
PRootful == {{rootful}}
NewKWords == {{safemode}}
NewPWords == {{setup_rootful, clean_fakefs}}

(* Out of safe mode, into it, and neither. *)
AnyMode == 0..2
=============================================================================
