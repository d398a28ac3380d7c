---------------------------- MODULE RecoveryClaims ----------------------------
(***************************************************************************)
(* What comments of the program say about restarts and the code, as        *)
(* Recovery translates it, does not keep: the run that checks it is to     *)
(* fail.                                                                   *)
(***************************************************************************)
EXTENDS Recovery

\* A file that was captured is kept, as the working file or the final one.
\* finalize_reattached purges the working directory whether or not the
\* promote succeeded; the other paths purge after a promotion only.
CaptureIsKept == [][\A t \in Takes : HasMedia(t) => HasMedia(t)']_rvars
=============================================================================
