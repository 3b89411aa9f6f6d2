------------------------------ MODULE MCDetachedRun ------------------------------
(* Two items and two submissions; two commands and one fix; two workers.     *)
EXTENDS DetachedRun
=============================================================================
