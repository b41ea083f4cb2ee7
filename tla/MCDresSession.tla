---------------------------- MODULE MCDresSession ----------------------------
(***************************************************************************)
(* Small instance of DresSession: two workers, one click, the fetch on     *)
(* loading and one more, and enough logins for a session to be replaced.   *)
(***************************************************************************)
EXTENDS DresSession
==============================================================================
