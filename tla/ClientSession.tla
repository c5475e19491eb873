---------------------------- MODULE ClientSession ----------------------------
(* The session as its clients see it: the variables of ReadSession, which   *)
(* the console and the blocking driver share when they are put together.    *)

VARIABLES
  status, call, answer   \* the session, as ReadSession has it

session == <<status, call, answer>>
=============================================================================
