---------------------------- MODULE ReadSession ----------------------------
(***************************************************************************)
(* What one database session promises to its caller, whichever provider is *)
(* behind it (the DatabaseSession facade of open-sdbl-db).  A session is   *)
(*                                                                         *)
(*   "auto"      alive, no explicit transaction;                           *)
(*   "explicit"  alive, inside the caller's own read-only transaction;     *)
(*   "dead"      refusing every operation until it is reconnected;         *)
(*   "closed"    given up by its owner.                                    *)
(*                                                                         *)
(* A call starts, and later either answers or has its future dropped.      *)
(* Only the table Ends says what an answer may leave behind; the provider  *)
(* modules are shown to implement it.                                      *)
(***************************************************************************)

CONSTANTS
  DropSpares,   \* statuses a dropped future may leave as they were
  StopSpares,   \* TRUE when RowFlow::Stop leaves the session usable
  Reconnects,   \* TRUE when cancel_query opens a new connection
  NoticesLoss   \* TRUE when a connection lost between two calls shows

VARIABLES
  status,   \* what the session is between two calls
  call,     \* the operation in flight, or "none"
  answer    \* the last answer given to the caller

vars == <<status, call, answer>>

Statuses     == {"auto", "explicit", "dead", "closed"}
Acquisitions == {"metadata", "inputs", "indexed"}
Operations   ==
  {"begin", "active", "commit", "rollback", "query", "cancel"} \cup Acquisitions
Answers      == {"none", "ok", "true", "false", "error", "dropped"}

(***************************************************************************)
(* May the operation o, started in s, leave the session in t with the      *)
(* answer a?  A failed operation never leaves an explicit transaction      *)
(* behind, except one refused before it reached the server.                *)
(***************************************************************************)
Ends(o, s, t, a) ==
  \/ /\ o = "cancel" /\ Reconnects
     /\ <<t, a>> \in {<<"auto", "ok">>, <<"dead", "error">>}
  \/ /\ o = "cancel" /\ ~Reconnects
     /\ \/ a = "ok" /\ t \in IF s = "explicit" THEN {"auto"} ELSE {s, "dead"}
        \/ a = "error" /\ t \in {s, "dead"}
  \/ /\ o # "cancel" /\ s = "dead"
     /\ t = "dead" /\ a = "error"
  \/ /\ \/ o \in {"begin", "query"} \cup Acquisitions /\ s = "auto"
        \/ o \in {"active", "commit", "query"} /\ s = "explicit"
     /\ t \in {"auto", "dead"} /\ a = "error"
  \/ /\ o = "begin" /\ s = "auto"
     /\ t = "explicit" /\ a = "ok"
  \/ /\ o \in {"begin"} \cup Acquisitions /\ s = "explicit"
     /\ t = "explicit" /\ a = "error"
  \/ /\ o = "active" /\ s \in {"auto", "explicit"} /\ t = s
     /\ a = IF s = "explicit" THEN "true" ELSE "false"
  \/ /\ o \in {"commit", "rollback"} /\ s = "auto"
     /\ t = "auto" /\ a = "error"
  \/ /\ o \in {"commit", "rollback"} /\ s = "explicit"
     /\ t = "auto" /\ a = "ok"
  \/ /\ o = "rollback" /\ s = "explicit"
     /\ t = "dead" /\ a = "error"
  \/ /\ o = "query" /\ s \in {"auto", "explicit"} /\ a = "ok"
     /\ t = s \/ (~StopSpares /\ t = "dead")
  \/ /\ o \in Acquisitions /\ s = "auto"
     /\ t = "auto" /\ a = "ok"

Init == status = "auto" /\ call = "none" /\ answer = "none"

Call(o) ==
  /\ call = "none" /\ status # "closed"
  /\ call' = o
  /\ UNCHANGED <<status, answer>>

Answer ==
  /\ call # "none"
  /\ status' \in Statuses /\ answer' \in Answers
  /\ Ends(call, status, status', answer')
  /\ call' = "none"

(* The caller drops the future of the operation in flight.  A request to    *)
(* cancel that travels on a connection of its own changes nothing here.     *)
Drop ==
  /\ call # "none"
  /\ \/ status' = "dead"
     \/ status' = status /\ (status \in DropSpares \/ (call = "cancel" /\ ~Reconnects))
  /\ call' = "none" /\ answer' = "dropped"

Lose ==
  /\ NoticesLoss /\ call = "none" /\ status # "closed"
  /\ status' = "dead"
  /\ UNCHANGED <<call, answer>>

Close ==
  /\ call = "none" /\ status # "closed"
  /\ status' = "closed"
  /\ UNCHANGED <<call, answer>>

Next == (\E o \in Operations : Call(o)) \/ Answer \/ Drop \/ Lose \/ Close

Spec == Init /\ [][Next]_vars
=============================================================================
