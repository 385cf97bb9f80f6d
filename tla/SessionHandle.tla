--------------------------- MODULE SessionHandle ---------------------------
(***************************************************************************)
(* What the browser facade promises about the object it wraps: the object  *)
(* is used by one activity at a time, closing it while it is in use is     *)
(* deferred, and a deferred close does happen.                             *)
(***************************************************************************)
VARIABLES phase,   \* idle, busy or freed
          closing  \* the owner has asked for disposal

vars == <<phase, closing>>

Init == phase = "idle" /\ closing = FALSE

\* An activity begins; none does once disposal was asked for.
Enter == phase = "idle" /\ ~closing /\ phase' = "busy" /\ UNCHANGED closing

\* It ends, and the object goes with it when disposal was asked for.
Leave ==
  /\ phase = "busy"
  /\ phase' = IF closing THEN "freed" ELSE "idle"
  /\ UNCHANGED closing

Close ==
  /\ ~closing
  /\ closing' = TRUE
  /\ phase' = IF phase = "idle" THEN "freed" ELSE phase

Next == Enter \/ Leave \/ Close

\* Only a closing object must be left: an evaluation may run for ever.
Spec == Init /\ [][Next]_vars /\ WF_vars(closing /\ Leave)
=============================================================================
