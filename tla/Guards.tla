------------------------------- MODULE Guards -------------------------------
(***************************************************************************)
(* The guards a process keeps in memory: admission in front of /v1 and the *)
(* panel's own.  They share the process's clock and its restarts and       *)
(* nothing else, so a behaviour of both is a pair of behaviours and it is  *)
(* enough to follow one guard while the other rests.                       *)
(***************************************************************************)
EXTENDS Admission, AdminPanel

VARIABLE focus        \* the guard that is followed

vars == <<now, focus, admissionVars, panelVars>>

Init == ClockInit /\ AdmissionInit /\ PanelInit /\ focus \in {"admission", "panel"}

(* main builds both states anew.                                           *)
Restart ==
  /\ windows' = <<>>
  /\ waiting' = [w \in Workers |-> NoRequest]
  /\ admitted' = [k \in PeerKeys |-> <<>>]
  /\ PanelRestart
  /\ UNCHANGED focus

Next ==
  \/ focus = "admission" /\ (AdmissionNext \/ AdmissionTick) /\ UNCHANGED <<focus, panelVars>>
  \/ focus = "panel" /\ (PanelNext \/ PanelTick) /\ UNCHANGED <<focus, admissionVars>>
  \/ Restart

Spec == Init /\ [][Next]_vars

TypeOK == now \in 0..LastTick /\ AdmissionTypeOK /\ PanelTypeOK
=============================================================================
