------------------------------ MODULE TextRules ------------------------------
(***************************************************************************)
(* The rules about texts, side by side: a behaviour is about the path of a *)
(* capability, a reference or the host ceiling of an agent.                *)
(***************************************************************************)
EXTENDS CapabilityPath, PassRef, HostPattern

VARIABLE topic
vars == <<topic, pathVars, refVars, hostVars>>

Init == topic \in {"path", "ref", "host"} /\ PathInit /\ RefInit /\ HostInit
Next ==
  /\ \/ topic = "path" /\ PathNext /\ UNCHANGED <<refVars, hostVars>>
     \/ topic = "ref" /\ RefNext /\ UNCHANGED <<pathVars, hostVars>>
     \/ topic = "host" /\ HostNext /\ UNCHANGED <<pathVars, refVars>>
  /\ UNCHANGED topic
Spec == Init /\ [][Next]_vars
=============================================================================
