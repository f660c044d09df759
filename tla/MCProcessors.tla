---------------------------- MODULE MCProcessors ----------------------------
(* What processors agree on, checked in one run: "which" is chosen in the  *)
(* initial state, that protocol runs and the others stay as they were      *)
(* initialised.                                                            *)
EXTENDS SporkJoin, EBR, Termination

VARIABLE which

ASSUME BothAssumptions == TerminationAssumption /\ EBRAssumption

OneCollector == {0}

AllVars == <<which, terminationVars, ebrVars, vars>>

AllInit ==
  /\ which \in {"forks", "reclamation", "termination"}
  /\ Init /\ EBRInit /\ TerminationInit

AllNext ==
  \/ /\ which = "forks"
     /\ Next
     /\ UNCHANGED <<which, ebrVars, terminationVars>>
  \/ /\ which = "termination"
     /\ TerminationNext
     /\ UNCHANGED <<which, ebrVars, vars>>
  \/ /\ which = "reclamation"
     /\ EBRNext
     /\ UNCHANGED <<which, terminationVars, vars>>

\* The fairness of the protocol that runs: Fairness of SporkJoin,
\* TerminationFairness and EBRFairness, each where its protocol is the one.
AllFairness ==
  /\ \A w \in Workers : WF_vars(which = "forks" /\ (UserStep(w) \/ SchedStep(w)))
  /\ \A p \in Processors :
       /\ WF_terminationVars(which = "termination" /\ Relay(p))
       /\ WF_terminationVars(which = "termination" /\ Runtime(p))
       /\ WF_terminationVars(/\ which = "termination"
                             /\ Poll(p) \/ ((p \notin Loops \/ limit[p] # "set") /\ Enter(p)))
  /\ \A p \in Procs :
       /\ WF_ebrVars(which = "reclamation" /\ ~AtStep(p, "collecting") /\ LeaveQuiescent(p))
       /\ WF_ebrVars(which = "reclamation" /\ Drain(p))

AllSpec == AllInit /\ [][AllNext]_AllVars /\ AllFairness

\* The state of reclamation and of the end of the program have their types.
BothTypeOK == EBRTypeOK /\ TerminationTypeOK

\* SporkJoin: programs end.
ProgramsEnd == which = "forks" => Terminates
=============================================================================
