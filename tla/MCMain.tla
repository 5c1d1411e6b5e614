------------------------------ MODULE MCMain ------------------------------
(* Commands of every kind; with both files compressed only without armor, which is *)
(* what ext_subprocs has room for.                                                 *)
EXTENDS MainInput

Command(op, szip, tzip, armor, source, failing) ==
  [op |-> op, szip |-> szip, tzip |-> tzip, armor |-> armor, source |-> source, failing |-> failing]

MCCommands ==
  {Command("ENCODE", z[1], z[2], z[3], "right", fail) :
     z \in {<<FALSE, TRUE, TRUE>>, <<TRUE, FALSE, TRUE>>, <<TRUE, TRUE, FALSE>>}, fail \in BOOLEAN}
  \cup {Command("DECODE", z[1], z[2], armor, source, FALSE) :
          z \in {<<TRUE, TRUE>>, <<FALSE, FALSE>>}, armor \in BOOLEAN, source \in {"right", "target", "other"}}
  \cup {Command("DECODE", TRUE, TRUE, TRUE, "right", TRUE)}

MCBothCompressed == {Command("ENCODE", TRUE, TRUE, TRUE, "right", FALSE)}
Done == Ended /\ UNCHANGED mainVars
Next == MainNext \/ Done
Spec ==
  MainInit /\ [][Next]_mainVars
  /\ WF_mainVars(MainStep) /\ \A pid \in 1 .. MaxChildren : WF_mainVars(ChildStep(pid))
=============================================================================
