-------------------------- MODULE MCAlertEvidence --------------------------
(* Small instances of AlertEvidence: two results of one device or of one   *)
(* computer, in one task (two logs of a computer) or in two.               *)
EXTENDS AlertEvidence, TLC

CONSTANTS t1, t2, x1, x2

SameDevice == x1 :> "a" @@ x2 :> "a"
TwoTasks(kind) ==
  [task |-> x1 :> t1 @@ x2 :> t2, type |-> t1 :> kind @@ t2 :> kind, device |-> SameDevice]
OneTask(kind) ==
  [task |-> x1 :> t1 @@ x2 :> t1, type |-> t1 :> kind, device |-> SameDevice]

MCInventories == {TwoTasks("inspection"), OneTask("computer_analysis")}
MCAnalyses    == {TwoTasks("computer_analysis")}
MCSyncs       == {TwoTasks("sync")}
=============================================================================
