------------------------- MODULE MCDomainOperations -------------------------
(* Small instances of DomainOperations: a password task with two targets,  *)
(* or another operation beside a synchronisation of the same name.         *)
EXTENDS DomainOperations, TLC

CONSTANTS o1, s1, x1, x2

OnePassword ==
  [task |-> x1 :> o1 @@ x2 :> o1, dn |-> x1 :> "a" @@ x2 :> "b", password |-> {o1}]
ChangeAndSync ==
  [task |-> x1 :> o1 @@ x2 :> s1, dn |-> x1 :> "a" @@ x2 :> "a", password |-> {}]

MCInventories == {OnePassword, ChangeAndSync}
MCPassword    == {OnePassword}

WorkerSymmetry == Permutations(Workers)
=============================================================================
