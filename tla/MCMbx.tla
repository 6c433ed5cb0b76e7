------------------------------- MODULE MCMbx -------------------------------
(***************************************************************************)
(* An instance of OsaMbx: a client and two tasks, where the handler of     *)
(* taskA sends to taskB, as in a pipeline.                                 *)
(***************************************************************************)
EXTENDS OsaMbx, TLC

CONSTANTS taskA, taskB, client

MCTasks == {taskA, taskB}
MCClients == {client}
MCMaySend == {<<client, taskA>>, <<client, taskB>>, <<taskA, taskB>>}

HandleSymmetry == Permutations(Handles)
=============================================================================
