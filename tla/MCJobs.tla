------------------------------- MODULE MCJobs -------------------------------
(* An instance of Jobs for TLC: a worker that is unique and one that is not *)
(* share a queue.                                                           *)
EXTENDS Jobs

CONSTANTS sync, question, catalog

ThreeJobs == 1 .. 3
AllWork == {sync, question}
OneQueue == {catalog}
SharedQueue == [w \in Work |-> catalog]
TwoSlots == [q \in Queue |-> 2]
TwoAttempts == [w \in Work |-> 2]
UniqueSync == [w \in Work |-> IF w = sync THEN w ELSE NoKey]
=============================================================================
