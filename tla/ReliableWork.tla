---------------------------- MODULE ReliableWork ----------------------------
(***************************************************************************)
(* What the queue promises the rest of the system, without workers,        *)
(* processes, crashes or logs.  An accepted job is tried at most           *)
(* allowance + 1 times; it ends once, either done after at least one try,  *)
(* or dead after using up every try, and a dead job leaves exactly one     *)
(* copy in the dead-letter queue (ADR-010: jobs survive restart, with      *)
(* retries and dead-lettering included).                                   *)
(***************************************************************************)
EXTENDS Integers

CONSTANTS Jobs,   \* every job anybody may enqueue
          Limits  \* retry limits a deployment may declare on the queue

VARIABLES outcome,    \* where each job is in its life
          tries,      \* how often each job was handed to a worker
          parked,     \* copies of each job in the dead-letter queue
          allowance   \* retry limit the queue was declared with, or Undeclared

vars == <<outcome, tries, parked, allowance>>

Undeclared == -1

Init ==
  /\ outcome = [j \in Jobs |-> "none"]
  /\ tries = [j \in Jobs |-> 0]
  /\ parked = [j \in Jobs |-> 0]
  /\ allowance = Undeclared

Declare ==
  /\ allowance = Undeclared
  /\ allowance' \in Limits
  /\ UNCHANGED <<outcome, tries, parked>>

Accept(j) ==
  /\ allowance # Undeclared
  /\ outcome[j] = "none"
  /\ outcome' = [outcome EXCEPT ![j] = "pending"]
  /\ UNCHANGED <<tries, parked, allowance>>

Try(j) ==
  /\ outcome[j] = "pending"
  /\ tries[j] <= allowance
  /\ tries' = [tries EXCEPT ![j] = @ + 1]
  /\ UNCHANGED <<outcome, parked, allowance>>

Finish(j) ==
  /\ outcome[j] = "pending"
  /\ tries[j] > 0
  /\ outcome' = [outcome EXCEPT ![j] = "done"]
  /\ UNCHANGED <<tries, parked, allowance>>

Bury(j) ==
  /\ outcome[j] = "pending"
  /\ tries[j] = allowance + 1
  /\ outcome' = [outcome EXCEPT ![j] = "dead"]
  /\ parked' = [parked EXCEPT ![j] = @ + 1]
  /\ UNCHANGED <<tries, allowance>>

Next == Declare \/ \E j \in Jobs : Accept(j) \/ Try(j) \/ Finish(j) \/ Bury(j)

Spec == Init /\ [][Next]_vars
=============================================================================
