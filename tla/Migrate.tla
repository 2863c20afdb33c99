------------------------------ MODULE Migrate ------------------------------
(***************************************************************************)
(* Schema migration at the start of a service (internal/shared/db and the  *)
(* main functions of the three services): the .sql files of a directory    *)
(* are executed in order on every start, with no record of the files a     *)
(* database already has; a failure is logged and the service starts.       *)
(*                                                                         *)
(* A file is its position in the sorted directory.  PostgreSQL executes a  *)
(* file sent as one string in one transaction.  A file whose statements do *)
(* not say IF NOT EXISTS fails on a database that has it.                  *)
(***************************************************************************)
EXTENDS Naturals

CONSTANTS N,           \* the number of files ever released
          Idempotent,  \* the files that may be executed again
          Procs        \* service processes on the one database

ASSUME MigrateAssumption == N \in Nat \ {0} /\ Idempotent \subseteq 1..N

VARIABLES released,  \* the newest image holds the files 1..released
          applied,   \* the files the database has
          pc,        \* "down", "migrating" or "serving"
          dir,       \* the files in the image of a process are 1..dir
          next,      \* the file that Migrate executes next
          outcome    \* how Migrate ended: "clean", "conflict", "error"

migrateVars == <<released, applied, pc, dir, next, outcome>>

MigrateInit ==
  /\ released = 1
  /\ applied = {}
  /\ pc = [p \in Procs |-> "down"]
  /\ dir = [p \in Procs |-> 0]
  /\ next = [p \in Procs |-> 1]
  /\ outcome = [p \in Procs |-> "none"]

Serve(p, how) ==
  /\ pc' = [pc EXCEPT ![p] = "serving"]
  /\ outcome' = [outcome EXCEPT ![p] = how]

-----------------------------------------------------------------------------
(* Faulty variants, used only to show that the properties see them.        *)

\* The files are not sorted.
ApplyUnsorted(p) ==
  /\ pc[p] = "migrating" /\ next[p] <= dir[p]
  /\ \E f \in 1..dir[p] : /\ f \notin applied \/ f \in Idempotent
                          /\ applied' = applied \cup {f}
  /\ next' = [next EXCEPT ![p] = @ + 1]
  /\ UNCHANGED <<released, pc, dir, outcome>>

\* An error is logged and the loop goes on with the next file.
FailAndGoOn(p) ==
  /\ pc[p] = "migrating" /\ next[p] <= dir[p]
  /\ next' = [next EXCEPT ![p] = @ + 1]
  /\ UNCHANGED <<released, applied, pc, dir, outcome>>

-----------------------------------------------------------------------------
\* A release adds the next file; running processes keep their image.
Release ==
  /\ released < N
  /\ released' = released + 1
  /\ UNCHANGED <<applied, pc, dir, next, outcome>>

\* A process of the newest image starts and lists its directory.
Start(p) ==
  /\ pc[p] = "down"
  /\ pc' = [pc EXCEPT ![p] = "migrating"]
  /\ dir' = [dir EXCEPT ![p] = released]
  /\ next' = [next EXCEPT ![p] = 1]
  /\ outcome' = [outcome EXCEPT ![p] = "none"]
  /\ UNCHANGED <<released, applied>>

Apply(p) ==
  /\ pc[p] = "migrating" /\ next[p] <= dir[p]
  /\ next[p] \notin applied \/ next[p] \in Idempotent
  /\ applied' = applied \cup {next[p]}
  /\ next' = [next EXCEPT ![p] = @ + 1]
  /\ UNCHANGED <<released, pc, dir, outcome>>

\* The relation already exists: Migrate returns, main logs and goes on.
Conflict(p) ==
  /\ pc[p] = "migrating" /\ next[p] <= dir[p]
  /\ next[p] \in applied \ Idempotent
  /\ Serve(p, "conflict")
  /\ UNCHANGED <<released, applied, dir, next>>

\* The file cannot be read, or the database fails; at the first file this is
\* also the directory that cannot be read.
Fail(p) ==
  /\ pc[p] = "migrating" /\ next[p] <= dir[p]
  /\ Serve(p, "error")
  /\ UNCHANGED <<released, applied, dir, next>>

Finish(p) ==
  /\ pc[p] = "migrating" /\ next[p] > dir[p]
  /\ Serve(p, "clean")
  /\ UNCHANGED <<released, applied, dir, next>>

\* The process stops or crashes, between two files.
Stop(p) ==
  /\ pc[p] # "down"
  /\ pc' = [pc EXCEPT ![p] = "down"]
  /\ UNCHANGED <<released, applied, dir, next, outcome>>

MigrateNext ==
  \/ Release
  \/ \E p \in Procs : Start(p) \/ Apply(p) \/ Conflict(p) \/ Fail(p)
                      \/ Finish(p) \/ Stop(p)

MigrateSpec == MigrateInit /\ [][MigrateNext]_migrateVars

-----------------------------------------------------------------------------
(* Properties.                                                             *)

\* Every variable has its type.
TypeOK ==
  /\ released \in 1..N
  /\ applied \subseteq 1..N
  /\ pc \in [Procs -> {"down", "migrating", "serving"}]
  /\ dir \in [Procs -> 0..N]
  /\ next \in [Procs -> 1..N + 1]
  /\ outcome \in [Procs -> {"none", "clean", "conflict", "error"}]

\* However many processes migrate at once, fail and restart, the database has
\* the files up to one of them: none is applied before the ones it builds on.
AppliedPrefix == \A f \in applied : 1..f \subseteq applied

\* A process that reports that all migrations were applied serves a database
\* that has every file of its image.
CleanIsComplete == \A p \in Procs : outcome[p] = "clean" => 1..dir[p] \subseteq applied

\* What the loop knows: the files before the next one are applied.
IInv ==
  /\ TypeOK
  /\ AppliedPrefix
  /\ \A p \in Procs :
       /\ dir[p] <= released
       /\ pc[p] = "migrating" => next[p] <= dir[p] + 1 /\ 1..next[p] - 1 \subseteq applied
  /\ CleanIsComplete
=============================================================================
