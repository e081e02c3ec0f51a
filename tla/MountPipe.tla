----------------------------- MODULE MountPipe -----------------------------
(***************************************************************************)
(* create_files.py: one core publishes the variants of each program it     *)
(* transforms as folders file_0, file_1, ... of its directory on the       *)
(* mount, and waits while more than max_number_of_files_on_mount are       *)
(* there.  "The other project" processes folders and removes them whenever *)
(* it likes; it is not part of the repository.                             *)
(***************************************************************************)
EXTENDS Integers, FiniteSets, FiniteSetsExt

CONSTANTS MAX_FILES,            \* max_number_of_files_on_mount
          run_each_file_times   \* the variants of a program

ASSUME PipeAssumption == MAX_FILES \in Nat /\ run_each_file_times \in Nat

VARIABLES
  pipe,   \* numbers of the folders on the mount
  batch,  \* variants of this program not published yet
  name,   \* the number of the folder being created
  seen,   \* len(find_folders(...)), as read by the waiting loop
  mounting

mountVars == <<pipe, batch, name, seen, mounting>>

MountInit == pipe = {} /\ batch = 0 /\ name = 0 /\ seen = 0 /\ mounting = "next"

\* run: some variants have no .bc file, or clam fails and there is none
Transform ==
  /\ mounting = "next"
  /\ batch' \in 0..run_each_file_times
  /\ mounting' = "publish"
  /\ UNCHANGED <<pipe, name, seen>>

\* create_new_mount_folder marks the numbers in use in a list of
\* len(fol) + 2 entries; a number past its end is an IndexError, which ends
\* the process
OutOfRange == \E f \in pipe : f >= Cardinality(pipe) + 2

MutChosen == Max(pipe) + 1
MutChosenByCount == Cardinality(pipe)
Chosen == Min(0..(Cardinality(pipe) + 1) \ pipe)

ChooseName ==
  /\ mounting = "publish" /\ batch > 0
  /\ IF pipe = {} THEN name' = 0 /\ mounting' = "mkdir"
     ELSE IF OutOfRange THEN mounting' = "dead" /\ UNCHANGED name
     ELSE name' = Chosen /\ mounting' = "mkdir"
  /\ UNCHANGED <<pipe, batch, seen>>

\* mkdir of a folder that exists fails, and nobody looks at its result
MakeFolder ==
  /\ mounting = "mkdir"
  /\ pipe' = pipe \cup {name}
  /\ batch' = batch - 1
  /\ mounting' = "publish"
  /\ UNCHANGED <<name, seen>>

Count ==
  /\ \/ mounting = "publish" /\ batch = 0
     \/ mounting = "sleep"
  /\ seen' = Cardinality(pipe)
  /\ mounting' = "wait"
  /\ UNCHANGED <<pipe, batch, name>>

GoOn ==
  /\ mounting = "wait" /\ seen <= MAX_FILES
  /\ mounting' = "next"
  /\ UNCHANGED <<pipe, batch, name, seen>>

MutSleep ==
  /\ mounting = "wait" /\ seen > MAX_FILES
  /\ UNCHANGED mountVars
Sleep ==
  /\ mounting = "wait" /\ seen > MAX_FILES
  /\ mounting' = "sleep"
  /\ UNCHANGED <<pipe, batch, name, seen>>

Producer == Transform \/ ChooseName \/ MakeFolder \/ Count \/ GoOn \/ Sleep

\* the other project
Consume ==
  /\ \E f \in pipe : pipe' = pipe \ {f}
  /\ UNCHANGED <<batch, name, seen, mounting>>

Ended == mounting = "dead" /\ pipe = {} /\ UNCHANGED mountVars

MountNext == Producer \/ Consume \/ Ended

\* the process is scheduled, and the other project goes on processing
MountSpec == MountInit /\ [][MountNext]_mountVars /\ WF_mountVars(Producer) /\ WF_mountVars(Consume)
-----------------------------------------------------------------------------
(* Correctness.                                                            *)

\* A folder is never put where one is still waiting to be processed, although
\* folders disappear between the listing and mkdir.
FreshName == mounting = "mkdir" => name \notin pipe

\* Names do not grow without bound, as they are taken up again.
NamesBounded == \A f \in pipe : f < MAX_FILES + run_each_file_times

\* A waiting producer goes on once folders have been processed.
WaitingEnds == (mounting = "wait") ~> (mounting = "next")
=============================================================================
