------------------------------ MODULE Campaign ------------------------------
(***************************************************************************)
(* clam_caller.py with utils/process_bugs.py: a testing campaign.  Each    *)
(* core is a process of its own that tests one program after another and   *)
(* stores what it finds in the folder bugs, which all cores and all later  *)
(* sessions share.  A process knows the programs it found itself and those *)
(* the first process read from bugs/bug_N/config.json before it forked.        *)
(***************************************************************************)
EXTENDS Integers, FiniteSets, FiniteSetsExt

CONSTANTS
  Cores,       \* the worker processes
  Files,       \* the C files of program_folder
  Large,       \* those above max_file_size
  Variants,    \* run_each_file_times
  MaxSessions  \* bound: how often the campaign is started

NoFile == "none"
ASSUME CoresAssumption == IsFiniteSet(Cores) /\ Cores # {}
ASSUME FilesAssumption == NoFile \notin Files /\ Large \subseteq Files
ASSUME CampaignAssumption == Variants \in Nat /\ MaxSessions \in Nat

VARIABLES
  folders,   \* the bug folders, by number: their C files, config, initial.bc
             \* and transformed .bc files
  session,   \* the current start of the campaign
  main,      \* the first process: starting, running, stopping or crashed
  found,     \* its list bugs
  bugs,      \* bugs[k]: that list in core k's copy
  round,     \* the files core k has still to look at in this round
  file,      \* the file of core k's config
  left,      \* variants of it to be looked at
  number,    \* of the bug folder core k fills
  pc,
  stored,    \* history: the files whose add_files has ended
  earlier,   \* history: stored, when this session began
  shared     \* history: the folders two calls of add_files have used

coreVars == <<bugs, round, file, left, number, pc>>
history == <<stored, earlier, shared>>
vars == <<folders, session, main, found, coreVars, history>>

Empty == [sources |-> {}, config |-> NoFile, initial |-> NoFile, transformed |-> {}]

Init ==
  /\ folders = <<>>
  /\ session = 1 /\ main = "starting"
  /\ found = {}
  /\ bugs = [k \in Cores |-> {}] /\ round = [k \in Cores |-> {}]
  /\ file = [k \in Cores |-> NoFile] /\ left = [k \in Cores |-> 0]
  /\ number = [k \in Cores |-> 0] /\ pc = [k \in Cores |-> "off"]
  /\ stored = {} /\ earlier = {} /\ shared = {}
-----------------------------------------------------------------------------
(* The first process.                                                      *)

Configs == {folders[n].config : n \in DOMAIN folders}

\* the scan of the bug folders; a folder without config.json ends the process
MutStart ==
  /\ main = "starting"
  /\ found' = Configs \ {NoFile}
  /\ main' = "running"
  /\ bugs' = [k \in Cores |-> found']
  /\ round' = [k \in Cores |-> Files]
  /\ pc' = [k \in Cores |-> "pick"]
  /\ UNCHANGED <<folders, session, file, left, number, history>>
MutStartLast ==
  /\ main = "starting" /\ NoFile \notin Configs
  /\ found' = IF folders = <<>> THEN {} ELSE {folders[Max(DOMAIN folders)].config}
  /\ main' = "running"
  /\ bugs' = [k \in Cores |-> found']
  /\ round' = [k \in Cores |-> Files]
  /\ pc' = [k \in Cores |-> "pick"]
  /\ UNCHANGED <<folders, session, file, left, number, history>>
Start ==
  /\ main = "starting" /\ NoFile \notin Configs
  /\ found' = Configs
  /\ main' = "running"
  /\ bugs' = [k \in Cores |-> found']
  /\ round' = [k \in Cores |-> Files]
  /\ pc' = [k \in Cores |-> "pick"]
  /\ UNCHANGED <<folders, session, file, left, number, history>>

Crash ==
  /\ main = "starting" /\ NoFile \in Configs
  /\ main' = "crashed"
  /\ UNCHANGED <<folders, session, found, coreVars, history>>

\* ^C or SIGTERM; the cores are sent SIGTERM one by one
Stop ==
  /\ main = "running"
  /\ main' = "stopping"
  /\ UNCHANGED <<folders, session, found, coreVars, history>>

\* the campaign is started again once all its processes are gone
Restart ==
  /\ main = "stopping" /\ \A k \in Cores : pc[k] = "off"
  /\ session < MaxSessions
  /\ session' = session + 1
  /\ main' = "starting"
  /\ found' = {}
  /\ earlier' = stored
  /\ UNCHANGED <<folders, coreVars, stored, shared>>

-----------------------------------------------------------------------------
(* A core: main and run.                                                   *)

\* exit_handler, wherever the core is; its memory is gone
Die(k) ==
  /\ main = "stopping" /\ pc[k] # "off"
  /\ pc' = [pc EXCEPT ![k] = "off"]
  /\ bugs' = [bugs EXCEPT ![k] = {}]
  /\ round' = [round EXCEPT ![k] = {}]
  /\ file' = [file EXCEPT ![k] = NoFile]
  /\ left' = [left EXCEPT ![k] = 0]
  /\ number' = [number EXCEPT ![k] = 0]
  /\ UNCHANGED <<folders, session, main, found, history>>

Goto(k, label) == pc' = [pc EXCEPT ![k] = label]
InRun == UNCHANGED <<folders, session, main, found, history>>

\* while(True): the directories were shuffled, so any order may come
MutNewRound(k) ==
  /\ pc[k] = "pick" /\ round[k] = {}
  /\ Goto(k, "idle")
  /\ InRun /\ UNCHANGED <<bugs, round, file, left, number>>
NewRound(k) ==
  /\ pc[k] = "pick" /\ round[k] = {}
  /\ round' = [round EXCEPT ![k] = Files]
  /\ InRun /\ UNCHANGED <<bugs, file, left, number, pc>>

Skip(k) ==
  /\ pc[k] = "pick"
  /\ \E f \in round[k] :
       /\ f \in bugs[k] \cup Large
       /\ round' = [round EXCEPT ![k] = @ \ {f}]
  /\ InRun /\ UNCHANGED <<bugs, file, left, number, pc>>

Pick(k) ==
  /\ pc[k] = "pick"
  /\ \E f \in round[k] \ (bugs[k] \cup Large) :
       /\ round' = [round EXCEPT ![k] = @ \ {f}]
       /\ file' = [file EXCEPT ![k] = f]
  /\ Goto(k, "produce")
  /\ InRun /\ UNCHANGED <<bugs, left, number>>

\* produce_transformed_files, then the analysis of initial.bc
Produce(k) ==
  /\ pc[k] = "produce"
  /\ left' = [left EXCEPT ![k] = Variants]
  /\ Goto(k, "variants")
  /\ InRun /\ UNCHANGED <<bugs, round, file, number>>

\* run returns: clam failed, timed out, ran out of memory, some file is
\* missing or does not match, or all variants have been looked at
Return(k) ==
  /\ \/ pc[k] = "produce"
     \/ pc[k] = "variants"
  /\ Goto(k, "pick")
  /\ left' = [left EXCEPT ![k] = 0]
  /\ InRun /\ UNCHANGED <<bugs, round, file, number>>

\* a variant that is missing, or passes, whatever check_assertions says
VariantPasses(k) ==
  /\ pc[k] = "variants" /\ left[k] > 0
  /\ left' = [left EXCEPT ![k] = @ - 1]
  /\ InRun /\ UNCHANGED <<bugs, round, file, number, pc>>

\* stronger with more warnings or weaker with fewer
VariantFails(k) ==
  /\ pc[k] = "variants" /\ left[k] > 0
  /\ left' = [left EXCEPT ![k] = @ - 1]
  /\ bugs' = [bugs EXCEPT ![k] = @ \cup {file[k]}]
  /\ Goto(k, "list")
  /\ InRun /\ UNCHANGED <<round, file, number>>
-----------------------------------------------------------------------------
(* process_bugs: create_new_bug_folder and add_files, one shell command    *)
(* after the other.                                                        *)

MutNextNumber == IF folders = <<>> THEN 0 ELSE Max(DOMAIN folders)
NextNumber == IF folders = <<>> THEN 0 ELSE Max(DOMAIN folders) + 1

ListBugFolders(k) ==
  /\ pc[k] = "list"
  /\ number' = [number EXCEPT ![k] = NextNumber]
  /\ Goto(k, "mkdir")
  /\ InRun /\ UNCHANGED <<bugs, round, file, left>>

\* mkdir fails if another core was faster, and nobody looks at its result
MakeBugFolder(k) ==
  /\ pc[k] = "mkdir"
  /\ IF number[k] \in DOMAIN folders
       THEN UNCHANGED folders /\ shared' = shared \cup {number[k]}
       ELSE /\ folders' = [n \in DOMAIN folders \cup {number[k]} |->
                             IF n = number[k] THEN Empty ELSE folders[n]]
            /\ UNCHANGED shared
  /\ Goto(k, "source")
  /\ UNCHANGED <<session, main, found, bugs, round, file, left, number, stored, earlier>>

InFolder(k) == UNCHANGED <<session, main, found, bugs, round, file, left, number,
                           earlier, shared>>

CopySource(k) ==
  /\ pc[k] = "source"
  /\ folders' = [folders EXCEPT ![number[k]].sources = @ \cup {file[k]}]
  /\ Goto(k, "config")
  /\ InFolder(k) /\ UNCHANGED stored

CopyConfig(k) ==
  /\ pc[k] = "config"
  /\ folders' = [folders EXCEPT ![number[k]].config = file[k]]
  /\ Goto(k, "initial")
  /\ InFolder(k) /\ UNCHANGED stored

CopyInitial(k) ==
  /\ pc[k] = "initial"
  /\ folders' = [folders EXCEPT ![number[k]].initial = file[k]]
  /\ Goto(k, "transformed")
  /\ InFolder(k) /\ UNCHANGED stored

\* the transformed file keeps its own name; the .crabir files follow
CopyTransformed(k) ==
  /\ pc[k] = "transformed"
  /\ folders' = [folders EXCEPT ![number[k]].transformed = @ \cup {file[k]}]
  /\ stored' = stored \cup {file[k]}
  /\ Goto(k, "variants")
  /\ InFolder(k)
-----------------------------------------------------------------------------

Work(k) ==
  \/ NewRound(k) \/ Skip(k) \/ Pick(k)
  \/ Produce(k) \/ Return(k) \/ VariantPasses(k) \/ VariantFails(k)
  \/ ListBugFolders(k) \/ MakeBugFolder(k) \/ CopySource(k) \/ CopyConfig(k)
  \/ CopyInitial(k) \/ CopyTransformed(k)

Stopped ==
  /\ \/ main = "crashed"
     \/ main = "stopping" /\ session = MaxSessions /\ \A k \in Cores : pc[k] = "off"
  /\ UNCHANGED vars

Next == \/ Start \/ Crash \/ Stop \/ Restart
        \/ \E k \in Cores : Die(k) \/ Work(k)
        \/ Stopped

\* every process is scheduled, and one that is sent SIGTERM ends
Spec == /\ Init /\ [][Next]_vars
        /\ WF_vars(Start)
        /\ \A k \in Cores : WF_vars(Die(k)) /\ WF_vars(Work(k))
-----------------------------------------------------------------------------
(* Correctness.                                                            *)

\* "find bug files, so that they are not tested again": no core tests a file
\* that was completely stored in an earlier session. One core keeps the
\* promise, two need not.
StoredNotRetested == \A k \in Cores : pc[k] = "produce" => file[k] \notin earlier

\* With several cores, a stored file is forgotten only if two of them took the
\* same number for their folders.
ForgottenOnlyIfShared == shared = {} => StoredNotRetested

\* One start of the campaign leaves at most one folder without a config per
\* core, and no later one adds to them.
FewUnfinished ==
  Cardinality({n \in DOMAIN folders : folders[n].config = NoFile}) <= Cardinality(Cores)

\* With one core, what a folder holds is of one program: the config to rerun it
\* with is that of its source and of its bitcode, however often the campaign
\* was stopped in the middle of copying.
OneProgramPerFolder ==
  \A n \in DOMAIN folders :
    LET b == folders[n]
    IN  /\ Cardinality(b.sources \cup b.transformed) <= 1
        /\ b.config # NoFile => b.config \in b.sources
        /\ b.initial # NoFile => b.initial = b.config

\* No file is starved: as long as the campaign runs, each core comes to test
\* each file of a legal size again, or knows that it has a bug.
FilesTakeTurns ==
  \A k \in Cores : \A f \in Files \ Large :
    []<>(main # "running" \/ f \in bugs[k] \/ (pc[k] = "produce" /\ file[k] = f))
=============================================================================
