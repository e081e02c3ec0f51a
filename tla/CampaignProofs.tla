--------------------------- MODULE CampaignProofs ---------------------------
(***************************************************************************)
(* Theorems about the two scripts that share folders: about Campaign, for  *)
(* any number of cores, of programs, of variants and of sessions, and at   *)
(* the end about MountPipe.                                                *)
(***************************************************************************)
EXTENDS Campaign, MountPipe, NatSets, SequenceTheorems

-----------------------------------------------------------------------------
(* Types.                                                                  *)

\* the steps of add_files, after mkdir
Filling == {"source", "config", "initial", "transformed"}
Labels == {"off", "pick", "produce", "variants", "list", "mkdir"} \cup Filling

Content == [sources: SUBSET Files, config: Files \cup {NoFile},
            initial: Files \cup {NoFile}, transformed: SUBSET Files]

Typed ==
  /\ DOMAIN folders \subseteq Nat /\ IsFiniteSet(DOMAIN folders)
  /\ folders \in [DOMAIN folders -> Content]
  /\ main \in {"starting", "running", "stopping", "crashed"}
  /\ bugs \in [Cores -> SUBSET Files] /\ round \in [Cores -> SUBSET Files]
  /\ file \in [Cores -> Files \cup {NoFile}] /\ number \in [Cores -> Nat]
  /\ left \in [Cores -> Nat] /\ pc \in [Cores -> Labels]
  /\ \A k \in Cores : pc[k] \notin {"off", "pick"} => file[k] \in Files
  /\ stored \subseteq Files /\ earlier \subseteq stored

\* a core that fills a folder has the number of one
Numbered == \A k \in Cores : pc[k] \in Filling => number[k] \in DOMAIN folders

-----------------------------------------------------------------------------
(* Folders without a config: each is charged to a core of its own, which   *)
(* is filling it or has been killed.                                       *)

Unfinished == {n \in DOMAIN folders : folders[n].config = NoFile}

Charged(k, n) == \/ pc[k] = "off"
                 \/ pc[k] \in {"source", "config"} /\ number[k] = n

Accounted == \E owner \in [Unfinished -> Cores] :
               /\ \A m, n \in Unfinished : owner[m] = owner[n] => m = n
               /\ \A n \in Unfinished : Charged(owner[n], n)

-----------------------------------------------------------------------------
(* As long as no two calls of add_files have used one folder.              *)

\* what core k has put into its folder so far
SoFar(k) == [sources     |-> IF pc[k] = "source" THEN {} ELSE {file[k]},
             config      |-> IF pc[k] \in {"source", "config"} THEN NoFile ELSE file[k],
             initial     |-> IF pc[k] = "transformed" THEN file[k] ELSE NoFile,
             transformed |-> {}]

\* each core that fills a folder has one of its own, with its own files only
Separate ==
  /\ \A k \in Cores : pc[k] \in Filling
       => number[k] \in DOMAIN folders /\ folders[number[k]] = SoFar(k)
  /\ \A j, k \in Cores : pc[j] \in Filling /\ pc[k] \in Filling /\ number[j] = number[k]
       => j = k

\* a folder holds files of one program
Pure(b) == \E f \in Files : /\ b.sources \subseteq {f} /\ b.transformed \subseteq {f}
                            /\ b.config # NoFile => b.config \in b.sources
                            /\ b.initial # NoFile => b.initial = b.config

AllPure == \A n \in DOMAIN folders : Pure(folders[n])

\* a stored file has a folder nobody writes to any more
StoredKept == \A f \in stored : \E n \in DOMAIN folders :
                /\ folders[n].config = f
                /\ \A k \in Cores : pc[k] \in Filling => number[k] # n

\* a running core knows all files stored in earlier sessions
EarlierKnown == \A k \in Cores : pc[k] # "off" => earlier \subseteq bugs[k]

Clean == shared = {} => /\ Separate /\ AllPure /\ StoredKept
                        /\ EarlierKnown /\ StoredNotRetested

IInv == Typed /\ Numbered /\ Accounted /\ Clean

-----------------------------------------------------------------------------
(* Numbers of folders.                                                     *)

\* The number chosen is not in use at that moment.
LEMMA NextNumberIsFree ==
  ASSUME Typed
  PROVE  NextNumber \in Nat /\ NextNumber \notin DOMAIN folders
  <1>1. CASE folders = <<>>
    <2>1. DOMAIN folders = {} /\ NextNumber = 0
      BY <1>1 DEF NextNumber
    <2> QED BY <2>1
  <1>2. CASE folders # <<>>
    <2>1. DOMAIN folders # {}
      <3> SUFFICES ASSUME DOMAIN folders = {} PROVE FALSE
        OBVIOUS
      <3>1. 1..0 = {}
        OBVIOUS
      <3>2. folders \in [1..0 -> Content]
        BY <3>1 DEF Typed
      <3>3. folders \in Seq(Content) /\ Len(folders) = 0
        BY <3>1, <3>2
      <3> QED BY <1>2, <3>3, EmptySeq
    <2>2. Max(DOMAIN folders) \in DOMAIN folders
          /\ \A n \in DOMAIN folders : Max(DOMAIN folders) >= n
      BY <2>1, MaxProperties DEF Typed
    <2> QED BY <1>2, <2>2 DEF NextNumber, Typed
  <1> QED BY <1>1, <1>2

-----------------------------------------------------------------------------
(* Steps that write to no folder.                                          *)

\* core k works outside add_files
Elsewhere(k) == \/ NewRound(k) \/ Skip(k) \/ Pick(k) \/ Produce(k) \/ Return(k)
                \/ VariantPasses(k) \/ VariantFails(k) \/ ListBugFolders(k)

LEMMA ElsewhereStep ==
  ASSUME Typed, NEW k \in Cores, Elsewhere(k)
  PROVE  /\ UNCHANGED <<folders, session, main, found, stored, earlier, shared>>
         /\ pc[k] \notin Filling \cup {"off"} /\ pc'[k] \notin Filling \cup {"off"}
         /\ \A j \in Cores : j # k => /\ pc'[j] = pc[j] /\ number'[j] = number[j]
                                      /\ file'[j] = file[j]
         /\ \A j \in Cores : bugs[j] \subseteq bugs'[j]
         /\ pc'[k] = "produce" /\ pc[k] # "produce" => file'[k] \notin bugs[k]
         /\ pc'[k] = "produce" /\ pc[k] = "produce" => file'[k] = file[k]
         /\ Typed'
  <1> USE DEF Typed, InRun, Goto, history, Filling, Labels
  <1>1. CASE NewRound(k)
    BY <1>1 DEF NewRound
  <1>2. CASE Skip(k)
    BY <1>2 DEF Skip
  <1>3. CASE Pick(k)
    <2>1. PICK f \in round[k] \ (bugs[k] \cup Large) :
            /\ round' = [round EXCEPT ![k] = @ \ {f}]
            /\ file' = [file EXCEPT ![k] = f]
      BY <1>3 DEF Pick
    <2> QED BY <1>3, <2>1 DEF Pick
  <1>4. CASE Produce(k)
    BY <1>4, CampaignAssumption DEF Produce
  <1>5. CASE Return(k)
    BY <1>5 DEF Return
  <1>6. CASE VariantPasses(k)
    BY <1>6 DEF VariantPasses
  <1>7. CASE VariantFails(k)
    BY <1>7 DEF VariantFails
  <1>8. CASE ListBugFolders(k)
    BY <1>8, NextNumberIsFree DEF ListBugFolders
  <1> QED BY <1>1, <1>2, <1>3, <1>4, <1>5, <1>6, <1>7, <1>8 DEF Elsewhere

-----------------------------------------------------------------------------
(* Steps of add_files.                                                     *)

Writes(k) == \/ MakeBugFolder(k) \/ CopySource(k) \/ CopyConfig(k)
             \/ CopyInitial(k) \/ CopyTransformed(k)

\* A copy changes one field of the folder the core has the number of.
LEMMA CopyStep ==
  ASSUME Typed, NEW k \in Cores, number[k] \in DOMAIN folders,
         CopySource(k) \/ CopyConfig(k) \/ CopyInitial(k) \/ CopyTransformed(k)
  PROVE  LET n == number[k]  old == folders[n]  f == file[k]
         IN  /\ DOMAIN folders' = DOMAIN folders
             /\ \A m \in DOMAIN folders : m # n => folders'[m] = folders[m]
             /\ CopySource(k) => folders'[n] = [old EXCEPT !.sources = @ \cup {f}]
             /\ CopyConfig(k) => folders'[n] = [old EXCEPT !.config = f]
             /\ CopyInitial(k) => folders'[n] = [old EXCEPT !.initial = f]
             /\ CopyTransformed(k) =>
                  folders'[n] = [old EXCEPT !.transformed = @ \cup {f}]
  BY DEF Typed, CopySource, CopyConfig, CopyInitial, CopyTransformed, Content

LEMMA WritesTyped ==
  ASSUME Typed, NEW k \in Cores, Writes(k),
         pc[k] \in Filling => number[k] \in DOMAIN folders
  PROVE  Typed'
  <1>0. file[k] \in Files /\ number[k] \in Nat
    <2>1. pc[k] \notin {"off", "pick"}
      BY DEF Writes, MakeBugFolder, CopySource, CopyConfig, CopyInitial, CopyTransformed
    <2> QED BY <2>1 DEF Typed
  <1>1. UNCHANGED <<main, bugs, round, file, number, left, earlier>>
    BY DEF Writes, MakeBugFolder, CopySource, CopyConfig, CopyInitial, CopyTransformed,
           InFolder
  <1>2. pc' \in [Cores -> Labels] /\ \A j \in Cores : pc'[j] \notin {"off", "pick"}
                                        => file'[j] \in Files
    BY <1>0, <1>1 DEF Writes, MakeBugFolder, CopySource, CopyConfig, CopyInitial,
                CopyTransformed, InFolder, Goto, Typed, Labels, Filling
  <1>3. stored' \subseteq Files /\ earlier' \subseteq stored'
    BY <1>0, <1>1 DEF Writes, MakeBugFolder, CopySource, CopyConfig, CopyInitial,
                CopyTransformed, InFolder, Typed
  <1>4. /\ DOMAIN folders' \subseteq Nat /\ IsFiniteSet(DOMAIN folders')
        /\ folders' \in [DOMAIN folders' -> Content]
    <2>1. CASE MakeBugFolder(k)
      <3>1. CASE number[k] \in DOMAIN folders
        BY <2>1, <3>1 DEF MakeBugFolder, Typed
      <3>2. CASE number[k] \notin DOMAIN folders
        <4>1. folders' = [n \in DOMAIN folders \cup {number[k]} |->
                            IF n = number[k] THEN Empty ELSE folders[n]]
          BY <2>1, <3>2 DEF MakeBugFolder
        <4>2. Empty \in Content
          BY DEF Empty, Content
        <4>3. IsFiniteSet(DOMAIN folders \cup {number[k]})
          BY FS_AddElement DEF Typed
        <4> QED BY <1>0, <4>1, <4>2, <4>3 DEF Typed
      <3> QED BY <3>1, <3>2
    <2>2. CASE ~ MakeBugFolder(k)
      <3>1. CopySource(k) \/ CopyConfig(k) \/ CopyInitial(k) \/ CopyTransformed(k)
        BY <2>2 DEF Writes
      <3>2. pc[k] \in Filling
        BY <3>1 DEF CopySource, CopyConfig, CopyInitial, CopyTransformed, Filling
      <3>3. folders[number[k]] \in Content
        BY <3>2 DEF Typed
      <3>4. folders' \in [DOMAIN folders -> Content]
        BY <1>0, <3>1, <3>2, <3>3
           DEF CopySource, CopyConfig, CopyInitial, CopyTransformed, Content, Typed
      <3> QED BY <3>4 DEF Typed
    <2> QED BY <2>1, <2>2
  <1> QED BY <1>1, <1>2, <1>3, <1>4 DEF Typed

LEMMA NumberedStep == Typed /\ Numbered /\ [Next]_vars => Numbered'
  <1> SUFFICES ASSUME Typed, Numbered, [Next]_vars PROVE Numbered'
    OBVIOUS
  <1>1. CASE Start
    BY <1>1 DEF Start, Numbered, Filling
  <1>2. CASE Crash \/ Stop \/ Restart \/ UNCHANGED vars
    BY <1>2 DEF Crash, Stop, Restart, vars, coreVars, Numbered
  <1>3. ASSUME NEW k \in Cores, Die(k) PROVE Numbered'
    BY <1>3 DEF Die, Numbered, Typed, Filling
  <1>4. ASSUME NEW k \in Cores, Elsewhere(k) PROVE Numbered'
    BY <1>4, ElsewhereStep DEF Numbered
  <1>5. ASSUME NEW k \in Cores, MakeBugFolder(k) PROVE Numbered'
    <2>1. number[k] \in DOMAIN folders'
          /\ DOMAIN folders \subseteq DOMAIN folders' /\ number' = number
      BY <1>5 DEF MakeBugFolder
    <2>2. \A j \in Cores : pc'[j] \in Filling => j = k \/ pc[j] \in Filling
      BY <1>5 DEF MakeBugFolder, Goto, Typed
    <2> QED BY <2>1, <2>2 DEF Numbered
  <1>6. ASSUME NEW k \in Cores,
               CopySource(k) \/ CopyConfig(k) \/ CopyInitial(k) \/ CopyTransformed(k)
        PROVE  Numbered'
    <2>1. pc[k] \in Filling
      BY <1>6 DEF CopySource, CopyConfig, CopyInitial, CopyTransformed, Filling
    <2>2. number[k] \in DOMAIN folders
      BY <2>1 DEF Numbered
    <2>3. DOMAIN folders' = DOMAIN folders
      BY <1>6, <2>2, CopyStep
    <2>4. number' = number
      BY <1>6 DEF CopySource, CopyConfig, CopyInitial, CopyTransformed, InFolder
    <2>5. \A j \in Cores : pc'[j] \in Filling => j = k \/ pc[j] \in Filling
      BY <1>6 DEF CopySource, CopyConfig, CopyInitial, CopyTransformed, Goto, Typed
    <2> QED BY <2>2, <2>3, <2>4, <2>5 DEF Numbered
  <1> QED BY <1>1, <1>2, <1>3, <1>4, <1>5, <1>6
          DEF Next, Work, Elsewhere, Stopped

LEMMA TypedStep == Typed /\ Numbered /\ [Next]_vars => Typed'
  <1> SUFFICES ASSUME Typed, Numbered, [Next]_vars PROVE Typed'
    OBVIOUS
  <1>1. CASE Start
    <2>1. Configs \subseteq Files
      BY <1>1 DEF Start, Configs, Typed, Content
    <2> QED BY <1>1, <2>1 DEF Start, Typed, Labels, history
  <1>2. CASE Crash \/ Stop \/ UNCHANGED vars
    BY <1>2 DEF Crash, Stop, Typed, coreVars, history, vars
  <1>3. CASE Restart
    BY <1>3 DEF Restart, Typed, coreVars
  <1>4. ASSUME NEW k \in Cores, Die(k) PROVE Typed'
    BY <1>4 DEF Die, Typed, Labels, history
  <1>5. ASSUME NEW k \in Cores, Elsewhere(k) PROVE Typed'
    BY <1>5, ElsewhereStep
  <1>6. ASSUME NEW k \in Cores, Writes(k) PROVE Typed'
    BY <1>6, WritesTyped DEF Numbered
  <1> QED BY <1>1, <1>2, <1>3, <1>4, <1>5, <1>6
          DEF Next, Work, Elsewhere, Writes, Stopped

-----------------------------------------------------------------------------
(* Every folder without a config is charged to a core.                     *)

\* It is enough that no folder becomes unfinished and no charge is lifted.
LEMMA AccountedKept ==
  ASSUME Accounted, Unfinished' \subseteq Unfinished,
         \A k \in Cores : \A n \in Unfinished' : Charged(k, n) => Charged(k, n)'
  PROVE  Accounted'
  <1>1. PICK owner \in [Unfinished -> Cores] :
          /\ \A m, n \in Unfinished : owner[m] = owner[n] => m = n
          /\ \A n \in Unfinished : Charged(owner[n], n)
    BY DEF Accounted
  <1>a. PICK new : new = [n \in Unfinished' |-> owner[n]]
    OBVIOUS
  <1>2. new \in [Unfinished' -> Cores]
    BY <1>1, <1>a
  <1>3. \A m, n \in Unfinished' : new[m] = new[n] => m = n
    BY <1>1, <1>a
  <1>4. \A n \in Unfinished' : Charged(new[n], n)'
    BY <1>1, <1>a
  <1> QED BY <1>2, <1>3, <1>4 DEF Accounted

LEMMA AccountedStep == Typed /\ Numbered /\ Accounted /\ [Next]_vars => Accounted'
  <1> SUFFICES ASSUME Typed, Numbered, Accounted, [Next]_vars PROVE Accounted'
    OBVIOUS
  <1>1. CASE Start
    <2>1. Unfinished' = {}
      BY <1>1 DEF Start, Unfinished, Configs
    <2> QED BY <2>1, AccountedKept
  <1>2. CASE Crash \/ Stop \/ Restart \/ UNCHANGED vars
    BY <1>2, AccountedKept DEF Crash, Stop, Restart, vars, coreVars, Unfinished, Charged
  <1>3. ASSUME NEW k \in Cores, Die(k) PROVE Accounted'
    <2>1. Unfinished' = Unfinished
      BY <1>3 DEF Die, Unfinished
    <2>2. \A j \in Cores : \A n \in Unfinished' : Charged(j, n) => Charged(j, n)'
      BY <1>3 DEF Die, Charged, Typed
    <2> QED BY <2>1, <2>2, AccountedKept
  <1>4. ASSUME NEW k \in Cores, Elsewhere(k) PROVE Accounted'
    <2>1. Unfinished' = Unfinished
      BY <1>4, ElsewhereStep DEF Unfinished
    <2>2. \A j \in Cores : \A n \in Unfinished' : Charged(j, n) => Charged(j, n)'
      BY <1>4, ElsewhereStep DEF Charged, Filling
    <2> QED BY <2>1, <2>2, AccountedKept
  <1>5. ASSUME NEW k \in Cores, MakeBugFolder(k) PROVE Accounted'
    <2>0. /\ pc[k] = "mkdir" /\ pc'[k] = "source" /\ number' = number
          /\ \A j \in Cores : j # k => pc'[j] = pc[j]
      BY <1>5 DEF MakeBugFolder, Goto, Typed
    <2>1. CASE number[k] \in DOMAIN folders
      <3>1. Unfinished' = Unfinished
        BY <1>5, <2>1 DEF MakeBugFolder, Unfinished
      <3>2. \A j \in Cores : \A n \in Unfinished' : Charged(j, n) => Charged(j, n)'
        BY <2>0 DEF Charged
      <3> QED BY <3>1, <3>2, AccountedKept
    <2>2. CASE number[k] \notin DOMAIN folders
      <3>1. Unfinished' = Unfinished \cup {number[k]} /\ number[k] \notin Unfinished
        <4>1. folders' = [n \in DOMAIN folders \cup {number[k]} |->
                            IF n = number[k] THEN Empty ELSE folders[n]]
          BY <1>5, <2>2 DEF MakeBugFolder
        <4> QED BY <2>2, <4>1 DEF Unfinished, Empty
      <3>2. PICK owner \in [Unfinished -> Cores] :
              /\ \A m, n \in Unfinished : owner[m] = owner[n] => m = n
              /\ \A n \in Unfinished : Charged(owner[n], n)
        BY DEF Accounted
      <3>3. \A n \in Unfinished : owner[n] # k
        BY <2>0, <3>2 DEF Charged
      <3>a. PICK new : new = [n \in Unfinished' |-> IF n = number[k] THEN k ELSE owner[n]]
        OBVIOUS
      <3>4. new \in [Unfinished' -> Cores]
        BY <3>1, <3>2, <3>a
      <3>5. \A m, n \in Unfinished' : new[m] = new[n] => m = n
        BY <3>1, <3>2, <3>3, <3>a
      <3>6. \A n \in Unfinished' : Charged(new[n], n)'
        BY <2>0, <3>1, <3>2, <3>3, <3>a DEF Charged
      <3> QED BY <3>4, <3>5, <3>6 DEF Accounted
    <2> QED BY <2>1, <2>2
  <1>6. ASSUME NEW k \in Cores,
               CopySource(k) \/ CopyConfig(k) \/ CopyInitial(k) \/ CopyTransformed(k)
        PROVE  Accounted'
    <2>0. /\ number[k] \in DOMAIN folders /\ number' = number
          /\ \A j \in Cores : j # k => pc'[j] = pc[j]
          /\ pc'[k] # "off" /\ pc[k] \in Filling
          /\ pc[k] = "source" => pc'[k] = "config"
          /\ file[k] # NoFile
      BY <1>6, FilesAssumption
         DEF CopySource, CopyConfig, CopyInitial, CopyTransformed, InFolder, Goto,
             Filling, Numbered, Typed
    <2>1. Unfinished' \subseteq Unfinished
      <3>1. folders[number[k]] \in Content
        BY <2>0 DEF Typed
      <3>2. folders'[number[k]].config = NoFile => folders[number[k]].config = NoFile
        <4>1. CASE CopyConfig(k)
          <5>1. folders'[number[k]] = [folders[number[k]] EXCEPT !.config = file[k]]
            BY <2>0, <4>1, CopyStep
          <5> QED BY <2>0, <3>1, <5>1 DEF Content
        <4>2. CASE CopySource(k)
          <5>1. folders'[number[k]]
                  = [folders[number[k]] EXCEPT !.sources = @ \cup {file[k]}]
            BY <2>0, <4>2, CopyStep
          <5> QED BY <3>1, <5>1 DEF Content
        <4>3. CASE CopyInitial(k)
          <5>1. folders'[number[k]] = [folders[number[k]] EXCEPT !.initial = file[k]]
            BY <2>0, <4>3, CopyStep
          <5> QED BY <3>1, <5>1 DEF Content
        <4>4. CASE CopyTransformed(k)
          <5>1. folders'[number[k]]
                  = [folders[number[k]] EXCEPT !.transformed = @ \cup {file[k]}]
            BY <2>0, <4>4, CopyStep
          <5> QED BY <3>1, <5>1 DEF Content
        <4> QED BY <1>6, <4>1, <4>2, <4>3, <4>4
      <3> QED BY <1>6, <2>0, <3>2, CopyStep DEF Unfinished
    <2>2. pc[k] = "config" => number[k] \notin Unfinished'
      <3> SUFFICES ASSUME pc[k] = "config" PROVE number[k] \notin Unfinished'
        OBVIOUS
      <3>1. CopyConfig(k)
        BY <1>6 DEF CopySource, CopyConfig, CopyInitial, CopyTransformed
      <3>2. folders[number[k]] \in Content
        BY <2>0 DEF Typed
      <3>3. folders'[number[k]].config = file[k]
        <4>1. folders'[number[k]] = [folders[number[k]] EXCEPT !.config = file[k]]
          BY <2>0, <3>1, CopyStep
        <4> QED BY <3>2, <4>1 DEF Content
      <3> QED BY <2>0, <3>3 DEF Unfinished
    <2>3. \A j \in Cores : \A n \in Unfinished' : Charged(j, n) => Charged(j, n)'
      BY <2>0, <2>2 DEF Charged, Filling
    <2> QED BY <2>1, <2>3, AccountedKept
  <1> QED BY <1>1, <1>2, <1>3, <1>4, <1>5, <1>6
          DEF Next, Work, Elsewhere, Stopped

-----------------------------------------------------------------------------
(* Folders of one core each.                                               *)

LEMMA SharedGrows == [Next]_vars => shared \subseteq shared'
  BY DEF Next, Work, Start, Crash, Stop, Restart, Die, NewRound, Skip, Pick, Produce,
         Return, VariantPasses, VariantFails, ListBugFolders, MakeBugFolder,
         CopySource, CopyConfig, CopyInitial, CopyTransformed, Stopped, InRun,
         InFolder, vars, history

Copies(k) == CopySource(k) \/ CopyConfig(k) \/ CopyInitial(k) \/ CopyTransformed(k)

\* What a copy does to a folder that only this core fills.
LEMMA FillStep ==
  ASSUME Typed, Numbered, Separate, NEW k \in Cores, Copies(k)
  PROVE  /\ UNCHANGED <<number, file, bugs, earlier, shared>>
         /\ pc[k] \in Filling /\ pc'[k] \in (Filling \cup {"variants"}) \ {"source"}
         /\ \A j \in Cores : j # k => pc'[j] = pc[j]
         /\ pc'[k] \in Filling => folders'[number[k]] = SoFar(k)' /\ stored' = stored
         /\ pc'[k] \notin Filling => /\ folders'[number[k]].config = file[k]
                                     /\ stored' = stored \cup {file[k]}
         /\ Pure(folders'[number[k]])
  <1>1. /\ UNCHANGED <<number, file, bugs, earlier, shared>>
        /\ \A j \in Cores : j # k => pc'[j] = pc[j]
    BY DEF Copies, CopySource, CopyConfig, CopyInitial, CopyTransformed, InFolder,
           Goto, Typed
  <1>2. pc[k] \in Filling /\ pc'[k] \in (Filling \cup {"variants"}) \ {"source"}
    BY DEF Copies, CopySource, CopyConfig, CopyInitial, CopyTransformed, InFolder,
           Goto, Typed, Filling
  <1>3. number[k] \in DOMAIN folders /\ folders[number[k]] = SoFar(k)
    BY <1>2 DEF Separate
  <1>4. file[k] \in Files /\ file[k] # NoFile
    BY <1>2, FilesAssumption DEF Typed, Filling
  <1>5. CASE CopySource(k)
    <2>1. folders'[number[k]] = [folders[number[k]] EXCEPT !.sources = @ \cup {file[k]}]
      BY <1>3, <1>5, CopyStep
    <2>2. pc[k] = "source" /\ pc'[k] = "config" /\ stored' = stored
      BY <1>5 DEF CopySource, Goto, Typed
    <2>3. folders'[number[k]] = [sources |-> {file[k]}, config |-> NoFile,
                                 initial |-> NoFile, transformed |-> {}]
      BY <1>3, <2>1, <2>2 DEF SoFar
    <2>4. SoFar(k)' = [sources |-> {file[k]}, config |-> NoFile,
                       initial |-> NoFile, transformed |-> {}]
      BY <1>1, <2>2 DEF SoFar
    <2>5. Pure(folders'[number[k]])
      BY <1>4, <2>3 DEF Pure
    <2> QED BY <1>1, <1>2, <2>2, <2>3, <2>4, <2>5 DEF Filling
  <1>6. CASE CopyConfig(k)
    <2>1. folders'[number[k]] = [folders[number[k]] EXCEPT !.config = file[k]]
      BY <1>3, <1>6, CopyStep
    <2>2. pc[k] = "config" /\ pc'[k] = "initial" /\ stored' = stored
      BY <1>6 DEF CopyConfig, Goto, Typed
    <2>3. folders'[number[k]] = [sources |-> {file[k]}, config |-> file[k],
                                 initial |-> NoFile, transformed |-> {}]
      BY <1>3, <2>1, <2>2 DEF SoFar
    <2>4. SoFar(k)' = [sources |-> {file[k]}, config |-> file[k],
                       initial |-> NoFile, transformed |-> {}]
      BY <1>1, <2>2 DEF SoFar
    <2>5. Pure(folders'[number[k]])
      BY <1>4, <2>3 DEF Pure
    <2> QED BY <1>1, <1>2, <2>2, <2>3, <2>4, <2>5 DEF Filling
  <1>7. CASE CopyInitial(k)
    <2>1. folders'[number[k]] = [folders[number[k]] EXCEPT !.initial = file[k]]
      BY <1>3, <1>7, CopyStep
    <2>2. pc[k] = "initial" /\ pc'[k] = "transformed" /\ stored' = stored
      BY <1>7 DEF CopyInitial, Goto, Typed
    <2>3. folders'[number[k]] = [sources |-> {file[k]}, config |-> file[k],
                                 initial |-> file[k], transformed |-> {}]
      BY <1>3, <2>1, <2>2 DEF SoFar
    <2>4. SoFar(k)' = [sources |-> {file[k]}, config |-> file[k],
                       initial |-> file[k], transformed |-> {}]
      BY <1>1, <2>2 DEF SoFar
    <2>5. Pure(folders'[number[k]])
      BY <1>4, <2>3 DEF Pure
    <2> QED BY <1>1, <1>2, <2>2, <2>3, <2>4, <2>5 DEF Filling
  <1>8. CASE CopyTransformed(k)
    <2>1. folders'[number[k]]
            = [folders[number[k]] EXCEPT !.transformed = @ \cup {file[k]}]
      BY <1>3, <1>8, CopyStep
    <2>2. pc[k] = "transformed" /\ pc'[k] = "variants" /\ stored' = stored \cup {file[k]}
      BY <1>8 DEF CopyTransformed, Goto, Typed
    <2>3. folders'[number[k]] = [sources |-> {file[k]}, config |-> file[k],
                                 initial |-> file[k], transformed |-> {file[k]}]
      BY <1>3, <2>1, <2>2 DEF SoFar
    <2>5. Pure(folders'[number[k]])
      BY <1>4, <2>3 DEF Pure
    <2> QED BY <1>1, <1>2, <2>2, <2>3, <2>5 DEF Filling
  <1> QED BY <1>5, <1>6, <1>7, <1>8 DEF Copies

\* A folder that is made and not shared is new.
LEMMA MakeStep ==
  ASSUME Typed, NEW k \in Cores, MakeBugFolder(k), shared' = {}
  PROVE  /\ UNCHANGED <<number, file, bugs, earlier, stored>>
         /\ pc[k] = "mkdir" /\ pc'[k] = "source"
         /\ \A j \in Cores : j # k => pc'[j] = pc[j]
         /\ number[k] \notin DOMAIN folders
         /\ DOMAIN folders' = DOMAIN folders \cup {number[k]}
         /\ \A n \in DOMAIN folders : folders'[n] = folders[n]
         /\ folders'[number[k]] = Empty
  <1>1. number[k] \notin DOMAIN folders
    BY DEF MakeBugFolder
  <1>2. folders' = [n \in DOMAIN folders \cup {number[k]} |->
                      IF n = number[k] THEN Empty ELSE folders[n]]
    BY <1>1 DEF MakeBugFolder
  <1> QED BY <1>1, <1>2 DEF MakeBugFolder, Goto, Typed

LEMMA SeparateStep ==
  ASSUME Typed, Numbered, Separate, shared' = {}, [Next]_vars
  PROVE  Separate'
  <1>1. CASE Start
    BY <1>1 DEF Start, Separate, Filling
  <1>2. CASE Crash \/ Stop \/ Restart \/ UNCHANGED vars
    BY <1>2 DEF Crash, Stop, Restart, vars, coreVars, Separate, SoFar
  <1>3. ASSUME NEW k \in Cores, Die(k) PROVE Separate'
    <2>1. /\ folders' = folders
          /\ \A j \in Cores : /\ j # k => /\ pc'[j] = pc[j] /\ number'[j] = number[j]
                                          /\ file'[j] = file[j]
                              /\ pc'[j] \in Filling => j # k
      BY <1>3 DEF Die, Typed, Filling
    <2> QED BY <2>1 DEF Separate, SoFar
  <1>4. ASSUME NEW k \in Cores, Elsewhere(k) PROVE Separate'
    <2>1. /\ folders' = folders /\ pc'[k] \notin Filling
          /\ \A j \in Cores : j # k => /\ pc'[j] = pc[j] /\ number'[j] = number[j]
                                       /\ file'[j] = file[j]
      BY <1>4, ElsewhereStep
    <2> QED BY <2>1 DEF Separate, SoFar
  <1>5. ASSUME NEW k \in Cores, MakeBugFolder(k) PROVE Separate'
    <2>1. /\ UNCHANGED <<number, file>>
          /\ pc'[k] = "source"
          /\ \A j \in Cores : j # k => pc'[j] = pc[j]
          /\ number[k] \notin DOMAIN folders
          /\ DOMAIN folders' = DOMAIN folders \cup {number[k]}
          /\ \A n \in DOMAIN folders : folders'[n] = folders[n]
          /\ folders'[number[k]] = Empty
      BY <1>5, MakeStep
    <2>2. SoFar(k)' = Empty
      BY <2>1 DEF SoFar, Empty
    <2>3. \A j \in Cores : j # k => SoFar(j)' = SoFar(j)
      BY <2>1 DEF SoFar
    <2> QED BY <2>1, <2>2, <2>3 DEF Separate
  <1>6. ASSUME NEW k \in Cores, Copies(k) PROVE Separate'
    <2>1. /\ UNCHANGED <<number, file>> /\ pc[k] \in Filling
          /\ \A j \in Cores : j # k => pc'[j] = pc[j]
          /\ pc'[k] \in Filling => folders'[number[k]] = SoFar(k)'
      BY <1>6, FillStep
    <2>2. number[k] \in DOMAIN folders
      BY <2>1 DEF Numbered
    <2>3. /\ DOMAIN folders' = DOMAIN folders
          /\ \A m \in DOMAIN folders : m # number[k] => folders'[m] = folders[m]
      BY <1>6, <2>2, CopyStep DEF Copies
    <2>4. \A j \in Cores : j # k => SoFar(j)' = SoFar(j)
      BY <2>1 DEF SoFar
    <2> QED BY <2>1, <2>2, <2>3, <2>4 DEF Separate
  <1> QED BY <1>1, <1>2, <1>3, <1>4, <1>5, <1>6
          DEF Next, Work, Elsewhere, Copies, Stopped

LEMMA AllPureStep ==
  ASSUME Typed, Numbered, Separate, AllPure, shared' = {}, [Next]_vars
  PROVE  AllPure'
  <1>1. CASE UNCHANGED folders
    BY <1>1 DEF AllPure
  <1>2. ASSUME NEW k \in Cores, MakeBugFolder(k) PROVE AllPure'
    <2>1. /\ DOMAIN folders' = DOMAIN folders \cup {number[k]}
          /\ \A n \in DOMAIN folders : folders'[n] = folders[n]
          /\ folders'[number[k]] = Empty /\ pc[k] = "mkdir"
      BY <1>2, MakeStep
    <2>2. Pure(Empty)
      BY <2>1 DEF Pure, Empty, Typed
    <2> QED BY <2>1, <2>2 DEF AllPure
  <1>3. ASSUME NEW k \in Cores, Copies(k) PROVE AllPure'
    <2>1. Pure(folders'[number[k]]) /\ number[k] \in DOMAIN folders
      BY <1>3, FillStep DEF Numbered
    <2>2. /\ DOMAIN folders' = DOMAIN folders
          /\ \A m \in DOMAIN folders : m # number[k] => folders'[m] = folders[m]
      BY <1>3, <2>1, CopyStep DEF Copies
    <2> QED BY <2>1, <2>2 DEF AllPure
  <1>4. ASSUME NEW k \in Cores, Elsewhere(k) PROVE UNCHANGED folders
    BY <1>4, ElsewhereStep
  <1> QED BY <1>1, <1>2, <1>3, <1>4
          DEF Next, Work, Elsewhere, Copies, Stopped, Start, Crash, Stop, Restart, Die, vars

-----------------------------------------------------------------------------
(* What an earlier session stored.                                         *)

\* It is enough that the folders a stored file may rely on stay, and that no
\* core begins to fill one of them.
LEMMA StoredKeptStill ==
  ASSUME StoredKept, stored' = stored,
         \A n \in DOMAIN folders : (\A k \in Cores : pc[k] \in Filling => number[k] # n)
           => /\ n \in DOMAIN folders' /\ folders'[n] = folders[n]
              /\ \A k \in Cores : pc'[k] \in Filling => number'[k] # n
  PROVE  StoredKept'
  BY DEF StoredKept

LEMMA StoredKeptStep ==
  ASSUME Typed, Numbered, Separate, StoredKept, shared' = {}, [Next]_vars
  PROVE  StoredKept'
  <1>1. CASE Start
    BY <1>1, StoredKeptStill DEF Start, history, Filling
  <1>2. CASE Crash \/ Stop \/ Restart \/ UNCHANGED vars
    BY <1>2, StoredKeptStill DEF Crash, Stop, Restart, vars, coreVars, history
  <1>3. ASSUME NEW k \in Cores, Die(k) PROVE StoredKept'
    <2>1. /\ folders' = folders /\ stored' = stored
          /\ \A j \in Cores : pc'[j] \in Filling => pc[j] \in Filling /\ number'[j] = number[j]
      BY <1>3 DEF Die, history, Typed, Filling
    <2> QED BY <2>1, StoredKeptStill
  <1>4. ASSUME NEW k \in Cores, Elsewhere(k) PROVE StoredKept'
    <2>1. /\ folders' = folders /\ stored' = stored
          /\ \A j \in Cores : pc'[j] \in Filling => pc[j] \in Filling /\ number'[j] = number[j]
      BY <1>4, ElsewhereStep
    <2> QED BY <2>1, StoredKeptStill
  <1>5. ASSUME NEW k \in Cores, MakeBugFolder(k) PROVE StoredKept'
    <2>1. /\ number' = number /\ stored' = stored
          /\ \A j \in Cores : j # k => pc'[j] = pc[j]
          /\ number[k] \notin DOMAIN folders
          /\ DOMAIN folders \subseteq DOMAIN folders'
          /\ \A n \in DOMAIN folders : folders'[n] = folders[n]
      BY <1>5, MakeStep
    <2>2. \A n \in DOMAIN folders : number[k] # n
      BY <2>1
    <2> QED BY <2>1, <2>2, StoredKeptStill
  <1>6. ASSUME NEW k \in Cores, Copies(k) PROVE StoredKept'
    <2>1. /\ number' = number /\ pc[k] \in Filling
          /\ \A j \in Cores : j # k => pc'[j] = pc[j]
          /\ pc'[k] \in Filling => stored' = stored
          /\ pc'[k] \notin Filling => /\ folders'[number[k]].config = file[k]
                                      /\ stored' = stored \cup {file[k]}
      BY <1>6, FillStep
    <2>2. number[k] \in DOMAIN folders
      BY <2>1 DEF Numbered
    <2>3. /\ DOMAIN folders' = DOMAIN folders
          /\ \A m \in DOMAIN folders : m # number[k] => folders'[m] = folders[m]
      BY <1>6, <2>2, CopyStep DEF Copies
    <2>4. ASSUME NEW f \in stored
          PROVE  \E n \in DOMAIN folders' :
                   /\ folders'[n].config = f
                   /\ \A j \in Cores : pc'[j] \in Filling => number'[j] # n
      <3>1. PICK n \in DOMAIN folders :
              /\ folders[n].config = f
              /\ \A j \in Cores : pc[j] \in Filling => number[j] # n
        BY DEF StoredKept
      <3>2. n # number[k]
        BY <2>1, <3>1
      <3> QED BY <2>1, <2>3, <3>1, <3>2
    <2>5. CASE pc'[k] \in Filling
      BY <2>1, <2>4, <2>5 DEF StoredKept
    <2>6. CASE pc'[k] \notin Filling
      <3>1. \A j \in Cores : pc'[j] \in Filling => number'[j] # number[k]
        BY <2>1, <2>6 DEF Separate
      <3> QED BY <2>1, <2>2, <2>3, <2>4, <2>6, <3>1 DEF StoredKept
    <2> QED BY <2>5, <2>6
  <1> QED BY <1>1, <1>2, <1>3, <1>4, <1>5, <1>6
          DEF Next, Work, Elsewhere, Copies, Stopped

LEMMA EarlierKnownStep ==
  ASSUME Typed, Numbered, Separate, StoredKept, EarlierKnown, StoredNotRetested,
         shared' = {}, [Next]_vars
  PROVE  EarlierKnown' /\ StoredNotRetested'
  <1>1. CASE Start
    <2>1. stored \subseteq Configs
      BY DEF StoredKept, Configs
    <2>2. \A k \in Cores : bugs'[k] = Configs /\ pc'[k] = "pick"
      BY <1>1 DEF Start
    <2>3. earlier' = earlier
      BY <1>1 DEF Start, history
    <2> QED BY <2>1, <2>2, <2>3 DEF EarlierKnown, StoredNotRetested, Typed
  <1>2. CASE Crash \/ Stop \/ UNCHANGED vars
    BY <1>2 DEF Crash, Stop, vars, coreVars, history, EarlierKnown, StoredNotRetested
  <1>3. CASE Restart
    BY <1>3 DEF Restart, coreVars, EarlierKnown, StoredNotRetested
  <1>4. ASSUME NEW k \in Cores, Die(k) PROVE EarlierKnown' /\ StoredNotRetested'
    BY <1>4 DEF Die, history, Typed, EarlierKnown, StoredNotRetested
  <1>5. ASSUME NEW k \in Cores, Elsewhere(k) PROVE EarlierKnown' /\ StoredNotRetested'
    <2>1. /\ earlier' = earlier
          /\ pc[k] # "off"
          /\ \A j \in Cores : j # k => pc'[j] = pc[j] /\ file'[j] = file[j]
          /\ \A j \in Cores : bugs[j] \subseteq bugs'[j]
          /\ pc'[k] = "produce" /\ pc[k] # "produce" => file'[k] \notin bugs[k]
          /\ pc'[k] = "produce" /\ pc[k] = "produce" => file'[k] = file[k]
      BY <1>5, ElsewhereStep
    <2>2. earlier \subseteq bugs[k]
      BY <2>1 DEF EarlierKnown
    <2> QED BY <2>1, <2>2 DEF EarlierKnown, StoredNotRetested
  <1>6. ASSUME NEW k \in Cores, MakeBugFolder(k)
        PROVE  EarlierKnown' /\ StoredNotRetested'
    <2>1. /\ UNCHANGED <<file, bugs, earlier>>
          /\ pc[k] = "mkdir" /\ pc'[k] = "source"
          /\ \A j \in Cores : j # k => pc'[j] = pc[j]
      BY <1>6, MakeStep
    <2> QED BY <2>1 DEF EarlierKnown, StoredNotRetested
  <1>7. ASSUME NEW k \in Cores, Copies(k) PROVE EarlierKnown' /\ StoredNotRetested'
    <2>1. /\ UNCHANGED <<file, bugs, earlier>>
          /\ pc[k] # "off" /\ pc'[k] # "produce"
          /\ \A j \in Cores : j # k => pc'[j] = pc[j]
      BY <1>7, FillStep DEF Filling
    <2> QED BY <2>1 DEF EarlierKnown, StoredNotRetested
  <1> QED BY <1>1, <1>2, <1>3, <1>4, <1>5, <1>6, <1>7
          DEF Next, Work, Elsewhere, Copies, Stopped

-----------------------------------------------------------------------------
(* The inductive invariant, and what follows from it.                      *)

LEMMA InvInit == Init => IInv
  <1> SUFFICES ASSUME Init PROVE IInv
    OBVIOUS
  <1>1. DOMAIN folders = {} /\ folders \in [DOMAIN folders -> Content]
    BY DEF Init
  <1>2. Typed /\ Numbered
    BY <1>1, FS_EmptySet DEF Init, Typed, Numbered, Labels, Filling
  <1>3. Accounted
    <2>1. Unfinished = {}
      BY <1>1 DEF Unfinished
    <2>2. PICK owner : owner = [n \in Unfinished |-> 0]
      OBVIOUS
    <2>3. owner \in [Unfinished -> Cores]
      BY <2>1, <2>2
    <2>4. \A m, n \in Unfinished : owner[m] = owner[n] => m = n
      BY <2>1
    <2>5. \A n \in Unfinished : Charged(owner[n], n)
      BY <2>1
    <2> QED BY <2>3, <2>4, <2>5 DEF Accounted
  <1>4. Clean
    BY <1>1 DEF Init, Clean, Separate, AllPure, StoredKept, EarlierKnown,
                StoredNotRetested, Filling
  <1> QED BY <1>2, <1>3, <1>4 DEF IInv

LEMMA InvStep == IInv /\ [Next]_vars => IInv'
  <1> SUFFICES ASSUME IInv, [Next]_vars PROVE IInv'
    OBVIOUS
  <1>1. Typed /\ Numbered /\ Accounted /\ Clean
    BY DEF IInv
  <1>2. Typed' /\ Numbered' /\ Accounted'
    BY <1>1, TypedStep, NumberedStep, AccountedStep
  <1>3. Clean'
    <2> SUFFICES ASSUME shared' = {}
                 PROVE  /\ Separate' /\ AllPure' /\ StoredKept'
                        /\ EarlierKnown' /\ StoredNotRetested'
      BY DEF Clean
    <2>1. shared = {}
      BY SharedGrows
    <2>2. Separate /\ AllPure /\ StoredKept /\ EarlierKnown /\ StoredNotRetested
      BY <1>1, <2>1 DEF Clean
    <2>3. Separate' /\ AllPure'
      BY <1>1, <2>2, SeparateStep, AllPureStep
    <2>4. StoredKept' /\ EarlierKnown' /\ StoredNotRetested'
      BY <1>1, <2>2, StoredKeptStep, EarlierKnownStep
    <2> QED BY <2>3, <2>4
  <1> QED BY <1>2, <1>3 DEF IInv

LEMMA Invariant == Spec => []IInv
  BY InvInit, InvStep, PTL DEF Spec

\* However many cores there are and however often they are killed in the
\* middle of copying, at most one folder per core is left without a config,
\* and no later start adds one: each is charged to a core that is off or at
\* work on it.
THEOREM FewUnfinishedFolders == Spec => []FewUnfinished
  <1>1. IInv => FewUnfinished
    <2> SUFFICES ASSUME IInv PROVE FewUnfinished
      OBVIOUS
    <2>1. PICK owner \in [Unfinished -> Cores] :
            \A m, n \in Unfinished : owner[m] = owner[n] => m = n
      BY DEF IInv, Accounted
    <2>2. owner \in Injection(Unfinished, Cores)
      BY <2>1 DEF Injection, IsInjective
    <2>3. Cardinality(Unfinished) <= Cardinality(Cores)
      BY <2>2, CoresAssumption, FS_Injection
    <2> QED BY <2>3 DEF FewUnfinished, Unfinished
  <1> QED BY Invariant, <1>1, PTL

\* Whatever the number of cores, a program that a core stored completely is
\* tested again in a later session only after two calls of add_files wrote to
\* the folder of one number.
THEOREM ForgottenOnlyThroughSharing == Spec => []ForgottenOnlyIfShared
  <1>1. IInv => ForgottenOnlyIfShared
    BY DEF IInv, Clean, ForgottenOnlyIfShared
  <1> QED BY Invariant, <1>1, PTL

-----------------------------------------------------------------------------
(* One core.                                                               *)

\* a number that is chosen stays free
Reserved == /\ shared = {}
            /\ \A k \in Cores : pc[k] = "mkdir" => number[k] \notin DOMAIN folders

LEMMA ReservedStep ==
  ASSUME Cardinality(Cores) = 1, Typed, Numbered, Reserved, [Next]_vars
  PROVE  Reserved'
  <1>0. PICK c : Cores = {c}
    BY CoresAssumption, FS_Singleton, Zenon
  <1>1. CASE Start
    BY <1>1 DEF Start, history, Reserved
  <1>2. CASE Crash \/ Stop \/ Restart \/ UNCHANGED vars
    BY <1>2 DEF Crash, Stop, Restart, vars, coreVars, history, Reserved
  <1>3. ASSUME NEW k \in Cores, Die(k) PROVE Reserved'
    BY <1>0, <1>3 DEF Die, history, Reserved, Typed
  <1>4. ASSUME NEW k \in Cores, Elsewhere(k) PROVE Reserved'
    <2>1. UNCHANGED <<folders, shared>>
      BY <1>4, ElsewhereStep
    <2>2. pc'[k] = "mkdir" => number'[k] = NextNumber
      BY <1>4 DEF Elsewhere, NewRound, Skip, Pick, Produce, Return, VariantPasses,
                  VariantFails, ListBugFolders, Goto, Typed
    <2> QED BY <1>0, <2>1, <2>2, NextNumberIsFree DEF Reserved
  <1>5. ASSUME NEW k \in Cores, MakeBugFolder(k) PROVE Reserved'
    BY <1>0, <1>5 DEF MakeBugFolder, Goto, Typed, Reserved
  <1>6. ASSUME NEW k \in Cores, Copies(k) PROVE Reserved'
    BY <1>0, <1>6 DEF Copies, CopySource, CopyConfig, CopyInitial, CopyTransformed, Goto,
                InFolder, Typed, Reserved
  <1> QED BY <1>1, <1>2, <1>3, <1>4, <1>5, <1>6
          DEF Next, Work, Elsewhere, Copies, Stopped

LEMMA OneCoreNeverShares ==
  ASSUME Cardinality(Cores) = 1
  PROVE  Spec => []Reserved
  <1>1. Init => Reserved
    BY DEF Init, Reserved
  <1>2. IInv /\ Reserved /\ [Next]_vars => Reserved'
    BY ReservedStep DEF IInv
  <1> QED BY Invariant, <1>1, <1>2, PTL DEF Spec

\* One core keeps the promise of the code, "so that they are not tested
\* again", over any number of sessions.
THEOREM OneCoreNeverRetests ==
  ASSUME Cardinality(Cores) = 1
  PROVE  Spec => []StoredNotRetested
  <1>1. IInv /\ Reserved => StoredNotRetested
    BY DEF IInv, Clean, Reserved
  <1> QED BY Invariant, OneCoreNeverShares, <1>1, PTL

\* With one core a folder never mixes files of two programs, whenever the
\* campaign is stopped: what was left half filled is never filled up by
\* another call.
THEOREM OneCoreKeepsProgramsApart ==
  ASSUME Cardinality(Cores) = 1
  PROVE  Spec => []OneProgramPerFolder
  <1>1. IInv /\ Reserved => OneProgramPerFolder
    <2> SUFFICES ASSUME IInv, Reserved, NEW n \in DOMAIN folders
                 PROVE  LET b == folders[n]
                        IN  /\ Cardinality(b.sources \cup b.transformed) <= 1
                            /\ b.config # NoFile => b.config \in b.sources
                            /\ b.initial # NoFile => b.initial = b.config
      BY DEF OneProgramPerFolder
    <2>1. PICK f \in Files :
            /\ folders[n].sources \subseteq {f} /\ folders[n].transformed \subseteq {f}
            /\ folders[n].config # NoFile => folders[n].config \in folders[n].sources
            /\ folders[n].initial # NoFile => folders[n].initial = folders[n].config
      BY DEF IInv, Clean, Reserved, AllPure, Pure
    <2>2. folders[n].sources \cup folders[n].transformed \subseteq {f}
      BY <2>1
    <2>3. Cardinality(folders[n].sources \cup folders[n].transformed) <= 1
      <3>1. IsFiniteSet({f}) /\ Cardinality({f}) = 1
        BY FS_Singleton
      <3>2. Cardinality(folders[n].sources \cup folders[n].transformed) <= Cardinality({f})
        BY <2>2, <3>1, FS_Subset
      <3> QED BY <3>1, <3>2
    <2> QED BY <2>1, <2>3
  <1> QED BY Invariant, OneCoreNeverShares, <1>1, PTL
-----------------------------------------------------------------------------
(* The other program that shares folders, create_files.py, and its mount:  *)
(* for every limit of the mount and every number of variants per program,  *)
(* whenever the other project removes folders.                             *)

MountTyped ==
  /\ pipe \subseteq Nat /\ IsFiniteSet(pipe)
  /\ batch \in 0..run_each_file_times
  /\ name \in Nat /\ seen \in Nat
  /\ mounting \in {"next", "publish", "mkdir", "wait", "sleep", "dead"}

\* what has been published and what is still to be published fits into the
\* limit plus one batch: only a producer that saw at most MAX_FILES folders
\* starts a batch, and in the meantime folders only disappear
Room ==
  /\ mounting = "next" => Cardinality(pipe) <= MAX_FILES
  /\ mounting \in {"publish", "mkdir"} => Cardinality(pipe) + batch <= MAX_FILES + run_each_file_times
  /\ mounting = "mkdir" => batch > 0
  /\ mounting = "wait" => Cardinality(pipe) <= seen

\* the number chosen is below the bound, too
NameBounded == mounting = "mkdir" => name < MAX_FILES + run_each_file_times

MountInv == MountTyped /\ Room /\ FreshName /\ NameBounded /\ NamesBounded

-----------------------------------------------------------------------------
(* The number of a new folder on the mount.                                *)

\* The number chosen is free, and at most the number of folders there are:
\* it is the first gap, or the end of a list without gaps.
LEMMA ChosenIsFree ==
  ASSUME pipe \subseteq Nat, IsFiniteSet(pipe)
  PROVE  /\ Chosen \in Nat
  /\ Chosen \notin pipe
  /\ Chosen <= Cardinality(pipe)
  <1> DEFINE n == Cardinality(pipe)
             free == (0..(n + 1)) \ pipe
  <1>1. n \in Nat
    BY FS_CardinalityType
  <1>2. PICK x \in (0..n) \ pipe : TRUE
    BY <1>1, FreeNumber
  <1>3. x \in free /\ free \subseteq Nat
    BY <1>1, <1>2
  <1>4. Min(free) \in free /\ \A y \in free : Min(free) <= y
    BY <1>3, MinProperties
  <1>5. Min(free) <= x
    BY <1>3, <1>4
  <1> QED BY <1>1, <1>2, <1>4, <1>5 DEF Chosen

-----------------------------------------------------------------------------
(* The steps of the producer and of the other project.                     *)

LEMMA MountInvInit ==
  MountInit => MountInv
  BY PipeAssumption, FS_EmptySet
     DEF MountInit, MountInv, MountTyped, Room, NameBounded, FreshName, NamesBounded

LEMMA MountStep ==
  MountInv /\ [MountNext]_mountVars => MountInv'
  <1> SUFFICES ASSUME MountInv, [MountNext]_mountVars PROVE MountInv'
    OBVIOUS
  <1>0. MAX_FILES \in Nat /\ run_each_file_times \in Nat /\ Cardinality(pipe) \in Nat
    BY PipeAssumption, FS_CardinalityType DEF MountInv, MountTyped
  <1>1. CASE Transform
    BY <1>0, <1>1
       DEF Transform, MountInv, MountTyped, Room, NameBounded, FreshName, NamesBounded
  <1>2. CASE ChooseName
    <2>1. CASE pipe = {}
      <3>1. name' = 0 /\ mounting' = "mkdir" /\ UNCHANGED <<pipe, batch, seen>>
        BY <1>2, <2>1 DEF ChooseName
      <3>2. batch > 0 /\ mounting = "publish"
        BY <1>2 DEF ChooseName
      <3> QED BY <1>0, <2>1, <3>1, <3>2
              DEF MountInv, MountTyped, Room, NameBounded, FreshName, NamesBounded
    <2>2. CASE pipe # {} /\ OutOfRange
      BY <1>0, <1>2, <2>2
         DEF ChooseName, MountInv, MountTyped, Room, NameBounded, FreshName, NamesBounded
    <2>3. CASE pipe # {} /\ ~ OutOfRange
      <3>1. name' = Chosen /\ mounting' = "mkdir" /\ UNCHANGED <<pipe, batch, seen>>
        BY <1>2, <2>3 DEF ChooseName
      <3>2. batch > 0 /\ mounting = "publish"
        BY <1>2 DEF ChooseName
      <3>3. Chosen \in Nat /\ Chosen \notin pipe /\ Chosen <= Cardinality(pipe)
        BY ChosenIsFree DEF MountInv, MountTyped
      <3>4. Chosen < MAX_FILES + run_each_file_times
        BY <1>0, <3>2, <3>3 DEF MountInv, MountTyped, Room
      <3> QED BY <1>0, <3>1, <3>2, <3>3, <3>4
              DEF MountInv, MountTyped, Room, NameBounded, FreshName, NamesBounded
    <2> QED BY <2>1, <2>2, <2>3
  <1>3. CASE MakeFolder
    <2>1. /\ mounting = "mkdir" /\ mounting' = "publish"
          /\ pipe' = pipe \cup {name} /\ batch' = batch - 1
          /\ UNCHANGED <<name, seen>>
      BY <1>3 DEF MakeFolder
    <2>2. IsFiniteSet(pipe') /\ Cardinality(pipe') = Cardinality(pipe) + 1
      BY <2>1, FS_AddElement DEF MountInv, MountTyped, FreshName
    <2> QED BY <1>0, <2>1, <2>2
            DEF MountInv, MountTyped, Room, NameBounded, FreshName, NamesBounded
  <1>4. CASE Count
    BY <1>0, <1>4
       DEF Count, MountInv, MountTyped, Room, NameBounded, FreshName, NamesBounded
  <1>5. CASE GoOn
    BY <1>0, <1>5
       DEF GoOn, MountInv, MountTyped, Room, NameBounded, FreshName, NamesBounded
  <1>6. CASE Sleep
    BY <1>0, <1>6
       DEF Sleep, MountInv, MountTyped, Room, NameBounded, FreshName, NamesBounded
  <1>7. CASE Consume
    <2>1. PICK f \in pipe : pipe' = pipe \ {f}
      BY <1>7 DEF Consume
    <2>2. IsFiniteSet(pipe') /\ Cardinality(pipe') = Cardinality(pipe) - 1
      BY <2>1, FS_RemoveElement DEF MountInv, MountTyped
    <2> QED BY <1>0, <1>7, <2>1, <2>2
            DEF Consume, MountInv, MountTyped, Room, NameBounded, FreshName, NamesBounded
  <1>8. CASE UNCHANGED mountVars
    BY <1>8
       DEF mountVars, MountInv, MountTyped, Room, NameBounded, FreshName, NamesBounded
  <1> QED BY <1>1, <1>2, <1>3, <1>4, <1>5, <1>6, <1>7, <1>8 DEF MountNext, Producer, Ended

LEMMA MountInvariant ==
  MountSpec => []MountInv
  BY MountInvInit, MountStep, PTL DEF MountSpec

\* A new folder never gets the number of one that still waits to be processed,
\* for every limit and every batch: the folders listed can only have become
\* fewer by the time of mkdir, and among one number more than there are folders
\* one is free.
THEOREM FreshNames ==
  MountSpec => []FreshName
  BY MountInvariant, PTL DEF MountInv

\* Every number in use is below the limit plus one batch, however the other
\* project leaves gaps: the first free number never exceeds the number of
\* folders.
THEOREM BoundedNames ==
  MountSpec => []NamesBounded
  BY MountInvariant, PTL DEF MountInv
=============================================================================
