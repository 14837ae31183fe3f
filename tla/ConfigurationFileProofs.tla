------------------------ MODULE ConfigurationFileProofs ------------------------
(***************************************************************************)
(* Proofs about ConfigurationFile for any number of readers, contents and  *)
(* days, any keep_count and fewer crashes than keep_count.                 *)
(***************************************************************************)
EXTENDS ConfigurationFile, Foundations

\* A file that was renamed but never closed
UserTorn == user # None /\ user \notin flushed

UserWhole == user # None /\ user \in flushed

TypeInv ==
  /\ user \in Nat \cup {None} /\ tmp \in Nat \cup {None} /\ source \in Nat \cup {None}
  /\ writing \in Nat /\ contents \in Nat /\ crashes \in 0 .. MaxCrashes /\ day \in Nat
  /\ step \in {"idle", "copying", "removing", "written", "unlinked", "renamed"}
  /\ DOMAIN core = Processes
  /\ DOMAIN backups \in SUBSET Nat /\ IsFiniteSet(DOMAIN backups)
  /\ \A d \in DOMAIN backups : backups[d] \in Nat \cup {Torn}

\* The files the save works on.  While the backup is copied, the file at the path
\* is the one that is copied or one that somebody put there since.
WriterInv ==
  /\ step = "copying" => /\ day \in DOMAIN backups /\ backups[day] = Torn
                         /\ source # None
                         /\ source = user \/ UserWhole
  /\ step \in {"written", "unlinked"} => tmp = writing
  /\ step = "renamed" => user \in flushed \cup {writing}

TornBackups == {d \in DOMAIN backups : backups[d] = Torn}

\* The torn file that the next backup would be, or is being, made of.
TornSource ==
  CASE step = "idle" -> IF UserTorn THEN 1 ELSE 0
    [] step = "copying" -> IF source \in flushed THEN 0 ELSE 1
    [] OTHER -> 0

\* A torn backup costs a crash, except for the one that is being copied.
TornInv ==
  Cardinality(TornBackups) + TornSource <= crashes + (IF step = "copying" THEN 1 ELSE 0)

\* From the first save on one backup is whole, unless that save was cut short.
FirstInv ==
  cut \/ WholeBackup
      \/ (step = "idle" /\ UserWhole /\ DOMAIN backups = {})
      \/ (step = "copying" /\ UserWhole /\ source \in flushed)

IInv == TypeInv /\ WriterInv /\ TornInv /\ FirstInv

-----------------------------------------------------------------------------
(* Backups.                                                                *)

\* The cardinalities are numbers.
LEMMA Counts ==
  ASSUME TypeInv
  PROVE  /\ IsFiniteSet(TornBackups) /\ Cardinality(TornBackups) \in Nat
         /\ crashes \in Nat /\ KeepCount \in Nat /\ crashes < KeepCount
<1>1. TornBackups \in SUBSET DOMAIN backups
  BY DEF TornBackups
<1>2. crashes \in Nat /\ KeepCount \in Nat /\ crashes < KeepCount
  BY FileAssumption DEF TypeInv
<1> QED BY <1>1, <1>2, FS_Subset, FS_CardinalityType DEF TypeInv

\* make_backup_file: opening the backup of a new day disturbs no other, and the
\* empty file is not paid for yet.
LEMMA OpenBackup ==
  ASSUME IInv, step = "idle", user # None, day \notin DOMAIN backups, SetBackup(Torn)
  PROVE  /\ DOMAIN backups' = DOMAIN backups \cup {day} /\ IsFiniteSet(DOMAIN backups')
         /\ \A d \in DOMAIN backups : backups'[d] = backups[d]
         /\ backups'[day] = Torn
         /\ Cardinality(TornBackups') = Cardinality(TornBackups) + 1
<1>1. /\ DOMAIN backups' = DOMAIN backups \cup {day}
      /\ \A d \in DOMAIN backups : backups'[d] = backups[d]
      /\ backups'[day] = Torn
  BY DEF SetBackup
<1>2. IsFiniteSet(DOMAIN backups')
  BY <1>1, FS_AddElement DEF IInv, TypeInv
<1>3. TornBackups' = TornBackups \cup {day} /\ day \notin TornBackups
  BY <1>1 DEF TornBackups
<1>4. Cardinality(TornBackups') = Cardinality(TornBackups) + 1
  BY <1>3, Counts, FS_AddElement DEF IInv
<1> QED BY <1>1, <1>2, <1>4

\* The end of the copy: a torn source makes a torn backup.
LEMMA FillBackup ==
  ASSUME IInv, step = "copying", SetBackup(Body(source))
  PROVE  /\ DOMAIN backups' = DOMAIN backups
         /\ \A d \in DOMAIN backups \ {day} : backups'[d] = backups[d]
         /\ backups'[day] = IF source \in flushed THEN source ELSE Torn
         /\ Cardinality(TornBackups') =
              Cardinality(TornBackups) - (IF source \in flushed THEN 1 ELSE 0)
<1>1. day \in DOMAIN backups /\ backups[day] = Torn /\ source # None /\ source \in Nat
  BY DEF IInv, TypeInv, WriterInv
<1>2. /\ DOMAIN backups' = DOMAIN backups
      /\ \A d \in DOMAIN backups \ {day} : backups'[d] = backups[d]
      /\ backups'[day] = IF source \in flushed THEN source ELSE Torn
  BY <1>1 DEF SetBackup, Body
<1>3. /\ IsFiniteSet(TornBackups) /\ Cardinality(TornBackups) \in Nat
      /\ day \in TornBackups
  BY <1>1, Counts DEF IInv, TornBackups
<1>4. CASE source \in flushed
  <2>1. TornBackups' = TornBackups \ {day}
    BY <1>1, <1>2, <1>4 DEF TornBackups, Torn
  <2>2. Cardinality(TornBackups') = Cardinality(TornBackups) - 1
    BY <1>3, <2>1, FS_RemoveElement
  <2> QED BY <1>2, <1>4, <2>2
<1>5. CASE source \notin flushed
  <2>1. TornBackups' = TornBackups
    BY <1>1, <1>2, <1>5 DEF TornBackups
  <2> QED BY <1>2, <1>3, <1>5, <2>1
<1> QED BY <1>4, <1>5

\* remove_old_backup_files: more backups stay than there were crashes, so one of
\* them is whole.
LEMMA RemoveBackup ==
  ASSUME IInv, remove_old_backup_files
  PROVE  /\ DOMAIN backups' \subseteq DOMAIN backups /\ IsFiniteSet(DOMAIN backups')
         /\ \A d \in DOMAIN backups' : backups'[d] = backups[d]
         /\ Cardinality(TornBackups') <= crashes
         /\ \E d \in DOMAIN backups' : backups'[d] # Torn
<1>1. PICK d \in DOMAIN backups :
        backups' = [e \in DOMAIN backups \ {d} |-> backups[e]]
  BY DEF remove_old_backup_files
<1>2. step = "removing" /\ Cardinality(DOMAIN backups) > KeepCount
  BY DEF remove_old_backup_files
<1>3. /\ DOMAIN backups' = DOMAIN backups \ {d}
      /\ \A e \in DOMAIN backups' : backups'[e] = backups[e]
  BY <1>1
<1>4. /\ IsFiniteSet(DOMAIN backups) /\ IsFiniteSet(DOMAIN backups')
      /\ Cardinality(DOMAIN backups') = Cardinality(DOMAIN backups) - 1
      /\ Cardinality(DOMAIN backups) \in Nat
  BY <1>3, FS_RemoveElement, FS_CardinalityType DEF IInv, TypeInv
<1>5. /\ IsFiniteSet(TornBackups) /\ Cardinality(TornBackups) \in Nat
      /\ crashes \in Nat /\ KeepCount \in Nat /\ crashes < KeepCount
  BY Counts DEF IInv
<1>6. Cardinality(TornBackups) <= crashes
  BY <1>2, <1>5 DEF IInv, TornInv, TornSource
<1>7. TornBackups' \in SUBSET TornBackups
  BY <1>3 DEF TornBackups
<1>8. Cardinality(TornBackups') <= crashes /\ Cardinality(TornBackups') \in Nat
  <2>1. Cardinality(TornBackups') <= Cardinality(TornBackups) /\ IsFiniteSet(TornBackups')
    BY <1>5, <1>7, FS_Subset
  <2>2. Cardinality(TornBackups') \in Nat
    BY <2>1, FS_CardinalityType
  <2> QED BY <1>5, <1>6, <2>1, <2>2
<1>9. TornBackups' # DOMAIN backups'
  BY <1>2, <1>4, <1>5, <1>8
<1>10. \E e \in DOMAIN backups' : backups'[e] # Torn
  BY <1>9 DEF TornBackups
<1> QED BY <1>3, <1>4, <1>8, <1>10

-----------------------------------------------------------------------------
(* Init and the actions.                                                   *)

\* The file is whole in the beginning, and there is no backup yet.
LEMMA InitOK == Init => IInv
<1> SUFFICES ASSUME Init PROVE IInv
  OBVIOUS
<1> USE DEF None, Torn
<1>1. DOMAIN backups = {} /\ step = "idle" /\ crashes = 0
  BY DEF Init
<1>2. ~UserTorn /\ UserWhole
  BY DEF Init, UserTorn, UserWhole
<1>3. TypeInv
  <2>1. /\ user \in Nat \cup {None} /\ tmp \in Nat \cup {None} /\ source \in Nat \cup {None}
        /\ writing \in Nat /\ contents \in Nat /\ day \in Nat /\ crashes \in 0 .. MaxCrashes
    BY FileAssumption DEF Init
  <2>2. step = "idle" /\ DOMAIN core = Processes
    BY DEF Init
  <2> QED BY <1>1, <2>1, <2>2, FS_EmptySet DEF TypeInv
<1>4. WriterInv
  BY <1>1 DEF WriterInv
<1>5. TornInv
  <2>1. TornBackups = {}
    BY <1>1 DEF TornBackups
  <2>2. Cardinality(TornBackups) = 0
    BY <2>1, FS_EmptySet
  <2> QED BY <1>1, <1>2, <2>2 DEF TornInv, TornSource
<1>6. FirstInv
  BY <1>1, <1>2 DEF FirstInv
<1> QED BY <1>3, <1>4, <1>5, <1>6 DEF IInv

\* A save begins.
LEMMA SaveOK == IInv /\ Save => IInv'
<1> SUFFICES ASSUME IInv, Save PROVE IInv'
  OBVIOUS
<1>1. /\ step = "idle" /\ writing' = core[Window] /\ core[Window] \in 1 .. contents
      /\ make_backup_file
      /\ UNCHANGED <<user, tmp, flushed, day, contents, crashes, cut, core>>
  BY DEF Save, monitorVars
<1>2. Cardinality(TornBackups) \in Nat /\ crashes \in Nat /\ user \in Nat \cup {None}
  BY Counts DEF IInv, TypeInv
<1>3. Cardinality(TornBackups) + (IF UserTorn THEN 1 ELSE 0) <= crashes
  BY <1>1, <1>2 DEF IInv, TornInv, TornSource
<1>4. /\ writing' \in Nat /\ contents' \in Nat
      /\ UserTorn' = UserTorn /\ UserWhole' = UserWhole
  BY <1>1 DEF IInv, TypeInv, UserTorn, UserWhole
<1>5. CASE user = None \/ day \in DOMAIN backups
  <2>1. step' = "removing" /\ UNCHANGED <<backups, source>>
    BY <1>1, <1>5 DEF make_backup_file
  <2>2. TypeInv'
    BY <1>1, <1>4, <2>1 DEF IInv, TypeInv
  <2>3. WriterInv'
    BY <2>1 DEF WriterInv
  <2>4. TornInv'
    BY <1>1, <1>2, <1>3, <2>1 DEF TornInv, TornSource, TornBackups
  <2>5. FirstInv'
    <3>1. cut \/ WholeBackup
      BY <1>1, <1>5 DEF IInv, FirstInv, UserWhole
    <3> QED BY <1>1, <2>1, <3>1 DEF FirstInv, WholeBackup
  <2> QED BY <2>2, <2>3, <2>4, <2>5 DEF IInv
<1>6. CASE user # None /\ day \notin DOMAIN backups
  <2>1. step' = "copying" /\ source' = user /\ SetBackup(Torn)
    BY <1>1, <1>6 DEF make_backup_file
  <2>2. /\ DOMAIN backups' = DOMAIN backups \cup {day} /\ IsFiniteSet(DOMAIN backups')
        /\ \A d \in DOMAIN backups : backups'[d] = backups[d]
        /\ backups'[day] = Torn
        /\ Cardinality(TornBackups') = Cardinality(TornBackups) + 1
    BY <1>1, <1>6, <2>1, OpenBackup
  <2>3. TypeInv'
    <3>1. /\ DOMAIN backups' \in SUBSET Nat
          /\ \A d \in DOMAIN backups' : backups'[d] \in Nat \cup {Torn}
      BY <2>2 DEF IInv, TypeInv
    <3> QED BY <1>1, <1>4, <2>1, <2>2, <3>1 DEF IInv, TypeInv
  <2>4. WriterInv'
    BY <1>1, <1>6, <2>1, <2>2 DEF WriterInv
  <2>5. TornInv'
    <3>1. source' \in flushed' <=> ~UserTorn
      BY <1>1, <1>6, <2>1 DEF UserTorn
    <3> QED BY <1>1, <1>2, <1>3, <2>1, <2>2, <3>1 DEF TornInv, TornSource
  <2>6. FirstInv'
    <3>1. CASE cut
      BY <1>1, <3>1 DEF FirstInv
    <3>2. CASE WholeBackup
      <4>1. WholeBackup'
        BY <2>2, <3>2 DEF WholeBackup
      <4> QED BY <4>1 DEF FirstInv
    <3>3. CASE UserWhole
      BY <1>1, <1>4, <2>1, <3>3 DEF FirstInv, UserWhole
    <3> QED BY <1>1, <3>1, <3>2, <3>3 DEF IInv, FirstInv
  <2> QED BY <2>3, <2>4, <2>5, <2>6 DEF IInv
<1> QED BY <1>5, <1>6

\* The backup is copied.
LEMMA CopyOK == IInv /\ CopyBackup => IInv' /\ (WholeBackup => WholeBackup')
<1> SUFFICES ASSUME IInv, CopyBackup PROVE IInv' /\ (WholeBackup => WholeBackup')
  OBVIOUS
<1>1. /\ step = "copying" /\ SetBackup(Body(source)) /\ step' = "removing"
      /\ UNCHANGED <<user, tmp, flushed, day, writing, source, contents, crashes, cut, core>>
  BY DEF CopyBackup, monitorVars
<1>2. /\ DOMAIN backups' = DOMAIN backups
      /\ \A d \in DOMAIN backups \ {day} : backups'[d] = backups[d]
      /\ backups'[day] = IF source \in flushed THEN source ELSE Torn
      /\ Cardinality(TornBackups') = Cardinality(TornBackups) - (IF source \in flushed THEN 1 ELSE 0)
  BY <1>1, FillBackup
<1>3. day \in DOMAIN backups /\ backups[day] = Torn /\ source \in Nat
  BY <1>1 DEF IInv, TypeInv, WriterInv
<1>4. TypeInv'
  <2>1. \A d \in DOMAIN backups' : backups'[d] \in Nat \cup {Torn}
    BY <1>2, <1>3 DEF IInv, TypeInv
  <2> QED BY <1>1, <1>2, <2>1 DEF IInv, TypeInv
<1>5. WriterInv'
  BY <1>1 DEF WriterInv
<1>6. TornInv'
  <2>1. Cardinality(TornBackups) \in Nat /\ crashes \in Nat
    BY Counts DEF IInv
  <2>2. Cardinality(TornBackups) + (IF source \in flushed THEN 0 ELSE 1) <= crashes + 1
    BY <1>1 DEF IInv, TornInv, TornSource
  <2> QED BY <1>1, <1>2, <2>1, <2>2 DEF TornInv, TornSource
<1>7. WholeBackup => WholeBackup'
  <2>1. ASSUME WholeBackup PROVE \E d \in DOMAIN backups \ {day} : backups[d] \notin {None, Torn}
    BY <1>3, <2>1 DEF WholeBackup
  <2> QED BY <1>2, <2>1 DEF WholeBackup
<1>8. source \in flushed => WholeBackup'
  BY <1>2, <1>3 DEF WholeBackup, None, Torn
<1>9. FirstInv'
  BY <1>1, <1>7, <1>8 DEF IInv, FirstInv
<1> QED BY <1>4, <1>5, <1>6, <1>7, <1>9 DEF IInv

\* An old backup goes.
LEMMA RemoveOK == IInv /\ remove_old_backup_files => IInv' /\ WholeBackup'
<1> SUFFICES ASSUME IInv, remove_old_backup_files PROVE IInv' /\ WholeBackup'
  OBVIOUS
<1>1. /\ step = "removing" /\ step' = "removing"
      /\ UNCHANGED <<user, tmp, flushed, day, writing, source, contents, crashes, cut, core>>
  BY DEF remove_old_backup_files, monitorVars
<1>2. /\ DOMAIN backups' \subseteq DOMAIN backups /\ IsFiniteSet(DOMAIN backups')
      /\ \A d \in DOMAIN backups' : backups'[d] = backups[d]
      /\ Cardinality(TornBackups') <= crashes
      /\ \E d \in DOMAIN backups' : backups'[d] # Torn
  BY RemoveBackup
<1>3. TypeInv'
  <2>1. /\ DOMAIN backups' \in SUBSET Nat
        /\ \A d \in DOMAIN backups' : backups'[d] \in Nat \cup {Torn}
    BY <1>2 DEF IInv, TypeInv
  <2> QED BY <1>1, <1>2, <2>1 DEF IInv, TypeInv
<1>4. WholeBackup'
  BY <1>2, <1>3 DEF TypeInv, WholeBackup, None, Torn
<1>5. WriterInv'
  BY <1>1 DEF WriterInv
<1>6. TornInv'
  <2>1. Cardinality(TornBackups') \in Nat /\ crashes \in Nat
    <3>1. TornBackups' \in SUBSET DOMAIN backups'
      BY DEF TornBackups
    <3> QED BY <1>2, <3>1, Counts, FS_Subset, FS_CardinalityType DEF IInv
  <2> QED BY <1>1, <1>2, <2>1 DEF TornInv, TornSource
<1>7. FirstInv'
  BY <1>4 DEF FirstInv
<1> QED BY <1>3, <1>4, <1>5, <1>6, <1>7 DEF IInv

\* The file is written: .tmp, unlink, rename, close.
WriteFile == WriteTmpFile \/ UnlinkFile \/ RenameFile \/ CloseFile

\* Nothing of it disturbs a backup, and a file that was closed is not torn.
LEMMA WriteFileOK == IInv /\ WriteFile => IInv'
<1> SUFFICES ASSUME IInv, WriteFile PROVE IInv'
  OBVIOUS
<1> USE DEF monitorVars, None
<1>1. UNCHANGED <<backups, day, writing, source, contents, crashes, cut, core>>
  BY DEF WriteFile, WriteTmpFile, UnlinkFile, RenameFile, CloseFile
<1>2. TornBackups' = TornBackups /\ WholeBackup' = WholeBackup
  BY <1>1 DEF TornBackups, WholeBackup
<1>3. step \notin {"idle", "copying"} /\ step' # "copying"
  BY DEF WriteFile, WriteTmpFile, UnlinkFile, RenameFile, CloseFile
<1>4. TypeInv'
  BY <1>1 DEF IInv, TypeInv, WriteFile, WriteTmpFile, UnlinkFile, RenameFile, CloseFile
<1>5. WriterInv'
  BY <1>1 DEF IInv, WriterInv, WriteFile, WriteTmpFile, UnlinkFile, RenameFile, CloseFile
<1>6. step' = "idle" => ~UserTorn'
  BY <1>1 DEF IInv, WriterInv, WriteFile, WriteTmpFile, UnlinkFile, RenameFile, CloseFile, UserTorn
<1>7. TornInv'
  <2>1. Cardinality(TornBackups) \in Nat /\ crashes \in Nat
    BY Counts DEF IInv
  <2>2. TornSource = 0 /\ TornSource' = 0
    BY <1>3, <1>6 DEF TornSource
  <2> QED BY <1>1, <1>2, <1>3, <2>1, <2>2 DEF IInv, TornInv
<1>8. FirstInv'
  BY <1>1, <1>2, <1>3 DEF IInv, FirstInv
<1> QED BY <1>4, <1>5, <1>7, <1>8 DEF IInv

\* The window dies: what was renamed or copied and not closed stays torn, and the
\* crash pays for one of the two.
LEMMA CrashOK == IInv /\ Crash => IInv'
<1> SUFFICES ASSUME IInv, Crash PROVE IInv'
  OBVIOUS
<1>1. /\ UNCHANGED <<user, tmp, flushed, backups, day, writing, source, contents>>
      /\ crashes' = crashes + 1 /\ crashes < MaxCrashes /\ step' = "idle"
      /\ cut' = (cut \/ (step = "copying" /\ ~WholeBackup))
  BY DEF Crash
<1>2. TornBackups' = TornBackups /\ UserTorn' = UserTorn /\ UserWhole' = UserWhole
      /\ WholeBackup' = WholeBackup
  BY <1>1 DEF TornBackups, UserTorn, UserWhole, WholeBackup
<1>3. Cardinality(TornBackups) \in Nat /\ crashes \in Nat
  BY Counts DEF IInv
<1>4. TypeInv'
  <2>1. DOMAIN core' = Processes
    BY DEF Crash, IInv, TypeInv
  <2>2. crashes' \in 0 .. MaxCrashes
    BY <1>1, <1>3, FileAssumption
  <2> QED BY <1>1, <2>1, <2>2 DEF IInv, TypeInv
<1>5. WriterInv'
  BY <1>1 DEF WriterInv
<1>6. TornInv'
  <2>1. CASE step = "copying"
    <3>1. UserTorn => source \notin flushed
      BY <2>1 DEF IInv, WriterInv, UserTorn, UserWhole
    <3> QED BY <1>1, <1>2, <1>3, <2>1, <3>1 DEF IInv, TornInv, TornSource
  <2>2. CASE step # "copying"
    BY <1>1, <1>2, <1>3, <2>2 DEF IInv, TornInv, TornSource
  <2> QED BY <2>1, <2>2
<1>7. FirstInv'
  BY <1>1, <1>2 DEF IInv, FirstInv
<1> QED BY <1>4, <1>5, <1>6, <1>7 DEF IInv

\* Somebody else replaces the file by a whole one.
LEMMA EditByHandOK == IInv /\ EditByHand => IInv'
<1> SUFFICES ASSUME IInv, EditByHand PROVE IInv'
  OBVIOUS
<1> USE DEF None
<1>1. /\ UNCHANGED <<tmp, backups, day, step, writing, source, crashes, cut, core>>
      /\ contents' = contents + 1 /\ user' = contents' /\ flushed' = flushed \cup {contents'}
  BY DEF EditByHand, monitorVars
<1>2. TornBackups' = TornBackups /\ WholeBackup' = WholeBackup
  BY <1>1 DEF TornBackups, WholeBackup
<1>3. contents' \in Nat
  BY <1>1 DEF IInv, TypeInv
<1>4. ~UserTorn' /\ UserWhole'
  BY <1>1, <1>3 DEF UserTorn, UserWhole
<1>5. TypeInv'
  BY <1>1, <1>3 DEF IInv, TypeInv
<1>6. WriterInv'
  BY <1>1, <1>4 DEF IInv, WriterInv
<1>7. TornInv'
  <2>1. Cardinality(TornBackups) \in Nat /\ crashes \in Nat
    BY Counts DEF IInv
  <2>2. TornSource' \in {0, 1} /\ TornSource \in {0, 1} /\ TornSource' <= TornSource
    BY <1>1, <1>4 DEF TornSource
  <2> QED BY <1>1, <1>2, <2>1, <2>2 DEF IInv, TornInv
<1>8. FirstInv'
  BY <1>1, <1>2, <1>4 DEF IInv, FirstInv
<1> QED BY <1>5, <1>6, <1>7, <1>8 DEF IInv

\* Steps that touch no file.
LEMMA NoFileOK ==
  ASSUME IInv, UNCHANGED <<user, tmp, flushed, backups, step, writing, source, crashes, cut>>,
         contents' \in Nat, day' \in Nat, step = "copying" => day' = day,
         DOMAIN core' = Processes
  PROVE  IInv'
<1>1. TypeInv'
  BY DEF IInv, TypeInv
<1>2. WriterInv' /\ TornInv' /\ FirstInv'
  BY DEF IInv, WriterInv, TornInv, FirstInv, UserTorn, UserWhole, TornBackups, TornSource,
         WholeBackup
<1> QED BY <1>1, <1>2 DEF IInv

\* Every step keeps the inductive invariant.
LEMMA NextOK == IInv /\ [Next]_vars => IInv'
<1> SUFFICES ASSUME IInv, [Next]_vars PROVE IInv'
  OBVIOUS
<1>0. contents \in Nat /\ day \in Nat /\ DOMAIN core = Processes
  BY DEF IInv, TypeInv
<1>1. CASE Edit
  BY <1>0, <1>1, NoFileOK DEF Edit
<1>2. CASE NextDay
  BY <1>0, <1>2, NoFileOK DEF NextDay, monitorVars
<1>3. ASSUME NEW p \in Processes, Monitor(p) PROVE IInv'
  <2>1. UNCHANGED fileVars /\ DOMAIN core' = Processes
    BY <1>0, <1>3 DEF Monitor, FileChanged, StreamCallback
  <2> QED BY <1>0, <2>1, NoFileOK DEF fileVars
<1>4. CASE UNCHANGED vars
  BY <1>0, <1>4, NoFileOK DEF vars
<1>5. CASE Write
  BY <1>5, CopyOK, RemoveOK, WriteFileOK DEF Write, WriteFile
<1> QED BY <1>1, <1>2, <1>3, <1>4, <1>5, SaveOK, CrashOK, EditByHandOK DEF Next

\* The inductive invariant holds of the specification.
THEOREM Inductive == Spec => []IInv
BY InitOK, NextOK, PTL DEF Spec

-----------------------------------------------------------------------------
(* Unless the window died in its first copy, the file or one of its        *)
(* backups is whole wherever a save is interrupted (make_backup_file,      *)
(* async_file_writer): the file is unlinked only when a backup is whole.   *)
THEOREM RestoreTheorem == Spec => []SomethingToRestore
<1>1. IInv => SomethingToRestore
  BY DEF IInv, FirstInv, SomethingToRestore, AlwaysRestorable, UserWhole
<1> QED BY <1>1, Inductive, PTL

(* No step loses the last whole backup: a torn one costs a crash, there    *)
(* are fewer crashes than keep_count, and remove_old_backup_files leaves   *)
(* keep_count backups.                                                     *)
THEOREM WholeBackupTheorem == Spec => WholeBackupNotLost
<1>1. IInv /\ [Next]_vars => [WholeBackup => WholeBackup']_vars
  <2> SUFFICES ASSUME IInv, Next, WholeBackup PROVE WholeBackup'
    OBVIOUS
  <2>1. CASE UNCHANGED backups
    BY <2>1 DEF WholeBackup
  <2>2. CASE Save
    <3>1. CASE user = None \/ day \in DOMAIN backups
      BY <2>1, <2>2, <3>1 DEF Save, make_backup_file
    <3>2. CASE user # None /\ day \notin DOMAIN backups
      <4>1. /\ DOMAIN backups' = DOMAIN backups \cup {day}
            /\ \A d \in DOMAIN backups : backups'[d] = backups[d]
        BY <2>2, <3>2, OpenBackup DEF Save, make_backup_file
      <4> QED BY <4>1 DEF WholeBackup
    <3> QED BY <3>1, <3>2
  <2>3. CASE Edit \/ WriteFile \/ Crash \/ NextDay \/ EditByHand \/ \E p \in Processes : Monitor(p)
    <3>1. UNCHANGED backups
      BY <2>3 DEF Edit, WriteFile, WriteTmpFile, UnlinkFile, RenameFile, CloseFile, Crash, NextDay,
                  EditByHand, Monitor, FileChanged, StreamCallback, fileVars
    <3> QED BY <2>1, <3>1
  <2> QED BY <2>2, <2>3, CopyOK, RemoveOK DEF Next, Write, WriteFile
<1> QED BY <1>1, Inductive, PTL DEF Spec, WholeBackupNotLost

=============================================================================
