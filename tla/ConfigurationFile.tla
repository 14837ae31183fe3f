------------------------- MODULE ConfigurationFile -------------------------
(***************************************************************************)
(* karabiner.json between the processes: the window that saves it          *)
(* (core_configuration::sync_save_to_file, json_writer, async_file_writer  *)
(* and the automatic backups) and the configuration_monitor of every       *)
(* process that reads it.  A save is several system calls, and a body is   *)
(* only certain to be on disk when its stream is closed: the backup's at   *)
(* the end of the copy, the file's after the rename.  The monitors run in  *)
(* between, and the window may be killed in between.                       *)
(*                                                                         *)
(* Every save writes a new content, named by a number; the file it creates *)
(* has the same number.  What the contents say is CoreConfiguration's part.*)
(***************************************************************************)
EXTENDS Integers, FiniteSets

CONSTANTS
  Window,          \* the process that edits and saves
  Readers,         \* the processes that only read (grabber, console_user_server)
  SystemFile,      \* whether the system-wide configuration file exists
  KeepCount,       \* how many backups are kept (keep_count)
  MaxContents,     \* bound on the contents ever written
  MaxDays,         \* bound on the days
  MaxCrashes       \* bound on the crashes of the window

ASSUME FileAssumption ==
  /\ Window \notin Readers
  /\ SystemFile \in BOOLEAN
  /\ KeepCount \in Nat \ {0} /\ MaxContents \in Nat /\ MaxDays \in Nat
  /\ MaxCrashes \in Nat /\ MaxCrashes < KeepCount

VARIABLES
  user, tmp,       \* the files at karabiner.json and at karabiner.json.tmp
  flushed,         \* the files whose body is complete
  backups,         \* day -> the body of that day's backup
  day,
  step, writing,   \* where the window's save stands, and the file it writes
  source,          \* the file that the copy of make_backup_file has open
  core,            \* process -> the configuration its monitor holds
  bodies,          \* process -> file_bodies_ of its file_monitor
  known,           \* process -> stream_file_paths_ has the path
  events,          \* process -> undelivered file events: own and foreign ones
  changed,         \* processes with a file_changed signal to handle
  contents,        \* contents so far
  crashes,
  cut              \* history: the window died in a copy while no backup was whole

vars == <<user, tmp, flushed, backups, day, step, writing, source, core, bodies, known,
          events, changed, contents, crashes, cut>>

fileVars    == <<user, tmp, flushed, backups, day, step, writing, source, contents,
                 crashes, cut>>
monitorVars == <<core, bodies, known, changed>>

Processes == {Window} \cup Readers

\* Bodies and configurations that are not a content.
None == -1                 \* no file, no configuration yet
Torn == -2                 \* a body that is not all there: it does not parse
System == -3               \* what the system-wide file says
Defaults == -4             \* the fallback of a configuration that was not loaded

Body(f) == IF f = None THEN None ELSE IF f \in flushed THEN f ELSE Torn

\* A change of the path makes an event for every process, an own one for the
\* process that made it.
Notify(p) == events' = [q \in Processes |-> events[q] \cup {IF p = q THEN "own" ELSE "foreign"}]

(***************************************************************************)
(* Saving.                                                                 *)
(***************************************************************************)
\* A backup with a whole body.
WholeBackup == \E d \in DOMAIN backups : backups[d] \notin {None, Torn}

SetBackup(body) == backups' = [d \in DOMAIN backups \cup {day} |-> IF d = day THEN body ELSE backups[d]]

\* The window edits the configuration that its monitor holds.
Edit == /\ contents < MaxContents /\ step = "idle" /\ core[Window] # None
        /\ contents' = contents + 1
        /\ core' = [core EXCEPT ![Window] = contents']
        /\ UNCHANGED <<user, tmp, flushed, backups, day, step, writing, source, bodies, known,
                       events, changed, crashes, cut>>

\* Mutant: every save replaces the backup of the day.
make_backup_file_again ==
  IF user = None
  THEN step' = "removing" /\ UNCHANGED <<backups, source>>
  ELSE step' = "copying" /\ source' = user /\ SetBackup(Torn)

\* The first save of a day copies the file; copy opens both, the backup empty.
make_backup_file ==
  IF user = None \/ day \in DOMAIN backups
  THEN step' = "removing" /\ UNCHANGED <<backups, source>>
  ELSE step' = "copying" /\ source' = user /\ SetBackup(Torn)

\* sync_save_to_file begins.  (A content is saved once; saving it again would
\* change nothing.)
Save == /\ step = "idle" /\ core[Window] \in 1..contents /\ core[Window] \notin flushed
        /\ writing' = core[Window]
        /\ make_backup_file
        /\ UNCHANGED <<user, tmp, flushed, day, events, contents, crashes, cut>>
        /\ UNCHANGED monitorVars

\* The rest of copy: the body, and the end of the streams' scope.
CopyBackup == /\ step = "copying"
              /\ SetBackup(Body(source)) /\ step' = "removing"
              /\ UNCHANGED <<user, tmp, flushed, day, writing, source, events, contents, crashes, cut>>
              /\ UNCHANGED monitorVars

\* Mutant: one backup fewer is kept.
remove_old_backup_files_one_more ==
  /\ step = "removing" /\ Cardinality(DOMAIN backups) >= KeepCount
  /\ \E d \in DOMAIN backups :
       /\ \A e \in DOMAIN backups : d <= e
       /\ backups' = [e \in DOMAIN backups \ {d} |-> backups[e]]
  /\ UNCHANGED <<user, tmp, flushed, day, step, writing, source, events, contents, crashes, cut>>
  /\ UNCHANGED monitorVars

\* Sorted by their names, which are days: while there are too many, the oldest goes.
remove_old_backup_files ==
  /\ step = "removing" /\ Cardinality(DOMAIN backups) > KeepCount
  /\ \E d \in DOMAIN backups :
       /\ \A e \in DOMAIN backups : d <= e
       /\ backups' = [e \in DOMAIN backups \ {d} |-> backups[e]]
  /\ UNCHANGED <<user, tmp, flushed, day, step, writing, source, events, contents, crashes, cut>>
  /\ UNCHANGED monitorVars

\* async_file_writer: unlink and open of the .tmp file, and output << body.
WriteTmpFile == /\ step = "removing" /\ Cardinality(DOMAIN backups) <= KeepCount
                /\ tmp' = writing /\ step' = "written"
                /\ UNCHANGED <<user, flushed, backups, day, writing, source, events, contents,
                               crashes, cut>>
                /\ UNCHANGED monitorVars

UnlinkFile == /\ step = "written"
              /\ user' = None /\ step' = "unlinked"
              /\ Notify(Window)
              /\ UNCHANGED <<tmp, flushed, backups, day, writing, source, contents, crashes, cut>>
              /\ UNCHANGED monitorVars

RenameFile == /\ step = "unlinked"
              /\ user' = tmp /\ tmp' = None /\ step' = "renamed"
              /\ Notify(Window)
              /\ UNCHANGED <<flushed, backups, day, writing, source, contents, crashes, cut>>
              /\ UNCHANGED monitorVars

\* chmod, and the end of the stream's scope.
CloseFile == /\ step = "renamed"
             /\ flushed' = flushed \cup {writing} /\ step' = "idle"
             /\ Notify(Window)
             /\ UNCHANGED <<user, tmp, backups, day, writing, source, contents, crashes, cut>>
             /\ UNCHANGED monitorVars

\* The window dies, wherever it is, and starts again: its monitor is new and
\* signals the file once.  What was being written stays as it is.
Crash == /\ crashes < MaxCrashes
         /\ crashes' = crashes + 1 /\ step' = "idle"
         /\ cut' = (cut \/ (step = "copying" /\ ~WholeBackup))
         /\ core' = [core EXCEPT ![Window] = None]
         /\ known' = [known EXCEPT ![Window] = FALSE]
         /\ events' = [events EXCEPT ![Window] = {}]
         /\ bodies' = [bodies EXCEPT ![Window] = Body(user)]
         /\ changed' = changed \cup {Window}
         /\ UNCHANGED <<user, tmp, flushed, backups, day, writing, source, contents>>

\* Only a save that begins asks for the day; a day without a backup leaves no
\* trace, and is not counted.
NextDay == /\ day < MaxDays /\ step = "idle" /\ day \in DOMAIN backups
           /\ day' = day + 1
           /\ UNCHANGED <<user, tmp, flushed, backups, step, writing, source, contents, crashes,
                          cut, events>>
           /\ UNCHANGED monitorVars

\* Somebody else replaces the file: an editor, or a file synchronisation service.
EditByHand == /\ contents < MaxContents
              /\ contents' = contents + 1
              /\ user' = contents' /\ flushed' = flushed \cup {contents'}
              /\ events' = [q \in Processes |-> events[q] \cup {"foreign"}]
              /\ UNCHANGED <<tmp, backups, day, step, writing, source, crashes, cut>>
              /\ UNCHANGED monitorVars

(***************************************************************************)
(* Monitoring.                                                             *)
(***************************************************************************)
\* file_monitor::stream_callback: the body is read and compared when the event
\* is handled; an own event updates file_bodies_ without a signal.
StreamCallback(p, e) ==
  /\ e \in events[p]
  /\ events' = [events EXCEPT ![p] = @ \ {e}]
  /\ LET looked == user # None \/ known[p]
         body   == Body(user)
     IN  /\ known' = [known EXCEPT ![p] = user # None]
         /\ bodies' = [bodies EXCEPT ![p] = IF looked THEN body ELSE @]
         /\ changed' = IF looked /\ body # bodies[p] /\ e = "foreign"
                       THEN changed \cup {p} ELSE changed
  /\ UNCHANGED <<core>> /\ UNCHANGED fileVars

\* The constructor of core_configuration, on whatever the path holds by now.
Loads(p) ==
  LET body == IF user # None THEN Body(user) ELSE IF SystemFile THEN System ELSE None
  IN  [loaded |-> body \notin {None, Torn},
       value |-> IF body \in {None, Torn} THEN Defaults ELSE body]

\* Mutant: the configuration that is already there stays.
FileChangedOnce(p) ==
  /\ p \in changed
  /\ changed' = changed \ {p}
  /\ core' = [core EXCEPT ![p] = IF @ = None THEN Loads(p).value ELSE @]
  /\ UNCHANGED <<bodies, known, events>> /\ UNCHANGED fileVars

\* configuration_monitor: what was not loaded does not replace a configuration.
FileChanged(p) ==
  /\ p \in changed
  /\ changed' = changed \ {p}
  /\ core' = [core EXCEPT ![p] = IF Loads(p).loaded \/ @ = None THEN Loads(p).value ELSE @]
  /\ UNCHANGED <<bodies, known, events>> /\ UNCHANGED fileVars

(***************************************************************************)
Init == /\ user = 0 /\ tmp = None /\ flushed = {0} /\ backups = [d \in {} |-> 0]
        /\ day = 1 /\ step = "idle" /\ writing = 0 /\ source = None
        /\ contents = 0 /\ crashes = 0 /\ cut = FALSE
        /\ core = [p \in Processes |-> None]
        /\ bodies = [p \in Processes |-> 0]        \* register_stream has read it
        /\ known = [p \in Processes |-> FALSE]
        /\ events = [p \in Processes |-> {}]
        /\ changed = Processes

Write == \/ CopyBackup \/ remove_old_backup_files \/ WriteTmpFile
         \/ UnlinkFile \/ RenameFile \/ CloseFile
Monitor(p) == FileChanged(p) \/ \E e \in {"own", "foreign"} : StreamCallback(p, e)

Next == \/ Edit \/ Save \/ Write \/ Crash \/ NextDay \/ EditByHand
        \/ \E p \in Processes : Monitor(p)

\* Nobody has to edit, to save, to crash; a write that has begun goes on, and
\* events and signals that are pending are handled.
Fairness == /\ WF_vars(Write)
            /\ \A p \in Processes : /\ WF_vars(FileChanged(p))
                                    /\ \A e \in {"own", "foreign"} : WF_vars(StreamCallback(p, e))

Spec == Init /\ [][Next]_vars /\ Fairness

(***************************************************************************)
(* Properties.                                                             *)
(***************************************************************************)
\* "There are also backups under the automatic_backups folder, so you can restore
\* a previous state": the file or one of the backups is whole.  This alone may
\* fail: the copy of the first backup may be cut short, and is never made again
\* that day, while the next save unlinks the file.
AlwaysRestorable == (user # None /\ user \in flushed) \/ WholeBackup

\* Only the first backup is in danger: unless the window died in a copy while
\* there was no whole backup yet, the file or one of the backups is whole
\* wherever a save is interrupted, however many saves, days and crashes there
\* were (exists in make_backup_file: a backup of the day is not overwritten).
SomethingToRestore == cut \/ AlwaysRestorable

\* Torn backups never displace the last whole one: with fewer crashes than
\* keep_count no step of a save, of remove_old_backup_files above all, leaves only
\* torn backups where there was a whole one.
WholeBackupNotLost == [][WholeBackup => WholeBackup']_vars

\* Once the file rests, every process that only reads it ends up with what the
\* file says, whatever it saw while the file was being replaced.
ReadersCatchUp ==
  \A p \in Readers : \A c \in 0..MaxContents :
    <>[](user = c /\ c \in flushed) => <>[](core[p] = c)
=============================================================================
