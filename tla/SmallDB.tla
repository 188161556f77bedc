------------------------------ MODULE SmallDB -------------------------------
(***************************************************************************)
(* A database kept as a snapshot and a log of updates (SmallDB.m3).        *)
(*                                                                         *)
(* Every action is one file operation (or several that a crash cannot      *)
(* tell apart), so a crash may come between any two of them.  What the     *)
(* process has written but not forced is in the system's cache: it         *)
(* survives the process, not the machine.  An update is a number and a     *)
(* value is the sequence of the updates applied to it.                     *)
(***************************************************************************)
EXTENDS Integers, Sequences

CONSTANTS
  MaxUpdate,   \* bound on the updates a client asks for
  MaxVersion,  \* bound on the versions
  Adversity    \* what may go wrong beyond crashes and failing files, see below

\* "GoesOn": the client uses the database after a call has failed.
\* "BadStart": a file operation of GetVersion may fail before Version_Number is
\* written, which is taken for a missing file.
\* "LateSnapshot": a snapshot reaches the disk some time after it is closed.
\* "Torn": the length of an entry may reach the disk before its contents.
\* "Empty": the client's representation of an update may be empty.
ASSUME AdversityIsKnown ==
  Adversity \subseteq {"GoesOn", "BadStart", "LateSnapshot", "Torn",
                 "Empty"}
ASSUME BoundsArePositive == MaxUpdate \in Nat /\ MaxVersion \in Nat \ {0}

VARIABLES
  snapshot,     \* the files Snapshot.<v>
  logfile,      \* the files Logfile.<v>
  versionFile,  \* the number in Version_Number, 0 when there is none
  newVersion,   \* the number in New_Version_Number, 0 when there is none
  pc,           \* the place in the code
  return,       \* where Snapshot or CommitToNewVersion returns to
  version,      \* t.version
  oldversion,   \* the local variable of Snapshot
  logWriter,    \* the version of the log that t.logWriter writes, 0 for NIL
  inside,       \* t.logWriter is positioned inside its last entry
  mem,          \* the client's data structure
  asked,        \* the number of the last update
  forced,       \* the argument forceToDisk of the current update
  acked         \* the updates that the client was told are recorded

files == <<snapshot, logfile, versionFile, newVersion>>
handle == <<version, oldversion, logWriter, inside>>
client == <<mem, asked, forced, acked>>
vars == <<files, pc, return, handle, client>>

Version == 1 .. MaxVersion
UpdateId == 1 .. MaxUpdate
Garbled == 0   \* an entry whose contents are not those of one update

Place ==
  {"Down", "ReadNew", "ReadVersion", "FirstVersion", "Closed", "Open",
   "Length", "Finish", "Failed", "WriteSnapshot", "OpenLogfile", "OpenNew",
   "WriteNew", "OpenVersion", "WriteVersion", "DeleteNew", "DeleteSnapshot",
   "DeleteLogfile"}

\* A file that does not exist.
NoSnapshot == [state |-> "none", value |-> <<>>]
NoLogfile == [exists |-> FALSE, entries |-> <<>>]

Init ==
  /\ snapshot = [v \in Version |-> NoSnapshot]
  /\ logfile = [v \in Version |-> NoLogfile]
  /\ versionFile = 0 /\ newVersion = 0
  /\ pc = "Down" /\ return = "Closed"
  /\ version = 0 /\ oldversion = 0
  /\ logWriter = 0 /\ inside = FALSE
  /\ mem = <<>> /\ asked = 0 /\ forced = TRUE /\ acked = {}

Goto(place) == pc' = place

Members(seq) == {seq[i] : i \in DOMAIN seq}

-----------------------------------------------------------------------------
(* What recovery finds in the files.                                       *)

\* The number of entries before the first one whose length is zero.
Readable(log) ==
  CHOOSE n \in 0 .. Len(log) :
    /\ \A i \in 1 .. n : log[i].length # "zero"
    /\ n < Len(log) => log[n + 1].length = "zero"

Ids(log) == [i \in DOMAIN log |-> log[i].id]

\* The loop of RecoverUpdates.
Replay(log) == Ids(SubSeq(log, 1, Readable(log)))

\* The version that GetVersion will choose.
CurrentVersion == IF newVersion # 0 THEN newVersion ELSE versionFile

Complete(v) ==
  /\ snapshot[v].state \in {"cached", "whole"}
  /\ logfile[v].exists
  /\ Garbled \notin Members(Replay(logfile[v].entries))

Recoverable(v) == snapshot[v].value \o Replay(logfile[v].entries)

-----------------------------------------------------------------------------
(* New: GetVersion, and the first snapshot.                                *)

Start ==
  /\ pc = "Down"
  /\ Goto("ReadNew")
  /\ UNCHANGED <<files, return, handle, client>>

\* A readable number in New_Version_Number is committed to; otherwise the file
\* is deleted.
ReadNew ==
  /\ pc = "ReadNew"
  /\ \/ /\ newVersion > 0
        /\ version' = newVersion
        /\ Goto("OpenVersion")
     \/ /\ newVersion = 0
        /\ Goto("ReadVersion")
        /\ UNCHANGED version
  /\ return' = "Closed"
  /\ UNCHANGED <<files, oldversion, logWriter, inside, client>>

ReadVersion ==
  /\ pc = "ReadVersion"
  /\ \/ /\ versionFile > 0
        /\ version' = versionFile
        /\ Goto("Closed")
     \/ /\ versionFile = 0
        /\ version' = 0
        /\ Goto("FirstVersion")
  /\ UNCHANGED <<files, return, oldversion, logWriter, inside, client>>

\* Snapshot up to the opening of the file, which empties it.
EnterSnapshot(whereTo) ==
  /\ version < MaxVersion
  /\ oldversion' = version
  /\ version' = version + 1
  /\ snapshot' = [snapshot EXCEPT ![version + 1] =
                    [state |-> "partial", value |-> <<>>]]
  /\ return' = whereTo
  /\ Goto("WriteSnapshot")
  /\ UNCHANGED <<logfile, newVersion, logWriter, inside>>

\* CreateFirstVersion writes the number 0, which no reader accepts, and New
\* makes a snapshot of cl.new().
FirstVersion ==
  /\ pc = "FirstVersion"
  /\ versionFile' = 0
  /\ EnterSnapshot("Closed")
  /\ UNCHANGED client

-----------------------------------------------------------------------------
(* Recover.                                                                *)

\* Read the snapshot and the log, reopen the log and truncate it after the
\* last complete entry.  Of an incomplete version only an exception comes.
\* Mutant: the log is not truncated.
RecoverKeepsTail ==
  /\ pc = "Closed"
  /\ Complete(version)
  /\ mem' = Recoverable(version)
  /\ logWriter' = version
  /\ inside' = FALSE
  /\ Goto("Open")
  /\ UNCHANGED <<files, return, version, oldversion, asked, forced, acked>>
Recover ==
  /\ pc = "Closed"
  /\ Complete(version)
  /\ mem' = Recoverable(version)
  /\ logfile' = [logfile EXCEPT ![version].entries =
                   SubSeq(@, 1, Readable(@))]
  /\ logWriter' = version
  /\ inside' = FALSE
  /\ Goto("Open")
  /\ UNCHANGED <<snapshot, versionFile, newVersion, return, version,
                 oldversion, asked, forced, acked>>

Close ==
  /\ pc = "Open"
  /\ logWriter' = 0
  /\ inside' = FALSE
  /\ Goto("Closed")
  /\ UNCHANGED <<files, return, version, oldversion, client>>

-----------------------------------------------------------------------------
(* Update.                                                                 *)

\* Mutant: the entry is that of the next update.
NextEntry(u, place) == [id |-> u + 1, contents |-> place, length |-> "zero"]
Entry(u, place) == [id |-> u, contents |-> place, length |-> "zero"]

\* OSSupport.Sync: all that was written to the log is on the disk.
\* Mutant: the call is missing.
NoSync(log) == log
Sync(log) ==
  [i \in DOMAIN log |->
     [log[i] EXCEPT !.contents = "disk",
                    !.length = IF @ = "zero" THEN "zero" ELSE "disk"]]

\* An entry that is written inside another one spoils that one.
Spoil(log) ==
  IF inside THEN [log EXCEPT ![Len(log)].id = Garbled,
                             ![Len(log)].length = "cache"]
            ELSE log

\* The zero length and the contents, forced to the disk if asked for.
UpdateContents(force) ==
  /\ pc = "Open"
  /\ asked < MaxUpdate
  /\ logWriter # 0
  /\ asked' = asked + 1
  /\ mem' = Append(mem, asked + 1)
  /\ forced' = force
  /\ LET log == Append(Spoil(logfile[logWriter].entries),
                       Entry(asked + 1, "cache"))
     IN logfile' = [logfile EXCEPT ![logWriter].entries =
                      IF force THEN Sync(log) ELSE log]
  /\ inside' = FALSE
  /\ Goto("Length")
  /\ UNCHANGED <<snapshot, versionFile, newVersion, return, version,
                 oldversion, logWriter, acked>>

\* Back to the start of the entry, the real length, and to its end again.
UpdateLength ==
  /\ pc = "Length"
  /\ \E length \in {"cache"} \union
                   (IF "Empty" \in Adversity THEN {"zero"} ELSE {}) :
       logfile' = [logfile EXCEPT ![logWriter].entries[
                     Len(logfile[logWriter].entries)].length = length]
  /\ Goto("Finish")
  /\ UNCHANGED <<snapshot, versionFile, newVersion, return, handle, client>>

\* The padding and, if asked for, the disk.
UpdateFinish ==
  /\ pc = "Finish"
  /\ IF forced
     THEN /\ logfile' = [logfile EXCEPT ![logWriter].entries = Sync(@)]
          /\ acked' = acked \union {asked}
     ELSE UNCHANGED <<logfile, acked>>
  /\ Goto("Open")
  /\ UNCHANGED <<snapshot, versionFile, newVersion, return, handle, mem, asked,
                 forced>>

-----------------------------------------------------------------------------
(* Snapshot, after the file has been opened.                               *)

\* The client asks for a snapshot.  What the value it gives does not contain,
\* it no longer wants.
Snapshot ==
  /\ pc \in {"Closed", "Open"}
  /\ EnterSnapshot("Open")
  /\ UNCHANGED versionFile
  /\ acked' = acked \intersect Members(mem)
  /\ UNCHANGED <<mem, asked, forced>>

WriteSnapshot ==
  /\ pc = "WriteSnapshot"
  /\ \E state \in {"whole"} \union
                  (IF "LateSnapshot" \in Adversity THEN {"cached"} ELSE {}) :
       snapshot' = [snapshot EXCEPT ![version] = [state |-> state, value |-> mem]]
  /\ Goto("OpenLogfile")
  /\ UNCHANGED <<logfile, versionFile, newVersion, return, handle, client>>

\* OpenLogfile (t, TRUE) closes the old log and makes an empty one.
OpenLogfile ==
  /\ pc = "OpenLogfile"
  /\ logfile' = [logfile EXCEPT ![version] = [exists |-> TRUE, entries |-> <<>>]]
  /\ logWriter' = version
  /\ inside' = FALSE
  /\ Goto("OpenNew")
  /\ UNCHANGED <<snapshot, versionFile, newVersion, return, version, oldversion,
                 client>>

\* WriteVersionFile (t, TRUE): opening the file empties it.
OpenNew ==
  /\ pc = "OpenNew"
  /\ newVersion' = 0
  /\ Goto("WriteNew")
  /\ UNCHANGED <<snapshot, logfile, versionFile, return, handle, client>>

WriteNew ==
  /\ pc = "WriteNew"
  /\ newVersion' = version
  /\ Goto("OpenVersion")
  /\ UNCHANGED <<snapshot, logfile, versionFile, return, handle, client>>

\* CommitToNewVersion: WriteVersionFile (t, FALSE), then the deletion.
OpenVersion ==
  /\ pc = "OpenVersion"
  /\ versionFile' = 0
  /\ Goto("WriteVersion")
  /\ UNCHANGED <<snapshot, logfile, newVersion, return, handle, client>>

\* Mutant: the old version is written.
WriteOldVersion ==
  /\ pc = "WriteVersion"
  /\ versionFile' = oldversion
  /\ Goto("DeleteNew")
  /\ UNCHANGED <<snapshot, logfile, newVersion, return, handle, client>>
WriteVersion ==
  /\ pc = "WriteVersion"
  /\ versionFile' = version
  /\ Goto("DeleteNew")
  /\ UNCHANGED <<snapshot, logfile, newVersion, return, handle, client>>

\* GetVersion ends here; Snapshot has opened a log and goes on to delete the
\* old version, if there is one.
DeleteNew ==
  /\ pc = "DeleteNew"
  /\ newVersion' = 0
  /\ Goto(IF logWriter = 0 THEN "Closed" ELSE "DeleteSnapshot")
  /\ UNCHANGED <<snapshot, logfile, versionFile, return, handle, client>>

\* Mutant: without the test for version 0, VersionName takes the current one.
DeleteVersionZero ==
  /\ pc = "DeleteSnapshot"
  /\ snapshot' = [snapshot EXCEPT ![IF oldversion = 0 THEN version
                                    ELSE oldversion] = NoSnapshot]
  /\ Goto("DeleteLogfile")
  /\ UNCHANGED <<logfile, versionFile, newVersion, return, handle, client>>
DeleteSnapshot ==
  /\ pc = "DeleteSnapshot"
  /\ \/ /\ oldversion = 0
        /\ UNCHANGED snapshot
     \/ /\ oldversion # 0
        /\ snapshot[oldversion].state # "none"
        /\ snapshot' = [snapshot EXCEPT ![oldversion] = NoSnapshot]
  /\ Goto("DeleteLogfile")
  /\ UNCHANGED <<logfile, versionFile, newVersion, return, handle, client>>

DeleteLogfile ==
  /\ pc = "DeleteLogfile"
  /\ \/ /\ oldversion = 0
        /\ UNCHANGED logfile
     \/ /\ oldversion # 0
        /\ logfile[oldversion].exists
        /\ logfile' = [logfile EXCEPT ![oldversion] = NoLogfile]
  /\ acked' = Members(mem)
  /\ Goto(return)
  /\ UNCHANGED <<snapshot, versionFile, newVersion, return, handle, mem, asked,
                 forced>>

-----------------------------------------------------------------------------
(* File operations that raise OSError.E.                                   *)

InUpdate == pc \in {"Length", "Finish"}

InSnapshot ==
  \/ pc \in {"WriteSnapshot", "OpenLogfile", "OpenNew", "WriteNew",
             "DeleteSnapshot", "DeleteLogfile"}
  \/ pc \in {"OpenVersion", "WriteVersion", "DeleteNew"} /\ logWriter # 0

\* Recover, Update or Snapshot ends with the exception.  The log is closed when
\* it cannot be opened again; the writer stays inside the entry when the seek
\* to its end fails.
CallRaises ==
  /\ pc = "Closed" \/ InUpdate \/ InSnapshot
  /\ logWriter' = IF pc = "OpenLogfile" THEN 0 ELSE logWriter
  /\ \/ UNCHANGED inside
     \/ pc = "Length" /\ inside' = TRUE
  /\ IF "GoesOn" \in Adversity /\ (InUpdate \/ (InSnapshot /\ return = "Open"))
     THEN Goto("Open") ELSE Goto("Failed")
  /\ UNCHANGED <<files, return, version, oldversion, client>>

\* In GetVersion, the handler deletes the new version file (if it can) and
\* tries the other one; if that fails too the database is made anew.
StartRaises ==
  /\ "BadStart" \in Adversity \/ pc = "DeleteNew"
  /\ \/ /\ pc \in {"ReadNew", "OpenVersion", "WriteVersion", "DeleteNew"}
        /\ logWriter = 0
        /\ newVersion' \in {0, newVersion}
        /\ Goto("ReadVersion")
     \/ /\ pc = "ReadVersion"
        /\ Goto("FirstVersion")
        /\ UNCHANGED newVersion
  /\ version' = 0
  /\ return' = "Closed"
  /\ UNCHANGED <<snapshot, logfile, versionFile, oldversion, logWriter, inside,
                 client>>

-----------------------------------------------------------------------------
(* Crashes.                                                                *)

\* The memory of the process is lost.
ProcessEnds ==
  /\ Goto("Down")
  /\ return' = "Closed"
  /\ version' = 0 /\ oldversion' = 0
  /\ logWriter' = 0 /\ inside' = FALSE
  /\ mem' = <<>> /\ forced' = TRUE
  /\ UNCHANGED <<versionFile, newVersion, asked, acked>>

\* The process ends after an exception, as the package server does.
Exit ==
  /\ pc = "Failed"
  /\ ProcessEnds
  /\ UNCHANGED <<snapshot, logfile>>

ProcessCrash ==
  /\ pc # "Down"
  /\ ProcessEnds
  /\ UNCHANGED <<snapshot, logfile>>

\* What the disk holds of a log: any of the lengths that were not forced may
\* be lost, and the contents of the entries in torn.
OnDisk(log, lost, torn) ==
  [i \in DOMAIN log |->
     [id |-> IF i \in torn THEN Garbled ELSE log[i].id,
      contents |-> "disk",
      length |-> IF i \in lost \/ log[i].length = "zero" THEN "zero" ELSE "disk"]]

Cached(log, field) == {i \in DOMAIN log : log[i][field] = "cache"}

MachineCrash ==
  /\ ProcessEnds
  /\ LET v == CurrentVersion IN
       \/ /\ v = 0
          /\ UNCHANGED <<snapshot, logfile>>
       \/ /\ v # 0
          /\ LET log == logfile[v].entries IN
               \E lost \in SUBSET Cached(log, "length"),
                  torn \in IF "Torn" \in Adversity
                             THEN SUBSET Cached(log, "contents") ELSE {{}} :
                 logfile' = [logfile EXCEPT ![v].entries = OnDisk(log, lost, torn)]
          /\ \/ UNCHANGED snapshot
             \/ /\ snapshot[v].state = "cached"
                /\ snapshot' = [snapshot EXCEPT ![v] =
                                [state |-> "partial", value |-> <<>>]]

-----------------------------------------------------------------------------
Continue ==
  \/ Start \/ ReadNew \/ ReadVersion \/ FirstVersion
  \/ Recover
  \/ UpdateLength \/ UpdateFinish
  \/ WriteSnapshot \/ OpenLogfile \/ OpenNew \/ WriteNew \/ OpenVersion
  \/ WriteVersion \/ DeleteNew \/ DeleteSnapshot \/ DeleteLogfile
  \/ Exit

Call ==
  \/ \E force \in BOOLEAN : UpdateContents(force)
  \/ Snapshot
  \/ Close

Disturb == CallRaises \/ StartRaises \/ ProcessCrash \/ MachineCrash

Next == Continue \/ Call \/ Disturb

Spec == Init /\ [][Next]_vars

\* The program runs and the client recovers the database after New.
FairSpec == Spec /\ WF_vars(Continue)

-----------------------------------------------------------------------------
(* Properties.                                                             *)

File == [state : {"none", "partial", "cached", "whole"}, value : Seq(UpdateId)]

LogEntry == [id : UpdateId \union {Garbled}, contents : {"cache", "disk"},
             length : {"zero", "cache", "disk"}]

\* The variables of SmallDB.T, of its client and the files have the values
\* their declarations say.
TypeOK ==
  /\ snapshot \in [Version -> File]
  /\ logfile \in [Version -> [exists : BOOLEAN, entries : Seq(LogEntry)]]
  /\ versionFile \in 0 .. MaxVersion /\ newVersion \in 0 .. MaxVersion
  /\ pc \in Place /\ return \in {"Closed", "Open"}
  /\ version \in 0 .. MaxVersion /\ oldversion \in 0 .. MaxVersion
  /\ logWriter \in 0 .. MaxVersion /\ inside \in BOOLEAN
  /\ mem \in Seq(UpdateId) /\ asked \in 0 .. MaxUpdate
  /\ forced \in BOOLEAN /\ acked \subseteq UpdateId

\* Whenever the process or the machine crashes, New and recover will find
\* every update that was forced and acknowledged (SmallDB.i3 24: "no update is
\* lost"), whichever of GetVersion's files it finds.
NoUpdateLost ==
  acked # {} =>
    /\ CurrentVersion # 0
    /\ acked \subseteq Members(Recoverable(CurrentVersion))

\* At every moment the version that GetVersion would choose has a complete
\* snapshot and a log that can be read (SmallDB.i3 25: "Making a new snapshot
\* is also atomic"); between two calls the updates go to the log that recovery
\* would read, and both version files that exist name that version.
VersionsAgree ==
  /\ CurrentVersion # 0 => Complete(CurrentVersion)
  /\ pc = "Open" => /\ logWriter = version
                    /\ version = versionFile
                    /\ newVersion \in {0, version}

\* The number of leading entries whose length is on the disk.
Forced(log) ==
  CHOOSE n \in 0 .. Len(log) :
    /\ \A i \in 1 .. n : log[i].length = "disk"
    /\ n < Len(log) => log[n + 1].length # "disk"

\* The updates in the log after the forced ones, and the one being recorded.
Unforced(log) ==
  Ids(SubSeq(log, Forced(log) + 1,
             IF pc = "Length" THEN Len(log) ELSE Readable(log)))

Current(Part(_), none) ==
  IF CurrentVersion = 0 THEN none ELSE Part(CurrentVersion)

Stable == LET Part(v) == snapshot[v].value
                         \o Ids(SubSeq(logfile[v].entries, 1,
                                       Forced(logfile[v].entries)))
          IN Current(Part, <<>>)

Loose == LET Part(v) == Unforced(logfile[v].entries)
         IN Current(Part, <<>>)

Mode ==
  CASE pc \in {"Closed", "Open", "Failed"} -> pc
    [] InUpdate -> IF forced THEN "Forced" ELSE "Buffered"
    [] InSnapshot /\ return = "Open" ->
         IF pc \in {"WriteSnapshot", "OpenLogfile", "OpenNew", "WriteNew"}
         THEN "Snapshot" ELSE "Committed"
    [] OTHER -> "Down"

Store == INSTANCE DurableStore
           WITH Update <- UpdateId, stable <- Stable, loose <- Loose,
                mode <- Mode

\* The file operations of Snapshot, Update, New and Recover, with crashes
\* between them, implement a store whose updates and snapshots are atomic.
ImplementsStore == Store!Spec

\* After a crash the database is opened again: New and recover end without an
\* exception, unless the system keeps crashing or files keep failing.
StartsAgain == []<>(pc = "Open") \/ []<><<Disturb>>_vars
=============================================================================
