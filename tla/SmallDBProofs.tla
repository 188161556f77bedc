--------------------------- MODULE SmallDBProofs ----------------------------
(***************************************************************************)
(* IInv is an inductive invariant of SmallDB; that no acknowledged update  *)
(* is lost follows from it, and so does that the file operations implement *)
(* DurableStore, for any number of updates and versions.                   *)
(***************************************************************************)
EXTENDS SmallDB, SequenceTheorems, WellFoundedInduction, TLAPS

-----------------------------------------------------------------------------
(* Sequences and logs.                                                     *)

Logs == Seq(LogEntry)

LEMMA SeqOf ==
  ASSUME NEW S, NEW n \in Nat, NEW f \in [1 .. n -> S]
  PROVE  f \in Seq(S) /\ Len(f) = n /\ DOMAIN f = 1 .. n
<1>1. f \in Seq(S)
  BY SeqDef
<1> QED  BY <1>1, LenProperties

LEMMA LogShape ==
  ASSUME NEW log \in Logs
  PROVE  /\ Len(log) \in Nat /\ DOMAIN log = 1 .. Len(log)
         /\ \A i \in DOMAIN log : log[i] \in LogEntry
BY LenProperties, ElementOfSeq DEF Logs

LEMMA EntryTyped ==
  ASSUME NEW e \in LogEntry
  PROVE  /\ e.id \in UpdateId \union {Garbled} /\ e.contents \in {"cache", "disk"}
         /\ e.length \in {"zero", "cache", "disk"}
BY DEF LogEntry

LEMMA IdsOf ==
  ASSUME NEW log \in Logs
  PROVE  /\ Ids(log) \in Seq(UpdateId \union {Garbled})
         /\ Len(Ids(log)) = Len(log) /\ DOMAIN Ids(log) = DOMAIN log
         /\ \A i \in DOMAIN log : Ids(log)[i] = log[i].id
         /\ (\A i \in DOMAIN log : log[i].id # Garbled) => Ids(log) \in Seq(UpdateId)
<1>1. Len(log) \in Nat /\ DOMAIN log = 1 .. Len(log) /\ \A i \in DOMAIN log : log[i].id \in UpdateId \union {Garbled}
  BY LogShape, EntryTyped
<1>2. Ids(log) \in [1 .. Len(log) -> UpdateId \union {Garbled}]
  BY <1>1 DEF Ids
<1>3. ASSUME \A i \in DOMAIN log : log[i].id # Garbled
      PROVE  Ids(log) \in [1 .. Len(log) -> UpdateId]
  BY <1>1, <1>3 DEF Ids
<1>4. \A i \in DOMAIN log : Ids(log)[i] = log[i].id
  BY DEF Ids
<1> QED  BY <1>1, <1>2, <1>3, <1>4, SeqOf

LEMMA SyncOf ==
  ASSUME NEW log \in Logs
  PROVE  /\ Sync(log) \in Logs /\ Len(Sync(log)) = Len(log) /\ DOMAIN Sync(log) = DOMAIN log
         /\ \A i \in DOMAIN log :
              /\ Sync(log)[i].id = log[i].id
              /\ Sync(log)[i].length = IF log[i].length = "zero" THEN "zero" ELSE "disk"
<1>1. Len(log) \in Nat /\ DOMAIN log = 1 .. Len(log) /\ \A i \in DOMAIN log : log[i] \in LogEntry
  BY LogShape
<1>2. ASSUME NEW i \in DOMAIN log
      PROVE  /\ Sync(log)[i] \in LogEntry /\ Sync(log)[i].id = log[i].id
             /\ Sync(log)[i].length = IF log[i].length = "zero" THEN "zero" ELSE "disk"
  BY <1>1 DEF Sync, LogEntry
<1>3. Sync(log) \in [1 .. Len(log) -> LogEntry]
  BY <1>1, <1>2 DEF Sync
<1> QED  BY <1>1, <1>2, <1>3, SeqOf DEF Logs

LEMMA OnDiskOf ==
  ASSUME NEW log \in Logs, NEW lost, NEW torn
  PROVE  /\ OnDisk(log, lost, torn) \in Logs
         /\ Len(OnDisk(log, lost, torn)) = Len(log) /\ DOMAIN OnDisk(log, lost, torn) = DOMAIN log
         /\ \A i \in DOMAIN log :
              /\ OnDisk(log, lost, torn)[i].id = IF i \in torn THEN Garbled ELSE log[i].id
              /\ OnDisk(log, lost, torn)[i].length
                   = IF i \in lost \/ log[i].length = "zero" THEN "zero" ELSE "disk"
<1> DEFINE disk == OnDisk(log, lost, torn)
<1>1. Len(log) \in Nat /\ DOMAIN log = 1 .. Len(log) /\ \A i \in DOMAIN log : log[i] \in LogEntry
  BY LogShape
<1>2. ASSUME NEW i \in DOMAIN log
      PROVE  /\ disk[i] \in LogEntry /\ disk[i].id = IF i \in torn THEN Garbled ELSE log[i].id
             /\ disk[i].length = IF i \in lost \/ log[i].length = "zero" THEN "zero" ELSE "disk"
  BY <1>1 DEF OnDisk, LogEntry
<1>3. disk \in [1 .. Len(log) -> LogEntry]
  BY <1>1, <1>2 DEF OnDisk
<1> QED  BY <1>1, <1>2, <1>3, SeqOf DEF Logs

\* A nonempty set of numbers has a least one.
LEMMA LeastExists ==
  ASSUME NEW S \in SUBSET Nat, S # {}
  PROVE  \E x \in S : \A y \in S : x <= y
<1> DEFINE Less == {p \in Nat \X Nat : p[1] < p[2]}
<1>1. IsWellFoundedOn(Less, Nat)
  BY NatLessThanWellFounded DEF OpToRel
<1>2. PICK x \in S : \A y \in S : ~(<<y, x>> \in Less)
  BY <1>1, WFMin
<1>3. ASSUME NEW y \in S  PROVE x <= y
  <2>1. <<y, x>> \in Nat \X Nat
    OBVIOUS
  <2>2. ~(y < x)
    BY <2>1, <1>2
  <2> QED  BY <2>2
<1> QED  BY <1>3

\* The prefix of a log up to the first entry outside Good: what Readable and
\* Forced choose.
LEMMA PrefixExists ==
  ASSUME NEW n \in Nat, NEW Good \in SUBSET (1 .. n)
  PROVE  \E k \in 0 .. n : (\A i \in 1 .. k : i \in Good) /\ (k < n => k + 1 \notin Good)
<1> DEFINE Bad == (1 .. n) \ Good
<1>1. CASE Bad = {}
  <2>1. n \in 0 .. n /\ \A i \in 1 .. n : i \in Good
    BY <1>1
  <2> QED  BY <2>1
<1>2. CASE Bad # {}
  <2>0. Bad \in SUBSET Nat
    OBVIOUS
  <2>1. PICK b \in Bad : \A y \in Bad : b <= y
    BY <1>2, <2>0, LeastExists
  <2>2. b - 1 \in 0 .. n /\ (\A i \in 1 .. b - 1 : i \in Good) /\ (b - 1) + 1 \notin Good
    BY <2>1
  <2> QED  BY <2>2
<1> QED  BY <1>1, <1>2

\* What recovery reads of a log: everything up to the first zero length.
LEMMA ReadableOf ==
  ASSUME NEW log \in Logs
  PROVE  /\ Readable(log) \in 0 .. Len(log)
         /\ \A i \in 1 .. Readable(log) : log[i].length # "zero"
         /\ Readable(log) < Len(log) => log[Readable(log) + 1].length = "zero"
<1> DEFINE Good == {i \in 1 .. Len(log) : log[i].length # "zero"}
<1>1. Len(log) \in Nat
  BY LogShape
<1>2. PICK k \in 0 .. Len(log) : (\A i \in 1 .. k : i \in Good) /\ (k < Len(log) => k + 1 \notin Good)
  BY <1>1, PrefixExists
<1>3. k < Len(log) => k + 1 \in 1 .. Len(log)
  BY <1>1
<1>4. (\A i \in 1 .. k : log[i].length # "zero") /\ (k < Len(log) => log[k + 1].length = "zero")
  BY <1>2, <1>3
<1> QED  BY <1>4 DEF Readable

LEMMA PrefixOf ==
  ASSUME NEW log \in Logs, NEW n \in 0 .. Len(log)
  PROVE  /\ SubSeq(log, 1, n) \in Logs /\ Len(SubSeq(log, 1, n)) = n
         /\ DOMAIN SubSeq(log, 1, n) = 1 .. n
         /\ \A i \in 1 .. n : SubSeq(log, 1, n)[i] = log[i]
<1>1. \A i \in 1 .. n : log[i] \in LogEntry
  BY LogShape
<1>2. n \in Int /\ Len(log) \in Nat
  BY LogShape
<1>3. SubSeq(log, 1, n) \in Logs /\ Len(SubSeq(log, 1, n)) = n
      /\ \A i \in 1 .. n : SubSeq(log, 1, n)[i] = log[i]
  BY <1>1, <1>2, SubSeqProperties DEF Logs
<1> QED  BY <1>3, LogShape

LEMMA ReplayOf ==
  ASSUME NEW log \in Logs
  PROVE  /\ Len(Replay(log)) = Readable(log) /\ DOMAIN Replay(log) = 1 .. Readable(log)
         /\ \A i \in 1 .. Readable(log) : Replay(log)[i] = log[i].id
         /\ Garbled \notin Members(Replay(log)) => Replay(log) \in Seq(UpdateId)
<1> DEFINE n == Readable(log)
           read == SubSeq(log, 1, n)
<1>1. n \in 0 .. Len(log)
  BY ReadableOf
<1>2. read \in Logs /\ Len(read) = n /\ DOMAIN read = 1 .. n /\ \A i \in 1 .. n : read[i] = log[i]
  BY <1>1, PrefixOf
<1> HIDE DEF read, n
<1>3. /\ Len(Ids(read)) = n /\ DOMAIN Ids(read) = 1 .. n /\ \A i \in 1 .. n : Ids(read)[i] = log[i].id
      /\ (\A i \in DOMAIN read : read[i].id # Garbled) => Ids(read) \in Seq(UpdateId)
  BY <1>2, IdsOf
<1>4. Replay(log) = Ids(read)
  BY DEF Replay, read, n
<1>5. Garbled \notin Members(Ids(read)) => \A i \in DOMAIN read : read[i].id # Garbled
  BY <1>2, <1>3 DEF Members
<1> QED  BY <1>3, <1>4, <1>5 DEF n

LEMMA IdsOfAppend ==
  ASSUME NEW log \in Logs, NEW e \in LogEntry
  PROVE  Ids(Append(log, e)) = Append(Ids(log), e.id)
<1>1. /\ Append(log, e) \in Logs /\ Len(Append(log, e)) = Len(log) + 1
      /\ \A i \in 1 .. Len(log) : Append(log, e)[i] = log[i]
      /\ Append(log, e)[Len(log) + 1] = e
  BY AppendProperties DEF Logs
<1>2. /\ Ids(log) \in Seq(UpdateId \union {Garbled}) /\ Len(Ids(log)) = Len(log)
      /\ \A i \in 1 .. Len(log) : Ids(log)[i] = log[i].id
  BY IdsOf, LogShape
<1>3. e.id \in UpdateId \union {Garbled}
  BY EntryTyped
<1>4. /\ Append(Ids(log), e.id) \in Seq(UpdateId \union {Garbled})
      /\ Len(Append(Ids(log), e.id)) = Len(log) + 1
      /\ \A i \in 1 .. Len(log) : Append(Ids(log), e.id)[i] = log[i].id
      /\ Append(Ids(log), e.id)[Len(log) + 1] = e.id
  BY <1>2, <1>3, AppendProperties
<1>5. /\ Ids(Append(log, e)) \in Seq(UpdateId \union {Garbled})
      /\ Len(Ids(Append(log, e))) = Len(log) + 1
      /\ \A i \in 1 .. Len(log) + 1 : Ids(Append(log, e))[i] = Append(log, e)[i].id
  BY <1>1, IdsOf, LogShape
<1>6. \A i \in 1 .. Len(log) + 1 : Ids(Append(log, e))[i] = Append(Ids(log), e.id)[i]
  <2> TAKE i \in 1 .. Len(log) + 1
  <2>1. i \in 1 .. Len(log) \/ i = Len(log) + 1
    BY LogShape
  <2> QED  BY <1>1, <1>4, <1>5, <2>1
<1> QED  BY <1>4, <1>5, <1>6, SeqEqual

LEMMA SameIds ==
  ASSUME NEW log \in Logs, NEW log2 \in Logs, Len(log2) = Len(log),
         \A i \in DOMAIN log : log2[i].id = log[i].id
  PROVE  Ids(log2) = Ids(log)
<1>1. DOMAIN log = 1 .. Len(log) /\ DOMAIN log2 = 1 .. Len(log)
  BY LogShape
<1> QED  BY <1>1, IdsOf, SeqEqual

LEMMA EmptyIds ==
  /\ Ids(<<>>) = <<>>
  /\ \A s \in Seq(UpdateId) : s \o Ids(<<>>) = s
<1>1. Ids(<<>>) = <<>>
  <2>1. <<>> \in Logs /\ Len(<<>>) = 0
    BY EmptySeq DEF Logs
  <2>2. Ids(<<>>) \in Seq(UpdateId \union {Garbled}) /\ Len(Ids(<<>>)) = 0
    BY <2>1, IdsOf
  <2> QED  BY <2>2, EmptySeq
<1> QED  BY <1>1, ConcatEmptySeq

-----------------------------------------------------------------------------
(* Types.                                                                  *)

USE DEF Goto, files, handle, client, Place

Starting == {"Down", "ReadNew", "ReadVersion", "FirstVersion"}

\* After GetVersion there is a version, and in Update an update.
VersionKnown ==
  /\ pc \notin Starting \union {"Failed"} => version # 0
  /\ pc \in {"Length", "Finish"} => asked # 0

TypeInv == TypeOK /\ VersionKnown

LEMMA EmptyFiles ==
  /\ [state |-> "partial", value |-> <<>>] \in File /\ NoSnapshot \in File
  /\ NoLogfile \in [exists : BOOLEAN, entries : Logs]
  /\ <<>> \in Logs /\ <<>> \in Seq(UpdateId)
BY EmptySeq DEF File, NoSnapshot, NoLogfile, Logs

\* A log file of which the entries change.
LEMMA NewEntries ==
  ASSUME TypeOK, NEW v, NEW log \in Logs,
         logfile' = [logfile EXCEPT ![v].entries = log]
  PROVE  /\ logfile' \in [Version -> [exists : BOOLEAN, entries : Logs]]
         /\ v \in Version => logfile'[v].entries = log /\ logfile'[v].exists = logfile[v].exists
         /\ \A w \in Version \ {v} : logfile'[w] = logfile[w]
<1>1. logfile \in [Version -> [exists : BOOLEAN, entries : Logs]]
  BY DEF TypeOK, Logs
<1>2. logfile' = [logfile EXCEPT ![v] = [logfile[v] EXCEPT !.entries = log]]
  OBVIOUS
<1>3. v \in Version => [logfile[v] EXCEPT !.entries = log] = [exists |-> logfile[v].exists, entries |-> log]
  BY <1>1
<1> QED  BY <1>1, <1>2, <1>3

LEMMA ChangeSnapshot ==
  ASSUME TypeOK, NEW v, NEW file \in File, snapshot' = [snapshot EXCEPT ![v] = file]
  PROVE  snapshot' \in [Version -> File]
BY DEF TypeOK

LEMMA InitTypeInv ==
  ASSUME Init  PROVE TypeInv
<1>1. snapshot \in [Version -> File] /\ logfile \in [Version -> [exists : BOOLEAN, entries : Logs]]
  BY EmptyFiles DEF Init
<1>2. /\ versionFile \in 0 .. MaxVersion /\ newVersion \in 0 .. MaxVersion
      /\ version \in 0 .. MaxVersion /\ oldversion \in 0 .. MaxVersion
      /\ logWriter \in 0 .. MaxVersion /\ asked \in 0 .. MaxUpdate
  BY BoundsArePositive DEF Init
<1>3. /\ pc \in Place /\ return \in {"Closed", "Open"} /\ inside \in BOOLEAN /\ forced \in BOOLEAN
      /\ mem \in Seq(UpdateId) /\ acked \subseteq UpdateId
  BY EmptyFiles DEF Init
<1>4. VersionKnown
  BY DEF Init, VersionKnown, Starting
<1> QED  BY <1>1, <1>2, <1>3, <1>4 DEF TypeInv, TypeOK, Logs

\* The process ends.
LEMMA EndsTyped ==
  ASSUME TypeInv, ProcessEnds, snapshot' \in [Version -> File],
         logfile' \in [Version -> [exists : BOOLEAN, entries : Logs]]
  PROVE  TypeInv'
<1>1. /\ versionFile' \in 0 .. MaxVersion /\ newVersion' \in 0 .. MaxVersion
      /\ version' \in 0 .. MaxVersion /\ oldversion' \in 0 .. MaxVersion
      /\ logWriter' \in 0 .. MaxVersion /\ asked' \in 0 .. MaxUpdate
  BY BoundsArePositive DEF TypeInv, TypeOK, ProcessEnds
<1>2. /\ pc' \in Place /\ return' \in {"Closed", "Open"} /\ inside' \in BOOLEAN /\ forced' \in BOOLEAN
      /\ mem' \in Seq(UpdateId) /\ acked' \subseteq UpdateId
  BY EmptyFiles DEF TypeInv, TypeOK, ProcessEnds
<1>3. VersionKnown'
  BY DEF ProcessEnds, VersionKnown, Starting
<1> QED  BY <1>1, <1>2, <1>3 DEF TypeInv, TypeOK, Logs

LEMMA CurrentVersionTyped ==
  ASSUME TypeOK  PROVE CurrentVersion \in 0 .. MaxVersion
BY DEF TypeOK, CurrentVersion

LEMMA NextTypeInv ==
  ASSUME TypeInv, [Next]_vars
  PROVE  TypeInv'
<1> USE BoundsArePositive, EmptyFiles DEF TypeInv
<1>0. /\ snapshot \in [Version -> File] /\ logfile \in [Version -> [exists : BOOLEAN, entries : Logs]]
      /\ version \in 0 .. MaxVersion /\ logWriter \in 0 .. MaxVersion
  BY DEF TypeOK, Logs
<1>1. CASE UNCHANGED vars
  BY <1>1 DEF vars, TypeOK, VersionKnown
<1>2. CASE Start \/ ReadNew \/ ReadVersion
  BY <1>2 DEF Start, ReadNew, ReadVersion, TypeOK, VersionKnown, Starting
<1>3. ASSUME NEW whereTo \in {"Closed", "Open"}, EnterSnapshot(whereTo), versionFile' \in {0, versionFile},
             UNCHANGED <<mem, asked, forced>>, acked' \subseteq acked
      PROVE  TypeInv'
  <2>1. snapshot' \in [Version -> File]
    BY <1>3, ChangeSnapshot DEF EnterSnapshot
  <2> QED  BY <1>3, <2>1 DEF EnterSnapshot, TypeOK, VersionKnown, Starting
<1>4. CASE FirstVersion \/ Snapshot
  BY <1>3, <1>4 DEF FirstVersion, Snapshot
<1>5. CASE Recover
  <2>1. version \in Version
    BY <1>0, <1>5 DEF Recover, VersionKnown, Starting, Version
  <2>2. logfile[version].entries \in Logs /\ snapshot[version].value \in Seq(UpdateId)
    BY <1>0, <2>1 DEF File
  <2>3. mem' \in Seq(UpdateId)
    BY <1>5, <2>2, ReplayOf, ConcatProperties DEF Recover, Complete, Recoverable
  <2>4. SubSeq(logfile[version].entries, 1, Readable(logfile[version].entries)) \in Logs
    BY <2>2, ReadableOf, PrefixOf
  <2>5. logfile' \in [Version -> [exists : BOOLEAN, entries : Logs]]
    BY <1>5, <2>4, NewEntries DEF Recover
  <2> QED  BY <1>5, <2>1, <2>3, <2>5 DEF Recover, TypeOK, VersionKnown, Starting, Logs
<1>6. CASE Close
  <2>1. /\ logWriter' \in 0 .. MaxVersion /\ inside' \in BOOLEAN /\ pc' = "Closed" /\ version # 0
        /\ UNCHANGED <<snapshot, logfile, versionFile, newVersion, return, version, oldversion, client>>
    <3>1. logWriter' = 0 /\ inside' = FALSE /\ 0 \in 0 .. MaxVersion
      BY <1>6 DEF Close
    <3> QED  BY <1>6, <3>1 DEF Close, VersionKnown, Starting
  <2>2. TypeOK'
    BY <2>1 DEF TypeOK
  <2> QED  BY <2>1, <2>2 DEF VersionKnown
<1>19. CASE WriteNew \/ OpenNew \/ OpenVersion
  <2>1. /\ newVersion' \in {0, version, newVersion} /\ versionFile' \in {0, versionFile} /\ version # 0
        /\ pc' \in {"OpenVersion", "WriteNew", "WriteVersion"}
        /\ UNCHANGED <<snapshot, logfile, return, handle, client>>
    BY <1>19 DEF WriteNew, OpenNew, OpenVersion, VersionKnown, Starting
  <2> QED  BY <2>1 DEF TypeOK, VersionKnown
<1>10. CASE WriteVersion \/ DeleteNew
  BY <1>10 DEF WriteVersion, DeleteNew, TypeOK, VersionKnown, Starting
<1>7. ASSUME NEW force \in BOOLEAN, UpdateContents(force)
      PROVE  TypeInv'
  <2> DEFINE old == logfile[logWriter].entries
             log == Append(Spoil(old), Entry(asked + 1, "cache"))
  <2>1. old \in Logs /\ asked + 1 \in UpdateId /\ asked \in 0 .. MaxUpdate
    BY <1>0, <1>7 DEF UpdateContents, Version, UpdateId, TypeOK
  <2>2. Spoil(old) \in Logs
    <3>1. CASE ~inside
      BY <2>1, <3>1 DEF Spoil
    <3>2. CASE inside
      <4>0. /\ Spoil(old) = [old EXCEPT ![Len(old)].id = Garbled, ![Len(old)].length = "cache"]
            /\ DOMAIN old = 1 .. Len(old)
        BY <2>1, <3>2, LogShape DEF Spoil
      <4>2. ASSUME NEW i \in 1 .. Len(old)  PROVE Spoil(old)[i] \in LogEntry
        <5>1. old[i] \in LogEntry
          BY <2>1, <4>0, LogShape
        <5>2. Spoil(old)[i] = old[i] \/ Spoil(old)[i] = [old[i] EXCEPT !.id = Garbled, !.length = "cache"]
          BY <4>0
        <5> QED  BY <5>1, <5>2 DEF LogEntry
      <4>1. Spoil(old) \in [1 .. Len(old) -> LogEntry]
        BY <4>0, <4>2
      <4> QED  BY <2>1, <4>1, SeqOf, LogShape DEF Logs
    <3> QED  BY <3>1, <3>2
  <2>3. Entry(asked + 1, "cache") \in LogEntry
    BY <2>1 DEF Entry, LogEntry
  <2>4. log \in Logs
    BY <2>2, <2>3, AppendProperties DEF Logs
  <2>5. (IF force THEN Sync(log) ELSE log) \in Logs
    BY <2>4, SyncOf
  <2>6. mem' \in Seq(UpdateId)
    BY <1>7, <2>1, AppendProperties DEF UpdateContents, TypeOK
  <2>7. logfile' = [logfile EXCEPT ![logWriter].entries = IF force THEN Sync(log) ELSE log]
    BY <1>7 DEF UpdateContents
  <2> HIDE DEF log
  <2>8. logfile' \in [Version -> [exists : BOOLEAN, entries : Logs]]
    BY <2>5, <2>7, NewEntries
  <2>9. /\ pc' = "Length" /\ asked' \in 0 .. MaxUpdate /\ asked' # 0 /\ inside' = FALSE /\ forced' = force
        /\ UNCHANGED <<snapshot, versionFile, newVersion, return, version, oldversion, logWriter, acked>>
        /\ version # 0
    BY <1>7, <2>1 DEF UpdateContents, VersionKnown, Starting, UpdateId
  <2> QED  BY <2>6, <2>8, <2>9 DEF TypeOK, VersionKnown, Starting, Logs
<1>8. CASE UpdateLength
  <2> DEFINE old == logfile[logWriter].entries
  <2>1. PICK length \in {"cache", "zero"} :
          logfile' = [logfile EXCEPT ![logWriter].entries[Len(old)].length = length]
    BY <1>8 DEF UpdateLength
  <2>2. logfile' \in [Version -> [exists : BOOLEAN, entries : Logs]]
    <3>1. CASE logWriter \notin Version
      BY <1>0, <2>1, <3>1
    <3>2. CASE logWriter \in Version
      <4>1. old \in Logs
        BY <1>0, <3>2
      <4>0. DOMAIN old = 1 .. Len(old)
        BY <4>1, LogShape
      <4>5. ASSUME NEW i \in 1 .. Len(old)
            PROVE  [old EXCEPT ![Len(old)].length = length][i] \in LogEntry
        <5>1. old[i] \in LogEntry
          BY <4>0, <4>1, LogShape
        <5> QED  BY <4>0, <5>1 DEF LogEntry
      <4>2. [old EXCEPT ![Len(old)].length = length] \in [1 .. Len(old) -> LogEntry]
        BY <4>0, <4>5
      <4>3. [old EXCEPT ![Len(old)].length = length] \in Logs
        BY <4>1, <4>2, SeqOf, LogShape DEF Logs
      <4>4. logfile' = [logfile EXCEPT ![logWriter].entries = [old EXCEPT ![Len(old)].length = length]]
        BY <2>1
      <4> QED  BY <4>3, <4>4, NewEntries
    <3> QED  BY <3>1, <3>2
  <2> QED  BY <1>8, <2>2 DEF UpdateLength, TypeOK, VersionKnown, Starting, Logs
<1>9. CASE UpdateFinish
  <2>1. logfile' \in [Version -> [exists : BOOLEAN, entries : Logs]]
    <3>1. CASE logfile' = logfile
      BY <1>0, <3>1
    <3>2. CASE logfile' = [logfile EXCEPT ![logWriter].entries = Sync(logfile[logWriter].entries)]
      <4>1. CASE logWriter \notin Version
        BY <1>0, <3>2, <4>1
      <4>2. CASE logWriter \in Version
        BY <1>0, <3>2, <4>2, SyncOf, NewEntries
      <4> QED  BY <4>1, <4>2
    <3> QED  BY <1>9, <3>1, <3>2 DEF UpdateFinish
  <2>2. asked \in UpdateId
    BY <1>9 DEF UpdateFinish, TypeOK, VersionKnown, UpdateId
  <2>3. acked' \subseteq UpdateId
    BY <1>9, <2>2 DEF UpdateFinish, TypeOK
  <2>4. /\ pc' = "Open" /\ version # 0
        /\ UNCHANGED <<snapshot, versionFile, newVersion, return, version, oldversion, logWriter, inside, mem,
                       asked, forced>>
    BY <1>9 DEF UpdateFinish, VersionKnown, Starting
  <2> QED  BY <2>1, <2>3, <2>4 DEF TypeOK, VersionKnown, Starting, Logs
<1>11. CASE WriteSnapshot
  <2>1. PICK state \in {"whole", "cached"} :
          snapshot' = [snapshot EXCEPT ![version] = [state |-> state, value |-> mem]]
    BY <1>11 DEF WriteSnapshot
  <2>2. [state |-> state, value |-> mem] \in File
    BY DEF TypeOK, File
  <2>3. snapshot' \in [Version -> File]
    BY <2>1, <2>2, ChangeSnapshot
  <2> QED  BY <1>11, <2>3 DEF WriteSnapshot, TypeOK, VersionKnown, Starting
<1>12. CASE OpenLogfile
  <2>1. logfile' \in [Version -> [exists : BOOLEAN, entries : Logs]]
    BY <1>0, <1>12 DEF OpenLogfile
  <2> QED  BY <1>12, <2>1 DEF OpenLogfile, TypeOK, VersionKnown, Starting, Logs
<1>13. CASE DeleteSnapshot
  <2>1. snapshot' \in [Version -> File]
    BY <1>0, <1>13, ChangeSnapshot DEF DeleteSnapshot
  <2> QED  BY <1>13, <2>1 DEF DeleteSnapshot, TypeOK, VersionKnown, Starting
<1>14. CASE DeleteLogfile
  <2>1. logfile' \in [Version -> [exists : BOOLEAN, entries : Logs]]
    BY <1>0, <1>14 DEF DeleteLogfile
  <2>2. acked' \subseteq UpdateId
    <3>1. \A i \in DOMAIN mem : mem[i] \in UpdateId
      BY LenProperties, ElementOfSeq DEF TypeOK
    <3> QED  BY <1>14, <3>1 DEF DeleteLogfile, Members
  <2>3. /\ pc' \in {"Closed", "Open"} /\ version # 0
        /\ UNCHANGED <<snapshot, versionFile, newVersion, return, version, oldversion, logWriter, inside, mem,
                       asked, forced>>
    BY <1>14 DEF DeleteLogfile, TypeOK, VersionKnown, Starting
  <2> QED  BY <2>1, <2>2, <2>3 DEF TypeOK, VersionKnown, Starting, Logs
<1>15. CASE CallRaises
  <2>1. /\ pc' \in {"Open", "Failed"} /\ logWriter' \in {0, logWriter} /\ inside' \in BOOLEAN
        /\ pc' = "Open" => version # 0
        /\ UNCHANGED <<files, return, version, oldversion, client>>
    BY <1>15 DEF CallRaises, InUpdate, InSnapshot, VersionKnown, Starting, TypeOK
  <2> QED  BY <2>1 DEF TypeOK, VersionKnown, Starting
<1>16. CASE StartRaises
  <2>1. /\ pc' \in {"ReadVersion", "FirstVersion"} /\ newVersion' \in {0, newVersion} /\ version' = 0
        /\ return' = "Closed"
        /\ UNCHANGED <<snapshot, logfile, versionFile, oldversion, logWriter, inside, client>>
    BY <1>16 DEF StartRaises
  <2> QED  BY <2>1 DEF TypeOK, VersionKnown, Starting
<1>17. CASE Exit \/ ProcessCrash
  BY <1>0, <1>17, EndsTyped DEF Exit, ProcessCrash
<1>18. CASE MachineCrash
  <2>1. snapshot' \in [Version -> File]
    <3>1. snapshot' = snapshot \/ \E v : snapshot' = [snapshot EXCEPT ![v] = [state |-> "partial", value |-> <<>>]]
      BY <1>18 DEF MachineCrash
    <3> QED  BY <1>0, <3>1, ChangeSnapshot
  <2>2. logfile' \in [Version -> [exists : BOOLEAN, entries : Logs]]
    <3>1. CASE logfile' = logfile
      BY <1>0, <3>1
    <3>2. ASSUME NEW v \in Version, NEW lost, NEW torn,
                 logfile' = [logfile EXCEPT ![v].entries = OnDisk(logfile[v].entries, lost, torn)]
          PROVE  logfile' \in [Version -> [exists : BOOLEAN, entries : Logs]]
      <4>1. logfile[v].entries \in Logs
        BY <1>0
      <4>2. OnDisk(logfile[v].entries, lost, torn) \in Logs
        BY <4>1, OnDiskOf
      <4> QED  BY <3>2, <4>2, NewEntries
    <3>3. CurrentVersion # 0 => CurrentVersion \in Version
      BY CurrentVersionTyped DEF Version
    <3> QED  BY <1>18, <3>1, <3>2, <3>3 DEF MachineCrash
  <2> QED  BY <1>18, <2>1, <2>2, EndsTyped DEF MachineCrash
<1> QED  BY <1>1, <1>2, <1>4, <1>5, <1>6, <1>7, <1>8, <1>9, <1>10, <1>11, <1>12, <1>13, <1>14,
            <1>15, <1>16, <1>17, <1>18, <1>19
         DEF Next, Continue, Call, Disturb

\* The variables of SmallDB.T, of its client and the files always have the
\* values that their declarations say, whatever goes wrong.
THEOREM TypeCorrect == Spec => []TypeOK
<1>1. Spec => []TypeInv
  BY InitTypeInv, NextTypeInv, PTL DEF Spec
<1>2. TypeInv => TypeOK
  BY DEF TypeInv
<1> QED  BY <1>1, <1>2, PTL

-----------------------------------------------------------------------------
(* The inductive invariant, when nothing but crashes and failing files     *)
(* disturbs the program.                                                   *)

Log(v) == logfile[v].entries

Whole(v) == snapshot[v].state = "whole" /\ logfile[v].exists

\* The value of the client, and no update since.
Fresh(v) ==
  /\ snapshot[v] = [state |-> "whole", value |-> mem]
  /\ logfile[v] = [exists |-> TRUE, entries |-> <<>>]

\* No crash can take the update u out of version v.
Safe(u, v) ==
  \/ u \in Members(snapshot[v].value)
  \/ \E i \in DOMAIN Log(v) :
       Log(v)[i].id = u /\ \A j \in 1 .. i : Log(v)[j].length = "disk"

\* The version that GetVersion would choose can be recovered, and holds what
\* the client was told is recorded.
FilesGood ==
  /\ \A v \in Version : snapshot[v].state # "cached"
  /\ \A v \in Version : \A i \in DOMAIN Log(v) : Log(v)[i].id # Garbled
  /\ CurrentVersion = 0 => acked = {}
  /\ \A v \in Version :
       v = CurrentVersion => Whole(v) /\ \A u \in acked : Safe(u, v)

Updating == {"Open", "Length", "Finish"}
Preparing == {"WriteSnapshot", "OpenLogfile", "OpenNew", "WriteNew"}
Committing == {"OpenVersion", "WriteVersion", "DeleteNew"}
Deleting == {"DeleteSnapshot", "DeleteLogfile"}

\* New: before and after GetVersion.
StartGood ==
  /\ inside => pc = "Failed"
  /\ pc \in Starting => logWriter = 0 /\ mem = <<>>
  /\ pc = "ReadVersion" => newVersion \in {0, versionFile}
  /\ pc = "FirstVersion" => newVersion = 0 /\ versionFile = 0 /\ version = 0
  /\ pc \in Updating \union {"Closed"} =>
       version # 0 /\ versionFile = version /\ newVersion \in {0, version}

\* Update: the log that is written is the one recovery would read, and it leads
\* to the client's value.
UpdateGood ==
  /\ pc \in Updating =>
       /\ logWriter = version
       /\ mem = snapshot[version].value \o Ids(Log(version))
       /\ \A i \in DOMAIN Log(version) :
            Log(version)[i].length = "zero" <=> pc = "Length" /\ i = Len(Log(version))
  /\ pc \in {"Length", "Finish"} =>
       Log(version) # <<>> /\ Log(version)[Len(Log(version))].id = asked

\* Snapshot: the old version stays the current one until New_Version_Number
\* names a complete new one.
PrepareGood ==
  pc \in Preparing =>
    /\ version = oldversion + 1
    /\ versionFile = oldversion /\ newVersion \in {0, oldversion}
    /\ acked \subseteq Members(mem)
    /\ return = "Closed" => mem = <<>> /\ oldversion = 0
    /\ pc = "WriteNew" => newVersion = 0
    /\ pc # "WriteSnapshot" => snapshot[version] = [state |-> "whole", value |-> mem]
    /\ pc \in {"OpenNew", "WriteNew"} => logWriter = version /\ Fresh(version)

\* CommitToNewVersion, which New calls too, and the deletion of the old files.
CommitGood ==
  /\ pc \in Committing =>
       /\ version # 0 /\ newVersion = version /\ logWriter \in {0, version}
       /\ pc = "DeleteNew" => versionFile = version
       /\ logWriter = 0 => mem = <<>> /\ return = "Closed"
  /\ pc \in Deleting =>
       version # 0 /\ newVersion = 0 /\ versionFile = version /\ logWriter = version
  /\ (pc \in Committing /\ logWriter # 0) \/ pc \in Deleting =>
       /\ oldversion # version /\ Fresh(version) /\ acked \subseteq Members(mem)
       /\ return = "Closed" => mem = <<>>

IInv == TypeInv /\ FilesGood /\ StartGood /\ UpdateGood /\ PrepareGood /\ CommitGood

-----------------------------------------------------------------------------
(* The invariant is inductive: what the actions do to the files.           *)

\* Only versions other than the current one change.
LEMMA OtherVersions ==
  ASSUME FilesGood, CurrentVersion' = CurrentVersion, acked' \subseteq acked,
         \A v \in Version : \/ snapshot'[v] = snapshot[v]
                            \/ v # CurrentVersion /\ snapshot'[v].state # "cached",
         \A v \in Version : \/ logfile'[v] = logfile[v]
                            \/ v # CurrentVersion /\ logfile'[v].entries = <<>>
  PROVE  FilesGood'
<1>1. \A v \in Version : snapshot'[v].state # "cached"
  BY DEF FilesGood
<1>2. \A v \in Version : \A i \in DOMAIN logfile'[v].entries : logfile'[v].entries[i].id # Garbled
  BY DEF FilesGood, Log
<1>3. CurrentVersion' = 0 => acked' = {}
  BY DEF FilesGood
<1>4. ASSUME NEW v \in Version, v = CurrentVersion, NEW u \in acked'
      PROVE  Safe(u, v)'
  <2>1. snapshot'[v] = snapshot[v] /\ logfile'[v] = logfile[v]
    BY <1>4
  <2>2. Safe(u, v)
    BY <1>4 DEF FilesGood
  <2> QED  BY <2>1, <2>2 DEF Safe, Log
<1>5. ASSUME NEW v \in Version, v = CurrentVersion
      PROVE  Whole(v)'
  BY <1>5 DEF FilesGood, Whole
<1> QED  BY <1>1, <1>2, <1>3, <1>4, <1>5 DEF FilesGood, Log

\* The entries of the current version change.
LEMMA CurrentLog ==
  ASSUME FilesGood, UNCHANGED snapshot, CurrentVersion' = CurrentVersion, CurrentVersion # 0,
         TypeOK, NEW log \in Logs,
         logfile' = [logfile EXCEPT ![CurrentVersion].entries = log],
         \A i \in DOMAIN log : log[i].id # Garbled,
         \A u \in acked' : Safe(u, CurrentVersion) => Safe(u, CurrentVersion)',
         \A u \in acked' : u \in acked \/ Safe(u, CurrentVersion)'
  PROVE  FilesGood'
<1> DEFINE c == CurrentVersion
<1>0. c \in Version
  BY CurrentVersionTyped DEF Version
<1>1. logfile'[c].entries = log /\ logfile'[c].exists = logfile[c].exists
      /\ \A w \in Version \ {c} : logfile'[w] = logfile[w]
  BY <1>0, NewEntries
<1>2. \A v \in Version : \A i \in DOMAIN logfile'[v].entries : logfile'[v].entries[i].id # Garbled
  BY <1>1 DEF FilesGood, Log
<1>3. \A v \in Version : snapshot'[v].state # "cached"
  BY DEF FilesGood
<1>4. ASSUME NEW v \in Version, v = CurrentVersion'
      PROVE  Whole(v)' /\ \A u \in acked' : Safe(u, v)'
  <2>1. v = c
    BY <1>4
  <2>2. Whole(v) /\ \A u \in acked : Safe(u, v)
    BY <2>1 DEF FilesGood
  <2>3. Whole(v)'
    BY <1>1, <2>1, <2>2 DEF Whole
  <2>4. ASSUME NEW u \in acked'  PROVE Safe(u, v)'
    <3>1. Safe(u, c)'
      BY <2>1, <2>2
    <3> QED  BY <1>4, <3>1 DEF Safe, Log
  <2> QED  BY <2>3, <2>4
<1> QED  BY <1>2, <1>3, <1>4 DEF FilesGood, Log

-----------------------------------------------------------------------------
(* The invariant is inductive: the steps.                                  *)

Good == FilesGood /\ StartGood /\ UpdateGood /\ PrepareGood /\ CommitGood

LEMMA InitGood ==
  ASSUME Init  PROVE Good
<1>1. CurrentVersion = 0
  BY DEF Init, CurrentVersion
<1>2. \A v \in Version : snapshot[v].state = "none" /\ logfile[v].entries = <<>> /\ 0 \notin Version
  BY DEF Init, NoSnapshot, NoLogfile, Version
<1>3. FilesGood
  BY <1>1, <1>2 DEF Init, FilesGood, Log
<1>4. StartGood /\ UpdateGood /\ PrepareGood /\ CommitGood
  BY DEF Init, StartGood, UpdateGood, PrepareGood, CommitGood, Starting, Updating, Preparing, Committing, Deleting
<1> QED  BY <1>3, <1>4 DEF Good

\* New, and the calls that change no file.
LEMMA StartSteps ==
  ASSUME IInv, Start \/ ReadNew \/ ReadVersion \/ Close
  PROVE  Good'
<1>1. FilesGood'
  <2>1. UNCHANGED <<snapshot, logfile, versionFile, newVersion, acked>>
    BY DEF Start, ReadNew, ReadVersion, Close
  <2> QED  BY <2>1, OtherVersions DEF IInv, CurrentVersion
<1>2. UpdateGood' /\ PrepareGood'
  BY DEF Start, ReadNew, ReadVersion, Close, UpdateGood, PrepareGood, Updating, Preparing
<1>3. StartGood'
  BY DEF IInv, TypeInv, TypeOK, Start, ReadNew, ReadVersion, Close, StartGood, Starting, Updating
<1>4. CommitGood'
  BY DEF IInv, TypeInv, TypeOK, Start, ReadNew, ReadVersion, Close, StartGood, CommitGood, Starting, Updating,
         Committing, Deleting
<1> QED  BY <1>1, <1>2, <1>3, <1>4 DEF Good

\* The opening of a snapshot's file.
LEMMA EnterSteps ==
  ASSUME IInv, FirstVersion \/ Snapshot
  PROVE  Good'
<1>1. /\ CurrentVersion = version /\ version \in 0 .. MaxVersion /\ versionFile = version
      /\ newVersion \in {0, version}
      /\ pc' = "WriteSnapshot" /\ version' = version + 1 /\ oldversion' = version
      /\ ~inside /\ UNCHANGED <<logfile, versionFile, newVersion, inside, mem>>
  BY DEF IInv, TypeInv, TypeOK, FirstVersion, Snapshot, EnterSnapshot, StartGood, Updating, CurrentVersion
<1>2. acked' \subseteq acked /\ acked' \subseteq Members(mem)
  BY <1>1 DEF FirstVersion, Snapshot, IInv, FilesGood
<1>3. snapshot' = [snapshot EXCEPT ![version + 1] = [state |-> "partial", value |-> <<>>]]
  BY DEF FirstVersion, Snapshot, EnterSnapshot
<1>4. FilesGood'
  <2>1. ASSUME NEW v \in Version
        PROVE  snapshot'[v] = snapshot[v] \/ (v # CurrentVersion /\ snapshot'[v].state # "cached")
    BY <1>1, <1>3 DEF IInv, TypeInv, TypeOK
  <2> QED  BY <1>1, <1>2, <2>1, OtherVersions DEF IInv, CurrentVersion
<1>5. return' = "Closed" => mem = <<>> /\ version = 0
  BY DEF FirstVersion, Snapshot, EnterSnapshot, IInv, StartGood, Starting
<1>6. PrepareGood'
  BY <1>1, <1>2, <1>5 DEF PrepareGood, Members
<1>7. StartGood' /\ UpdateGood' /\ CommitGood'
  BY <1>1 DEF StartGood, UpdateGood, CommitGood, Starting, Updating, Committing, Deleting
<1> QED  BY <1>4, <1>6, <1>7 DEF Good

\* What is true of the version that is current before an update or a recovery.
LEMMA CurrentOne ==
  ASSUME IInv, pc \in Updating \union {"Closed"}
  PROVE  /\ CurrentVersion = version /\ version \in Version /\ version # 0
         /\ Log(version) \in Logs /\ \A i \in DOMAIN Log(version) : Log(version)[i].id # Garbled
         /\ snapshot[version].value \in Seq(UpdateId)
<1>1. CurrentVersion = version /\ version # 0 /\ version \in 0 .. MaxVersion
  BY DEF IInv, TypeInv, TypeOK, StartGood, CurrentVersion
<1>2. version \in Version
  BY <1>1 DEF Version
<1>3. snapshot[version] \in File /\ Log(version) \in Logs
  BY <1>2 DEF IInv, TypeInv, TypeOK, Log, Logs
<1>4. snapshot[version].value \in Seq(UpdateId)
  BY <1>3 DEF File
<1> QED  BY <1>1, <1>2, <1>3, <1>4 DEF IInv, FilesGood

LEMMA RecoverStep ==
  ASSUME IInv, Recover
  PROVE  Good'
<1> DEFINE log == Log(version)
           n == Readable(log)
           read == SubSeq(log, 1, n)
<1>1. /\ CurrentVersion = version /\ version \in Version /\ version # 0 /\ log \in Logs
      /\ (\A i \in DOMAIN log : log[i].id # Garbled)
  BY CurrentOne DEF Recover
<1>2. /\ logfile' = [logfile EXCEPT ![version].entries = read]
      /\ mem' = snapshot[version].value \o Ids(read)
      /\ pc' = "Open" /\ logWriter' = version /\ inside' = FALSE
      /\ UNCHANGED <<snapshot, versionFile, newVersion, version, acked>>
  BY DEF Recover, Recoverable, Replay, Log
<1>3. n \in 0 .. Len(log) /\ (\A i \in 1 .. n : log[i].length # "zero")
      /\ (n < Len(log) => log[n + 1].length = "zero")
  BY <1>1, ReadableOf
<1>4. read \in Logs /\ Len(read) = n /\ DOMAIN read = 1 .. n /\ \A i \in 1 .. n : read[i] = log[i]
  BY <1>1, <1>3, PrefixOf
<1>5. Len(log) \in Nat /\ DOMAIN log = 1 .. Len(log)
  BY <1>1, LogShape
<1> HIDE DEF log, n, read
<1>6. \A i \in DOMAIN read : read[i].id # Garbled
  BY <1>1, <1>3, <1>4, <1>5
<1>7. Log(version)' = read
  BY <1>1, <1>2, <1>4, NewEntries DEF Log, IInv, TypeInv
<1>8. ASSUME NEW u, Safe(u, version)  PROVE Safe(u, version)'
  <2>1. CASE u \in Members(snapshot[version].value)
    BY <1>2, <2>1 DEF Safe
  <2>2. ASSUME NEW i \in DOMAIN log, log[i].id = u, \A j \in 1 .. i : log[j].length = "disk"
        PROVE  Safe(u, version)'
    <3>1. i <= n
      BY <1>3, <1>5, <2>2
    <3>2. i \in DOMAIN read /\ read[i].id = u /\ \A j \in 1 .. i : read[j].length = "disk"
      BY <1>3, <1>4, <1>5, <2>2, <3>1
    <3> QED  BY <1>2, <1>7, <3>2 DEF Safe
  <2> QED  BY <1>8, <2>1, <2>2 DEF Safe, log
<1>9. CurrentVersion' = CurrentVersion
  BY <1>2 DEF CurrentVersion
<1>10. ASSUME NEW u, Safe(u, CurrentVersion)  PROVE Safe(u, CurrentVersion)'
  <2>1. Safe(u, version)'
    BY <1>1, <1>8, <1>10
  <2> QED  BY <1>1, <1>2, <1>9, <2>1 DEF Safe, Log
<1>11. FilesGood'
  BY <1>1, <1>2, <1>4, <1>6, <1>9, <1>10, CurrentLog DEF IInv, TypeInv
<1>12. UpdateGood'
  BY <1>2, <1>3, <1>4, <1>7 DEF UpdateGood
<1>13. StartGood'
  BY <1>2 DEF StartGood, Starting, Updating, IInv, Recover
<1>14. PrepareGood' /\ CommitGood'
  BY <1>2 DEF PrepareGood, CommitGood, Preparing, Committing, Deleting
<1> QED  BY <1>11, <1>12, <1>13, <1>14 DEF Good

\* What an update does to the log of the current version: a new log, with the
\* old one as the beginning, of which the forced lengths stay.
LEMMA UpdateStep ==
  ASSUME IInv, pc \in Updating, NEW log \in Logs,
         logfile' = [logfile EXCEPT ![version].entries = log],
         UNCHANGED <<snapshot, versionFile, newVersion, version>>,
         \A i \in DOMAIN log : log[i].id # Garbled,
         Len(Log(version)) <= Len(log),
         \A i \in DOMAIN Log(version) :
           /\ log[i].id = Log(version)[i].id
           /\ Log(version)[i].length = "disk" => log[i].length = "disk",
         \A u \in acked' : u \in acked \/ Safe(u, version)'
  PROVE  FilesGood' /\ Log(version)' = log
<1>1. CurrentVersion = version /\ version \in Version /\ version # 0 /\ Log(version) \in Logs
  BY CurrentOne
<1>2. Log(version)' = log
  BY <1>1, NewEntries DEF Log, IInv, TypeInv
<1>3. /\ Len(log) \in Nat /\ DOMAIN log = 1 .. Len(log)
      /\ Len(Log(version)) \in Nat /\ DOMAIN Log(version) = 1 .. Len(Log(version))
  BY <1>1, LogShape
<1>4. ASSUME NEW u, Safe(u, version)  PROVE Safe(u, version)'
  <2>1. CASE u \in Members(snapshot[version].value)
    BY <2>1 DEF Safe
  <2>2. ASSUME NEW i \in DOMAIN Log(version), Log(version)[i].id = u,
               \A j \in 1 .. i : Log(version)[j].length = "disk"
        PROVE  Safe(u, version)'
    <3>1. i \in DOMAIN log /\ log[i].id = u /\ \A j \in 1 .. i : log[j].length = "disk"
      BY <1>3, <2>2
    <3> QED  BY <1>2, <3>1 DEF Safe
  <2> QED  BY <1>4, <2>1, <2>2 DEF Safe
<1>5. CurrentVersion' = CurrentVersion
  BY DEF CurrentVersion
<1>6. ASSUME NEW u, Safe(u, version)'  PROVE Safe(u, CurrentVersion)'
  BY <1>1, <1>5, <1>6 DEF Safe, Log
<1>7. FilesGood'
  BY <1>1, <1>4, <1>5, <1>6, CurrentLog DEF IInv, TypeInv
<1> QED  BY <1>2, <1>7

LEMMA UpdateContentsStep ==
  ASSUME IInv, NEW force \in BOOLEAN, UpdateContents(force)
  PROVE  Good'
<1> DEFINE old == Log(version)
           entry == Entry(asked + 1, "cache")
           next == Append(old, entry)
           log == IF force THEN Sync(next) ELSE next
<1>1. /\ version \in Version /\ old \in Logs /\ (\A i \in DOMAIN old : old[i].id # Garbled)
      /\ snapshot[version].value \in Seq(UpdateId)
  BY CurrentOne DEF UpdateContents, Updating
<1>2. /\ logWriter = version /\ ~inside /\ mem = snapshot[version].value \o Ids(old)
      /\ version # 0 /\ versionFile = version /\ newVersion \in {0, version}
      /\ \A i \in DOMAIN old : old[i].length # "zero"
  BY DEF IInv, UpdateGood, StartGood, UpdateContents, Updating
<1>3. /\ logfile' = [logfile EXCEPT ![version].entries = log]
      /\ mem' = Append(mem, asked + 1) /\ asked' = asked + 1 /\ pc' = "Length"
      /\ logWriter' = version /\ inside' = FALSE
      /\ UNCHANGED <<snapshot, versionFile, newVersion, version, acked>>
  BY <1>2 DEF UpdateContents, Spoil, Log
<1>4. entry \in LogEntry /\ entry.id = asked + 1 /\ asked + 1 \in UpdateId /\ entry.length = "zero"
  <2>1. asked + 1 \in UpdateId
    BY BoundsArePositive DEF UpdateContents, IInv, TypeInv, TypeOK, UpdateId
  <2> QED  BY <2>1 DEF Entry, LogEntry
<1> HIDE DEF old, entry
<1>5. /\ next \in Logs /\ Len(next) = Len(old) + 1 /\ next[Len(old) + 1] = entry
      /\ \A i \in 1 .. Len(old) : next[i] = old[i]
  BY <1>1, <1>4, AppendProperties DEF Logs
<1>6. Len(old) \in Nat /\ DOMAIN old = 1 .. Len(old) /\ DOMAIN next = 1 .. Len(old) + 1
  BY <1>1, <1>5, LogShape
<1>7. /\ log \in Logs /\ Len(log) = Len(next) /\ DOMAIN log = DOMAIN next
      /\ \A i \in DOMAIN next :
           /\ log[i].id = next[i].id
           /\ log[i].length = "zero" <=> next[i].length = "zero"
           /\ next[i].length = "disk" => log[i].length = "disk"
  BY <1>5, SyncOf
<1>8. Ids(log) = Append(Ids(old), asked + 1)
  <2>1. Ids(log) = Ids(next)
    BY <1>5, <1>7, SameIds
  <2> QED  BY <1>1, <1>4, <2>1, IdsOfAppend
<1> HIDE DEF log, next
<1>9. mem' = snapshot[version].value \o Ids(log)
  <2>1. Ids(old) \in Seq(UpdateId)
    BY <1>1, IdsOf
  <2>2. \A e \in UpdateId : Append(snapshot[version].value \o Ids(old), e)
                             = snapshot[version].value \o Append(Ids(old), e)
    <3> TAKE e \in UpdateId
    <3> DEFINE value == snapshot[version].value
               tail == Ids(old)
    <3>1. value \in Seq(UpdateId) /\ tail \in Seq(UpdateId)
      BY <1>1, <2>1
    <3> HIDE DEF value, tail
    <3>2. Append(value \o tail, e) = value \o Append(tail, e)
      <4>1. value \o tail \in Seq(UpdateId)
        BY <3>1, ConcatProperties
      <4>2. Append(value \o tail, e) = (value \o tail) \o <<e>> /\ Append(tail, e) = tail \o <<e>>
        BY <3>1, <4>1, AppendIsConcat
      <4> QED  BY <3>1, <4>2, ConcatAssociative
    <3> QED  BY <3>2 DEF value, tail
  <2> QED  BY <1>2, <1>3, <1>4, <1>8, <2>2
<1>10. \A i \in DOMAIN log : log[i].id # Garbled
  <2>1. ASSUME NEW i \in DOMAIN log  PROVE log[i].id # Garbled
    <3>1. CASE i \in DOMAIN old
      BY <1>1, <1>5, <1>6, <1>7, <3>1
    <3>2. CASE i = Len(old) + 1
      BY <1>4, <1>5, <1>6, <1>7, <3>2 DEF UpdateId, Garbled
    <3> QED  BY <1>6, <1>7, <3>1, <3>2
  <2> QED  BY <2>1
<1>11. FilesGood' /\ Log(version)' = log
  <2>1. pc \in Updating
    BY DEF UpdateContents, Updating
  <2>2. /\ Len(Log(version)) <= Len(log)
        /\ \A i \in DOMAIN Log(version) :
             /\ log[i].id = Log(version)[i].id
             /\ Log(version)[i].length = "disk" => log[i].length = "disk"
    BY <1>5, <1>6, <1>7 DEF old
  <2> QED  BY <1>3, <1>7, <1>10, <2>1, <2>2, UpdateStep
<1>12. \A i \in DOMAIN log : log[i].length = "zero" <=> i = Len(log)
  BY <1>2, <1>4, <1>5, <1>6, <1>7
<1>13. log # <<>> /\ log[Len(log)].id = asked + 1
  <2>1. Len(log) \in DOMAIN log /\ log[Len(log)].id = asked + 1 /\ Len(log) # 0
    BY <1>4, <1>5, <1>6, <1>7
  <2> QED  BY <2>1, EmptySeq
<1>14. UpdateGood'
  BY <1>3, <1>9, <1>11, <1>12, <1>13 DEF UpdateGood, Updating
<1>15. StartGood'
  BY <1>2, <1>3 DEF StartGood, Starting, Updating
<1>16. PrepareGood' /\ CommitGood'
  BY <1>3 DEF PrepareGood, CommitGood, Preparing, Committing, Deleting
<1> QED  BY <1>11, <1>14, <1>15, <1>16 DEF Good

LEMMA UpdateLengthStep ==
  ASSUME IInv, Adversity = {}, UpdateLength
  PROVE  Good'
<1> DEFINE old == Log(version)
           log == [old EXCEPT ![Len(old)].length = "cache"]
<1>1. /\ version \in Version /\ old \in Logs /\ \A i \in DOMAIN old : old[i].id # Garbled
  BY CurrentOne DEF UpdateLength, Updating
<1>2. /\ logWriter = version /\ ~inside /\ mem = snapshot[version].value \o Ids(old)
      /\ version # 0 /\ versionFile = version /\ newVersion \in {0, version}
      /\ \A i \in DOMAIN old : old[i].length = "zero" <=> i = Len(old)
      /\ old # <<>> /\ old[Len(old)].id = asked
  BY DEF IInv, UpdateGood, StartGood, UpdateLength, Updating
<1>3. /\ logfile' = [logfile EXCEPT ![version].entries = log]
      /\ pc' = "Finish"
      /\ UNCHANGED <<snapshot, versionFile, newVersion, version, logWriter, inside, mem, asked, acked>>
  BY <1>2 DEF UpdateLength, Log
<1>4. Len(old) \in Nat \ {0} /\ DOMAIN old = 1 .. Len(old) /\ \A i \in DOMAIN old : old[i] \in LogEntry
  BY <1>1, <1>2, LogShape, EmptySeq DEF Logs
<1> HIDE DEF old
<1>5. /\ DOMAIN log = DOMAIN old
      /\ \A i \in DOMAIN old :
           /\ log[i].id = old[i].id /\ log[i] \in LogEntry
           /\ log[i].length = IF i = Len(old) THEN "cache" ELSE old[i].length
  BY <1>4 DEF LogEntry
<1>6. log \in Logs /\ Len(log) = Len(old)
  <2>1. log \in [1 .. Len(old) -> LogEntry]
    BY <1>4, <1>5
  <2> QED  BY <1>4, <2>1, SeqOf DEF Logs
<1> HIDE DEF log
<1>7. Ids(log) = Ids(old)
  BY <1>1, <1>5, <1>6, SameIds
<1>8. FilesGood' /\ Log(version)' = log
  <2>1. pc \in Updating
    BY DEF UpdateLength, Updating
  <2>2. /\ Len(Log(version)) <= Len(log)
        /\ \A i \in DOMAIN Log(version) :
             /\ log[i].id = Log(version)[i].id
             /\ Log(version)[i].length = "disk" => log[i].length = "disk"
    BY <1>2, <1>4, <1>5, <1>6 DEF old
  <2>3. \A i \in DOMAIN log : log[i].id # Garbled
    BY <1>1, <1>5
  <2> QED  BY <1>3, <1>6, <2>1, <2>2, <2>3, UpdateStep
<1>9. UpdateGood'
  <2>1. log # <<>> /\ log[Len(log)].id = asked
    BY <1>2, <1>4, <1>5, <1>6, EmptySeq
  <2>2. \A i \in DOMAIN log : log[i].length # "zero"
    BY <1>2, <1>5
  <2> QED  BY <1>2, <1>3, <1>7, <1>8, <2>1, <2>2 DEF UpdateGood, Updating
<1>10. StartGood'
  BY <1>2, <1>3 DEF StartGood, Starting, Updating
<1>11. PrepareGood' /\ CommitGood'
  BY <1>3 DEF PrepareGood, CommitGood, Preparing, Committing, Deleting
<1> QED  BY <1>8, <1>9, <1>10, <1>11 DEF Good

LEMMA UpdateFinishStep ==
  ASSUME IInv, UpdateFinish
  PROVE  Good'
<1> DEFINE old == Log(version)
           log == IF forced THEN Sync(old) ELSE old
<1>1. /\ version \in Version /\ old \in Logs /\ \A i \in DOMAIN old : old[i].id # Garbled
  BY CurrentOne DEF UpdateFinish, Updating
<1>2. /\ logWriter = version /\ ~inside /\ mem = snapshot[version].value \o Ids(old)
      /\ version # 0 /\ versionFile = version /\ newVersion \in {0, version}
      /\ \A i \in DOMAIN old : old[i].length # "zero"
      /\ old # <<>> /\ old[Len(old)].id = asked
  BY DEF IInv, UpdateGood, StartGood, UpdateFinish, Updating
<1>3. /\ pc' = "Open" /\ acked' = IF forced THEN acked \union {asked} ELSE acked
      /\ UNCHANGED <<snapshot, versionFile, newVersion, version, logWriter, inside, mem, asked>>
  BY DEF UpdateFinish
<1>4. logfile' = [logfile EXCEPT ![version].entries = log]
  <2>1. CASE forced
    BY <1>2, <2>1 DEF UpdateFinish, Log
  <2>2. CASE ~forced
    <3>1. logfile' = logfile /\ logfile \in [Version -> [exists : BOOLEAN, entries : Logs]]
      BY <2>2 DEF UpdateFinish, IInv, TypeInv, TypeOK, Logs
    <3> QED  BY <1>1, <2>2, <3>1 DEF Log
  <2> QED  BY <2>1, <2>2
<1>5. Len(old) \in Nat \ {0} /\ DOMAIN old = 1 .. Len(old)
  BY <1>1, <1>2, LogShape, EmptySeq DEF Logs
<1>6. /\ log \in Logs /\ Len(log) = Len(old) /\ DOMAIN log = DOMAIN old
      /\ \A i \in DOMAIN old :
           /\ log[i].id = old[i].id
           /\ log[i].length # "zero"
           /\ forced \/ old[i].length = "disk" => log[i].length = "disk"
  BY <1>1, <1>2, SyncOf
<1> HIDE DEF old, log
<1>7. Ids(log) = Ids(old)
  BY <1>1, <1>6, SameIds
<1>8. Log(version)' = log
  BY <1>1, <1>3, <1>4, <1>6, NewEntries DEF Log, IInv, TypeInv
<1>9. forced => Safe(asked, version)'
  BY <1>2, <1>3, <1>5, <1>6, <1>8 DEF Safe
<1>10. FilesGood'
  <2>1. pc \in Updating
    BY DEF UpdateFinish, Updating
  <2>2. \A u \in acked' : u \in acked \/ Safe(u, version)'
    BY <1>3, <1>9 DEF Safe
  <2>3. /\ Len(Log(version)) <= Len(log)
        /\ \A i \in DOMAIN Log(version) :
             /\ log[i].id = Log(version)[i].id
             /\ Log(version)[i].length = "disk" => log[i].length = "disk"
    BY <1>5, <1>6 DEF old
  <2>4. \A i \in DOMAIN log : log[i].id # Garbled
    BY <1>1, <1>6
  <2> QED  BY <1>3, <1>4, <1>6, <2>1, <2>2, <2>3, <2>4, UpdateStep
<1>11. UpdateGood'
  BY <1>2, <1>3, <1>6, <1>7, <1>8 DEF UpdateGood, Updating
<1>12. StartGood'
  BY <1>2, <1>3 DEF StartGood, Starting, Updating
<1>13. PrepareGood' /\ CommitGood'
  BY <1>3 DEF PrepareGood, CommitGood, Preparing, Committing, Deleting
<1> QED  BY <1>10, <1>11, <1>12, <1>13 DEF Good

\* Snapshot, up to the number of the new version: the old version is the
\* current one.
LEMMA PrepareSteps ==
  ASSUME IInv, Adversity = {}, WriteSnapshot \/ OpenLogfile \/ OpenNew
  PROVE  Good'
<1>1. /\ pc \in Preparing /\ version = oldversion + 1 /\ CurrentVersion = oldversion /\ versionFile = oldversion
      /\ newVersion \in {0, oldversion} /\ oldversion \in 0 .. MaxVersion /\ ~inside
      /\ version \in Version /\ version # CurrentVersion
      /\ acked \subseteq Members(mem) /\ (return = "Closed" => mem = <<>> /\ oldversion = 0)
  BY DEF IInv, TypeInv, TypeOK, PrepareGood, StartGood, WriteSnapshot, OpenLogfile, OpenNew, Preparing,
         CurrentVersion, Version
<1>2. /\ UNCHANGED <<versionFile, version, oldversion, return, mem, acked>> /\ newVersion' \in {0, oldversion}
      /\ CurrentVersion' = CurrentVersion /\ inside' = FALSE
      /\ pc' \in {"OpenLogfile", "OpenNew", "WriteNew"} /\ (pc' = "WriteNew" => newVersion' = 0)
  BY <1>1 DEF WriteSnapshot, OpenLogfile, OpenNew, CurrentVersion
<1>3. /\ snapshot \in [Version -> File] /\ logfile \in [Version -> [exists : BOOLEAN, entries : Logs]]
  BY DEF IInv, TypeInv, TypeOK, Logs
<1>4. /\ snapshot'[version] = [state |-> "whole", value |-> mem]
      /\ \A v \in Version : v # version => snapshot'[v] = snapshot[v]
  <2>1. CASE WriteSnapshot
    BY <1>1, <1>3, <2>1 DEF WriteSnapshot
  <2>2. CASE OpenLogfile \/ OpenNew
    BY <2>2 DEF OpenLogfile, OpenNew, IInv, PrepareGood, Preparing
  <2> QED  BY <2>1, <2>2
<1>5. /\ pc' # "OpenLogfile" => /\ logfile'[version] = [exists |-> TRUE, entries |-> <<>>]
                               /\ logWriter' = version
      /\ \A v \in Version : v # version => logfile'[v] = logfile[v]
      /\ logfile'[version] = logfile[version] \/ logfile'[version].entries = <<>>
  <2>1. CASE OpenLogfile
    BY <1>1, <1>3, <2>1 DEF OpenLogfile
  <2>2. CASE WriteSnapshot \/ OpenNew
    BY <2>2 DEF WriteSnapshot, OpenNew, IInv, PrepareGood, Preparing, Fresh
  <2> QED  BY <2>1, <2>2
<1>6. FilesGood'
  <2>1. \A v \in Version : snapshot'[v] = snapshot[v] \/ (v # CurrentVersion /\ snapshot'[v].state # "cached")
    <3>1. snapshot'[version].state = "whole"
      BY <1>4
    <3> QED  BY <1>1, <1>4, <3>1
  <2>2. \A v \in Version : logfile'[v] = logfile[v] \/ (v # CurrentVersion /\ logfile'[v].entries = <<>>)
    BY <1>1, <1>5
  <2> QED  BY <1>2, <2>1, <2>2, OtherVersions DEF IInv
<1>7. PrepareGood'
  BY <1>1, <1>2, <1>4, <1>5 DEF PrepareGood, Preparing, Fresh, Members
<1>8. StartGood' /\ UpdateGood' /\ CommitGood'
  BY <1>2 DEF StartGood, UpdateGood, CommitGood, Starting, Updating, Committing, Deleting
<1> QED  BY <1>6, <1>7, <1>8 DEF Good

\* The new version becomes the current one.
LEMMA WriteNewStep ==
  ASSUME IInv, WriteNew
  PROVE  Good'
<1>1. /\ version = oldversion + 1 /\ oldversion \in 0 .. MaxVersion /\ version \in Version /\ logWriter = version
      /\ Fresh(version) /\ acked \subseteq Members(mem) /\ (return = "Closed" => mem = <<>>) /\ ~inside
  BY DEF IInv, TypeInv, TypeOK, PrepareGood, StartGood, WriteNew, Preparing, Version
<1>2. /\ newVersion' = version /\ pc' = "OpenVersion"
      /\ UNCHANGED <<snapshot, logfile, versionFile, version, oldversion, return, logWriter, inside, mem, acked>>
  BY DEF WriteNew
<1>3. CurrentVersion' = version /\ version # 0 /\ oldversion # version
  <2>1. version # 0 /\ oldversion # version
    BY <1>1 DEF Version
  <2> QED  BY <1>2, <2>1 DEF CurrentVersion
<1>4. Whole(version)' /\ \A u \in acked' : Safe(u, version)'
  BY <1>1, <1>2 DEF Fresh, Whole, Safe
<1>5. FilesGood'
  <2>1. ASSUME NEW v \in Version, v = CurrentVersion'
        PROVE  Whole(v)' /\ \A u \in acked' : Safe(u, v)'
    <3>1. v = version
      BY <1>3, <2>1
    <3> QED  BY <1>2, <1>4, <3>1 DEF Whole, Safe, Log
  <2> QED  BY <1>2, <1>3, <2>1 DEF FilesGood, IInv, Log
<1>6. CommitGood'
  BY <1>1, <1>2, <1>3 DEF CommitGood, Committing, Deleting, Fresh, Members
<1>7. StartGood' /\ UpdateGood' /\ PrepareGood'
  BY <1>1, <1>2 DEF StartGood, UpdateGood, PrepareGood, Starting, Updating, Preparing
<1> QED  BY <1>5, <1>6, <1>7 DEF Good

\* CommitToNewVersion: either version file names the version.
LEMMA CommitSteps ==
  ASSUME IInv, OpenVersion \/ WriteVersion \/ DeleteNew
  PROVE  Good'
<1>1. /\ pc \in Committing /\ version # 0 /\ newVersion = version /\ logWriter \in {0, version} /\ ~inside
      /\ (pc = "DeleteNew" => versionFile = version) /\ (logWriter = 0 => mem = <<>> /\ return = "Closed")
      /\ logWriter # 0 => /\ oldversion # version /\ Fresh(version) /\ acked \subseteq Members(mem)
                          /\ return = "Closed" => mem = <<>>
  BY DEF IInv, CommitGood, StartGood, OpenVersion, WriteVersion, DeleteNew, Committing
<1>2. UNCHANGED <<snapshot, logfile, version, oldversion, return, logWriter, inside, mem, acked>>
  BY DEF OpenVersion, WriteVersion, DeleteNew
<1>3. CurrentVersion' = CurrentVersion
  BY <1>1 DEF OpenVersion, WriteVersion, DeleteNew, CurrentVersion
<1>4. FilesGood'
  BY <1>2, <1>3, OtherVersions DEF IInv
<1>5. UpdateGood' /\ PrepareGood'
  BY DEF OpenVersion, WriteVersion, DeleteNew, UpdateGood, PrepareGood, Updating, Preparing
<1>6. StartGood'
  BY <1>1, <1>2 DEF OpenVersion, WriteVersion, DeleteNew, StartGood, Starting, Updating
<1>7. CommitGood'
  <2>1. Fresh(version) => Fresh(version)'
    BY <1>2 DEF Fresh
  <2>2. CASE OpenVersion \/ WriteVersion
    BY <1>1, <1>2, <2>1, <2>2 DEF OpenVersion, WriteVersion, CommitGood, Committing, Deleting, Members
  <2>3. CASE DeleteNew
    BY <1>1, <1>2, <2>1, <2>3 DEF DeleteNew, CommitGood, Committing, Deleting, Members
  <2> QED  BY <2>2, <2>3
<1> QED  BY <1>4, <1>5, <1>6, <1>7 DEF Good

\* The deletion of the old version.
LEMMA DeleteSteps ==
  ASSUME IInv, DeleteSnapshot \/ DeleteLogfile
  PROVE  Good'
<1>1. /\ version # 0 /\ newVersion = 0 /\ versionFile = version /\ logWriter = version /\ ~inside
      /\ oldversion # version /\ Fresh(version) /\ acked \subseteq Members(mem)
      /\ return = "Closed" => mem = <<>>
  BY DEF IInv, CommitGood, StartGood, DeleteSnapshot, DeleteLogfile, Deleting
<1>2. /\ UNCHANGED <<version, oldversion, newVersion, versionFile, return, logWriter, inside, mem>>
      /\ CurrentVersion = version /\ CurrentVersion' = version /\ version \in Version
  BY <1>1 DEF DeleteSnapshot, DeleteLogfile, CurrentVersion, IInv, TypeInv, TypeOK, Version
<1>3. /\ \A v \in Version : snapshot'[v] = snapshot[v] \/ (v = oldversion /\ snapshot'[v].state = "none")
      /\ \A v \in Version : logfile'[v] = logfile[v] \/ (v = oldversion /\ logfile'[v].entries = <<>>)
  <2>1. /\ snapshot \in [Version -> File] /\ logfile \in [Version -> [exists : BOOLEAN, entries : Logs]]
    BY DEF IInv, TypeInv, TypeOK, Logs
  <2> QED  BY <2>1 DEF DeleteSnapshot, DeleteLogfile, NoSnapshot, NoLogfile
<1>4. Fresh(version)'
  BY <1>1, <1>2, <1>3 DEF Fresh
<1>5. CASE DeleteSnapshot
  <2>1. acked' = acked /\ pc' = "DeleteLogfile"
    BY <1>5 DEF DeleteSnapshot
  <2>2. FilesGood'
    <3>1. \A v \in Version : snapshot'[v] = snapshot[v] \/ (v # CurrentVersion /\ snapshot'[v].state # "cached")
      BY <1>1, <1>2, <1>3
    <3>2. \A v \in Version : logfile'[v] = logfile[v] \/ (v # CurrentVersion /\ logfile'[v].entries = <<>>)
      BY <1>1, <1>2, <1>3
    <3> QED  BY <1>2, <2>1, <3>1, <3>2, OtherVersions DEF IInv
  <2>3. CommitGood'
    BY <1>1, <1>2, <1>4, <2>1 DEF CommitGood, Committing, Deleting, Members
  <2>4. StartGood' /\ UpdateGood' /\ PrepareGood'
    BY <1>1, <1>2, <2>1 DEF StartGood, UpdateGood, PrepareGood, Starting, Updating, Preparing
  <2> QED  BY <2>2, <2>3, <2>4 DEF Good
<1>6. CASE DeleteLogfile
  <2>1. acked' = Members(mem) /\ pc' = return /\ return \in {"Closed", "Open"}
    BY <1>6 DEF DeleteLogfile, IInv, TypeInv, TypeOK
  <2>2. Whole(version)' /\ \A u \in acked' : Safe(u, version)'
    BY <1>2, <1>4, <2>1 DEF Fresh, Whole, Safe
  <2>3. FilesGood'
    <3>1. \A v \in Version : snapshot'[v].state # "cached"
      BY <1>3 DEF IInv, FilesGood
    <3>2. \A v \in Version : \A i \in DOMAIN logfile'[v].entries : logfile'[v].entries[i].id # Garbled
      BY <1>3 DEF IInv, FilesGood, Log
    <3>3. ASSUME NEW v \in Version, v = CurrentVersion'
          PROVE  Whole(v)' /\ \A u \in acked' : Safe(u, v)'
      <4>1. v = version
        BY <1>2, <3>3
      <4> QED  BY <1>2, <2>2, <4>1 DEF Whole, Safe, Log
    <3> QED  BY <1>1, <1>2, <3>1, <3>2, <3>3 DEF FilesGood, Log
  <2>4. UpdateGood'
    <3>1. mem \in Seq(UpdateId)
      BY DEF IInv, TypeInv, TypeOK
    <3>2. mem' = snapshot'[version].value \o Ids(logfile'[version].entries)
      BY <1>2, <1>4, <3>1, EmptyIds DEF Fresh
    <3>3. logfile'[version].entries = <<>>
      BY <1>2, <1>4 DEF Fresh
    <3>4. pc' \notin {"Length", "Finish"}
      BY <2>1
    <3> QED  BY <1>1, <1>2, <3>2, <3>3, <3>4 DEF UpdateGood, Updating, Log
  <2>5. StartGood'
    BY <1>1, <1>2, <2>1 DEF StartGood, Starting, Updating
  <2>6. PrepareGood' /\ CommitGood'
    BY <2>1 DEF PrepareGood, CommitGood, Preparing, Committing, Deleting
  <2> QED  BY <2>3, <2>4, <2>5, <2>6 DEF Good
<1> QED  BY <1>5, <1>6

\* A failing file operation, the end of the process, or both.
LEMMA FailSteps ==
  ASSUME IInv, Adversity = {}, CallRaises \/ StartRaises \/ Exit \/ ProcessCrash
  PROVE  Good'
<1>1. UNCHANGED <<snapshot, logfile, versionFile, acked>> /\ CurrentVersion' = CurrentVersion
  <2>1. CASE StartRaises
    BY <2>1 DEF StartRaises, IInv, CommitGood, Committing, CurrentVersion
  <2>2. CASE CallRaises \/ Exit \/ ProcessCrash
    BY <2>2 DEF CallRaises, Exit, ProcessCrash, ProcessEnds, CurrentVersion
  <2> QED  BY <2>1, <2>2
<1>2. FilesGood'
  BY <1>1, OtherVersions DEF IInv
<1>3. pc' \in {"Failed", "Down", "ReadVersion"}
  BY DEF CallRaises, StartRaises, Exit, ProcessCrash, ProcessEnds
<1>4. UpdateGood' /\ PrepareGood' /\ CommitGood'
  BY <1>3 DEF UpdateGood, PrepareGood, CommitGood, Updating, Preparing, Committing, Deleting
<1>5. StartGood'
  <2>1. CASE CallRaises
    BY <1>3, <2>1 DEF CallRaises, StartGood, Starting, Updating
  <2>2. CASE StartRaises
    <3>1. pc = "DeleteNew" /\ logWriter = 0 /\ pc' = "ReadVersion" /\ newVersion' \in {0, newVersion}
          /\ UNCHANGED <<versionFile, logWriter, inside, mem>>
      BY <2>2 DEF StartRaises
    <3>2. mem = <<>> /\ newVersion = versionFile /\ ~inside
      BY <3>1 DEF IInv, StartGood, CommitGood, Committing
    <3> QED  BY <3>1, <3>2 DEF StartGood, Starting, Updating
  <2>3. CASE Exit \/ ProcessCrash
    BY <2>3 DEF Exit, ProcessCrash, ProcessEnds, StartGood, Starting, Updating
  <2> QED  BY <2>1, <2>2, <2>3
<1> QED  BY <1>2, <1>4, <1>5 DEF Good

LEMMA MachineCrashStep ==
  ASSUME IInv, Adversity = {}, MachineCrash
  PROVE  Good'
<1> DEFINE c == CurrentVersion
           log == Log(c)
<1>1. CurrentVersion' = c /\ acked' = acked /\ pc' = "Down" /\ logWriter' = 0 /\ inside' = FALSE /\ mem' = <<>>
  BY DEF MachineCrash, ProcessEnds, CurrentVersion
<1>2. StartGood' /\ UpdateGood' /\ PrepareGood' /\ CommitGood'
  BY <1>1 DEF StartGood, UpdateGood, PrepareGood, CommitGood, Starting, Updating, Preparing, Committing, Deleting
<1>3. CASE c = 0
  <2>1. UNCHANGED <<snapshot, logfile>>
    BY <1>3 DEF MachineCrash
  <2>2. FilesGood'
    BY <1>1, <2>1, OtherVersions DEF IInv
  <2> QED  BY <1>2, <2>2 DEF Good
<1>4. CASE c # 0
  <2>1. c \in Version /\ log \in Logs /\ \A i \in DOMAIN log : log[i].id # Garbled
    BY <1>4, CurrentVersionTyped DEF IInv, TypeInv, TypeOK, FilesGood, Version, Log, Logs
  <2>2. snapshot' = snapshot
    BY <1>4, <2>1 DEF MachineCrash, IInv, FilesGood
  <2>3. PICK lost \in SUBSET Cached(log, "length") :
          logfile' = [logfile EXCEPT ![c].entries = OnDisk(log, lost, {})]
    BY <1>4 DEF MachineCrash, Log
  <2> DEFINE disk == OnDisk(log, lost, {})
  <2>4. /\ disk \in Logs /\ DOMAIN disk = DOMAIN log /\ Len(disk) = Len(log)
        /\ \A i \in DOMAIN log : disk[i].id = log[i].id
    BY <2>1, OnDiskOf
  <2>5. \A i \in DOMAIN log : log[i].length = "disk" => disk[i].length = "disk"
    <3>1. \A i \in lost : log[i].length # "disk"
      BY <2>3 DEF Cached
    <3> QED  BY <2>1, <3>1, OnDiskOf
  <2> HIDE DEF disk, log
  <2>6. logfile'[c].entries = disk
    BY <2>1, <2>3, <2>4, NewEntries DEF IInv, TypeInv, disk
  <2>7. ASSUME NEW u, Safe(u, c)  PROVE Safe(u, c)'
    <3>1. CASE u \in Members(snapshot[c].value)
      BY <1>1, <2>2, <3>1 DEF Safe
    <3>2. ASSUME NEW i \in DOMAIN log, log[i].id = u, \A j \in 1 .. i : log[j].length = "disk"
          PROVE  Safe(u, c)'
      <4>1. DOMAIN log = 1 .. Len(log) /\ Len(log) \in Nat
        BY <2>1, LogShape
      <4>2. i \in DOMAIN disk /\ disk[i].id = u /\ \A j \in 1 .. i : disk[j].length = "disk"
        BY <2>4, <2>5, <3>2, <4>1
      <4> QED  BY <1>1, <2>6, <4>2 DEF Safe, Log
    <3> QED  BY <2>7, <3>1, <3>2 DEF Safe, log
  <2>8. \A i \in DOMAIN disk : disk[i].id # Garbled
    BY <2>1, <2>4
  <2>9. FilesGood'
    BY <1>1, <1>4, <2>2, <2>3, <2>4, <2>7, <2>8, CurrentLog DEF IInv, TypeInv, disk
  <2> QED  BY <1>2, <2>9 DEF Good
<1> QED  BY <1>2, <1>3, <1>4 DEF Good

LEMMA NextInv ==
  ASSUME IInv, Adversity = {}, [Next]_vars
  PROVE  IInv'
<1>1. TypeInv'
  BY NextTypeInv DEF IInv
<1> SUFFICES Good'
  BY <1>1 DEF IInv, Good
<1>2. CASE UNCHANGED vars
  <2>1. FilesGood'
    BY <1>2, OtherVersions DEF IInv, vars, CurrentVersion
  <2>2. StartGood' /\ UpdateGood'
    BY <1>2 DEF IInv, vars, StartGood, UpdateGood, Log
  <2>3. Members(mem)' = Members(mem) /\ \A v : Fresh(v)' <=> Fresh(v)
    BY <1>2 DEF vars, Members, Fresh
  <2>4. PrepareGood'
    BY <1>2, <2>3 DEF IInv, vars, PrepareGood
  <2>5. CommitGood'
    BY <1>2, <2>3 DEF IInv, vars, CommitGood
  <2> QED  BY <2>1, <2>2, <2>4, <2>5 DEF Good
<1>3. CASE Start \/ ReadNew \/ ReadVersion \/ Close
  BY <1>3, StartSteps
<1>4. CASE FirstVersion \/ Snapshot
  BY <1>4, EnterSteps
<1>5. CASE Recover
  BY <1>5, RecoverStep
<1>6. CASE (\E force \in BOOLEAN : UpdateContents(force)) \/ UpdateLength \/ UpdateFinish
  BY <1>6, UpdateContentsStep, UpdateLengthStep, UpdateFinishStep
<1>7. CASE WriteSnapshot \/ OpenLogfile \/ OpenNew
  BY <1>7, PrepareSteps
<1>8. CASE WriteNew
  BY <1>8, WriteNewStep
<1>9. CASE OpenVersion \/ WriteVersion \/ DeleteNew
  BY <1>9, CommitSteps
<1>10. CASE DeleteSnapshot \/ DeleteLogfile
  BY <1>10, DeleteSteps
<1>11. CASE CallRaises \/ StartRaises \/ Exit \/ ProcessCrash
  BY <1>11, FailSteps
<1>12. CASE MachineCrash
  BY <1>12, MachineCrashStep
<1> QED  BY <1>2, <1>3, <1>4, <1>5, <1>6, <1>7, <1>8, <1>9, <1>10, <1>11, <1>12
         DEF Next, Continue, Call, Disturb

\* When nothing but crashes and failing files disturbs the program, the
\* inductive invariant holds.
THEOREM Invariance == Adversity = {} => (Spec => []IInv)
<1>1. Init => IInv
  BY InitTypeInv, InitGood DEF IInv, Good
<1>2. SUFFICES ASSUME Adversity = {}  PROVE Spec => []IInv
  OBVIOUS
<1>3. IInv /\ [Next]_vars => IInv'
  BY <1>2, NextInv
<1> QED  BY <1>1, <1>3, PTL DEF Spec

-----------------------------------------------------------------------------
(* What the invariant implies.                                             *)

LEMMA MembersOfConcat ==
  ASSUME NEW S, NEW s \in Seq(S), NEW t \in Seq(S)
  PROVE  Members(s) \union Members(t) \subseteq Members(s \o t)
<1>1. /\ s \o t \in Seq(S) /\ Len(s \o t) = Len(s) + Len(t)
      /\ \A i \in 1 .. Len(s) + Len(t) : (s \o t)[i] = IF i <= Len(s) THEN s[i] ELSE t[i - Len(s)]
  BY ConcatProperties
<1>2. /\ Len(s) \in Nat /\ Len(t) \in Nat /\ DOMAIN s = 1 .. Len(s) /\ DOMAIN t = 1 .. Len(t)
      /\ DOMAIN (s \o t) = 1 .. Len(s) + Len(t)
  BY <1>1, LenProperties
<1>3. ASSUME NEW i \in DOMAIN s  PROVE s[i] \in Members(s \o t)
  <2>1. i \in DOMAIN (s \o t) /\ (s \o t)[i] = s[i]
    BY <1>1, <1>2
  <2> QED  BY <2>1 DEF Members
<1>4. ASSUME NEW i \in DOMAIN t  PROVE t[i] \in Members(s \o t)
  <2>1. Len(s) + i \in DOMAIN (s \o t) /\ (s \o t)[Len(s) + i] = t[i]
    BY <1>1, <1>2
  <2> QED  BY <2>1 DEF Members
<1> QED  BY <1>3, <1>4 DEF Members

\* The files of the current version.
LEMMA CurrentFiles ==
  ASSUME IInv, CurrentVersion # 0
  PROVE  /\ CurrentVersion \in Version /\ Log(CurrentVersion) \in Logs
         /\ snapshot[CurrentVersion].value \in Seq(UpdateId)
         /\ \A i \in DOMAIN Log(CurrentVersion) : Log(CurrentVersion)[i].id # Garbled
         /\ Whole(CurrentVersion)
<1>1. CurrentVersion \in Version
  BY CurrentVersionTyped DEF IInv, TypeInv, Version
<1>2. snapshot[CurrentVersion] \in File /\ Log(CurrentVersion) \in Logs
  BY <1>1 DEF IInv, TypeInv, TypeOK, Log, Logs
<1>3. snapshot[CurrentVersion].value \in Seq(UpdateId)
  BY <1>2 DEF File
<1> QED  BY <1>1, <1>2, <1>3 DEF IInv, FilesGood

LEMMA ReplayClean ==
  ASSUME NEW log \in Logs, \A i \in DOMAIN log : log[i].id # Garbled
  PROVE  Garbled \notin Members(Replay(log)) /\ Replay(log) \in Seq(UpdateId)
<1>1. \A i \in 1 .. Readable(log) : i \in DOMAIN log
  BY ReadableOf, LogShape
<1>2. Garbled \notin Members(Replay(log))
  BY <1>1, ReplayOf DEF Members
<1> QED  BY <1>2, ReplayOf

\* No crash or failing file, at whatever point, leaves New and recover without
\* a complete version; between two calls the log that is written is the one
\* recovery would read, and the version files agree.
THEOREM VersionsAlwaysAgree == Adversity = {} => (Spec => []VersionsAgree)
<1>1. IInv => VersionsAgree
  <2> SUFFICES ASSUME IInv  PROVE VersionsAgree
    OBVIOUS
  <2>1. CurrentVersion # 0 => Complete(CurrentVersion)
    BY CurrentFiles, ReplayClean DEF Complete, Whole, Log
  <2>2. pc = "Open" => logWriter = version /\ version = versionFile /\ newVersion \in {0, version}
    BY DEF IInv, StartGood, UpdateGood, Updating
  <2> QED  BY <2>1, <2>2 DEF VersionsAgree
<1> QED  BY <1>1, Invariance, PTL

\* After a crash or a failing file at whatever point, recovery finds every
\* update that was forced and acknowledged.
THEOREM NoUpdateEverLost == Adversity = {} => (Spec => []NoUpdateLost)
<1>1. IInv => NoUpdateLost
  <2> SUFFICES ASSUME IInv, NEW u \in acked
               PROVE  CurrentVersion # 0 /\ u \in Members(Recoverable(CurrentVersion))
    BY DEF NoUpdateLost
  <2> DEFINE c == CurrentVersion
             log == Log(c)
             value == snapshot[c].value
  <2>1. c # 0
    BY DEF IInv, FilesGood
  <2>2. c \in Version /\ log \in Logs /\ value \in Seq(UpdateId) /\ \A i \in DOMAIN log : log[i].id # Garbled
    BY <2>1, CurrentFiles
  <2>3. Replay(log) \in Seq(UpdateId)
    BY <2>2, ReplayClean
  <2>4. Safe(u, c)
    BY <2>2 DEF IInv, FilesGood
  <2>5. CASE u \in Members(value)
    BY <2>2, <2>3, <2>5, MembersOfConcat, <2>1 DEF Recoverable, Log
  <2>6. ASSUME NEW i \in DOMAIN log, log[i].id = u, \A j \in 1 .. i : log[j].length = "disk"
        PROVE  u \in Members(Replay(log))
    <3>1. i <= Readable(log)
      BY <2>2, <2>6, ReadableOf, LogShape
    <3>2. i \in DOMAIN Replay(log) /\ Replay(log)[i] = u
      BY <2>2, <2>6, <3>1, ReplayOf, LogShape, ReadableOf
    <3> QED  BY <3>2 DEF Members
  <2>7. u \in Members(value) \union Members(Replay(log))
    BY <2>4, <2>6 DEF Safe
  <2> QED  BY <2>1, <2>2, <2>3, <2>7, MembersOfConcat DEF Recoverable, Log
<1> QED  BY <1>1, Invariance, PTL

-----------------------------------------------------------------------------
(* The refinement: the updates in the log.                                 *)

End == IF pc = "Length" THEN Len(Log(CurrentVersion)) ELSE Readable(Log(CurrentVersion))

LEMMA Parts ==
  /\ CurrentVersion = 0 => Stable = <<>> /\ Loose = <<>>
  /\ CurrentVersion # 0 =>
       /\ Stable = snapshot[CurrentVersion].value
                   \o Ids(SubSeq(Log(CurrentVersion), 1, Forced(Log(CurrentVersion))))
       /\ Loose = Ids(SubSeq(Log(CurrentVersion), Forced(Log(CurrentVersion)) + 1, End))
BY DEF Stable, Loose, Current, Unforced, Log, End

LEMMA PartsNext ==
  /\ CurrentVersion' = 0 => Stable' = <<>> /\ Loose' = <<>>
  /\ CurrentVersion' # 0 =>
       /\ Stable' = snapshot'[CurrentVersion'].value
                   \o Ids(SubSeq(logfile'[CurrentVersion'].entries, 1, Forced(logfile'[CurrentVersion'].entries)))
       /\ Loose' = Ids(SubSeq(logfile'[CurrentVersion'].entries, Forced(logfile'[CurrentVersion'].entries) + 1, End'))
BY DEF Stable, Loose, Current, Unforced, Log, End

LEMMA IdsOfSubSeq ==
  ASSUME NEW log \in Logs, NEW m \in 1 .. Len(log) + 1, NEW n \in 0 .. Len(log)
  PROVE  Ids(SubSeq(log, m, n)) = SubSeq(Ids(log), m, n)
<1> DEFINE part == SubSeq(log, m, n)
<1>1. Len(log) \in Nat /\ DOMAIN log = 1 .. Len(log)
  BY LogShape
<1>2. \A i \in m .. n : log[i] \in LogEntry /\ Ids(log)[i] \in UpdateId \union {Garbled} /\ Ids(log)[i] = log[i].id
  BY <1>1, LogShape, IdsOf, EntryTyped
<1>3. /\ part \in Logs /\ Len(part) = IF m <= n THEN n - m + 1 ELSE 0
      /\ \A i \in 1 .. n - m + 1 : part[i] = log[m + i - 1]
  BY <1>1, <1>2, SubSeqProperties DEF Logs
<1>4. /\ SubSeq(Ids(log), m, n) \in Seq(UpdateId \union {Garbled})
      /\ Len(SubSeq(Ids(log), m, n)) = IF m <= n THEN n - m + 1 ELSE 0
      /\ \A i \in 1 .. n - m + 1 : SubSeq(Ids(log), m, n)[i] = Ids(log)[m + i - 1]
  BY <1>1, <1>2, SubSeqProperties
<1> HIDE DEF part
<1>5. /\ Ids(part) \in Seq(UpdateId \union {Garbled}) /\ Len(Ids(part)) = Len(part)
      /\ \A i \in 1 .. Len(part) : Ids(part)[i] = part[i].id
  BY <1>3, IdsOf, LogShape
<1>6. ASSUME NEW i \in 1 .. Len(part)  PROVE Ids(part)[i] = SubSeq(Ids(log), m, n)[i]
  <2>1. i \in 1 .. n - m + 1 /\ m + i - 1 \in m .. n
    BY <1>1, <1>3
  <2>2. Ids(part)[i] = part[i].id
    BY <1>5
  <2>3. part[i] = log[m + i - 1]
    BY <1>3, <2>1
  <2>4. SubSeq(Ids(log), m, n)[i] = Ids(log)[m + i - 1]
    BY <1>4, <2>1
  <2> QED  BY <1>2, <2>1, <2>2, <2>3, <2>4
<1>7. Ids(part) = SubSeq(Ids(log), m, n)
  BY <1>3, <1>4, <1>5, <1>6, SeqEqual
<1> QED  BY <1>7 DEF part

\* Like Readable, for the forced entries.
LEMMA ForcedOf ==
  ASSUME NEW log \in Logs
  PROVE  /\ Forced(log) \in 0 .. Len(log)
         /\ \A i \in 1 .. Forced(log) : log[i].length = "disk"
         /\ Forced(log) < Len(log) => log[Forced(log) + 1].length # "disk"
<1> DEFINE Good1 == {i \in 1 .. Len(log) : log[i].length = "disk"}
<1>1. Len(log) \in Nat
  BY LogShape
<1>2. PICK k \in 0 .. Len(log) : (\A i \in 1 .. k : i \in Good1) /\ (k < Len(log) => k + 1 \notin Good1)
  BY <1>1, PrefixExists
<1>3. k < Len(log) => k + 1 \in 1 .. Len(log)
  BY <1>1
<1>4. (\A i \in 1 .. k : log[i].length = "disk") /\ (k < Len(log) => log[k + 1].length # "disk")
  BY <1>2, <1>3
<1> QED  BY <1>4 DEF Forced

LEMMA ForcedIs ==
  ASSUME NEW log \in Logs, NEW n \in 0 .. Len(log), \A i \in 1 .. n : log[i].length = "disk",
         n < Len(log) => log[n + 1].length # "disk"
  PROVE  Forced(log) = n
<1>1. Forced(log) <= n
  <2>1. n < Forced(log) => n + 1 \in 1 .. Forced(log) /\ n < Len(log)
    BY ForcedOf, LogShape
  <2> QED  BY <2>1, ForcedOf, LogShape
<1>2. n <= Forced(log)
  <2>1. Forced(log) < n => Forced(log) + 1 \in 1 .. n /\ Forced(log) < Len(log)
    BY ForcedOf, LogShape
  <2> QED  BY <2>1, ForcedOf, LogShape
<1> QED  BY <1>1, <1>2, ForcedOf, LogShape

LEMMA ReadableIs ==
  ASSUME NEW log \in Logs, NEW n \in 0 .. Len(log), \A i \in 1 .. n : log[i].length # "zero",
         n < Len(log) => log[n + 1].length = "zero"
  PROVE  Readable(log) = n
<1>1. Readable(log) <= n
  <2>1. n < Readable(log) => n + 1 \in 1 .. Readable(log) /\ n < Len(log)
    BY ReadableOf, LogShape
  <2> QED  BY <2>1, ReadableOf, LogShape
<1>2. n <= Readable(log)
  <2>1. Readable(log) < n => Readable(log) + 1 \in 1 .. n /\ Readable(log) < Len(log)
    BY ReadableOf, LogShape
  <2> QED  BY <2>1, ReadableOf, LogShape
<1> QED  BY <1>1, <1>2, ReadableOf, LogShape

LEMMA ForcedAreReadable ==
  ASSUME NEW log \in Logs  PROVE Forced(log) <= Readable(log)
<1>1. Readable(log) < Forced(log) => Readable(log) + 1 \in 1 .. Forced(log) /\ Readable(log) < Len(log)
  BY ForcedOf, ReadableOf, LogShape
<1> QED  BY <1>1, ForcedOf, ReadableOf, LogShape

LEMMA SubSub ==
  ASSUME NEW S, NEW s \in Seq(S), NEW a \in 0 .. Len(s), NEW b \in a .. Len(s),
         NEW m \in 1 .. (b - a) + 1, NEW n \in 0 .. b - a
  PROVE  SubSeq(SubSeq(s, a + 1, b), m, n) = SubSeq(s, a + m, a + n)
<1> DEFINE part == SubSeq(s, a + 1, b)
<1>1. Len(s) \in Nat /\ \A i \in 1 .. Len(s) : s[i] \in S
  BY LenProperties, ElementOfSeq
<1>2. part \in Seq(S) /\ Len(part) = b - a /\ \A i \in 1 .. b - a : part[i] = s[a + i]
  <2>1. \A i \in a + 1 .. b : s[i] \in S
    BY <1>1
  <2>2. /\ part \in Seq(S) /\ Len(part) = IF a + 1 <= b THEN b - (a + 1) + 1 ELSE 0
        /\ \A i \in 1 .. b - (a + 1) + 1 : part[i] = s[(a + 1) + i - 1]
    BY <1>1, <2>1, SubSeqProperties
  <2>3. \A i \in 1 .. b - a : part[i] = s[a + i]
    <3> TAKE i \in 1 .. b - a
    <3>1. i \in 1 .. b - (a + 1) + 1 /\ (a + 1) + i - 1 = a + i
      BY <1>1
    <3> QED  BY <2>2, <3>1
  <2> QED  BY <1>1, <2>2, <2>3
<1> HIDE DEF part
<1>3. /\ SubSeq(part, m, n) \in Seq(S) /\ Len(SubSeq(part, m, n)) = IF m <= n THEN n - m + 1 ELSE 0
      /\ \A i \in 1 .. n - m + 1 : SubSeq(part, m, n)[i] = part[m + i - 1]
  <2>1. \A i \in m .. n : part[i] \in S
    BY <1>1, <1>2, ElementOfSeq
  <2> QED  BY <1>1, <2>1, SubSeqProperties
<1>4. /\ SubSeq(s, a + m, a + n) \in Seq(S)
      /\ Len(SubSeq(s, a + m, a + n)) = IF m <= n THEN n - m + 1 ELSE 0
      /\ \A i \in 1 .. n - m + 1 : SubSeq(s, a + m, a + n)[i] = s[a + m + i - 1]
  <2>1. \A i \in a + m .. a + n : s[i] \in S
    BY <1>1
  <2>2. a + m \in Int /\ a + n \in Int /\ (a + n) - (a + m) + 1 = n - m + 1
    BY <1>1
  <2> QED  BY <1>1, <2>1, <2>2, SubSeqProperties
<1>5. ASSUME NEW i \in 1 .. Len(SubSeq(part, m, n))
      PROVE  SubSeq(part, m, n)[i] = SubSeq(s, a + m, a + n)[i]
  <2>1. i \in 1 .. n - m + 1 /\ m + i - 1 \in 1 .. b - a /\ a + (m + i - 1) = a + m + i - 1
    BY <1>1, <1>3
  <2> QED  BY <1>2, <1>3, <1>4, <2>1
<1>6. SubSeq(part, m, n) = SubSeq(s, a + m, a + n)
  BY <1>3, <1>4, <1>5, SeqEqual
<1> QED  BY <1>6 DEF part

\* The snapshot, then the first f updates, then those up to the f2th.
LEMMA StableThenLoose ==
  ASSUME NEW value \in Seq(UpdateId), NEW ids \in Seq(UpdateId),
         NEW f \in 0 .. Len(ids), NEW f2 \in f .. Len(ids)
  PROVE  value \o SubSeq(ids, 1, f2) = (value \o SubSeq(ids, 1, f)) \o SubSeq(ids, f + 1, f2)
<1>0. Len(ids) \in Nat /\ \A i \in 1 .. Len(ids) : ids[i] \in UpdateId
  BY LenProperties, ElementOfSeq
<1> DEFINE first == SubSeq(ids, 1, f)
           next == SubSeq(ids, f + 1, f2)
<1>1. /\ 1 \in 1 .. Len(ids) + 1 /\ f \in 1 - 1 .. Len(ids) /\ f2 \in f .. Len(ids)
  BY <1>0
<1>2. first \o next = SubSeq(ids, 1, f2)
  BY <1>1, ConcatAdjacentSubSeq
<1>3. first \in Seq(UpdateId) /\ next \in Seq(UpdateId)
  <2>1. /\ (\A i \in 1 .. f : ids[i] \in UpdateId) /\ (\A i \in f + 1 .. f2 : ids[i] \in UpdateId)
        /\ 1 \in Int /\ f \in Int /\ f + 1 \in Int /\ f2 \in Int
    BY <1>0
  <2>2. first \in Seq(UpdateId)
    BY <2>1, SubSeqProperties
  <2>3. next \in Seq(UpdateId)
    BY <2>1, SubSeqProperties
  <2> QED  BY <2>2, <2>3
<1> HIDE DEF first, next
<1>4. (value \o first) \o next = value \o (first \o next)
  BY <1>3, ConcatAssociative, SMTT(30)
<1> QED  BY <1>2, <1>4 DEF first, next

\* Of the updates in a log, some of the loose ones become stable and a tail of
\* them is lost.
LEMMA Settled ==
  ASSUME NEW value \in Seq(UpdateId), NEW ids \in Seq(UpdateId),
         NEW f \in 0 .. Len(ids), NEW f2 \in f .. Len(ids), NEW e2 \in f2 .. Len(ids), NEW e \in e2 .. Len(ids)
  PROVE  LET stable == value \o SubSeq(ids, 1, f)
             loose == SubSeq(ids, f + 1, e)
         IN /\ Len(loose) = e - f
            /\ value \o SubSeq(ids, 1, f2) = stable \o SubSeq(loose, 1, f2 - f)
            /\ SubSeq(ids, f2 + 1, e2) = SubSeq(loose, (f2 - f) + 1, e2 - f)
<1> DEFINE stable == value \o SubSeq(ids, 1, f)
           loose == SubSeq(ids, f + 1, e)
<1>1. Len(ids) \in Nat /\ \A i \in 1 .. Len(ids) : ids[i] \in UpdateId
  BY LenProperties, ElementOfSeq
<1>2. Len(loose) = e - f
  <2>1. \A i \in f + 1 .. e : ids[i] \in UpdateId
    BY <1>1
  <2>2. Len(loose) = IF f + 1 <= e THEN e - (f + 1) + 1 ELSE 0
    BY <1>1, <2>1, SubSeqProperties
  <2> QED  BY <1>1, <2>2
<1>3. SubSeq(loose, 1, f2 - f) = SubSeq(ids, f + 1, f2)
  <2>1. e \in f .. Len(ids) /\ 1 \in 1 .. (e - f) + 1 /\ f2 - f \in 0 .. e - f /\ f + (f2 - f) = f2
    BY <1>1
  <2>2. SubSeq(SubSeq(ids, f + 1, e), 1, f2 - f) = SubSeq(ids, f + 1, f + (f2 - f))
    BY <2>1, SubSub
  <2> QED  BY <2>1, <2>2
<1>4. SubSeq(loose, (f2 - f) + 1, e2 - f) = SubSeq(ids, f2 + 1, e2)
  <2>1. /\ e \in f .. Len(ids) /\ (f2 - f) + 1 \in 1 .. (e - f) + 1 /\ e2 - f \in 0 .. e - f
        /\ f + ((f2 - f) + 1) = f2 + 1 /\ f + (e2 - f) = e2
    BY <1>1
  <2>2. SubSeq(SubSeq(ids, f + 1, e), (f2 - f) + 1, e2 - f) = SubSeq(ids, f + ((f2 - f) + 1), f + (e2 - f))
    BY <2>1, SubSub
  <2> QED  BY <2>1, <2>2
<1>5. value \o SubSeq(ids, 1, f2) = stable \o SubSeq(ids, f + 1, f2)
  BY StableThenLoose
<1> QED  BY <1>2, <1>3, <1>4, <1>5

\* The current version's part of the mapping, as the value of its snapshot and
\* the updates of its log.
LEMMA CurrentParts ==
  ASSUME IInv, CurrentVersion # 0
  PROVE  LET log == Log(CurrentVersion)
             value == snapshot[CurrentVersion].value
         IN /\ log \in Logs /\ value \in Seq(UpdateId) /\ Ids(log) \in Seq(UpdateId) /\ Len(Ids(log)) = Len(log)
            /\ Forced(log) \in 0 .. Len(log) /\ End \in Forced(log) .. Len(log)
            /\ Stable = value \o SubSeq(Ids(log), 1, Forced(log))
            /\ Loose = SubSeq(Ids(log), Forced(log) + 1, End)
<1> DEFINE log == Log(CurrentVersion)
           value == snapshot[CurrentVersion].value
<1>1. log \in Logs /\ value \in Seq(UpdateId) /\ \A i \in DOMAIN log : log[i].id # Garbled
  BY CurrentFiles
<1>2. Ids(log) \in Seq(UpdateId) /\ Len(Ids(log)) = Len(log) /\ Len(log) \in Nat
  BY <1>1, IdsOf, LogShape
<1>3. Forced(log) \in 0 .. Len(log) /\ Readable(log) \in 0 .. Len(log) /\ Forced(log) <= Readable(log)
  BY <1>1, ForcedOf, ReadableOf, ForcedAreReadable
<1>4. End \in Forced(log) .. Len(log)
  BY <1>2, <1>3 DEF End
<1>5. Ids(SubSeq(log, 1, Forced(log))) = SubSeq(Ids(log), 1, Forced(log))
  BY <1>1, <1>2, <1>3, IdsOfSubSeq
<1>6. Ids(SubSeq(log, Forced(log) + 1, End)) = SubSeq(Ids(log), Forced(log) + 1, End)
  <2>1. Forced(log) + 1 \in 1 .. Len(log) + 1 /\ End \in 0 .. Len(log)
    BY <1>2, <1>3, <1>4
  <2> QED  BY <1>1, <2>1, IdsOfSubSeq
<1> QED  BY <1>1, <1>2, <1>3, <1>4, <1>5, <1>6, Parts

LEMMA CurrentPartsNext ==
  ASSUME CurrentVersion' # 0, NEW log \in Logs, log = logfile'[CurrentVersion'].entries,
         NEW end \in 0 .. Len(log), end = End'
  PROVE  /\ Stable' = snapshot'[CurrentVersion'].value \o SubSeq(Ids(log), 1, Forced(log))
         /\ Loose' = SubSeq(Ids(log), Forced(log) + 1, end)
<1>1. Forced(log) \in 0 .. Len(log) /\ Len(log) \in Nat
  BY ForcedOf, LogShape
<1>2. Ids(SubSeq(log, 1, Forced(log))) = SubSeq(Ids(log), 1, Forced(log))
  BY <1>1, IdsOfSubSeq, SMTT(30)
<1>3. Ids(SubSeq(log, Forced(log) + 1, end)) = SubSeq(Ids(log), Forced(log) + 1, end)
  <2>1. Forced(log) + 1 \in 1 .. Len(log) + 1
    BY <1>1
  <2> QED  BY <2>1, IdsOfSubSeq
<1> QED  BY <1>2, <1>3, PartsNext

LEMMA Modes ==
  /\ pc \in {"Closed", "Open", "Failed"} => Mode = pc
  /\ pc \in {"Length", "Finish"} => Mode = IF forced THEN "Forced" ELSE "Buffered"
  /\ pc \in Starting => Mode = "Down"
  /\ pc \in Preparing => Mode = IF return = "Open" THEN "Snapshot" ELSE "Down"
  /\ pc \in Deleting \/ (pc \in Committing /\ logWriter # 0) =>
       Mode = IF return = "Open" THEN "Committed" ELSE "Down"
  /\ pc \in Committing /\ logWriter = 0 => Mode = "Down"
BY DEF Mode, InUpdate, InSnapshot, Starting, Preparing, Committing, Deleting

LEMMA ModesNext ==
  /\ pc' \in {"Closed", "Open", "Failed"} => Mode' = pc'
  /\ pc' \in {"Length", "Finish"} => Mode' = IF forced' THEN "Forced" ELSE "Buffered"
  /\ pc' \in Starting => Mode' = "Down"
  /\ pc' \in Preparing => Mode' = IF return' = "Open" THEN "Snapshot" ELSE "Down"
  /\ pc' \in Deleting \/ (pc' \in Committing /\ logWriter' # 0) =>
       Mode' = IF return' = "Open" THEN "Committed" ELSE "Down"
  /\ pc' \in Committing /\ logWriter' = 0 => Mode' = "Down"
BY DEF Mode, InUpdate, InSnapshot, Starting, Preparing, Committing, Deleting

\* The current version is left alone.
LEMMA SameParts ==
  ASSUME CurrentVersion' = CurrentVersion,
         CurrentVersion # 0 => /\ snapshot'[CurrentVersion].value = snapshot[CurrentVersion].value
                               /\ logfile'[CurrentVersion].entries = logfile[CurrentVersion].entries,
         pc = "Length" <=> pc' = "Length"
  PROVE  Stable' = Stable /\ Loose' = Loose
<1>1. CASE CurrentVersion = 0
  BY <1>1, Parts, PartsNext
<1>2. CASE CurrentVersion # 0
  <2>1. logfile'[CurrentVersion'].entries = Log(CurrentVersion)
    BY <1>2 DEF Log
  <2>2. End' = End
    <3>1. End' = IF pc' = "Length" THEN Len(logfile'[CurrentVersion'].entries)
                 ELSE Readable(logfile'[CurrentVersion'].entries)
      BY DEF End, Log
    <3> QED  BY <2>1, <3>1 DEF End
  <2> QED  BY <1>2, <2>1, <2>2, Parts, PartsNext
<1> QED  BY <1>1, <1>2

\* A crash or a failing call: of the current log some more lengths reach the
\* disk, and some others are lost.
LEMMA LosesTail ==
  ASSUME IInv, CurrentVersion' = CurrentVersion, NEW log \in Logs, NEW end \in 0 .. Len(log),
         CurrentVersion # 0 =>
           /\ log = logfile'[CurrentVersion].entries /\ end = End'
           /\ snapshot'[CurrentVersion].value = snapshot[CurrentVersion].value
           /\ Ids(log) = Ids(Log(CurrentVersion)) /\ Len(log) = Len(Log(CurrentVersion))
           /\ Forced(Log(CurrentVersion)) <= Forced(log) /\ Forced(log) <= end /\ end <= End
  PROVE  Store!LoseTail
<1>1. CASE CurrentVersion = 0
  <2>1. Stable = <<>> /\ Loose = <<>> /\ Stable' = <<>> /\ Loose' = <<>>
    BY <1>1, Parts, PartsNext
  <2>2. Len(<<>>) = 0 /\ SubSeq(<<>>, 1, 0) = <<>> /\ <<>> \o <<>> = <<>>
    BY EmptySeq, SubSeqEmpty, ConcatEmptySeq
  <2>3. 0 \in 0 .. Len(Loose) /\ 0 \in 0 .. 0 /\ 0 + 1 = 1
    BY <2>1, <2>2
  <2>4. Stable' = Stable \o SubSeq(Loose, 1, 0) /\ Loose' = SubSeq(Loose, 0 + 1, 0)
    BY <2>1, <2>2
  <2>5. Store!Settle(0)
    BY <2>3, <2>4 DEF Store!Settle
  <2> QED  BY <2>3, <2>5 DEF Store!LoseTail
<1>2. CASE CurrentVersion # 0
  <2> DEFINE ids == Ids(log)
             value == snapshot[CurrentVersion].value
             f == Forced(Log(CurrentVersion))
             f2 == Forced(log)
  <2>1. /\ value \in Seq(UpdateId) /\ ids \in Seq(UpdateId) /\ Len(ids) = Len(log)
        /\ f \in 0 .. Len(log) /\ End \in f .. Len(log)
        /\ Stable = value \o SubSeq(ids, 1, f) /\ Loose = SubSeq(ids, f + 1, End)
    BY <1>2, CurrentParts
  <2>2. Stable' = value \o SubSeq(ids, 1, f2) /\ Loose' = SubSeq(ids, f2 + 1, end)
    BY <1>2, CurrentPartsNext
  <2>3. f2 \in f .. Len(ids) /\ end \in f2 .. Len(ids) /\ End \in end .. Len(ids) /\ f \in 0 .. Len(ids)
        /\ f \in Int /\ f2 \in Int /\ end \in Int /\ End \in Int
    BY <1>2, <2>1, ForcedOf, LogShape
  <2> HIDE DEF ids, value, f, f2
  <2>4. /\ Len(Loose) = End - f
        /\ Stable' = Stable \o SubSeq(Loose, 1, f2 - f)
        /\ Loose' = SubSeq(Loose, (f2 - f) + 1, end - f)
    BY <2>1, <2>2, <2>3, Settled, ZenonT(40)
  <2>5. end - f \in 0 .. Len(Loose) /\ f2 - f \in 0 .. end - f
    BY <2>3, <2>4, SMTT(30)
  <2>6. Store!Settle(end - f)
    BY <2>4, <2>5 DEF Store!Settle
  <2> QED  BY <2>5, <2>6 DEF Store!LoseTail
<1> QED  BY <1>1, <1>2

LEMMA InitStore ==
  ASSUME Init  PROVE Store!Init
<1>1. CurrentVersion = 0 /\ pc \in Starting /\ mem = <<>>
  BY DEF Init, CurrentVersion, Starting
<1> QED  BY <1>1, Parts, Modes DEF Store!Init

-----------------------------------------------------------------------------
(* The refinement: the steps.                                              *)

StoreStep == Store!Next \/ UNCHANGED <<mem, Stable, Loose, Mode>>

\* The steps that neither write to the log of the current version nor make
\* another version the current one.
LEMMA LeftAlone ==
  ASSUME IInv, Adversity = {},
         \/ Start \/ ReadNew \/ ReadVersion \/ FirstVersion \/ Close \/ Snapshot
         \/ WriteSnapshot \/ OpenLogfile \/ OpenNew \/ OpenVersion \/ WriteVersion \/ DeleteNew
         \/ StartRaises \/ DeleteSnapshot \/ DeleteLogfile
  PROVE  mem' = mem /\ Stable' = Stable /\ Loose' = Loose
<1>1. mem' = mem /\ pc # "Length" /\ pc' # "Length"
  BY DEF Start, ReadNew, ReadVersion, FirstVersion, EnterSnapshot, Close, Snapshot, WriteSnapshot, OpenLogfile,
         OpenNew, OpenVersion, WriteVersion, DeleteNew, StartRaises, DeleteSnapshot, DeleteLogfile, IInv, TypeInv,
         TypeOK
<1>2. CurrentVersion' = CurrentVersion
  <2>1. CASE Start \/ ReadNew \/ ReadVersion \/ Close
    BY <2>1 DEF Start, ReadNew, ReadVersion, Close, CurrentVersion
  <2>2. CASE FirstVersion \/ Snapshot
    BY <2>2 DEF FirstVersion, Snapshot, EnterSnapshot, CurrentVersion, IInv, StartGood
  <2>3. CASE WriteSnapshot \/ OpenLogfile \/ OpenNew
    BY <2>3 DEF WriteSnapshot, OpenLogfile, OpenNew, CurrentVersion, IInv, PrepareGood, Preparing
  <2>4. CASE OpenVersion \/ WriteVersion \/ DeleteNew \/ StartRaises
    BY <2>4 DEF OpenVersion, WriteVersion, DeleteNew, StartRaises, CurrentVersion, IInv, CommitGood, Committing
  <2>5. CASE DeleteSnapshot \/ DeleteLogfile
    BY <2>5 DEF DeleteSnapshot, DeleteLogfile, CurrentVersion
  <2> QED  BY <2>1, <2>2, <2>3, <2>4, <2>5
<1>3. \A v : v # 0 /\ v = CurrentVersion => snapshot'[v] = snapshot[v] /\ logfile'[v] = logfile[v]
  <2> SUFFICES ASSUME CurrentVersion # 0
               PROVE  /\ snapshot'[CurrentVersion] = snapshot[CurrentVersion]
                      /\ logfile'[CurrentVersion] = logfile[CurrentVersion]
    OBVIOUS
  <2> DEFINE c == CurrentVersion
  <2>0. /\ c \in Version /\ c \in Int /\ version \in Int
        /\ snapshot \in [Version -> File] /\ logfile \in [Version -> [exists : BOOLEAN, entries : Logs]]
    BY CurrentFiles DEF IInv, TypeInv, TypeOK, Logs, Version
  <2>1. CASE Start \/ ReadNew \/ ReadVersion \/ Close \/ OpenNew \/ OpenVersion \/ WriteVersion \/ DeleteNew
             \/ StartRaises
    BY <2>1 DEF Start, ReadNew, ReadVersion, Close, OpenNew, OpenVersion, WriteVersion, DeleteNew, StartRaises
  <2>2. CASE FirstVersion \/ Snapshot
    <3>1. c = version
      BY <2>2 DEF FirstVersion, Snapshot, CurrentVersion, IInv, StartGood, Updating
    <3> QED  BY <2>0, <2>2, <3>1 DEF FirstVersion, Snapshot, EnterSnapshot
  <2>3. CASE WriteSnapshot \/ OpenLogfile
    <3>1. c # version
      <4>1. version = oldversion + 1 /\ c = oldversion
        BY <2>3 DEF WriteSnapshot, OpenLogfile, CurrentVersion, IInv, PrepareGood, Preparing
      <4> QED  BY <2>0, <4>1
    <3> QED  BY <2>0, <2>3, <3>1 DEF WriteSnapshot, OpenLogfile
  <2>4. CASE DeleteSnapshot \/ DeleteLogfile
    <3>1. c # oldversion
      BY <2>0, <2>4 DEF DeleteSnapshot, DeleteLogfile, CurrentVersion, IInv, CommitGood, Deleting
    <3> QED  BY <2>0, <2>4, <3>1 DEF DeleteSnapshot, DeleteLogfile
  <2> QED  BY <2>1, <2>2, <2>3, <2>4
<1> QED  BY <1>1, <1>2, <1>3, SameParts

\* New: the store is open to the client when GetVersion is done.
LEMMA StartStoreSteps ==
  ASSUME IInv, Adversity = {},
         Start \/ ReadNew \/ ReadVersion \/ FirstVersion \/ StartRaises \/ DeleteNew \/ DeleteSnapshot \/ DeleteLogfile
  PROVE  StoreStep
<1>1. mem' = mem /\ Stable' = Stable /\ Loose' = Loose
  BY LeftAlone
<1>2. CASE Start \/ ReadNew \/ ReadVersion \/ FirstVersion \/ StartRaises
  <2>1. Mode = "Down"
    BY <1>2, Modes DEF Start, ReadNew, ReadVersion, FirstVersion, StartRaises, Starting, Committing
  <2>2. pc' = "Closed" \/ pc' \in Starting \/ (pc' \in Committing /\ logWriter' = 0)
        \/ (pc' \in Preparing /\ return' = "Closed")
    BY <1>2 DEF Start, ReadNew, ReadVersion, FirstVersion, EnterSnapshot, StartRaises, Starting, Committing, Preparing,
       IInv, StartGood
  <2>3. Mode' = "Closed" \/ Mode' = "Down"
    BY <2>2, ModesNext
  <2> QED  BY <1>1, <2>1, <2>3 DEF StoreStep, Store!Next, Store!Start
<1>3. CASE DeleteNew
  <2>1. CASE logWriter = 0
    <3>1. Mode = "Down" /\ Mode' = "Closed"
      BY <1>3, <2>1, Modes, ModesNext DEF DeleteNew, Committing
    <3> QED  BY <1>1, <3>1 DEF StoreStep, Store!Next, Store!Start
  <2>2. CASE logWriter # 0
    <3>1. Mode' = Mode
      BY <1>3, <2>2, Modes, ModesNext DEF DeleteNew, Committing, Deleting
    <3> QED  BY <1>1, <3>1 DEF StoreStep
  <2> QED  BY <2>1, <2>2
<1>4. CASE DeleteSnapshot
  <2>1. Mode' = Mode
    BY <1>4, Modes, ModesNext DEF DeleteSnapshot, Deleting
  <2> QED  BY <1>1, <2>1 DEF StoreStep
<1>5. CASE DeleteLogfile
  <2>1. Mode = (IF return = "Open" THEN "Committed" ELSE "Down") /\ Mode' = return /\ return \in {"Closed", "Open"}
    BY <1>5, Modes, ModesNext DEF DeleteLogfile, Deleting, IInv, TypeInv, TypeOK
  <2> QED  BY <1>1, <2>1 DEF StoreStep, Store!Next, Store!Start, Store!EndSnapshot
<1> QED  BY <1>2, <1>3, <1>4, <1>5

\* Snapshot, but for the step that commits.
LEMMA SnapshotStoreSteps ==
  ASSUME IInv, Adversity = {},
         Close \/ Snapshot \/ WriteSnapshot \/ OpenLogfile \/ OpenNew \/ OpenVersion \/ WriteVersion
  PROVE  StoreStep
<1>1. mem' = mem /\ Stable' = Stable /\ Loose' = Loose
  BY LeftAlone
<1>2. CASE Close
  <2>1. Mode = "Open" /\ Mode' = "Closed"
    BY <1>2, Modes, ModesNext DEF Close
  <2> QED  BY <1>1, <2>1 DEF StoreStep, Store!Next, Store!Close
<1>3. CASE Snapshot
  <2>1. Mode \in {"Closed", "Open"} /\ Mode' = "Snapshot"
    BY <1>3, Modes, ModesNext DEF Snapshot, EnterSnapshot, Preparing
  <2> QED  BY <1>1, <2>1 DEF StoreStep, Store!Next, Store!BeginSnapshot
<1>4. CASE WriteSnapshot \/ OpenLogfile \/ OpenNew
  <2>1. Mode' = Mode
    BY <1>4, Modes, ModesNext DEF WriteSnapshot, OpenLogfile, OpenNew, Preparing
  <2> QED  BY <1>1, <2>1 DEF StoreStep
<1>5. CASE OpenVersion \/ WriteVersion
  <2>1. Mode' = Mode
    BY <1>5, Modes, ModesNext DEF OpenVersion, WriteVersion, Committing
  <2> QED  BY <1>1, <2>1 DEF StoreStep
<1> QED  BY <1>2, <1>3, <1>4, <1>5

\* The commitment: until New_Version_Number is written the old value is the
\* one recovery would find, and from then on the new one.
LEMMA WriteNewStoreStep ==
  ASSUME IInv, WriteNew
  PROVE  StoreStep
<1>1. /\ version = oldversion + 1 /\ oldversion \in 0 .. MaxVersion /\ logWriter = version /\ Fresh(version)
      /\ return = "Closed" => mem = <<>> /\ oldversion = 0
      /\ pc = "WriteNew" /\ versionFile = oldversion /\ newVersion = 0 /\ mem \in Seq(UpdateId)
      /\ return \in {"Closed", "Open"}
  BY DEF IInv, TypeInv, TypeOK, PrepareGood, WriteNew, Preparing
<1>2. /\ CurrentVersion' = version /\ version # 0 /\ pc' = "OpenVersion"
      /\ UNCHANGED <<snapshot, logfile, logWriter, return, mem>>
  BY <1>1 DEF WriteNew, CurrentVersion
<1>3. Stable' = mem /\ Loose' = <<>>
  <2>1. <<>> \in Logs /\ Len(<<>>) = 0
    BY EmptyFiles, EmptySeq
  <2>2. Forced(<<>>) = 0 /\ Readable(<<>>) = 0 /\ Ids(<<>>) = <<>>
    <3>1. Forced(<<>>) \in 0 .. 0 /\ Readable(<<>>) \in 0 .. 0
      BY <2>1, ForcedOf, ReadableOf
    <3> QED  BY <3>1, EmptyIds
  <2>3. logfile'[CurrentVersion'].entries = <<>> /\ snapshot'[CurrentVersion'].value = mem
    BY <1>1, <1>2 DEF Fresh
  <2>4. End' = 0
    BY <1>2, <2>2, <2>3 DEF End, Log
  <2>6. 0 \in 0 .. Len(<<>>) /\ 0 + 1 = 1
    BY <2>1
  <2>7. Stable' = mem \o SubSeq(<<>>, 1, 0) /\ Loose' = SubSeq(<<>>, 1, 0)
    BY <1>2, <2>1, <2>2, <2>3, <2>4, <2>6, CurrentPartsNext
  <2>5. SubSeq(<<>>, 1, 0) = <<>> /\ mem \o <<>> = mem
    BY <1>1, ConcatEmptySeq, SubSeqEmpty
  <2> QED  BY <2>5, <2>7
<1>4. CASE return = "Open"
  <2>1. Mode = "Snapshot" /\ Mode' = "Committed"
    BY <1>1, <1>2, <1>4, Modes, ModesNext DEF Preparing, Committing
  <2> QED  BY <1>2, <1>3, <2>1 DEF StoreStep, Store!Next, Store!CommitSnapshot
<1>5. CASE return = "Closed"
  <2>1. CurrentVersion = 0
    BY <1>1, <1>5 DEF CurrentVersion
  <2>2. Stable = mem /\ Loose = <<>>
    BY <1>1, <1>5, <2>1, Parts
  <2>3. Mode = "Down" /\ Mode' = "Down"
    BY <1>1, <1>2, <1>5, Modes, ModesNext DEF Preparing, Committing
  <2> QED  BY <1>2, <1>3, <2>2, <2>3 DEF StoreStep
<1> QED  BY <1>1, <1>4, <1>5

\* The client gets the stable and the loose updates; what was not readable of
\* the log is gone, and was not promised.
LEMMA RecoverStoreStep ==
  ASSUME IInv, Recover
  PROVE  StoreStep
<1> DEFINE log == Log(version)
           n == Readable(log)
           read == SubSeq(log, 1, n)
           value == snapshot[version].value
<1>1. CurrentVersion = version /\ version \in Version /\ version # 0
  BY CurrentOne DEF Recover
<1>2. /\ logfile' = [logfile EXCEPT ![version].entries = read]
      /\ mem' = value \o Ids(read)
      /\ pc = "Closed" /\ pc' = "Open"
      /\ UNCHANGED <<snapshot, versionFile, newVersion, version>>
  BY DEF Recover, Recoverable, Replay, Log
<1>3. /\ log \in Logs /\ value \in Seq(UpdateId) /\ Ids(log) \in Seq(UpdateId) /\ Len(Ids(log)) = Len(log)
      /\ Forced(log) \in 0 .. Len(log) /\ End = n
      /\ Stable = value \o SubSeq(Ids(log), 1, Forced(log))
      /\ Loose = SubSeq(Ids(log), Forced(log) + 1, n)
  BY <1>1, <1>2, CurrentParts DEF End
<1>4. n \in 0 .. Len(log) /\ Len(log) \in Nat /\ Forced(log) <= n /\ \A i \in 1 .. n : log[i].length # "zero"
  BY <1>3, ReadableOf, ForcedAreReadable, LogShape
<1>5. read \in Logs /\ Len(read) = n /\ \A i \in 1 .. n : read[i] = log[i]
  BY <1>3, <1>4, PrefixOf
<1>6. Ids(read) = SubSeq(Ids(log), 1, n)
  <2>1. 1 \in 1 .. Len(log) + 1
    BY <1>4
  <2> QED  BY <1>3, <1>4, <2>1, IdsOfSubSeq
<1>7. logfile'[version].entries = read /\ CurrentVersion' = version
  BY <1>1, <1>2, <1>5, NewEntries, ZenonT(40) DEF IInv, TypeInv, CurrentVersion
<1> DEFINE f == Forced(log)
<1> HIDE DEF log, n, read, value, f
<1>8. Readable(read) = n
  BY <1>4, <1>5, ReadableIs
<1>9. Forced(read) = f
  <2>1. f \in 0 .. Len(read) /\ (\A i \in 1 .. f : log[i].length = "disk")
        /\ (f < Len(log) => log[f + 1].length # "disk")
    BY <1>3, <1>4, <1>5, ForcedOf, SMTT(30) DEF f
  <2>2. (\A i \in 1 .. f : read[i].length = "disk") /\ (f < Len(read) => read[f + 1].length # "disk")
    BY <1>4, <1>5, <2>1
  <2> QED  BY <1>5, <2>1, <2>2, ForcedIs
<1>10. Stable' = value \o SubSeq(Ids(read), 1, f) /\ Loose' = SubSeq(Ids(read), f + 1, n)
  <2>1. End' = n
    BY <1>2, <1>7, <1>8 DEF End, Log
  <2>2. n \in 0 .. Len(read)
    BY <1>4, <1>5
  <2>3. snapshot'[CurrentVersion'].value = value
    BY <1>2, <1>7 DEF value
  <2> QED  BY <1>1, <1>5, <1>7, <1>9, <2>1, <2>2, <2>3, CurrentPartsNext
<1>11. f \in 0 .. Len(Ids(log)) /\ n \in f .. Len(Ids(log)) /\ Len(Ids(log)) \in Nat
  BY <1>3, <1>4 DEF f
<1> DEFINE ids == Ids(log)
<1>12. ids \in Seq(UpdateId) /\ Len(ids) \in Nat
  BY <1>3, <1>11
<1>16. f \in 0 .. Len(ids) /\ n \in f .. Len(ids) /\ Ids(read) = SubSeq(ids, 1, n)
  BY <1>6, <1>11
<1> HIDE DEF ids
<1>13. SubSeq(SubSeq(ids, 1, n), 1, f) = SubSeq(ids, 1, f)
       /\ SubSeq(SubSeq(ids, 1, n), f + 1, n) = SubSeq(ids, f + 1, n)
  <2>1. /\ 0 \in 0 .. Len(ids) /\ n \in 0 .. Len(ids) /\ 1 \in 1 .. (n - 0) + 1 /\ f \in 0 .. n - 0
        /\ f + 1 \in 1 .. (n - 0) + 1 /\ n \in 0 .. n - 0
        /\ 0 + 1 = 1 /\ 0 + f = f /\ 0 + (f + 1) = f + 1 /\ 0 + n = n
    BY <1>12, <1>16
  <2>2. SubSeq(SubSeq(ids, 0 + 1, n), 1, f) = SubSeq(ids, 0 + 1, 0 + f)
    BY <1>12, <2>1, SubSub
  <2>3. SubSeq(SubSeq(ids, 0 + 1, n), f + 1, n) = SubSeq(ids, 0 + (f + 1), 0 + n)
    BY <1>12, <2>1, SubSub
  <2> QED  BY <2>1, <2>2, <2>3
<1>14. Stable' = Stable /\ Loose' = Loose
  BY <1>3, <1>10, <1>13, <1>16 DEF f, ids
<1>15. mem' = Stable \o Loose
  <2>1. value \o SubSeq(ids, 1, n) = (value \o SubSeq(ids, 1, f)) \o SubSeq(ids, f + 1, n)
    BY <1>3, <1>12, <1>16, StableThenLoose
  <2> QED  BY <1>2, <1>3, <1>16, <2>1 DEF f, ids
<1>17. Mode = "Closed" /\ Mode' = "Open"
  BY <1>2, Modes, ModesNext
<1> QED  BY <1>14, <1>15, <1>17 DEF StoreStep, Store!Next, Store!Recover

LEMMA SubSeqOfAppend ==
  ASSUME NEW S, NEW s \in Seq(S), NEW u \in S, NEW m \in 1 .. Len(s) + 1, NEW n \in 0 .. Len(s)
  PROVE  /\ SubSeq(Append(s, u), m, n) = SubSeq(s, m, n)
         /\ SubSeq(Append(s, u), m, Len(s) + 1) = Append(SubSeq(s, m, Len(s)), u)
<1> DEFINE more == Append(s, u)
<1>1. Len(s) \in Nat /\ \A i \in 1 .. Len(s) : s[i] \in S
  BY LenProperties, ElementOfSeq
<1>2. /\ more \in Seq(S) /\ Len(more) = Len(s) + 1 /\ more[Len(s) + 1] = u
      /\ \A i \in 1 .. Len(s) : more[i] = s[i]
  BY AppendProperties
<1> HIDE DEF more
<1>3. ASSUME NEW k \in 0 .. Len(s)
      PROVE  /\ SubSeq(s, m, k) \in Seq(S) /\ Len(SubSeq(s, m, k)) = IF m <= k THEN k - m + 1 ELSE 0
             /\ \A i \in 1 .. k - m + 1 : SubSeq(s, m, k)[i] = s[m + i - 1]
  <2>1. m \in Int /\ k \in Int /\ \A i \in m .. k : s[i] \in S
    BY <1>1
  <2> QED  BY <2>1, SubSeqProperties
<1>4. ASSUME NEW k \in 0 .. Len(s) + 1
      PROVE  /\ SubSeq(more, m, k) \in Seq(S) /\ Len(SubSeq(more, m, k)) = IF m <= k THEN k - m + 1 ELSE 0
             /\ \A i \in 1 .. k - m + 1 : SubSeq(more, m, k)[i] = more[m + i - 1]
  <2>1. m \in Int /\ k \in Int /\ \A i \in m .. k : more[i] \in S
    BY <1>1, <1>2, ElementOfSeq
  <2> QED  BY <2>1, SubSeqProperties
<1>5. SubSeq(more, m, n) = SubSeq(s, m, n)
  <2>1. n \in 0 .. Len(s) + 1
    BY <1>1
  <2>2. ASSUME NEW i \in 1 .. Len(SubSeq(s, m, n))  PROVE SubSeq(more, m, n)[i] = SubSeq(s, m, n)[i]
    <3>1. i \in 1 .. n - m + 1 /\ m + i - 1 \in 1 .. Len(s)
      BY <1>1, <1>3
    <3> QED  BY <1>2, <1>3, <1>4, <2>1, <3>1
  <2> QED  BY <1>3, <1>4, <2>1, <2>2, SeqEqual
<1>6. SubSeq(more, m, Len(s) + 1) = Append(SubSeq(s, m, Len(s)), u)
  <2> DEFINE part == SubSeq(s, m, Len(s))
             last == SubSeq(more, m, Len(s) + 1)
  <2>1. Len(s) \in 0 .. Len(s) /\ Len(s) + 1 \in 0 .. Len(s) + 1 /\ m <= Len(s) + 1
    BY <1>1
  <2>2. part \in Seq(S) /\ Len(part) = Len(s) - m + 1 /\ \A i \in 1 .. Len(part) : part[i] = s[m + i - 1]
    BY <1>1, <1>3, <2>1
  <2>3. last \in Seq(S) /\ Len(last) = Len(s) + 1 - m + 1 /\ \A i \in 1 .. Len(last) : last[i] = more[m + i - 1]
    BY <1>1, <1>4, <2>1
  <2> HIDE DEF part, last
  <2>4. /\ Append(part, u) \in Seq(S) /\ Len(Append(part, u)) = Len(part) + 1
        /\ \A i \in 1 .. Len(part) : Append(part, u)[i] = part[i]
        /\ Append(part, u)[Len(part) + 1] = u
    <3>1. part \in Seq(S)
      BY <2>2
    <3> QED  BY <3>1, AppendProperties
  <2>5. ASSUME NEW i \in 1 .. Len(last)  PROVE last[i] = Append(part, u)[i]
    <3>1. CASE i \in 1 .. Len(part)
      <4>1. m + i - 1 \in 1 .. Len(s)
        BY <1>1, <2>2, <3>1
      <4> QED  BY <1>2, <2>2, <2>3, <2>4, <3>1, <4>1
    <3>2. CASE i = Len(part) + 1
      <4>1. m + i - 1 = Len(s) + 1
        BY <1>1, <2>2, <3>2
      <4> QED  BY <1>2, <2>3, <2>4, <3>2, <4>1
    <3>3. i \in 1 .. Len(part) \/ i = Len(part) + 1
      BY <1>1, <2>2, <2>3
    <3> QED  BY <3>1, <3>2, <3>3
  <2>6. Len(last) = Len(Append(part, u))
    BY <1>1, <2>2, <2>3, <2>4
  <2>7. last = Append(part, u)
    BY <2>3, <2>4, <2>5, <2>6, SeqEqual
  <2> QED  BY <2>7 DEF part, last
<1> QED  BY <1>5, <1>6 DEF more

\* The log after the contents of an entry have been written.
LEMMA LogAfterContents ==
  ASSUME NEW old \in Logs, NEW entry \in LogEntry, entry.length = "zero", NEW force \in BOOLEAN,
         \A i \in DOMAIN old : old[i].length # "zero",
         NEW log, log = IF force THEN Sync(Append(old, entry)) ELSE Append(old, entry)
  PROVE  /\ log \in Logs /\ Len(log) = Len(old) + 1
         /\ Ids(log) = Append(Ids(old), entry.id)
         /\ Forced(log) = IF force THEN Len(old) ELSE Forced(old)
<1> DEFINE next == Append(old, entry)
<1>1. /\ next \in Logs /\ Len(next) = Len(old) + 1 /\ next[Len(old) + 1] = entry
      /\ \A i \in 1 .. Len(old) : next[i] = old[i]
  BY AppendProperties DEF Logs
<1>2. Len(old) \in Nat /\ DOMAIN old = 1 .. Len(old) /\ DOMAIN next = 1 .. Len(old) + 1
  BY <1>1, LogShape
<1>3. Ids(next) = Append(Ids(old), entry.id)
  BY IdsOfAppend
<1> HIDE DEF next
<1>4. CASE force
  <2>1. /\ log \in Logs /\ Len(log) = Len(next) /\ DOMAIN log = DOMAIN next
        /\ \A i \in DOMAIN next :
             /\ log[i].id = next[i].id
             /\ log[i].length = IF next[i].length = "zero" THEN "zero" ELSE "disk"
    BY <1>1, <1>4, SyncOf DEF next
  <2>2. Ids(log) = Ids(next)
    BY <1>1, <2>1, SameIds
  <2>3. (\A i \in 1 .. Len(old) : log[i].length = "disk") /\ log[Len(old) + 1].length # "disk"
    BY <1>1, <1>2, <2>1
  <2>4. Forced(log) = Len(old)
    <3>1. Len(old) \in 0 .. Len(log)
      BY <1>1, <1>2, <2>1
    <3> QED  BY <2>1, <2>3, <3>1, ForcedIs
  <2> QED  BY <1>1, <1>3, <1>4, <2>1, <2>2, <2>4
<1>5. CASE ~force
  <2>1. log = next
    BY <1>5 DEF next
  <2>2. /\ Forced(old) \in 0 .. Len(old) /\ (\A i \in 1 .. Forced(old) : old[i].length = "disk")
        /\ (Forced(old) < Len(old) => old[Forced(old) + 1].length # "disk")
    BY ForcedOf
  <2>3. Forced(old) \in 0 .. Len(log) /\ (\A i \in 1 .. Forced(old) : log[i].length = "disk")
    BY <1>1, <1>2, <2>1, <2>2
  <2>4. log[Forced(old) + 1].length # "disk"
    <3>1. CASE Forced(old) = Len(old)
      BY <1>1, <2>1, <3>1
    <3>2. CASE Forced(old) # Len(old)
      BY <1>1, <1>2, <2>1, <2>2, <3>2
    <3> QED  BY <3>1, <3>2
  <2>5. Forced(log) = Forced(old)
    BY <1>1, <2>1, <2>3, <2>4, ForcedIs
  <2> QED  BY <1>1, <1>3, <1>5, <2>1, <2>5
<1> QED  BY <1>4, <1>5

\* Request: a forced update makes the earlier ones stable.
LEMMA UpdateContentsStoreStep ==
  ASSUME IInv, NEW force \in BOOLEAN, UpdateContents(force)
  PROVE  StoreStep
<1> DEFINE old == Log(version)
           entry == Entry(asked + 1, "cache")
           log == IF force THEN Sync(Append(old, entry)) ELSE Append(old, entry)
           value == snapshot[version].value
           ids == Ids(old)
           f == Forced(old)
           u == asked + 1
<1>1. /\ CurrentVersion = version /\ version \in Version /\ version # 0 /\ pc = "Open"
  BY CurrentOne DEF UpdateContents, Updating
<1>2. /\ old \in Logs /\ value \in Seq(UpdateId) /\ ids \in Seq(UpdateId) /\ Len(ids) = Len(old)
      /\ f \in 0 .. Len(old) /\ End = Readable(old) /\ Len(old) \in Nat
      /\ Stable = value \o SubSeq(ids, 1, f) /\ Loose = SubSeq(ids, f + 1, Readable(old))
  BY <1>1, CurrentParts, LogShape DEF End
<1>3. logWriter = version /\ ~inside /\ \A i \in DOMAIN old : old[i].length # "zero"
  BY <1>1 DEF IInv, UpdateGood, StartGood, Updating
<1>4. /\ logfile' = [logfile EXCEPT ![version].entries = log]
      /\ mem' = Append(mem, u) /\ pc' = "Length" /\ forced' = force
      /\ UNCHANGED <<snapshot, versionFile, newVersion, version>>
  BY <1>3 DEF UpdateContents, Spoil, Log
<1>5. u \in UpdateId
  BY BoundsArePositive DEF UpdateContents, IInv, TypeInv, TypeOK, UpdateId
<1>6. entry \in LogEntry /\ entry.id = u /\ entry.length = "zero"
  BY <1>5 DEF Entry, LogEntry
<1> HIDE DEF old, entry, value, ids, f, u
<1>7. Readable(old) = Len(old)
  <2>1. old \in Logs /\ DOMAIN old = 1 .. Len(old) /\ Len(old) \in Nat
    BY <1>2, LogShape
  <2>2. (\A i \in 1 .. Len(old) : old[i].length # "zero") /\ Len(old) \in 0 .. Len(old)
    BY <1>3, <2>1
  <2>3. ~(Len(old) < Len(old))
    BY <2>1
  <2> QED  BY <2>1, <2>2, <2>3, ReadableIs
<1>8. /\ log \in Logs /\ Len(log) = Len(old) + 1
      /\ Ids(log) = Append(ids, u)
      /\ Forced(log) = IF force THEN Len(old) ELSE f
  <2>1. old \in Logs /\ entry \in LogEntry /\ entry.length = "zero"
        /\ \A i \in DOMAIN old : old[i].length # "zero"
    BY <1>2, <1>3, <1>6
  <2>2. /\ log \in Logs /\ Len(log) = Len(old) + 1
        /\ Ids(log) = Append(Ids(old), entry.id)
        /\ Forced(log) = IF force THEN Len(old) ELSE Forced(old)
    BY <2>1, LogAfterContents, ZenonT(40)
  <2> QED  BY <1>6, <2>2 DEF ids, f
<1> HIDE DEF log
<1>9. /\ Stable' = value \o SubSeq(Append(ids, u), 1, IF force THEN Len(old) ELSE f)
      /\ Loose' = SubSeq(Append(ids, u), (IF force THEN Len(old) ELSE f) + 1, Len(ids) + 1)
  <2>1. logfile'[version].entries = log /\ CurrentVersion' = version
    BY <1>1, <1>4, <1>8, NewEntries DEF IInv, TypeInv, CurrentVersion
  <2>2. End' = Len(log) /\ Len(log) \in 0 .. Len(log) /\ Len(log) = Len(ids) + 1
    BY <1>2, <1>4, <1>8, <2>1 DEF End, Log
  <2>3. snapshot'[CurrentVersion'].value = value
    BY <1>4, <2>1 DEF value
  <2> QED  BY <1>1, <1>8, <2>1, <2>2, <2>3, CurrentPartsNext
<1>10. Mode = "Open" /\ Mode' = IF force THEN "Forced" ELSE "Buffered"
  BY <1>1, <1>4, Modes, ModesNext
<1>11. CASE force
  <2>1. 1 \in 1 .. Len(ids) + 1 /\ Len(ids) \in 0 .. Len(ids) /\ Len(ids) + 1 \in 1 .. Len(ids) + 1
    BY <1>2
  <2>2. Stable' = value \o SubSeq(ids, 1, Len(ids))
    <3>1. SubSeq(Append(ids, u), 1, Len(ids)) = SubSeq(ids, 1, Len(ids))
      BY <1>2, <1>5, <2>1, SubSeqOfAppend
    <3> QED  BY <1>2, <1>9, <1>11, <3>1
  <2>3. Loose' = Append(SubSeq(ids, Len(ids) + 1, Len(ids)), u)
    <3>1. SubSeq(Append(ids, u), Len(ids) + 1, Len(ids) + 1) = Append(SubSeq(ids, Len(ids) + 1, Len(ids)), u)
      BY <1>2, <1>5, <2>1, SubSeqOfAppend
    <3> QED  BY <1>2, <1>9, <1>11, <3>1
  <2>4. SubSeq(ids, Len(ids) + 1, Len(ids)) = <<>>
    <3>1. Len(ids) \in Int /\ Len(ids) + 1 \in Int /\ Len(ids) < Len(ids) + 1
      BY <1>2
    <3> QED  BY <3>1, SubSeqEmpty
  <2>5. Loose' = <<u>>
    <3>1. <<>> \in Seq(UpdateId) /\ <<u>> \in Seq(UpdateId)
      BY <1>5, EmptySeq
    <3>2. Append(<<>>, u) = <<>> \o <<u>>
      BY <1>5, <3>1, AppendIsConcat
    <3>3. <<>> \o <<u>> = <<u>>
      BY <3>1, ConcatEmptySeq
    <3> QED  BY <2>3, <2>4, <3>2, <3>3
  <2>6. Stable' = Stable \o Loose
    <3>1. f \in 0 .. Len(ids) /\ Len(ids) \in f .. Len(ids)
      BY <1>2
    <3> QED  BY <1>2, <1>7, <2>2, <3>1, StableThenLoose
  <2>7. Store!Request(u)
    BY <1>4, <1>10, <1>11, <2>5, <2>6 DEF Store!Request
  <2> QED  BY <1>5, <2>7 DEF StoreStep, Store!Next
<1>12. CASE ~force
  <2>1. 1 \in 1 .. Len(ids) + 1 /\ f \in 0 .. Len(ids) /\ f + 1 \in 1 .. Len(ids) + 1
    BY <1>2
  <2>2. Stable' = Stable
    <3>1. SubSeq(Append(ids, u), 1, f) = SubSeq(ids, 1, f)
      BY <1>2, <1>5, <2>1, SubSeqOfAppend
    <3> QED  BY <1>2, <1>9, <1>12, <3>1
  <2>3. Loose' = Append(Loose, u)
    <3>1. SubSeq(Append(ids, u), f + 1, Len(ids) + 1) = Append(SubSeq(ids, f + 1, Len(ids)), u)
      BY <1>2, <1>5, <2>1, SubSeqOfAppend
    <3> QED  BY <1>2, <1>7, <1>9, <1>12, <3>1
  <2>4. Store!Request(u)
    BY <1>4, <1>10, <1>12, <2>2, <2>3 DEF Store!Request
  <2> QED  BY <1>5, <2>4 DEF StoreStep, Store!Next
<1> QED  BY <1>11, <1>12

\* The length makes the entry readable, which it already was to the store.
LEMMA UpdateLengthStoreStep ==
  ASSUME IInv, Adversity = {}, UpdateLength
  PROVE  StoreStep
<1> DEFINE old == Log(version)
           log == [old EXCEPT ![Len(old)].length = "cache"]
           value == snapshot[version].value
<1>1. /\ CurrentVersion = version /\ version \in Version /\ version # 0 /\ pc = "Length"
  BY CurrentOne DEF UpdateLength, Updating
<1>2. /\ old \in Logs /\ Forced(old) \in 0 .. Len(old) /\ End = Len(old)
      /\ Stable = value \o SubSeq(Ids(old), 1, Forced(old)) /\ Loose = SubSeq(Ids(old), Forced(old) + 1, Len(old))
  BY <1>1, CurrentParts DEF End
<1>3. logWriter = version /\ old # <<>> /\ \A i \in DOMAIN old : old[i].length = "zero" <=> i = Len(old)
  BY <1>1 DEF IInv, UpdateGood, Updating
<1>4. /\ logfile' = [logfile EXCEPT ![version].entries = log]
      /\ pc' = "Finish"
      /\ UNCHANGED <<snapshot, versionFile, newVersion, version, mem, forced>>
  BY <1>3 DEF UpdateLength, Log
<1>5. Len(old) \in Nat \ {0} /\ DOMAIN old = 1 .. Len(old) /\ \A i \in DOMAIN old : old[i] \in LogEntry
  BY <1>2, <1>3, LogShape, EmptySeq DEF Logs
<1> HIDE DEF old, value
<1>6. /\ DOMAIN log = DOMAIN old
      /\ \A i \in DOMAIN old :
           /\ log[i].id = old[i].id /\ log[i] \in LogEntry
           /\ log[i].length = IF i = Len(old) THEN "cache" ELSE old[i].length
  BY <1>5 DEF LogEntry
<1>7. log \in Logs /\ Len(log) = Len(old)
  <2>1. log \in [1 .. Len(old) -> LogEntry]
    BY <1>5, <1>6
  <2> QED  BY <1>5, <2>1, SeqOf DEF Logs
<1> HIDE DEF log
<1>8. Ids(log) = Ids(old)
  BY <1>2, <1>6, <1>7, SameIds
<1>9. Forced(log) = Forced(old)
  <2>1. /\ (\A i \in 1 .. Forced(old) : old[i].length = "disk")
        /\ (Forced(old) < Len(old) => old[Forced(old) + 1].length # "disk")
    BY <1>2, ForcedOf
  <2>2. ASSUME NEW i \in 1 .. Forced(old)  PROVE log[i].length = "disk"
    <3>1. i \in DOMAIN old /\ old[i].length = "disk"
      BY <1>2, <1>5, <2>1
    <3> QED  BY <1>3, <1>6, <3>1
  <2>3. Forced(old) < Len(log) => log[Forced(old) + 1].length # "disk"
    BY <1>2, <1>5, <1>6, <1>7, <2>1
  <2> QED  BY <1>2, <1>7, <2>2, <2>3, ForcedIs
<1>10. Readable(log) = Len(log)
  <2>1. (\A i \in 1 .. Len(log) : log[i].length # "zero") /\ Len(log) \in 0 .. Len(log)
    BY <1>3, <1>5, <1>6, <1>7
  <2> QED  BY <1>7, <2>1, ReadableIs
<1>11. Stable' = Stable /\ Loose' = Loose
  <2>1. logfile'[version].entries = log /\ CurrentVersion' = version
    BY <1>1, <1>4, <1>7, NewEntries DEF IInv, TypeInv, CurrentVersion
  <2>2. End' = Len(log) /\ Len(log) \in 0 .. Len(log)
    BY <1>4, <1>5, <1>7, <1>10, <2>1 DEF End, Log
  <2>3. snapshot'[CurrentVersion'].value = value
    BY <1>4, <2>1 DEF value
  <2> QED  BY <1>1, <1>2, <1>7, <1>8, <1>9, <2>1, <2>2, <2>3, CurrentPartsNext
<1>12. Mode' = Mode
  BY <1>1, <1>4, Modes, ModesNext
<1> QED  BY <1>4, <1>11, <1>12 DEF StoreStep

\* Acknowledge: a forced update is stable, and so is all that came before it.
LEMMA UpdateFinishStoreStep ==
  ASSUME IInv, UpdateFinish
  PROVE  StoreStep
<1> DEFINE old == Log(version)
           log == Sync(old)
           value == snapshot[version].value
           ids == Ids(old)
           f == Forced(old)
<1>1. /\ CurrentVersion = version /\ version \in Version /\ version # 0 /\ pc = "Finish" /\ pc' = "Open"
      /\ UNCHANGED <<snapshot, versionFile, newVersion, version, mem, forced>>
  BY CurrentOne DEF UpdateFinish, Updating
<1>2. /\ old \in Logs /\ value \in Seq(UpdateId) /\ ids \in Seq(UpdateId) /\ Len(ids) = Len(old)
      /\ f \in 0 .. Len(old) /\ End = Readable(old) /\ Len(old) \in Nat /\ DOMAIN old = 1 .. Len(old)
      /\ Stable = value \o SubSeq(ids, 1, f) /\ Loose = SubSeq(ids, f + 1, Readable(old))
  BY <1>1, CurrentParts, LogShape DEF End
<1>3. logWriter = version /\ \A i \in DOMAIN old : old[i].length # "zero"
  BY <1>1 DEF IInv, UpdateGood, Updating
<1>4. Mode = (IF forced THEN "Forced" ELSE "Buffered") /\ Mode' = "Open"
  BY <1>1, Modes, ModesNext
<1>5. CASE ~forced
  <2>1. logfile' = logfile /\ CurrentVersion' = CurrentVersion
    BY <1>1, <1>5 DEF UpdateFinish, CurrentVersion
  <2>2. Stable' = Stable /\ Loose' = Loose
    BY <1>1, <2>1, SameParts
  <2> QED  BY <1>1, <1>4, <1>5, <2>2 DEF StoreStep, Store!Next, Store!Acknowledge
<1>6. CASE forced
  <2>1. logfile' = [logfile EXCEPT ![version].entries = log]
    BY <1>3, <1>6 DEF UpdateFinish, Log
  <2> HIDE DEF old, value
  <2>2. /\ log \in Logs /\ Len(log) = Len(old) /\ DOMAIN log = DOMAIN old
        /\ \A i \in DOMAIN old : log[i].id = old[i].id /\ log[i].length = "disk"
    BY <1>2, <1>3, SyncOf
  <2> HIDE DEF log
  <2>3. Ids(log) = ids
    BY <1>2, <2>2, SameIds
  <2> HIDE DEF ids, f
  <2>4. Forced(log) = Len(log) /\ Readable(log) = Len(log)
    <3>1. Len(log) \in Nat /\ \A i \in 1 .. Len(log) : i \in DOMAIN old
      BY <1>2, <2>2
    <3>2. Len(log) \in 0 .. Len(log) /\ ~(Len(log) < Len(log))
      BY <3>1
    <3>3. \A i \in 1 .. Len(log) : log[i].length = "disk"
      BY <2>2, <3>1
    <3>4. \A i \in 1 .. Len(log) : log[i].length # "zero"
      BY <3>3
    <3> QED  BY <2>2, <3>2, <3>3, <3>4, ForcedIs, ReadableIs
  <2>5. Readable(old) = Len(old)
    <3>1. (\A i \in 1 .. Len(old) : old[i].length # "zero") /\ Len(old) \in 0 .. Len(old) /\ ~(Len(old) < Len(old))
      BY <1>2, <1>3
    <3> QED  BY <1>2, <3>1, ReadableIs
  <2>6. Stable' = value \o SubSeq(ids, 1, Len(ids)) /\ Loose' = SubSeq(ids, Len(ids) + 1, Len(ids))
    <3>1. logfile'[version].entries = log /\ CurrentVersion' = version
      BY <1>1, <2>1, <2>2, NewEntries DEF IInv, TypeInv, CurrentVersion
    <3>4. End' = Readable(log)
      BY <1>1, <3>1 DEF End, Log
    <3>2. End' = Len(log) /\ Len(log) \in 0 .. Len(log) /\ Len(log) = Len(ids)
      BY <1>2, <2>2, <2>4, <3>4
    <3>3. snapshot'[CurrentVersion'].value = value
      BY <1>1, <3>1 DEF value
    <3> QED  BY <1>1, <2>2, <2>3, <2>4, <3>1, <3>2, <3>3, CurrentPartsNext
  <2>7. Loose' = <<>>
    <3>1. Len(ids) \in Int /\ Len(ids) + 1 \in Int /\ Len(ids) < Len(ids) + 1
      BY <1>2
    <3> QED  BY <2>6, <3>1, SubSeqEmpty
  <2>8. Stable' = Stable \o Loose
    <3>1. f \in 0 .. Len(ids) /\ Len(ids) \in f .. Len(ids)
      BY <1>2
    <3> QED  BY <1>2, <2>5, <2>6, <3>1, StableThenLoose
  <2> QED  BY <1>1, <1>4, <1>6, <2>7, <2>8 DEF StoreStep, Store!Next, Store!Acknowledge
<1> QED  BY <1>5, <1>6

\* The call fails, or the process ends: an update without its length is lost.
LEMMA FailStoreSteps ==
  ASSUME IInv, Adversity = {}, CallRaises \/ Exit \/ ProcessCrash
  PROVE  StoreStep
<1> DEFINE log == IF CurrentVersion = 0 THEN <<>> ELSE Log(CurrentVersion)
           end == Readable(log)
<1>1. UNCHANGED <<snapshot, logfile>> /\ CurrentVersion' = CurrentVersion /\ pc' \in {"Failed", "Down"}
  BY DEF CallRaises, Exit, ProcessCrash, ProcessEnds, CurrentVersion
<1>2. log \in Logs /\ end \in 0 .. Len(log)
  <2>1. log \in Logs
    BY CurrentFiles, EmptyFiles
  <2> QED  BY <2>1, ReadableOf
<1>3. CurrentVersion # 0 =>
        /\ log = Log(CurrentVersion) /\ log = logfile'[CurrentVersion].entries
        /\ end = End' /\ Forced(log) <= end /\ end <= End
  <2> SUFFICES ASSUME CurrentVersion # 0
               PROVE  /\ log = Log(CurrentVersion) /\ log = logfile'[CurrentVersion].entries
                      /\ end = End' /\ Forced(log) <= end /\ end <= End
    OBVIOUS
  <2>1. log = Log(CurrentVersion) /\ log = logfile'[CurrentVersion].entries
        /\ log = logfile'[CurrentVersion'].entries
    BY <1>1 DEF Log
  <2> HIDE DEF log
  <2>2. end = End'
    BY <1>1, <2>1 DEF End, Log
  <2>3. end \in 0 .. Len(log) /\ Len(log) \in Nat /\ Forced(log) <= end
    BY <1>2, LogShape, ForcedAreReadable
  <2>4. end <= End
    BY <2>1, <2>3 DEF End
  <2> QED  BY <2>1, <2>2, <2>3, <2>4
<1> HIDE DEF log, end
<1>4. Store!LoseTail
  <2>1. CurrentVersion # 0 =>
          /\ snapshot'[CurrentVersion].value = snapshot[CurrentVersion].value
          /\ Ids(log) = Ids(Log(CurrentVersion)) /\ Len(log) = Len(Log(CurrentVersion))
          /\ Forced(Log(CurrentVersion)) <= Forced(log)
    <3>1. Forced(log) \in Int
      BY <1>2, ForcedOf, LogShape
    <3> QED  BY <1>1, <1>3, <3>1
  <2> QED  BY <1>1, <1>2, <1>3, <2>1, LosesTail
<1>5. CASE CallRaises
  <2>1. Mode' = "Failed" /\ mem' = mem
    BY <1>5, ModesNext DEF CallRaises
  <2> QED  BY <1>4, <2>1 DEF StoreStep, Store!Next, Store!Fail
<1>6. CASE Exit \/ ProcessCrash
  <2>1. Mode' = "Down" /\ mem' = <<>>
    BY <1>6, ModesNext DEF Exit, ProcessCrash, ProcessEnds, Starting
  <2> QED  BY <1>4, <2>1 DEF StoreStep, Store!Next, Store!Crash
<1> QED  BY <1>5, <1>6

\* What the disk holds of the log after a crash of the machine: all that was
\* forced, and some of the rest up to the first length that is lost.
LEMMA LogAfterCrash ==
  ASSUME NEW log \in Logs, NEW lost \in SUBSET Cached(log, "length"),
         NEW disk, disk = OnDisk(log, lost, {})
  PROVE  /\ disk \in Logs /\ Len(disk) = Len(log) /\ Ids(disk) = Ids(log)
         /\ Forced(log) <= Forced(disk) /\ Forced(disk) <= Readable(disk) /\ Readable(disk) <= Readable(log)
<1>1. /\ disk \in Logs /\ Len(disk) = Len(log) /\ DOMAIN disk = DOMAIN log
      /\ \A i \in DOMAIN log :
           /\ disk[i].id = log[i].id
           /\ disk[i].length = IF i \in lost \/ log[i].length = "zero" THEN "zero" ELSE "disk"
  BY OnDiskOf
<1>2. Ids(disk) = Ids(log)
  BY <1>1, SameIds
<1>3. Len(log) \in Nat /\ DOMAIN log = 1 .. Len(log)
  BY LogShape
<1>4. \A i \in lost : log[i].length # "disk"
  BY DEF Cached
<1>5. Readable(disk) <= Readable(log)
  <2>1. Readable(log) < Readable(disk) =>
          Readable(log) + 1 \in 1 .. Readable(disk) /\ Readable(log) + 1 \in DOMAIN log
    BY <1>1, <1>3, ReadableOf
  <2>2. Readable(log) < Readable(disk) => log[Readable(log) + 1].length = "zero"
    BY <1>1, <1>3, ReadableOf
  <2>3. Readable(log) < Readable(disk) => disk[Readable(log) + 1].length # "zero"
    BY <1>1, <2>1, ReadableOf
  <2>4. ~(Readable(log) < Readable(disk))
    BY <1>1, <2>1, <2>2, <2>3
  <2> QED  BY <1>1, <1>3, <2>4, ReadableOf
<1>6. Forced(log) <= Forced(disk)
  <2>1. Forced(disk) < Forced(log) =>
          Forced(disk) + 1 \in 1 .. Forced(log) /\ Forced(disk) + 1 \in DOMAIN log
    BY <1>1, <1>3, ForcedOf
  <2>2. Forced(disk) < Forced(log) => disk[Forced(disk) + 1].length # "disk"
    BY <1>1, <1>3, ForcedOf
  <2>3. Forced(disk) < Forced(log) => log[Forced(disk) + 1].length = "disk"
    BY <2>1, ForcedOf
  <2>4. ~(Forced(disk) < Forced(log))
    BY <1>1, <1>4, <2>1, <2>2, <2>3
  <2> QED  BY <1>1, <1>3, <2>4, ForcedOf
<1> QED  BY <1>1, <1>2, <1>5, <1>6, ForcedAreReadable

LEMMA MachineCrashStoreStep ==
  ASSUME IInv, Adversity = {}, MachineCrash
  PROVE  StoreStep
<1> DEFINE c == CurrentVersion
<1>1. CurrentVersion' = c /\ pc' = "Down" /\ mem' = <<>>
  BY DEF MachineCrash, ProcessEnds, CurrentVersion
<1>2. Store!LoseTail
  <2>1. CASE c = 0
    <3>1. <<>> \in Logs /\ 0 \in 0 .. Len(<<>>)
      BY EmptyFiles, EmptySeq
    <3> QED  BY <1>1, <2>1, <3>1, LosesTail
  <2>2. CASE c # 0
    <3>1. c \in Version /\ Log(c) \in Logs /\ Len(Log(c)) \in Nat
      BY <2>2, CurrentFiles, LogShape
    <3>2. snapshot' = snapshot
      BY <2>2, <3>1 DEF MachineCrash, IInv, FilesGood
    <3>3. PICK lost \in SUBSET Cached(Log(c), "length") :
            logfile' = [logfile EXCEPT ![c].entries = OnDisk(Log(c), lost, {})]
      BY <2>2 DEF MachineCrash, Log
    <3> DEFINE disk == OnDisk(Log(c), lost, {})
               end == Readable(disk)
    <3>4. /\ disk \in Logs /\ Len(disk) = Len(Log(c)) /\ Ids(disk) = Ids(Log(c))
          /\ Forced(Log(c)) <= Forced(disk) /\ Forced(disk) <= end /\ end <= Readable(Log(c))
      BY <3>1, LogAfterCrash
    <3> HIDE DEF disk
    <3>5. disk = logfile'[c].entries
      BY <3>1, <3>3, <3>4, NewEntries DEF IInv, TypeInv, disk
    <3>6. end = End' /\ end \in 0 .. Len(disk)
      BY <1>1, <3>4, <3>5, ReadableOf DEF End, Log
    <3>7. end <= End
      BY <3>1, <3>4, <3>6, ReadableOf DEF End
    <3> HIDE DEF end
    <3> QED  BY <1>1, <2>2, <3>2, <3>4, <3>5, <3>6, <3>7, LosesTail
  <2> QED  BY <2>1, <2>2
<1>3. Mode' = "Down"
  BY <1>1, ModesNext DEF Starting
<1> QED  BY <1>1, <1>2, <1>3 DEF StoreStep, Store!Next, Store!Crash

LEMMA NextStore ==
  ASSUME IInv, Adversity = {}, [Next]_vars
  PROVE  StoreStep
<1>1. CASE UNCHANGED vars
  <2>1. UNCHANGED <<snapshot, logfile, versionFile, newVersion, pc, return, logWriter, mem, forced>>
    BY <1>1 DEF vars
  <2>2. CurrentVersion' = CurrentVersion
    BY <2>1 DEF CurrentVersion
  <2>3. Stable' = Stable /\ Loose' = Loose
    BY <2>1, <2>2, SameParts
  <2>4. Mode' = Mode
    BY <2>1 DEF Mode, InUpdate, InSnapshot
  <2> QED  BY <2>1, <2>3, <2>4 DEF StoreStep
<1>2. CASE Start \/ ReadNew \/ ReadVersion \/ FirstVersion \/ StartRaises \/ DeleteNew \/ DeleteSnapshot \/ DeleteLogfile
  BY <1>2, StartStoreSteps
<1>3. CASE Close \/ Snapshot \/ WriteSnapshot \/ OpenLogfile \/ OpenNew \/ OpenVersion \/ WriteVersion
  BY <1>3, SnapshotStoreSteps
<1>4. CASE WriteNew \/ Recover
  BY <1>4, WriteNewStoreStep, RecoverStoreStep
<1>5. CASE (\E force \in BOOLEAN : UpdateContents(force)) \/ UpdateLength \/ UpdateFinish
  BY <1>5, UpdateContentsStoreStep, UpdateLengthStoreStep, UpdateFinishStoreStep
<1>6. CASE CallRaises \/ Exit \/ ProcessCrash
  BY <1>6, FailStoreSteps
<1>7. CASE MachineCrash
  BY <1>7, MachineCrashStoreStep
<1> QED  BY <1>1, <1>2, <1>3, <1>4, <1>5, <1>6, <1>7 DEF Next, Continue, Call, Disturb

\* The file operations of New, Recover, Update and Snapshot, with crashes and
\* failing files between any two of them, implement a store whose updates and
\* snapshots are atomic and whose forced updates are durable.
THEOREM SmallDBImplementsStore == Adversity = {} => (Spec => ImplementsStore)
<1> SUFFICES ASSUME Adversity = {}  PROVE Spec => ImplementsStore
  OBVIOUS
<1>1. Init => Store!Init
  BY InitStore
<1>2. IInv /\ [Next]_vars => [Store!Next]_<<mem, Stable, Loose, Mode>>
  BY NextStore DEF StoreStep
<1>3. Spec => []IInv
  BY Invariance
<1> QED  BY <1>1, <1>2, <1>3, PTL DEF Spec, ImplementsStore, Store!Spec, Store!vars

=============================================================================
