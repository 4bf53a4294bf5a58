---------------------------- MODULE ImageArchive ----------------------------
(***************************************************************************)
(* cmd/ballotstudio/imagearchive.go: every scanned image is handed to a    *)
(* goroutine that drops it when its hash is in the dup database (bbolt),   *)
(* and otherwise appends a record to the current archive file.             *)
(*                                                                         *)
(* ArchiveImage holds its lock twice, for isDup and for the write, and     *)
(* encodes the record in between: the two critical sections are the steps. *)
(* A file is the sequence of its records, all of one size; a record is     *)
(* torn when only a part of it was written.                                *)
(***************************************************************************)
EXTENDS Naturals, Sequences

CONSTANTS Handlers, Images, Hashes,
          HashOf,      \* FNV-1a, on which images may collide
          FileLimit,   \* BytesPerImageArchiveFile
          MaxFiles,    \* bounds of the disk: the files it can hold,
          MaxRecords,  \* and the records a file can
          None

ASSUME HashAssumption == HashOf \in [Images -> Hashes]
ASSUME DiskAssumption == FileLimit \in Nat /\ MaxFiles \in Nat /\ MaxRecords \in Nat
ASSUME NoneAssumption == None \notin Images

VARIABLES dupdb,       \* hashes in the dup database
          files,       \* the archive files, in the order of their creation
          fout,        \* the file being written, 0 if fia.fout is nil
          written,     \* foutBytesWritten
          proc,        \* what each goroutine is doing
          unrecorded   \* history: hashes whose bbolt transaction failed

vars == <<dupdb, files, fout, written, proc, unrecorded>>

Record == [image : Images, whole : BOOLEAN]
Idle   == [pc |-> "idle", image |-> None]
Proc   == [pc : {"idle", "dedup", "write"}, image : Images \cup {None}]

TypeOK ==
  /\ dupdb \subseteq Hashes /\ unrecorded \subseteq Hashes
  /\ files \in Seq(Seq(Record))
  /\ fout \in 0 .. Len(files)
  /\ written \in Nat
  /\ proc \in [Handlers -> Proc]
  /\ \A h \in Handlers : proc[h].pc # "idle" => proc[h].image \in Images

Init ==
  /\ dupdb = {} /\ unrecorded = {}
  /\ files = <<>> /\ fout = 0 /\ written = 0
  /\ proc = [h \in Handlers |-> Idle]

-----------------------------------------------------------------------------
Finish(h) == proc' = [proc EXCEPT ![h] = Idle]

(* handleElectionScanPOST: go sh.archiver.ArchiveImage(imbytes, r).        *)
Upload(h, im) ==
  /\ proc[h] = Idle
  /\ proc' = [proc EXCEPT ![h] = [pc |-> "dedup", image |-> im]]
  /\ UNCHANGED <<dupdb, files, fout, written, unrecorded>>

(* Mutant: isDup looks and does not record.                                *)
IsDupReadOnly(h) ==
  /\ proc[h].pc = "dedup"
  /\ IF HashOf[proc[h].image] \in dupdb THEN Finish(h)
     ELSE proc' = [proc EXCEPT ![h].pc = "write"]
  /\ UNCHANGED <<dupdb, files, fout, written, unrecorded>>

(* isDup, under the lock.  The error of dupdb.Update is dropped: a hash    *)
(* that could not be stored counts as not seen.                            *)
IsDup(h) ==
  LET x == HashOf[proc[h].image] IN
  /\ proc[h].pc = "dedup"
  /\ \/ /\ x \in dupdb
        /\ Finish(h)
        /\ UNCHANGED <<dupdb, unrecorded>>
     \/ /\ x \notin dupdb
        /\ proc' = [proc EXCEPT ![h].pc = "write"]
        /\ \/ dupdb' = dupdb \cup {x} /\ UNCHANGED unrecorded
           \/ unrecorded' = unrecorded \cup {x} /\ UNCHANGED dupdb
  /\ UNCHANGED <<files, fout, written>>

(* The record cannot be encoded.                                           *)
EncodeFails(h) ==
  /\ proc[h].pc = "write"
  /\ Finish(h)
  /\ UNCHANGED <<dupdb, files, fout, written, unrecorded>>

(* fia.fout == nil || fia.foutBytesWritten > BytesPerImageArchiveFile      *)
NeedsNewFile == fout = 0 \/ written > FileLimit

(* Mutant: fia.fout stays what os.Create returned.                         *)
CreateFailsKept(h) ==
  /\ proc[h].pc = "write"
  /\ NeedsNewFile
  /\ fout' = Len(files) + 1
  /\ Finish(h)
  /\ UNCHANGED <<dupdb, files, written, unrecorded>>

(* newFout cannot create a file; the previous one is closed already.       *)
CreateFails(h) ==
  /\ proc[h].pc = "write"
  /\ NeedsNewFile
  /\ fout' = 0
  /\ Finish(h)
  /\ UNCHANGED <<dupdb, files, written, unrecorded>>

(* The file the record goes to, and the files with r appended to it.       *)
Target      == IF NeedsNewFile THEN Len(files) + 1 ELSE fout
Opened      == IF NeedsNewFile THEN Append(files, <<>>) ELSE files
Extended(r) == [Opened EXCEPT ![Target] = Append(@, r)]
Room        == Target <= MaxFiles /\ Len(Opened[Target]) < MaxRecords

(* newFout resets foutBytesWritten, and nothing adds to it.                *)
Opening     == written' = IF NeedsNewFile THEN 0 ELSE written

WriteRecord(h) ==
  /\ proc[h].pc = "write"
  /\ Room
  /\ files' = Extended([image |-> proc[h].image, whole |-> TRUE])
  /\ fout' = Target
  /\ Opening
  /\ Finish(h)
  /\ UNCHANGED <<dupdb, unrecorded>>

(* A write that stores nothing, or a part of the record.                   *)
PartialWrite(h) ==
  /\ proc[h].pc = "write"
  /\ \/ Target <= MaxFiles /\ files' = Opened
     \/ Room /\ files' = Extended([image |-> proc[h].image, whole |-> FALSE])

(* Mutant: the file stays open after a failed write.                       *)
WriteFailsKeepsFile(h) ==
  /\ PartialWrite(h)
  /\ fout' = Target
  /\ Opening
  /\ Finish(h)
  /\ UNCHANGED <<dupdb, unrecorded>>

(* Write fails, and the file is closed.                                    *)
WriteFails(h) ==
  /\ PartialWrite(h)
  /\ fout' = 0
  /\ Opening
  /\ Finish(h)
  /\ UNCHANGED <<dupdb, unrecorded>>

(* The process dies, perhaps in a write, and starts again: the files and   *)
(* the dup database survive.                                               *)
Crash ==
  /\ fout' = 0 /\ written' = 0
  /\ proc' = [h \in Handlers |-> Idle]
  /\ UNCHANGED files \/ \E h \in Handlers : PartialWrite(h)
  /\ UNCHANGED <<dupdb, unrecorded>>

Next ==
  \/ \E h \in Handlers :
       \/ IsDup(h) \/ EncodeFails(h) \/ CreateFails(h) \/ WriteRecord(h) \/ WriteFails(h)
       \/ \E im \in Images : Upload(h, im)
  \/ Crash

Spec == Init /\ [][Next]_vars

-----------------------------------------------------------------------------
(* Properties.                                                             *)

Places == {p \in (1 .. Len(files)) \X (1 .. MaxRecords) : p[2] <= Len(files[p[1]])}
HashAt(p) == HashOf[files[p[1]][p[2]].image]

(* Images of one hash are written once, however many uploads race, unless  *)
(* the dup database failed to record it.                                   *)
WrittenOnce ==
  \A p, q \in Places : HashAt(p) = HashAt(q) /\ HashAt(p) \notin unrecorded => p = q

(* A torn record is the last of its file: what precedes it can be read.    *)
TornIsLast ==
  \A f \in 1 .. Len(files) : \A i \in 1 .. Len(files[f]) - 1 : files[f][i].whole
=============================================================================
