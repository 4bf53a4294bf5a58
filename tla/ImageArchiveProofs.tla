------------------------- MODULE ImageArchiveProofs -------------------------
(***************************************************************************)
(* Theorems about ImageArchive for any number of goroutines, any images,   *)
(* any hash function and any disk.  A record is appended at one place, to  *)
(* the file being written, and every record of that file is whole; a hash  *)
(* is reserved by exactly one goroutine between isDup and the write.       *)
(***************************************************************************)
EXTENDS ImageArchive, TLAPS

(* Opening the current file leaves the others alone.                       *)
LEMMA OpenedFacts ==
  ASSUME TypeOK
  PROVE  /\ Opened \in Seq(Seq(Record))
         /\ Target \in 1 .. Len(Opened)
         /\ Len(files) <= Len(Opened)
         /\ \A f \in 1 .. Len(Opened) :
              \/ f \in 1 .. Len(files) /\ Opened[f] = files[f]
              \/ Opened[f] = <<>>
         /\ \/ Target = Len(files) + 1 /\ Opened[Target] = <<>>
            \/ Target = fout /\ fout # 0 /\ Opened = files
<1>0. <<>> \in Seq(Record)
  OBVIOUS
<1>1. CASE NeedsNewFile
  <2>1. Opened = Append(files, <<>>) /\ Target = Len(files) + 1
    BY <1>1 DEF Opened, Target
  <2> DEFINE fs == files
  <2>2. fs \in Seq(Seq(Record))
    BY DEF TypeOK
  <2> HIDE DEF fs
  <2>3. Append(fs, <<>>) \in Seq(Seq(Record)) /\ Len(Append(fs, <<>>)) = Len(fs) + 1
    BY <1>0, <2>2
  <2>4. Append(fs, <<>>)[Len(fs) + 1] = <<>>
    BY <1>0, <2>2
  <2>5. \A f \in 1 .. Len(fs) : Append(fs, <<>>)[f] = fs[f]
    BY <1>0, <2>2
  <2>6. Len(fs) \in Nat
    BY <2>2
  <2>7. \A f \in 1 .. Len(fs) + 1 : f \in 1 .. Len(fs) \/ f = Len(fs) + 1
    BY <2>6
  <2> DEFINE os == Append(fs, <<>>)
  <2>8. /\ os \in Seq(Seq(Record)) /\ Len(os) = Len(fs) + 1 /\ os[Len(fs) + 1] = <<>>
        /\ \A f \in 1 .. Len(os) : (f \in 1 .. Len(fs) /\ os[f] = fs[f]) \/ os[f] = <<>>
    BY <2>3, <2>4, <2>5, <2>7
  <2> HIDE DEF os
  <2>9. Opened = os /\ Target = Len(fs) + 1
    BY <2>1 DEF os, fs
  <2>10. /\ Opened \in Seq(Seq(Record)) /\ Target \in 1 .. Len(Opened)
         /\ Len(files) <= Len(Opened)
         /\ Target = Len(files) + 1 /\ Opened[Target] = <<>>
    BY <2>6, <2>8, <2>9 DEF fs
  <2>11. \A f \in 1 .. Len(Opened) :
              \/ f \in 1 .. Len(files) /\ Opened[f] = files[f]
              \/ Opened[f] = <<>>
    BY <2>8, <2>9 DEF fs
  <2> QED BY <2>10, <2>11
<1>2. CASE ~NeedsNewFile
  BY <1>2 DEF Opened, Target, NeedsNewFile, TypeOK
<1> QED BY <1>1, <1>2

(* Appending a record changes one file, at its end.                        *)
LEMMA ExtendedFacts ==
  ASSUME TypeOK, NEW r \in Record
  PROVE  /\ Extended(r) \in Seq(Seq(Record))
         /\ Len(Extended(r)) = Len(Opened)
         /\ Extended(r)[Target] = Append(Opened[Target], r)
         /\ \A f \in 1 .. Len(Opened) : f # Target => Extended(r)[f] = Opened[f]
<1>1. Opened \in Seq(Seq(Record)) /\ Target \in 1 .. Len(Opened)
  BY OpenedFacts
<1> DEFINE os == Opened
           ta == Target
<1>2. Extended(r) = [os EXCEPT ![ta] = Append(os[ta], r)]
  BY DEF Extended
<1> HIDE DEF os, ta
<1>3. os \in Seq(Seq(Record)) /\ ta \in 1 .. Len(os)
  BY <1>1 DEF os, ta
<1>4. Append(os[ta], r) \in Seq(Record)
  BY <1>3
<1>5. [os EXCEPT ![ta] = Append(os[ta], r)] \in Seq(Seq(Record))
  BY <1>3, <1>4
<1>6. Len([os EXCEPT ![ta] = Append(os[ta], r)]) = Len(os)
  BY <1>3, <1>5
<1> QED BY <1>2, <1>3, <1>5, <1>6 DEF os, ta

-----------------------------------------------------------------------------
(* Every variable keeps its type.                                          *)
LEMMA TypeStep == TypeOK /\ [Next]_vars => TypeOK'
<1> SUFFICES ASSUME TypeOK, [Next]_vars PROVE TypeOK'
  OBVIOUS
<1> USE DEF Finish
<1>0. Idle \in Proc
  BY DEF Idle, Proc
<1>o. /\ Opened \in Seq(Seq(Record)) /\ Target \in 0 .. Len(Opened)
      /\ \A r \in Record : /\ Extended(r) \in Seq(Seq(Record))
                           /\ Target \in 0 .. Len(Extended(r))
  BY OpenedFacts, ExtendedFacts
<1>f. ASSUME NEW h \in Handlers, Finish(h)
      PROVE  /\ proc' \in [Handlers -> Proc]
             /\ \A g \in Handlers : proc'[g].pc # "idle" => proc'[g].image \in Images
  BY <1>0, <1>f DEF TypeOK, Idle
<1>w. Opening => written' \in Nat
  BY DEF Opening, TypeOK
<1>p. ASSUME NEW h \in Handlers, PartialWrite(h)
      PROVE  files' \in Seq(Seq(Record)) /\ Target \in 0 .. Len(files')
  <2>1. [image |-> proc[h].image, whole |-> FALSE] \in Record
    BY <1>p DEF PartialWrite, TypeOK, Record
  <2> QED BY <1>p, <1>o, <2>1 DEF PartialWrite
<1>1. CASE UNCHANGED vars
  BY <1>1 DEF vars, TypeOK
<1>2. ASSUME NEW h \in Handlers, NEW im \in Images, Upload(h, im) PROVE TypeOK'
  <2>1. [pc |-> "dedup", image |-> im] \in Proc
    BY DEF Proc
  <2> QED BY <1>2, <2>1 DEF Upload, TypeOK
<1>3. ASSUME NEW h \in Handlers, IsDup(h) PROVE TypeOK'
  <2>1. HashOf[proc[h].image] \in Hashes
    BY <1>3, HashAssumption DEF IsDup, TypeOK
  <2>2. [proc[h] EXCEPT !.pc = "write"] \in Proc /\ proc[h].image \in Images
    BY <1>3 DEF IsDup, TypeOK, Proc
  <2>3. /\ proc' \in [Handlers -> Proc]
        /\ \A g \in Handlers : proc'[g].pc # "idle" => proc'[g].image \in Images
    <3>1. CASE proc' = [proc EXCEPT ![h].pc = "write"]
      BY <2>2, <3>1 DEF TypeOK, Proc
    <3> QED BY <1>3, <1>f, <3>1 DEF IsDup
  <2>4. dupdb' \subseteq Hashes /\ unrecorded' \subseteq Hashes
    BY <1>3, <2>1 DEF IsDup, TypeOK
  <2> QED BY <1>3, <2>3, <2>4 DEF IsDup, TypeOK
<1>4. ASSUME NEW h \in Handlers, EncodeFails(h) \/ CreateFails(h) PROVE TypeOK'
  <2>1. Finish(h) /\ fout' \in {0, fout}
        /\ UNCHANGED <<dupdb, files, written, unrecorded>>
    BY <1>4 DEF EncodeFails, CreateFails, TypeOK
  <2>2. fout' \in 0 .. Len(files')
    BY <2>1 DEF TypeOK
  <2> QED BY <1>f, <2>1, <2>2 DEF TypeOK
<1>5. ASSUME NEW h \in Handlers, WriteRecord(h) PROVE TypeOK'
  <2>1. [image |-> proc[h].image, whole |-> TRUE] \in Record
    BY <1>5 DEF WriteRecord, TypeOK, Record
  <2>2. files' \in Seq(Seq(Record)) /\ fout' \in 0 .. Len(files')
    BY <1>5, <1>o, <2>1 DEF WriteRecord
  <2> QED BY <1>5, <1>f, <1>w, <2>2 DEF WriteRecord, TypeOK
<1>6. ASSUME NEW h \in Handlers, WriteFails(h) PROVE TypeOK'
  <2>1. files' \in Seq(Seq(Record)) /\ fout' \in 0 .. Len(files')
    BY <1>6, <1>p DEF WriteFails
  <2> QED BY <1>6, <1>f, <1>w, <2>1 DEF WriteFails, TypeOK
<1>7. CASE Crash
  <2>1. files' \in Seq(Seq(Record)) /\ fout' \in 0 .. Len(files')
    BY <1>7, <1>p DEF Crash, TypeOK
  <2> QED BY <1>0, <1>7, <2>1 DEF Crash, TypeOK, Idle
<1> QED BY <1>1, <1>2, <1>3, <1>4, <1>5, <1>6, <1>7 DEF Next

(* The types of the archive are invariant.                                 *)
THEOREM ArchiveTypeCorrect == Spec => []TypeOK
<1>1. Init => TypeOK
  BY DEF Init, TypeOK, Idle, Proc
<1> QED BY <1>1, TypeStep, PTL DEF Spec

-----------------------------------------------------------------------------
(* The file being written holds whole records only.                        *)
CurrentWhole == fout # 0 => \A i \in 1 .. Len(files[fout]) : files[fout][i].whole

TornInv == TornIsLast /\ CurrentWhole

(* Appending to a file of whole records keeps torn records last.           *)
LEMMA TornStep == TypeOK /\ TornInv /\ [Next]_vars => TornInv'
<1> SUFFICES ASSUME TypeOK, TornInv, [Next]_vars PROVE TornInv'
  OBVIOUS
<1>t. \A i \in 1 .. Len(Opened[Target]) : Opened[Target][i].whole
  BY OpenedFacts DEF TornInv, CurrentWhole
<1>o. \A f \in 1 .. Len(Opened) : \A i \in 1 .. Len(Opened[f]) - 1 : Opened[f][i].whole
  <2>1. \A f \in 1 .. Len(files) : \A i \in 1 .. Len(files[f]) - 1 : files[f][i].whole
    BY DEF TornInv, TornIsLast
  <2>2. SUFFICES ASSUME NEW f \in 1 .. Len(Opened), NEW i \in 1 .. Len(Opened[f]) - 1
                 PROVE  Opened[f][i].whole
    OBVIOUS
  <2>3. CASE f \in 1 .. Len(files) /\ Opened[f] = files[f]
    BY <2>1, <2>2, <2>3
  <2>4. CASE Opened[f] = <<>>
    <3>1. Len(Opened[f]) = 0
      BY <2>4
    <3>2. 1 .. Len(Opened[f]) - 1 = {}
      BY <3>1
    <3> QED BY <2>2, <3>2
  <2> QED BY <2>3, <2>4, OpenedFacts
<1>1. ASSUME files' = Opened PROVE TornIsLast'
  BY <1>1, <1>o DEF TornIsLast
<1>2. ASSUME NEW r \in Record, files' = Extended(r) PROVE TornIsLast'
  <2>1. /\ Opened \in Seq(Seq(Record)) /\ Target \in 1 .. Len(Opened)
        /\ Len(files') = Len(Opened)
        /\ files'[Target] = Append(Opened[Target], r)
        /\ \A f \in 1 .. Len(Opened) : f # Target => files'[f] = Opened[f]
    BY <1>2, OpenedFacts, ExtendedFacts
  <2>2. Opened[Target] \in Seq(Record)
    BY <2>1
  <2>3. \A i \in 1 .. Len(files'[Target]) - 1 : files'[Target][i].whole
    BY <1>t, <2>1, <2>2
  <2> QED BY <1>o, <2>1, <2>3 DEF TornIsLast
<1>3. ASSUME NEW h \in Handlers, PartialWrite(h) PROVE TornIsLast'
  <2>1. [image |-> proc[h].image, whole |-> FALSE] \in Record
    BY <1>3 DEF PartialWrite, TypeOK, Record
  <2> QED BY <1>1, <1>2, <1>3, <2>1 DEF PartialWrite
<1>4. ASSUME UNCHANGED files, fout' \in {0, fout} PROVE TornInv'
  BY <1>4 DEF TornInv, TornIsLast, CurrentWhole
<1>5. ASSUME NEW h \in Handlers, WriteRecord(h) PROVE TornInv'
  <2> DEFINE r == [image |-> proc[h].image, whole |-> TRUE]
  <2>1. r \in Record /\ files' = Extended(r) /\ fout' = Target
    BY <1>5 DEF WriteRecord, TypeOK, Record
  <2>2. /\ Opened \in Seq(Seq(Record)) /\ Target \in 1 .. Len(Opened)
        /\ files'[Target] = Append(Opened[Target], r)
    BY <2>1, OpenedFacts, ExtendedFacts
  <2>3. Opened[Target] \in Seq(Record)
    BY <2>2
  <2>4. \A i \in 1 .. Len(files'[Target]) : files'[Target][i].whole
    BY <1>t, <2>2, <2>3
  <2> QED BY <1>2, <2>1, <2>4 DEF TornInv, CurrentWhole
<1>6. ASSUME NEW h \in Handlers, WriteFails(h) PROVE TornInv'
  BY <1>3, <1>6 DEF WriteFails, TornInv, CurrentWhole
<1>7. CASE Crash
  BY <1>3, <1>4, <1>7 DEF Crash, TornInv, CurrentWhole
<1>8. ASSUME NEW h \in Handlers,
             \/ IsDup(h) \/ EncodeFails(h) \/ CreateFails(h) \/ \E im \in Images : Upload(h, im)
      PROVE  TornInv'
  BY <1>4, <1>8 DEF IsDup, EncodeFails, CreateFails, Upload
<1> QED BY <1>4, <1>5, <1>6, <1>7, <1>8 DEF Next, vars

(* Every archive file can be read up to its last record, whatever writes   *)
(* failed and wherever the process died.                                   *)
THEOREM TornRecordsLast == Spec => []TornIsLast
<1>1. Init => TornInv
  BY DEF Init, TornInv, TornIsLast, CurrentWhole
<1>2. TornInv => TornIsLast
  BY DEF TornInv
<1> QED BY <1>1, <1>2, TornStep, ArchiveTypeCorrect, PTL DEF Spec

-----------------------------------------------------------------------------
(* A hash the dup database did not fail on is in one place, or reserved by *)
(* one goroutine, or neither.                                              *)
Writing(h) == proc[h].pc = "write"
HashBy(h)  == HashOf[proc[h].image]

OnceInv ==
  /\ WrittenOnce
  /\ \A p \in Places : HashAt(p) \in dupdb \cup unrecorded
  /\ \A h \in Handlers : Writing(h) =>
       /\ HashBy(h) \in dupdb \cup unrecorded
       /\ HashBy(h) \notin unrecorded =>
            /\ \A p \in Places : HashAt(p) # HashBy(h)
            /\ \A g \in Handlers : Writing(g) /\ HashBy(g) = HashBy(h) => g = h

(* Opening a file adds no place, appending a record adds one.              *)
LEMMA PlacesOpened ==
  ASSUME TypeOK, files' = Opened
  PROVE  \A p \in Places' : p \in Places /\ HashAt(p)' = HashAt(p)
<1> TAKE p \in Places'
<1>1. p[1] \in 1 .. Len(Opened) /\ p[2] \in 1 .. MaxRecords /\ p[2] <= Len(Opened[p[1]])
      /\ p = <<p[1], p[2]>>
  BY DEF Places
<1>2. CASE Opened[p[1]] = <<>>
  <2>1. Len(Opened[p[1]]) = 0
    BY <1>2
  <2> QED BY <1>1, <2>1, DiskAssumption
<1>3. CASE p[1] \in 1 .. Len(files) /\ Opened[p[1]] = files[p[1]]
  BY <1>1, <1>3 DEF Places, HashAt
<1> QED BY <1>1, <1>2, <1>3, OpenedFacts

(* Writing a record to the target file adds one place, at its end, and     *)
(* leaves the hashes at all others.                                        *)
LEMMA PlacesExtended ==
  ASSUME TypeOK, NEW r \in Record, files' = Extended(r)
  PROVE  \A p \in Places' :
           \/ p \in Places /\ HashAt(p)' = HashAt(p)
           \/ p = <<Target, Len(Opened[Target]) + 1>> /\ HashAt(p)' = HashOf[r.image]
<1> TAKE p \in Places'
<1>1. /\ Opened \in Seq(Seq(Record)) /\ Target \in 1 .. Len(Opened)
      /\ Len(files') = Len(Opened)
      /\ files'[Target] = Append(Opened[Target], r)
      /\ \A f \in 1 .. Len(Opened) : f # Target => files'[f] = Opened[f]
  BY OpenedFacts, ExtendedFacts
<1>2. p[1] \in 1 .. Len(Opened) /\ p[2] \in 1 .. MaxRecords /\ p[2] <= Len(files'[p[1]])
      /\ p = <<p[1], p[2]>>
  BY <1>1 DEF Places
<1>3. ASSUME p[2] <= Len(Opened[p[1]]), files'[p[1]][p[2]] = Opened[p[1]][p[2]]
      PROVE  p \in Places /\ HashAt(p)' = HashAt(p)
  <2>1. p[1] \in 1 .. Len(files) /\ Opened[p[1]] = files[p[1]]
    BY <1>2, <1>3, OpenedFacts, DiskAssumption
  <2> QED BY <1>2, <1>3, <2>1 DEF Places, HashAt
<1>4. CASE p[1] # Target
  BY <1>1, <1>2, <1>3, <1>4
<1>5. CASE p[1] = Target
  <2>1. Opened[Target] \in Seq(Record) /\ Len(Opened[Target]) \in Nat
    BY <1>1
  <2>2. p[2] <= Len(Opened[Target]) \/ p[2] = Len(Opened[Target]) + 1
    BY <1>1, <1>2, <1>5, <2>1, DiskAssumption
  <2>3. CASE p[2] <= Len(Opened[Target])
    BY <1>1, <1>2, <1>3, <1>5, <2>1, <2>3, DiskAssumption
  <2>4. CASE p[2] = Len(Opened[Target]) + 1
    <3>1. files'[p[1]][p[2]] = r
      BY <1>1, <1>5, <2>1, <2>4
    <3> QED BY <1>2, <1>5, <2>4, <3>1 DEF HashAt
  <2> QED BY <2>2, <2>3, <2>4
<1> QED BY <1>4, <1>5

(* A step that adds no place and reserves no hash keeps the invariant.     *)
LEMMA OnceQuiet ==
  ASSUME OnceInv, UNCHANGED <<dupdb, unrecorded>>,
         \A p \in Places' : p \in Places /\ HashAt(p)' = HashAt(p),
         \A h \in Handlers : Writing(h)' => Writing(h) /\ proc'[h] = proc[h]
  PROVE  OnceInv'
BY DEF OnceInv, WrittenOnce, HashBy

(* The goroutine that has reserved a hash writes its record and lets go.   *)
LEMMA OnceWritten ==
  ASSUME OnceInv, UNCHANGED <<dupdb, unrecorded>>,
         NEW h \in Handlers, Writing(h),
         \A p \in Places' : \/ p \in Places /\ HashAt(p)' = HashAt(p)
                           \/ /\ p = <<Target, Len(Opened[Target]) + 1>>
                              /\ HashAt(p)' = HashBy(h),
         \A g \in Handlers : Writing(g)' => g # h /\ Writing(g) /\ proc'[g] = proc[g]
  PROVE  OnceInv'
BY DEF OnceInv, WrittenOnce, HashBy

(* Every step keeps the invariant.                                         *)
LEMMA OnceStep == TypeOK /\ OnceInv /\ [Next]_vars => OnceInv'
<1> SUFFICES ASSUME TypeOK, OnceInv, [Next]_vars PROVE OnceInv'
  OBVIOUS
<1>p. proc \in [Handlers -> Proc]
  BY DEF TypeOK
<1>f. ASSUME NEW h \in Handlers, Finish(h)
      PROVE  \A g \in Handlers : Writing(g)' => g # h /\ Writing(g) /\ proc'[g] = proc[g]
  BY <1>p, <1>f DEF Finish, Writing, Idle
<1>s. ASSUME UNCHANGED files PROVE \A p \in Places' : p \in Places /\ HashAt(p)' = HashAt(p)
  BY <1>s DEF Places, HashAt
<1>w. ASSUME NEW h \in Handlers, PartialWrite(h), UNCHANGED <<dupdb, unrecorded>>,
             \A g \in Handlers : Writing(g)' => g # h /\ Writing(g) /\ proc'[g] = proc[g]
      PROVE  OnceInv'
  <2> DEFINE r == [image |-> proc[h].image, whole |-> FALSE]
  <2>1. r \in Record /\ Writing(h)
    BY <1>w DEF PartialWrite, TypeOK, Record, Writing
  <2>2. CASE files' = Opened
    BY <1>w, <2>2, PlacesOpened, OnceQuiet
  <2>3. CASE files' = Extended(r)
    <3>1. \A p \in Places' :
           \/ p \in Places /\ HashAt(p)' = HashAt(p)
           \/ p = <<Target, Len(Opened[Target]) + 1>> /\ HashAt(p)' = HashOf[r.image]
      BY <2>1, <2>3, PlacesExtended
    <3>2. HashOf[r.image] = HashBy(h)
      BY DEF HashBy
    <3>3. \A p \in Places' : \/ p \in Places /\ HashAt(p)' = HashAt(p)
                            \/ /\ p = <<Target, Len(Opened[Target]) + 1>>
                               /\ HashAt(p)' = HashBy(h)
      BY <3>1, <3>2
    <3> QED BY <1>w, <2>1, <3>3, OnceWritten
  <2> QED BY <1>w, <2>2, <2>3 DEF PartialWrite
<1>1. CASE UNCHANGED vars
  BY <1>1, <1>s, OnceQuiet DEF vars, Writing
<1>2. ASSUME NEW h \in Handlers, NEW im \in Images, Upload(h, im) PROVE OnceInv'
  <2>1. \A g \in Handlers : Writing(g)' => Writing(g) /\ proc'[g] = proc[g]
    BY <1>2, <1>p DEF Upload, Writing
  <2> QED BY <1>2, <1>s, <2>1, OnceQuiet DEF Upload
<1>3. ASSUME NEW h \in Handlers, IsDup(h) PROVE OnceInv'
  <2>1. CASE Finish(h) /\ UNCHANGED <<dupdb, unrecorded>>
    BY <1>3, <1>f, <1>s, <2>1, OnceQuiet DEF IsDup
  <2>2. CASE /\ HashBy(h) \notin dupdb
             /\ proc' = [proc EXCEPT ![h].pc = "write"]
             /\ \/ dupdb' = dupdb \cup {HashBy(h)} /\ UNCHANGED unrecorded
                \/ unrecorded' = unrecorded \cup {HashBy(h)} /\ UNCHANGED dupdb
    <3>1. \A p \in Places' : p \in Places /\ HashAt(p)' = HashAt(p)
      BY <1>3, <1>s DEF IsDup
    <3>2. \A g \in Handlers : /\ HashBy(g)' = HashBy(g)
                              /\ Writing(g)' => g = h \/ Writing(g)
      BY <1>p, <2>2 DEF Writing, HashBy, Proc
    <3> QED BY <2>2, <3>1, <3>2 DEF OnceInv, WrittenOnce
  <2> QED BY <1>3, <2>1, <2>2 DEF IsDup, HashBy
<1>4. ASSUME NEW h \in Handlers, EncodeFails(h) \/ CreateFails(h) PROVE OnceInv'
  BY <1>4, <1>f, <1>s, OnceQuiet DEF EncodeFails, CreateFails
<1>5. ASSUME NEW h \in Handlers, WriteRecord(h) PROVE OnceInv'
  <2> DEFINE r == [image |-> proc[h].image, whole |-> TRUE]
  <2>1. r \in Record /\ Writing(h) /\ files' = Extended(r)
        /\ UNCHANGED <<dupdb, unrecorded>> /\ Finish(h)
    BY <1>5 DEF WriteRecord, TypeOK, Record, Writing
  <2>2. \A p \in Places' :
         \/ p \in Places /\ HashAt(p)' = HashAt(p)
         \/ p = <<Target, Len(Opened[Target]) + 1>> /\ HashAt(p)' = HashOf[r.image]
    BY <2>1, PlacesExtended
  <2>3. HashOf[r.image] = HashBy(h)
    BY DEF HashBy
  <2>4. \A p \in Places' : \/ p \in Places /\ HashAt(p)' = HashAt(p)
                          \/ /\ p = <<Target, Len(Opened[Target]) + 1>>
                             /\ HashAt(p)' = HashBy(h)
    BY <2>2, <2>3
  <2> QED BY <1>f, <2>1, <2>4, OnceWritten
<1>6. ASSUME NEW h \in Handlers, WriteFails(h) PROVE OnceInv'
  BY <1>6, <1>f, <1>w DEF WriteFails
<1>7. CASE Crash
  <2>1. \A g \in Handlers : ~Writing(g)'
    BY <1>7 DEF Crash, Writing, Idle
  <2> QED BY <1>7, <1>s, <1>w, <2>1, OnceQuiet DEF Crash
<1> QED BY <1>1, <1>2, <1>3, <1>4, <1>5, <1>6, <1>7 DEF Next

(* Uploads of the same image at the same time, and uploads after a crash   *)
(* or a failed write, never put a second record of its hash into the       *)
(* archive, as long as the dup database stores what it is given.           *)
THEOREM HashesWrittenOnce == Spec => []WrittenOnce
<1>1. Init => OnceInv
  BY DEF Init, OnceInv, WrittenOnce, Places, Writing, Idle
<1>2. OnceInv => WrittenOnce
  BY DEF OnceInv
<1> QED BY <1>1, <1>2, OnceStep, ArchiveTypeCorrect, PTL DEF Spec
=============================================================================
