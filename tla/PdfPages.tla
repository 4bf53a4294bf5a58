------------------------------ MODULE PdfPages ------------------------------
(***************************************************************************)
(* PdfToPng of draw/drawsub.go: pdftoppm writes the pages of a PDF to its  *)
(* standard output, each after a field with its size; the goroutine        *)
(* pngPageReader takes them from the pipe while the caller is in cmd.Run.  *)
(* Run waits for the process and then closes the pipe, whether or not the  *)
(* goroutine has read all of it.                                           *)
(***************************************************************************)
EXTENDS Integers, FiniteSetsExt, SequencesExt

CONSTANTS Documents,  \* PDFs, each the sequence of the lengths of its pages
          Base,       \* values of a byte, 256
          Width,      \* bytes of a size field, 8
          PipeSize    \* bytes the pipe holds

ASSUME SizesAssumption == Base \in Nat \ {0, 1} /\ Width \in Nat \ {0} /\ PipeSize \in Nat \ {0}

Power[k \in Nat] == IF k = 0 THEN 1 ELSE Base * Power[k - 1]

(* A page is shorter than the lower half of a size field can say, which    *)
(* the reader relies on to tell the two byte orders apart.                 *)
ASSUME DocumentsAssumption ==
  \A d \in Documents : d \in Seq(0 .. Power[Width \div 2] - 1)

VARIABLES doc,       \* the PDF
          bigEndian, \* how this pdftoppm writes a size
          process,   \* pdftoppm: "running", "ok" or "failed" (its exit status)
          sent,      \* bytes pdftoppm has written
          got,       \* bytes pngPageReader has read
          open,      \* the read end of the pipe is open
          reader,    \* pngPageReader: r and what it is reading
          pchan,     \* the channel pchan
          cancelled, \* ctx is done
          caller     \* PdfToPng: where it is, and what it has returned

pdfVars == <<doc, bigEndian, process, sent, got, open, reader, pchan, cancelled, caller>>

(* A byte of a page is named by the page and its place in it.              *)
Byte == (0 .. Base - 1) \cup (Nat \X Nat)
Page(i, n) == [k \in 1 .. n |-> <<i, k>>]
Pages(d)   == [i \in DOMAIN d |-> Page(i, d[i])]

(* binary.BigEndian.Uint64 and binary.LittleEndian.Uint64.                 *)
Big(f) ==
  LET n[k \in 0 .. Len(f)] == IF k = 0 THEN 0 ELSE n[k - 1] * Base + f[k]
  IN  n[Len(f)]
Little(f) == Big(Reverse(f))

(* The size field of a page of n bytes, in the order of the machine.       *)
Field(n) ==
  LET digits == [k \in 1 .. Width |-> (n \div Power[Width - k]) % Base]
  IN  IF bigEndian THEN digits ELSE Reverse(digits)

(* What is written of the first k pages.                                   *)
Written ==
  LET w[k \in 0 .. Len(doc)] ==
        IF k = 0 THEN <<>> ELSE w[k - 1] \o Field(doc[k]) \o Page(k, doc[k])
  IN  w
Stream == Written[Len(doc)]

(* The reader takes the smaller of the two readings.                       *)
PngLen(field) == Min({Big(field), Little(field)})

Read(pages) == [pc |-> "size", buf |-> <<>>, need |-> Width, pages |-> pages, err |-> FALSE]
Running == [pc |-> "run", pages |-> <<>>, err |-> FALSE]

PdfInit ==
  /\ doc \in Documents /\ bigEndian \in BOOLEAN
  /\ process = "running" /\ sent = 0 /\ got = 0 /\ open = TRUE
  /\ reader = Read(<<>>)
  /\ pchan = <<>> /\ cancelled = FALSE /\ caller = Running

-----------------------------------------------------------------------------
(* pdftoppm.  It blocks while the pipe is full, and it may fail anywhere.  *)
Write ==
  /\ process = "running" /\ sent < Len(Stream) /\ sent - got < PipeSize
  /\ sent' = sent + 1
  /\ UNCHANGED <<doc, bigEndian, process, got, open, reader, pchan, cancelled, caller>>

PdftoppmExit ==
  /\ process = "running"
  /\ \/ sent = Len(Stream) /\ process' = "ok"
     \/ process' = "failed"
  /\ UNCHANGED <<doc, bigEndian, sent, got, open, reader, pchan, cancelled, caller>>

(* The request is gone: CommandContext kills the process.                  *)
Cancel ==
  /\ ~cancelled /\ cancelled' = TRUE
  /\ process' = IF process = "running" THEN "failed" ELSE process
  /\ UNCHANGED <<doc, bigEndian, sent, got, open, reader, pchan, caller>>

-----------------------------------------------------------------------------
(* io.ReadFull of a field or a page: a read gives what there is, at most   *)
(* what is needed.                                                         *)
Take ==
  /\ reader.pc \in {"size", "page"} /\ open
  /\ \E n \in 1 .. Min({reader.need - Len(reader.buf), sent - got}) :
       /\ reader' = [reader EXCEPT !.buf = @ \o SubSeq(Stream, got + 1, got + n)]
       /\ got' = got + n
  /\ UNCHANGED <<doc, bigEndian, process, sent, open, pchan, cancelled, caller>>

Send(err) == reader' = [reader EXCEPT !.pc = "send", !.err = err]

(* A field that is read says how long the page is; a page that is read is  *)
(* appended.                                                               *)
Full ==
  /\ reader.pc \in {"size", "page"} /\ Len(reader.buf) = reader.need
  /\ reader' = IF reader.pc = "size"
               THEN [reader EXCEPT !.pc = "page", !.buf = <<>>, !.need = PngLen(reader.buf)]
               ELSE Read(Append(reader.pages, reader.buf))
  /\ UNCHANGED <<doc, bigEndian, process, sent, got, open, pchan, cancelled, caller>>

(* The end of the stream: io.EOF or io.ErrUnexpectedEOF.  Where a field    *)
(* should be, both are the end of the pages.                               *)
AtEnd ==
  /\ reader.pc \in {"size", "page"} /\ Len(reader.buf) < reader.need
  /\ open /\ sent = got /\ process # "running"
  /\ Send(reader.pc = "page")
  /\ UNCHANGED <<doc, bigEndian, process, sent, got, open, pchan, cancelled, caller>>

(* Mutant: a closed pipe read as the end of the pages.                     *)
ClosedIsEnd ==
  /\ reader.pc \in {"size", "page"} /\ Len(reader.buf) < reader.need
  /\ ~open /\ Send(reader.pc = "page")
  /\ UNCHANGED <<doc, bigEndian, process, sent, got, open, pchan, cancelled, caller>>

(* Run has closed the pipe: os.ErrClosed.                                  *)
Closed ==
  /\ reader.pc \in {"size", "page"} /\ Len(reader.buf) < reader.need
  /\ ~open /\ Send(TRUE)
  /\ UNCHANGED <<doc, bigEndian, process, sent, got, open, pchan, cancelled, caller>>

(* Mutant: a channel without a buffer.                                     *)
RoomUnbuffered == caller.pc = "select"

(* pchan has room for one result.                                          *)
Room == Len(pchan) < 1

Deliver ==
  /\ reader.pc = "send" /\ Room
  /\ pchan' = Append(pchan, [pages |-> reader.pages, err |-> reader.err])
  /\ reader' = [reader EXCEPT !.pc = "end"]
  /\ UNCHANGED <<doc, bigEndian, process, sent, got, open, cancelled, caller>>

-----------------------------------------------------------------------------
(* Run waits for the process, closes the pipe and looks at the status.     *)
Wait ==
  /\ caller.pc = "run" /\ process # "running"
  /\ open' = FALSE
  /\ caller' = IF process = "ok" THEN [caller EXCEPT !.pc = "select"]
               ELSE [caller EXCEPT !.pc = "returned", !.err = TRUE]
  /\ UNCHANGED <<doc, bigEndian, process, sent, got, reader, pchan, cancelled>>

Receive ==
  /\ caller.pc = "select" /\ pchan # <<>>
  /\ caller' = [pc |-> "returned", pages |-> Head(pchan).pages, err |-> Head(pchan).err]
  /\ pchan' = Tail(pchan)
  /\ UNCHANGED <<doc, bigEndian, process, sent, got, open, reader, cancelled>>

Abandon ==
  /\ caller.pc = "select" /\ cancelled
  /\ caller' = [caller EXCEPT !.pc = "returned", !.err = TRUE]
  /\ UNCHANGED <<doc, bigEndian, process, sent, got, open, reader, pchan, cancelled>>

PngPageReader == Take \/ Full \/ AtEnd \/ Closed \/ Deliver
PdfToPng == Wait \/ Receive \/ Abandon

PdfNext == Write \/ PdftoppmExit \/ Cancel \/ PngPageReader \/ PdfToPng

PdfSpec == PdfInit /\ [][PdfNext]_pdfVars

(* Goroutines that can run do, and pdftoppm writes on and ends.            *)
PdfFair == PdfSpec /\ WF_pdfVars(Write) /\ WF_pdfVars(PdftoppmExit) /\ WF_pdfVars(PngPageReader) /\ WF_pdfVars(PdfToPng)

-----------------------------------------------------------------------------
(* A PdfToPng that returns without an error returns every page of the PDF, *)
(* whole and in order, however the end of pdftoppm, the closing of the     *)
(* pipe and the reader's last reads fell (drawsub.go:204-274).             *)
CompleteOrError ==
  caller.pc = "returned" /\ ~caller.err => caller.pages = Pages(doc)

(* PdfToPng returns, and its goroutine ends even when nobody is there to   *)
(* take its result, so that no request leaks one (drawsub.go:257-273).     *)
PageReaderEnds == <>(caller.pc = "returned" /\ reader.pc = "end")
=============================================================================
