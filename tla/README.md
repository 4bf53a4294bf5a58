# Verification of ballotstudio

TLA+ models of the ballotstudio server, the TLC runs that check them on small
instances, and theorems about them that TLAPS checks for every instance.
Paths are relative to the repository (`src/`); `cs/` is `src/cmd/ballotstudio/`.
`PROJECT.json` gives, for every definition, the lines it models.

## 1. Inventory

Ballotstudio lets logged-in users edit an election as a JSON document, draws
it as a PDF ballot with the positions of its bubbles, and reads scanned
ballots back. A Go server (`cs/`) keeps the documents in sqlite or PostgreSQL,
has a Flask process (`python/ballotstudio/app.py`) lay the ballot out and
draw it, turns PDF pages into PNG with `pdftoppm`, and caches both.

| Component | State | Operations | Interacts with | Hard behaviour | What makes it correct |
|---|---|---|---|---|---|
| Request handlers (`cs/main.go`, `cs/scan.go`) | none of their own; one goroutine a request | GET of a document, PDF, bubbles, page image, header image; POST of a document or a scan | elections table, render cache, draw server, pdftoppm, archive, scanner | every call between two shared-state operations is a gap in which other requests run | cached renderings belong to the stored document; a reply combines parts of one document; only the owner rewrites an election |
| Elections table (`cs/db.go`) | rows (id, owner, document) | `GetElection`, `PutElection` | the SQL server, whose answer may be lost | check and update are separate statements | rows and owners survive |
| Render cache (`cs/cache.go`) | `byKey`, heap of access times, `currentSize`, `ai` | `Put`, `Get`, `Invalidate` | called by all request goroutines, no lock | indices kept inside heap entries, unsigned byte count, eviction | the keyed store its callers expect; the byte count covers the contents |
| Invitations (`cs/invite.go`, `cs/db.go`) | `invites` table, cookies in browsers | make, open, sign up (peek, create the user, use), collect garbage | login library, database locks | three transactions in a sign-up; two databases with different locks; a GC goroutine; crashes | an invitation makes one account, is not lost, does not outlive its time |
| Id fixup (`data/election.go`) | per call: ids seen, sequences; shared by all calls: `tsmap` | `Fixup` | every GET and POST of a document | `tsmap` is written by request goroutines without a lock | ids unique within a type, good ids untouched, the call ends |
| Image archive (`cs/imagearchive.go`) | dup database, archive files, open file, byte count | `ArchiveImage` on a goroutine per scan | disk, nutsdb | lock released between recording a hash and writing the image; torn writes; crashes | each image archived once and readable |
| Draw server client (`draw/drawsub.go`) | the subprocess, its pipes | `Start`, `Stop`, `EnsureBackend`, `DrawElection`, `PdfToPng` | Flask process, pdftoppm | reader goroutine racing `Wait`; start-up polling | every page is delivered; a failed start leaves no process behind |
| Server life cycle (`cs/main.go`) | listener, backend, GC goroutine, signal channel | start, SIGTERM, shutdown | the draw server and other processes on the same ports | `log.Fatal` skips deferred calls; requests in flight; a second process | what a failed start has started is stopped; a backend that answered stays; SIGTERM ends the process |
| Scanner (`scan/`) | `Scanner`: the page and its hotspots; `ScanContext`: threshold, points of the top line, the last image and the last transform | `SetOrigImage`, `ProcessScannedImage`, `CheckPage` | called per scan and, for a header, per page of the election | searches over a flat array of pixels; a random search; a transform that is remembered | searches end; the edge found is the first; the corners are those of the line; the transform belongs to the image it is applied to |
| Flask application (`app.py`, `cache.py`) | its own elections table, cache with a TTL and a thread | first-request set-up, POST and GET of elections, `/draw` | called by `drawsub.go`, or by browsers when run alone | first requests at once, a crash during set-up, cache filled before the table | the cache agrees with the table; set-up is all or nothing |
| Ballot layout (`draw.py`) | columns and pages being filled | place contests, break columns and pages | called by `app.py` | contests that do not fit | every bubble on one page, none overlapping |
| Editor (`static/index.js`, `static/scan.js`) | the document in the page, object cache, id sequences | edit, save, load, CSV import | POSTs to the handlers | saves in flight | what is shown is what was saved |
| Template set (`cs/templateset.go`) | map of parsed templates | `Lookup` with reload | request goroutines | map written without a lock | a reader gets a parsed template |
| Login and users (external library) | users, sessions | `PutNewUser`, cookies | invitations, handlers | a name can be taken meanwhile | (taken as given) |
| Example generators, `imdev`, `er`, `texttosource` | none that lasts | command-line drivers | - | none | - |

The hazards of the code, each at its line and with the properties that would
catch it, are listed in `PROJECT.json` under "hazards".

## 2. Plan

Order: what a user would lose first came first.

1. The render cache and its contract (`CacheContract`, `CacheSpec`,
   `RenderCache`), and the request handlers composed with it (`Studio`).
2. Invitations (`Invites`), id fixup (`IdFixup`), image archive
   (`ImageArchive`).
3. The Flask application: set-up in the first request (`FlaskSetUp`), the
   table, the cache and the making of the cache (`FlaskCache`).
4. The draw server: from start to SIGTERM (`LifeCycle`), and the page reader
   that races `Wait` (`PdfPages`).
5. The scanner: `TopLine` and `Hotspots`, composed by `ScanContext`.

All of these are written. What is left out, and why, is section 7. The
parameters of every module are CONSTANTS with named assumptions, and no module
uses a RECURSIVE operator.

## 3. Modules

### CacheContract, CacheSpec, RenderCache: `cs/cache.go`

`CacheContract` says what a caller of the cache may see, as operators on a
keyed store: the outcomes of `Get` and `Put` (return or panic, with the store
left behind) and what `Invalidate` does. `CacheSpec` makes a specification of
them. `RenderCache` is the code: the map, the slice of the heap with
`container/heap`'s sift-up, sift-down and `Fix`, the `seeni` index that only
`Swap` maintains, the unsigned byte count and the eviction loop. A panic
leaves behind what the call had done. Calls are atomic here; what unlocked
calls do to each other is in `Studio`. Data is represented by the access
number at which `Put` stored it.

### Studio: `cs/main.go`, `cs/scan.go` over `cs/db.go`

One process per request goroutine, one action per call that touches shared
state: `PdfGet`, `PdfRead`, `PdfDraw`, `PdfPut` are `getPdf`; `PngGet`,
`Raster`, `PngPut` are `getPng`, which calls `getPdf` in between; `CheckOwner`,
`Update`, `InvalPdf`, `InvalPng` are `handleElectionDocPOSTJson`. A document is
a member of `Docs` and a rendering is represented by the document it was drawn
from. Cache keys are the digits of the URL: `IdOf` maps several `Names` to one
row. Every database call may fail, and an UPDATE may be applied with its
answer lost. Cache operations are those of `CacheContract`; one that runs
while another goroutine is at a cache operation may be lost, since the cache
has no lock. Three histories say what the properties exclude: `overlap` (this
read and a save of its row were in flight together), `blind` (the row was
overwritten by a save whose ownership check saw no row), and `raced`: a stale
rendering may stay under this name. A name becomes raced when

* a read that overlapped a save stores what it drew;
* a save changes the row while something is cached under the name, and was made
  under another spelling of the number, or its UPDATE was applied and the
  answer lost, so that the handler returns before its `Invalidate` calls;
* the delete of an `Invalidate` is lost to another call of the cache.

It remains so until a save under the name invalidates, or a restart. Under a
raced name even a read that meets no save can serve stale renderings, or
bubbles and an image of two contents: the properties do not deny it.

### Invites: `cs/invite.go`, `cs/db.go`

Sign-up handlers, browsers with cookie jars, the clock, and the two databases:
`backend` is picked when the server starts, as by main's flags. On sqlite a
transaction holds the shared lock from its SELECT and the reserved lock from
its DELETE, and other writers fail; on PostgreSQL (read committed) a DELETE
locks the row it found, waits for others, and says nothing when the row is
gone by then. `GcPass` is one tick of `gcThread`, `GcPanics` its nil result
after a failed statement. `CanWrite` and `Locked` stand for the databases
themselves and are marked external. Forms, templates and the login session
are left out; `accounts` and `spent` are histories.

### IdFixup: `data/election.go`

Calls of `Fixup` on several goroutines over the one map `tsmap`. A document is
its set of typed nodes with ids; the walk visits them in any order (Go maps),
`Dup` is `checkSetSeen`, and `newId` is a lookup of the prefix, perhaps the
entry of a new `unk<i>_` prefix, and a loop that tries numbers. `MapRace` is
the Go runtime ending the process when it notices the unlocked writes.
`newId` looks at types one at a time, so the nesting of the document does not
matter to it.

### ImageArchive: `cs/imagearchive.go`

Uploads on their own goroutines: `IsDup` looks the hash up and records it under
the lock, and the write is a later step. `dupdb.Update` may fail (its error is
dropped), a file may not be created, a write may store part of a record, and
the process may die anywhere; the dup database and the files survive.

### FlaskSetUp, FlaskCache: `app.py`, `cache.py`

Flask serves each request on a thread. `FlaskSetUp` is `db()`, one action per
statement, or per group that sqlite commits together: `ReadMigrations`,
`ReadCount`, `CreateTables` or `Alter`, `Mark` (the INSERT and the commit),
`LookForDemo`, `PutDemo`. Any step may raise (`Fail`), the bare `except` of
the two SELECTs makes a failure read as no rows (`misread`), and the process
may die between any two (`Crash`). The file is one that does not exist yet or
one of the first version, with its demo in row 1. `cut` records that set-up
was cut short where it cannot be repeated.

`FlaskCache` is what requests do once `db()` has returned: `ReadRow`,
`UseCache`, `MakeCache`, `GetEntry`, `SetEntry` are `_bothob_core`, and a save
sets the cache (`SetEntry`) before it writes its row (`PutSaved`), a new
election after it (`InsertNew`). `mc()` makes the cache in two steps, so that
several `Cache` objects can exist; they are named by the thread that made
them. `Collect` is a round of `gcThread`. A report stands for the ballot drawn
from it, with the image that `election_png` adds to the entry. `/draw` (kind
"draw") sets an entry of the same cache under the key its client gives, which
may be an election's, and `/item` looks one up; under other keys they only make
the cache, as far as elections can tell. `raceAt` is the last time that requests
on an election interfered: the row was written between a request's own read (or
INSERT) and its set, or an entry was set between a save's set and its write, or
a save failed at its write, or `/draw` set the entry (`Blurs`).

### LifeCycle: `cs/main.go`, `draw/drawsub.go`

Several processes of ballotstudio, one after another or at once, with one port
for their listeners and one for their draw servers. `Start`, `PollAnswered` and
`PollFails` are `EnsureBackend`: a poll is answered by whoever has the port,
which need not be the draw server that was started (`answered` remembers). A
draw server is named by the main that started it and takes the port or ends
when it gets to it (`Bind`). `Stop` kills the process that was started. The code
starts it with `FLASK_ENV=development`, which for the versions of Flask before
2.3 means the reloader: the process that is killed is then the parent, and a
child that serves already keeps the port ("orphan"). No version of Flask is
fixed by the repository, so `Reloading` is any set of mains. `SetUpFails` is any `maybefail` up to the
listener, `Listen` and `ServeReturns` are `ListenAndServe` and the `log.Fatal`
around it, `TakeSignal` and `Shutdown` are `sigtermHandler`. `Exit` is the end
of a process, which leaves its draw server alone unless `Stop` was called:
neither `os.Exit` nor `log.Fatal` runs the deferred calls. Before
`signal.Notify` a SIGTERM ends the process by itself; SIGKILL may come at any
time (`Kill`).

### PdfPages: `PdfToPng` and `pngPageReader` of `draw/drawsub.go`

Three parties: pdftoppm (`Write`, `PdftoppmExit`, external), the reader goroutine
(`Take`, `Full`, `AtEnd`, `Closed`, `Deliver`), and the caller in `cmd.Run` and
the `select` after it (`Wait`, `Receive`, `Abandon`). The pipe holds `PipeSize`
bytes, a read takes any part of what there is, and `Wait` closes the read end
whether or not the goroutine has read everything. What pdftoppm writes of the
first k pages is `Written[k]`; size fields are digits in either byte order and
are decoded as the code does, by the smaller value. `DocumentsAssumption` keeps
a page below the square root of what a field can say (2^32 of 2^64), without
which the smaller value can be the wrong one.

### TopLine, Hotspots, ScanContext: `scan/scan.go`, `scan/header.go`

`TopLine` is `otsuThreshold`, `yTopLineFind`, `linePoints` and
`topLineYCbCr`: columns are probed from left to right (`StartColumn`, `Slide`,
one row a step, `Probe`), a line is fitted and points that are off it are
dropped until none is (`LinePoints`, `Near`), and two walks go out along the line
(`WalkOn`, `LeftEnd`, `RightEnd`). Pixels are an array indexed by
`Stride * y + x`, as in the code: a column beyond the row reads its neighbour,
and an offset outside the array is a panic. The fit is done in integers, which
is exact; the code's floating point differs only in ties. Of the levels that
Otsu's method compares, any may win. `Hotspots` is `findImageHotspots`: one
random place a step, and the insertion into the list of the best in steps of
one exchange; what the code calls the quality of a place is a parameter, and
negative when the place shows nothing. `ScanContext` composes them as
`SetOrigImage`, `CheckPage` (`Search` or `Skip`, then `Compare`) and
`ProcessScannedImage` (then `Refine`) do; a transform is represented by the
image it was found on.

### Proof modules and MC modules

`StudioProofs`, `InvitesProofs`, `ImageArchiveProofs`, `FlaskSetUpProofs`,
`FlaskCacheProofs` and `ScanProofs` hold the theorems about the module they are
named for, `DocumentProofs` those about `IdFixup`, `RenderCache`, `LifeCycle`
and `PdfPages`, which it EXTENDS together: their specifications, type
invariants and variables therefore have names of their own (`FixSpec`,
`LifeTypeOK`, `pdfVars`). `Induction` has what several of them need about
numbers, finite sets and recursive functions. The modules `MC...` give the
constants of the runs.
Definitions introduced by "Mutant:" are wrong variants of the definition below
them: replacing it by them makes the property they aim at fail, which shows
that the property sees the code.

## 4. Runs

Every passing run ends with all states explored. Deadlock is checked except in
the three runs of systems that do stop (PdfPages, LifeCycle, Scan: a call
returned, every process ended, a panic).

| Run | Instance | Shows |
|---|---|---|
| Studio | 1 reader, 2 savers, 1 name, 2 users, 2 documents | `CoherentUnlessRaced`: a cached rendering is of the stored document, except during a save's own invalidation and under raced names (overlap of read and save, lost answer, other spelling, lost cache call); `ReadsFresh`: under a name that is not raced, a read that met no save serves the stored document, and bubbles and page image of one reply belong together; `OwnerKept`; `SaveHeals`: a save that met nobody leaves nothing stale |
| RenderCache | 2 keys, sizes 1 and 3, room for 4, 6 accesses | the cache implements `CacheSpec`; no call panics before the first eviction; the byte count covers the contents |
| RenderCachePanic | as above | violated: `Put` panics whenever it has to evict |
| Invites | 3 sign-ups, 2 browsers, 1 invitation, both databases, time 0..3 | on sqlite an invitation is spent once; every spent one has an account of its own; no sign-up passes the check after it was spent; none is lost; PostgreSQL's GC collects |
| InvitesDoubleSpend | 2 sign-ups, PostgreSQL | violated: two transactions both answer ok for one invitation |
| Fixup | 2 calls, every document of 2 nodes over 3 types, 3 numbers | ids unique within a type; good ids kept; a call that no other overlaps ends |
| ArchiveUploads | 2 uploads, 3 images with 2 hashes, 2 files of 3 records | a hash is written once unless the dup database failed; a torn record is the last of its file |
| FlaskSetUp | 3 first requests, 2 rows, 2 reports, a new file or an old one | `UsableUnlessCut`: `db()` goes on accepting the file, unless a crash or an exception cut set-up short at the wrong place; `AppliedIfRecorded`; `DemoKeepsOut`: the demo never replaces a stored report |
| FlaskCache | 2 requests of any kind, 1 election, 2 reports, TTL 2, time 0..3 | `StaleBounded`: a drawing of another report, left by requests that interfered, a failed save or `/draw`, is served no longer than the TTL after them, and no read prolongs it |
| LifeCycle | 2 processes, one with a reloader, 1 request, 3 polls | `NoStrayBackend`: a start that fails or times out leaves no draw server behind and none comes up later, but for a reloader's child that serves already; `BackendStays`: a process keeps the draw server it started on, its own or another's, whatever other processes do, unless the start of that other one timed out; `SigtermEnds`: SIGTERM ends a process that listens for it, although its requests may never end |
| PdfPages | 5 documents of 0 to 3 pages, both byte orders, sizes of 2 digits to base 4, a pipe of 3 bytes | `CompleteOrError`: no page is lost without an error, however the end of pdftoppm, the close of the pipe and the last reads fall; `PageReaderEnds`: the call returns and its goroutine ends, also when nobody takes its result |
| Scan | 14 pictures of 26 x 12 pixels in any order, 2 hotspots of 2 draws each | `FirstEdge`: the sliding count is that of the block and the edge is the column's first; `CornersAtEnds`: the corners of a clean line are its ends to a step of the walk, despite blots, specks, gaps and smudges; `OwnTransform`: an image is aligned by a transform found on it unless its last search failed; `BestSpots`: the spots kept are the best of those drawn; `ScanEnds`: the searches end, if only in a panic |

**Bounds.** Races in these handlers are between two parties: a read and a save,
or two saves, and a third party (the second saver) disturbs both; two
documents tell stale from fresh; two users tell owner from other. The cache
run's six accesses fill the room for four bytes, evict, and go on with indices
that point beyond the heap; `Word` = 8 makes the byte count wrap. Three
sign-ups on one invitation cover a holder of each sqlite lock and one that is
shut out; time 3 reaches past the longer lifetime, so that rows expire while
transactions hold them. Two nodes suffice for a duplicate, and for two
unlisted types to need a prefix each. Three first
requests are one that is ahead, one that sqlite shuts out, and one that
stores a report meanwhile; of two requests on an election, each can be the
one that interferes, and time 3 reaches past an entry's expiry. Two processes
are one that has the ports and one that comes to them, with and without a
reloader; three polls let a draw
server come up before, between and after them. A pipe of three bytes is shorter
than a page with its field, so that pdftoppm blocks; base 4 in two digits has
sizes that differ when read in the other order. The pictures scale the code's
numbers (a block 10 rows high, probes every 25 columns, more than 20 points,
steps of 5) to 3, 3, 3 and 2; their rows are two pixels longer in memory than
the page, so that the walks beyond its edge meet padding, the next row, and the
ends of the array. Lines that touch the left and the right edge, that are too
short or too low, and blank, black and stark pages are among them.

The Studio run has one spelling of the row's number. That a save of
`/election/7` leaves what is cached for `/election/07` is in the model (`IdOf`
maps several names to a row) and in the theorems `Coherence` and `Healing`,
which have no bound on the names.

`MaxNumber`, `MaxOps`, `MaxTime`, `MaxAccounts`, `MaxFiles` and `MaxRecords`
are the only caps; each is a guard named where it is declared. The theorems
hold without the smallness.

**Symmetry** is used only in runs without liveness properties.

**Fairness.** `Invites!FairSpec`: Go's scheduler runs every goroutine that can
run and the ticker of `gcThread` keeps ticking; every database call returns
(with an error if need be). No fairness for restarts, clients or the clock.
`IdFixup!FixFair`: the scheduler runs every goroutine. It says nothing of new
requests.
`LifeCycle!LifeFair`: a main that was started and its signal handler go on;
nothing of requests, signals or draw servers. `PdfPages!PdfFair`: goroutines
that can run do, and pdftoppm writes what fits and ends. `ScanContext!FairSpec`:
each loop runs on, and, since places are drawn at random (`rand.Intn`), a place
with features is drawn again and again if the page has one: strong fairness of
`DrawFeature`.

## 5. Proofs

All are of the form `Spec => ...` and rest only on the assumptions the modules
name (`IdOfAssumption`, `NoneAssumption`, `BoundsAssumption`, ...), which say
what kind of value each parameter is, and which TLC evaluates in the runs. Four
say more, and each is a fact of the code: `RenderCache!FitAssumption` (a slice
and `MaxSize` together fit in a `uint64`, so that the count wraps only by
subtraction) and `KeysAssumption` (finitely many keys), `IdFixup!TypesAssumption`
(finitely many types, none with the made prefix of an absent one), and
`PdfPages!DocumentsAssumption` (a page is shorter than 2^32 bytes).

* **Induction.** The library's induction theorems take a predicate as an
  operator, which the provers here cannot instantiate. Stated about sets they
  can be used: a set with 0 and the successors of its members has every number
  (`Successors`, from the well-foundedness of <), a set of finite sets that is
  closed under adding an element has every finite set (`FiniteSubsets`), and a
  function given by its first value and its step exists (`Recursion`). To prove
  P for every number, the set is {n \in Nat : P(n)}. What recursive functions
  and folds of the modules compute rests on these.
* **Studio.** `TypeCorrect` is types, with what a busy goroutine always has.
  `Coherence` and `Freshness`: neither property is inductive. A read that is
  about to store an old document is harmless only because it has noticed the
  save that replaced it, so the strengthening `CoherenceInv` adds
  `OverlapMarked` (a read and a save of one row in flight together have both
  noticed) and `PdfGone` (a save that met nobody has already emptied the PDF
  entry when it turns to the page images). One lemma per kind of step.
  `Healing` uses the same invariant. `OwnersKept` needs `OwnerChecked`: a save
  that found its own user as the owner still does when it writes, since only
  such a save, or a blind one, writes a row.
* **RenderCache.** `Refinement`: initial states and steps map to `CacheSpec`
  with `store <- byKey`. The heap does not enter the argument; the invariant
  needed is that the access counter is a number that names the new entry.
  `PanicsOnlyOnceFull` is about the heap: until it has been full, every index of
  an entry is that of a slot (`Slots`), and every swap of a sift keeps that,
  which is an induction over the steps of `Up` and `Down`. `CountCovers`: `Put`
  changes one summand of the sum over the keys, and subtracts at most what is
  in the sum, so that the count does not wrap until the first eviction; with
  room left the bytes added stay below the word. `CacheTypeCorrect` holds past
  that point too.
* **Invites.** `InvitesTypeCorrect`; `SqliteSpendsOnce` from the strengthening
  `SpendInv`: whatever carries a token carries one that was made, a spent token
  has no row, and on sqlite a transaction keeps the row it read until its
  COMMIT (`RowKept`, from the file lock). `NoSignupIsLate` and `NothingLost`
  are action properties from the same invariant, for both databases. For
  `EverySpentHasAccount`, `PaidInv` adds that the sign-ups between their account
  and the end of `UseInviteToken` are finitely many, so that one that comes or
  leaves changes their number by one. `GcIsNotStarved` is what stands between
  an expired invitation and its removal: no sign-up begins to use it up any
  more, and each of those that had read it has a number of turns left that only
  falls, so that the statement of gcThread waits for finitely many of them.
* **IdFixup.** `FixupUnique`: every node already judged good is in `seen` with
  its type and id, and no two are, whatever other calls do to `tsmap`.
  `FixupGentle`: only nodes found wanting change, and a listed type's prefix
  never changes. `FixupTypeCorrect` needs that a call makes no more prefixes than
  there are types: each is for a type that had none and, since entries of `tsmap`
  never go away, never has none again (`Entered`, a count of a finite set).
  `FixupIsFinite` is about a call with a document of n nodes that no other call
  disturbs (`Undisturbed`: nobody enters a prefix under it, whatever had been
  entered before): while it is not over it has a next step, and it takes at most
  n(n + 5) + n + 3 of them. The ids tried for one node are distinct numbers of
  one prefix and each is in `seen`, which holds no more pairs than nodes, so that
  after n of them the next is new (`NextIdIsNew`, a pigeonhole). Its hypotheses
  are that the nodes are finitely many and no more than the numbers the model
  counts to.
* **ImageArchive.** `TornRecordsLast`: a file with a torn record is not the
  open one. `HashesWrittenOnce`: of each hash at most one place or one pending
  write exists, unless it could not be recorded.
* **FlaskSetUp.** The invariant follows a thread through `db()`: whoever is
  past the INSERT into migrations finds it marked, whoever is about to mark
  has the tables (`Tables`), and while there is no row at most one thread is
  past the INSERT (`Alone`), which is why the demo finds row 1 empty
  (`DemoIsGentle`) and the file stays usable (`FileStaysUsable`).
* **FlaskCache.** `StaleIsBounded`: what may be said of an entry depends on
  the request that will set it or write its row, so the invariant adds what
  each request relies on while no other has interfered (`Fresh`): the drawing
  a read will set is the row's, the row a save will write is the cache's, and
  a save that holds a cache which the global no longer names meets no entry in
  the new one. `/draw` relies on nothing: what it sets counts as interference.
* **LifeCycle.** `LifeInv`: a main that is new has started nothing; how a main
  ended is said exactly when it has; one whose start failed or timed out has no
  draw server but a reloader's child, and `Bind` cannot bring up one later.
  `NoneStrays` and `BackendKept` follow, the latter because the port goes only
  with the draw server that holds it, and that is stopped only by the main that
  started it, when its start times out. What a main that ends past its start, by
  `log.Fatal` or a signal, leaves running is in neither theorem. `SigtermLeadsOut`: a main to which a SIGTERM was sent, or
  whose handler took one, is at most four steps of itself or its handler from
  its end, one of them can always be taken (`CalledIsNotStuck`; TLC confirms
  that the guards written out there are those of the actions), and no step of
  another process adds to them.
* **PdfPages.** `PagesComplete` has three parts. Numbers: `PowerIs`, `DivDiv` and
  `BigOfDigits` say that the digits of a number have its value, and
  `LittleOfDigits` that the digits of a number below `Power[Width \div 2]`,
  read the other way round, have no smaller value, so that the reader finds the
  size whatever the order of its bytes (`SizeIsRead`). The stream: `StreamHas`
  says where the field and the bytes of each page are in it, since what has
  been written stays at its place (`WrittenGrows`, an induction over the pages).
  The parties: `PdfInv` says that the reader's pages are the first of the PDF
  and what it holds of the next is the stream up to where it is (`Reading`),
  and that a result without an error exists only when pdftoppm has ended and,
  if it ended well, has all pages (`Sound`). A full field cannot be beyond the
  last page (`FieldRead`), and an end of the stream in place of a field cannot
  be before it (`EndIsWhole`). `CallIsFinite`: every step of the caller, the
  reader or pdftoppm uses up some of a number (`Left`); `PdfNeverStuck`: while a
  call is going on one of them can go on, so that they never all wait for each
  other.
* **Scan.** `FirstEdgeFound`: that the count is exact needs that the dark
  pixels of the block are those of its upper rows and its last row, which are
  disjoint (`DarkAdds`, `DarkSlides`); that the edge is the first needs that
  every block above was refused on an exact count. `EdgeInv` carries both, for
  pictures of any size and content. `TransformIsOwn`: `ContextInv` says that a
  search in progress is for the target, that a transform is that of the target
  unless the last search failed, and that no call is in progress while the
  context is idle. `HotspotsAreBest`: the list is sorted by quality but for the
  spot that is moving up, and of every place as many draws are kept as were
  made, or the list is full of spots at least as good (`Counted`); one exchange
  changes the number of kept draws of two places by one (`CountExcept`).
  `ScanTypeCorrect` adds that points are found in the order of their columns.
  `HotspotsAreFinite`: beside draws of places without features, the search for
  hotspots takes a bounded number of steps. `SearchIsFinite`: every step of the
  search for a line leaves less work, in the lexicographic order of phases,
  columns or points, and rows, which is well-founded (`WorkRunsOut`).
  `CornersEndTheLine`: a corner is the last column of its walk whose first edge
  is on the line. `CornersWithinAStep`: if the columns of the walks meet the
  printed line as far as it goes and no farther (`Meets`), those are its ends to
  less than a step, for lines of any slant; `Meets` holds of all clean pictures
  of the Scan run. `LevelLineFound` is `CornersAtEnds`, with no premise on the
  search, for every picture of a level line (`LevelLine`): the points are then
  exactly the printed columns that are probed, more than `MinPoints`; the least
  squares line through points of one row is that row (`LineAlongRow`, which needs
  what sums of equal numbers and of squares are, and that `gcd` is defined),
  nothing deviates from it, so no point is dropped, and an edge is on the line
  just where it is printed. Of the run's pictures `straight` and `smudged` are
  such lines.

**Only model-checked.** That something happens under fairness, and ENABLED, are
out of the prover's reach: `PostgresCollects`, `AloneReturns`, `SigtermEnds`,
`PageReaderEnds` and `ScanEnds` stay with TLC. What they rest on is proved for
every instance: that there is only finitely much to do and, of a call of Fixup, a
main that is to end and a call of PdfToPng, that some step can do it
(`GcIsNotStarved`, `FixupIsFinite`, `SigtermLeadsOut`, `CallIsFinite`,
`PdfNeverStuck`, `SearchIsFinite`, `HotspotsAreFinite`). `CornersAtEnds` is a
theorem for level lines; that a slanted, blotted or broken line is found at all
depends on what least squares makes of its pixels, and for the run's pictures of
such lines TLC says so. The properties of the two runs that expect a violation
do not hold. Every other property of a run is a theorem.

## 6. Deviations met while modelling

Checked, by the runs marked violated above: eviction panics
(`cs/cache.go:90`), and so does every later `Put` that leaves the count above
`MaxSize`; one that replaces a value by a smaller one may return; double spending over PostgreSQL (`cs/db.go:257`).

Seen while modelling, without a run of their own. Where the model has them, the
properties are stated so that they hold beside them.

* *Invitations.* Over sqlite the garbage collection deletes from a table that
  does not exist (`cs/db.go:149`). The cookie sent to "clear invite token"
  (`cs/invite.go:106`) has no Path and the browser keeps the invitation.
* *Id fixup.* `newId` can go on for ever when another call changes the prefix
  it has read (`data/election.go:204`). Ids are compared only within one type,
  so a new `unk1_1` may equal another type's id (`data/election.go:174`).
* *Archive.* A hash is recorded before its image is written, and a crash or a
  failed write in between loses the image for good (`cs/imagearchive.go:124`).
  `foutBytesWritten` is never increased, so files are not changed when full
  (`cs/imagearchive.go:92`).
* *Handlers.* A page number equal to the number of pages is not refused, and a
  refused one is used all the same (`cs/main.go:190`).
* *Render cache of the handlers.* A rendering stays stale until the next save
  under its spelling after any of the causes of `raced` above: there is no lock
  or version between reading the row and storing its rendering
  (`cs/main.go:427-477`), and an UPDATE whose answer is lost skips the
  `Invalidate` calls (`cs/main.go:364`).
* *Flask cache.* `/draw?bubbles=1&i=e1` puts a drawing of any report under the
  key of election 1 (`app.py:246-251`): its bubbles are served as that
  election's for up to an hour, and its PDF raises KeyError, since `/draw` names
  the bytes `pdfb64` and the election handlers `pdf`.
* *Flask set-up.* `db()` commits the mark of its migrations before the demo is
  stored, and ALTER TABLE before its mark, and refuses the file for good after
  a crash in between (`app.py:90-96`; `cut` in `FlaskSetUp` is exactly that).
* *Life cycle.* SIGTERM cuts the requests in flight, since `log.Fatal` runs as
  soon as `Shutdown` begins, and leaves the draw server with its port
  (`cs/main.go:751`). The next start is answered by it. A process that
  was answered by another's draw server loses it when that other one times out
  (`draw/drawsub.go:98`). With a Flask that has the reloader, even `Stop` leaves
  the child that serves (`draw/drawsub.go:54-57` and `134-141`).
* *Page reader.* A healthy pdftoppm may still end in a "file already closed"
  error, when `Wait` closes the pipe before the last read
  (`draw/drawsub.go:259`). Sizes are decoded right only below 2^32.
* *Scanner.* Otsu's method leaves level 0 out of both sides: a pure black and
  white page has threshold 0 and no line, and black on off-white has threshold
  255, for which every column is dark (`scan/scan.go:65-93`; pictures `stark`
  and `black`). A walk to the left panics before column 0 of the first rows,
  one to the right reads the next row (`scan/scan.go:790-815`). After a search
  that failed, a second call on the same image uses the transform of an older
  one (`scan/scan.go:760-765`). The hotspot search does not end on a page
  without features where the conversion of NaN is negative, as on amd64
  (`scan/scan.go:580`). The server does not look at the error of
  `SetOrigImage`, and without hotspots `ssds[0]` panics (`scan/scan.go:907`).

## 7. Not modelled, and why

* Pages that only read (home, edit, the GET of a document), templates, logging
  and HTTP details keep no state. Page numbers and image sizes do not touch the
  properties.
* Of the scanner: the interpolation (`catrom.go`), the least squares of a
  transform (`align.go`), the sub-pixel match, the dark share of a bubble and
  the left-line count, which is only logged, are floating point or output and
  out of TLC's reach. `ExtractHeaders` cuts the header out of each page; debug
  images are output.
* Ballot layout (`draw.py`): boxes are placed by the widths of text in a font
  that is not in the repository, and nothing outlives one drawing.
* The editor: its state is the DOM of a browser. What the server does with its
  saves, in any order, is in `Studio` and `FlaskCache`.
* The template set: one unlocked map more, like those of the cache and of
  `tsmap`. The `:memory:` database, in which every pooled connection has a
  database of its own, is for trial runs and lies inside `database/sql`.
* The generators of examples and the development tools are sequential and keep
  no state; users are those of an external library.
* Data races are modelled by lost cache operations and by the death of the
  process, not by torn words.
