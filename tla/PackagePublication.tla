------------------------- MODULE PackagePublication -------------------------
(***************************************************************************)
(* The immutable packages of one book in the object storage                *)
(* (packages/storage/src/index.ts), the publication that the importer of   *)
(* presets and the worker share (publishImmutablePackage), the tools that  *)
(* run it from a shell (tools/preset-import/importer.ts,                   *)
(* apps/worker/src/ingest-epub.ts), and what the API reads (books.ts).     *)
(* The worker's own runs are those of Normalization; here a run is one of  *)
(* ingest-epub.ts.                                                         *)
(*                                                                         *)
(* The content of a file is one of Contents, an inventory gives every file *)
(* its content, and its hash is the inventory itself.  The directory of    *)
(* the presets is the operator's, who may edit it at any time.             *)
(***************************************************************************)
EXTENDS LibraryConstants

VARIABLES
  conditional,  \* the storage has PutObject with If-None-Match (or links, in a file system)
  objects,      \* the content of each object, by its key
  directory,    \* the package/ directory of the preset
  edits,        \* how often it was edited (a bound of the model)
  starts,       \* executions so far (a bound of the model)
  book,         \* the shared_books row with its current package
  run,          \* the tool whose normalization_runs row is running
  tool          \* the executions of the tools

vars == <<conditional, objects, directory, edits, starts, book, run, tool>>

Inventories == [Paths -> Contents]
Prefixes    == [kind: {"preset", "ingest"}, hash: Inventories]
Keys        == Prefixes \X Paths
Row         == [prefix: Prefixes, fileHashes: Inventories]
Book        == [status: {"queued", "normalizing", "ready", "failed"}, package: Row \cup {None}]
Tool        == [pc: {"idle", "found", "preflighted", "accepted", "loaded", "uploading",
                     "putting", "verifying", "published"},
                prefix: Prefixes \cup {None}, inventory: Inventories \cup {None},
                left: SUBSET Paths, file: Paths \cup {None}, loaded: BOOLEAN]

Idle == [pc |-> "idle", prefix |-> None, inventory |-> None, left |-> {}, file |-> None,
         loaded |-> FALSE]

TypeOK ==
  /\ conditional \in BOOLEAN
  /\ DOMAIN objects \subseteq Keys /\ objects \in [DOMAIN objects -> Contents]
  /\ directory \in Inventories
  /\ edits \in 0..MaxEdits /\ starts \in 0..MaxStarts
  /\ book \in Book \cup {None}
  /\ run \in Tools \cup {None}
  /\ tool \in [Tools -> Tool]

Init ==
  /\ conditional \in BOOLEAN
  /\ objects = <<>>
  /\ directory \in Inventories
  /\ edits = 0 /\ starts = 0 /\ book = None /\ run = None
  /\ tool = [t \in Tools |-> Idle]

At(t, pc)    == tool[t].pc = pc
Become(t, r) == tool' = [tool EXCEPT ![t] = r]
Goto(t, pc)  == Become(t, [tool[t] EXCEPT !.pc = pc])

Key(t, f)      == <<tool[t].prefix, f>>
Expected(t, f) == tool[t].inventory[f]
Absent(t, f)   == Key(t, f) \notin DOMAIN objects
Same(t, f)     == ~Absent(t, f) /\ objects[Key(t, f)] = Expected(t, f)

Written(t, f)  == [k \in (DOMAIN objects) \cup {Key(t, f)} |->
                    IF k = Key(t, f) THEN Expected(t, f) ELSE objects[k]]

Begins == starts < MaxStarts /\ starts' = starts + 1

(***************************************************************************)
(* publishImmutablePackage                                                 *)
(***************************************************************************)
Publish(t, prefix, inventory) ==
  Become(t, [tool[t] EXCEPT !.pc = "uploading", !.prefix = prefix, !.inventory = inventory,
                            !.left = Paths])

\* The file is as the inventory has it (nobody edits the directory of a run).
Unchanged(t, f) == tool[t].prefix.kind = "preset" => directory[f] = Expected(t, f)

\* The mutated form: an object is replaced, whatever it was.
PutAnyway(t, f) ==
  /\ conditional
  /\ objects' = Written(t, f)
  /\ Become(t, [tool[t] EXCEPT !.left = @ \ {f}])

\* putIfAbsent in one step, where the storage has it; an object that is there is compared.
PutIfAbsent(t, f) ==
  /\ conditional
  /\ \/ Absent(t, f) /\ objects' = Written(t, f)
     \/ Same(t, f) /\ UNCHANGED objects
  /\ Become(t, [tool[t] EXCEPT !.left = @ \ {f}])

Upload(t, f) ==
  /\ At(t, "uploading") /\ f \in tool[t].left /\ Unchanged(t, f)
  /\ PutIfAbsent(t, f)
  /\ UNCHANGED <<conditional, directory, edits, starts, book, run>>

\* Otherwise a head, and a put when nothing was there.
Head(t, f) ==
  /\ At(t, "uploading") /\ f \in tool[t].left /\ Unchanged(t, f) /\ ~conditional
  /\ \/ /\ Absent(t, f)
        /\ Become(t, [tool[t] EXCEPT !.pc = "putting", !.file = f])
     \/ /\ Same(t, f)
        /\ Become(t, [tool[t] EXCEPT !.left = @ \ {f}])
  /\ UNCHANGED <<conditional, objects, directory, edits, starts, book, run>>

Put(t) ==
  /\ At(t, "putting")
  /\ LET f == tool[t].file
     IN /\ objects' = Written(t, f)
        /\ Become(t, [tool[t] EXCEPT !.pc = "uploading", !.left = @ \ {f}, !.file = None])
  /\ UNCHANGED <<conditional, directory, edits, starts, book, run>>

Uploaded(t) ==
  /\ At(t, "uploading") /\ tool[t].left = {}
  /\ Become(t, [tool[t] EXCEPT !.pc = "verifying", !.left = Paths])
  /\ UNCHANGED <<conditional, objects, directory, edits, starts, book, run>>

\* Every object is read again and compared.
Verify(t, f) ==
  /\ At(t, "verifying") /\ f \in tool[t].left /\ Same(t, f)
  /\ Become(t, [tool[t] EXCEPT !.left = @ \ {f}])
  /\ UNCHANGED <<conditional, objects, directory, edits, starts, book, run>>

\* The caller's own inventory is that of the receipt.
Verified(t) ==
  /\ At(t, "verifying") /\ tool[t].left = {} /\ tool[t].inventory = tool[t].prefix.hash
  /\ Goto(t, "published")
  /\ UNCHANGED <<conditional, objects, directory, edits, starts, book, run>>

(***************************************************************************)
(* The import of presets                                                   *)
(***************************************************************************)
FindExistingBooks(t) ==
  /\ At(t, "idle") /\ book = None
  /\ Goto(t, "found")
  /\ Begins
  /\ UNCHANGED <<conditional, objects, directory, edits, book, run>>

\* The prefix is named after the inventory of the preflight ...
Preflight(t) ==
  /\ At(t, "found")
  /\ Become(t, [tool[t] EXCEPT !.pc = "preflighted",
                               !.prefix = [kind |-> "preset", hash |-> directory]])
  /\ UNCHANGED <<conditional, objects, directory, edits, starts, book, run>>

\* ... and what is put there is that of the publication, which takes its own.
PublishPreset(t) ==
  /\ At(t, "preflighted")
  /\ Publish(t, tool[t].prefix, directory)
  /\ UNCHANGED <<conditional, objects, directory, edits, starts, book, run>>

Package(t) == [prefix |-> tool[t].prefix, fileHashes |-> tool[t].inventory]

\* One transaction; a row for the same EPUB makes it fail (shared_books_epub_sha256_unique).
InsertReadyPresetBook(t) ==
  /\ At(t, "published") /\ tool[t].prefix.kind = "preset" /\ book = None
  /\ book' = [status |-> "ready", package |-> Package(t)]
  /\ Become(t, Idle)
  /\ UNCHANGED <<conditional, objects, directory, edits, starts, run>>

Edit(f, c) ==
  /\ edits < MaxEdits /\ edits' = edits + 1
  /\ c # directory[f] /\ directory' = [directory EXCEPT ![f] = c]
  /\ UNCHANGED <<conditional, objects, starts, book, run, tool>>

(***************************************************************************)
(* ingest-epub.ts                                                          *)
(***************************************************************************)
\* A book that is ready is verified and nothing changes.
FindReady(t) ==
  /\ At(t, "idle") /\ (book # None => book.status # "ready")
  /\ Goto(t, "accepted")
  /\ Begins
  /\ UNCHANGED <<conditional, objects, directory, edits, book, run>>

\* The row is inserted if there is none; whether it has a package is read here, once.
LoadBook(t) ==
  /\ At(t, "accepted")
  /\ book' = IF book = None THEN [status |-> "queued", package |-> None] ELSE book
  /\ Become(t, [tool[t] EXCEPT !.pc = "loaded", !.loaded = book'.package # None])
  /\ UNCHANGED <<conditional, objects, directory, edits, starts, run>>

\* A run whose heartbeat is 45 minutes old is failed before a new one.
ExpireRun(t) ==
  /\ At(t, "loaded") /\ run # None
  /\ run' = None
  /\ UNCHANGED <<conditional, objects, directory, edits, starts, book, tool>>

\* One run of a book at a time (normalization_runs_one_running_per_book); its output is some package.
StartRun(t, output) ==
  /\ At(t, "loaded") /\ run = None
  /\ run' = t
  /\ book' = IF tool[t].loaded THEN book ELSE [book EXCEPT !.status = "normalizing"]
  /\ Publish(t, [kind |-> "ingest", hash |-> output], output)
  /\ UNCHANGED <<conditional, objects, directory, edits, starts>>

\* The transaction of publishValidatedNormalization: its gate wants the run running, and a package
\* row of the same version is another attempt's, which it refuses.
PublishRun(t) ==
  /\ At(t, "published") /\ tool[t].prefix.kind = "ingest" /\ run = t
  /\ book.package # None => book.package.prefix # tool[t].prefix
  /\ book' = [status |-> "ready", package |-> Package(t)]
  /\ run' = None
  /\ Become(t, Idle)
  /\ UNCHANGED <<conditional, objects, directory, edits, starts>>

RunCreated(t) == tool[t].prefix # None /\ tool[t].prefix.kind = "ingest"

\* Any call may fail, and so does every check above that does not hold.
Fails(t) ==
  /\ ~At(t, "idle")
  /\ IF RunCreated(t)
     THEN /\ run' = IF run = t THEN None ELSE run
          /\ book' = IF book.package = None THEN [book EXCEPT !.status = "failed"] ELSE book
     ELSE UNCHANGED <<run, book>>
  /\ Become(t, Idle)
  /\ UNCHANGED <<conditional, objects, directory, edits, starts>>

\* The process ends and its handler does not run: its run stays until it expires.
Crash(t) ==
  /\ ~At(t, "idle")
  /\ Become(t, Idle)
  /\ UNCHANGED <<conditional, objects, directory, edits, starts, book, run>>

Next ==
  \/ \E t \in Tools :
       \/ FindExistingBooks(t) \/ Preflight(t) \/ PublishPreset(t) \/ InsertReadyPresetBook(t)
       \/ FindReady(t) \/ LoadBook(t) \/ ExpireRun(t) \/ PublishRun(t)
       \/ \E output \in Inventories : StartRun(t, output)
       \/ \E f \in Paths : Upload(t, f) \/ Head(t, f) \/ Verify(t, f)
       \/ Put(t) \/ Uploaded(t) \/ Verified(t) \/ Fails(t) \/ Crash(t)
  \/ \E f \in Paths, c \in Contents : Edit(f, c)

Spec == Init /\ [][Next]_vars

(***************************************************************************)
(* Properties                                                              *)
(***************************************************************************)
\* What books.ts reads of a package, and compares with the hash of its row.
Artifact(package, f) ==
  IF <<package.prefix, f>> \in DOMAIN objects THEN objects[<<package.prefix, f>>] ELSE None

\* Every file of the current package is in the storage with the content its row records, as long
\* as the book has it: no reader of a published book is told that a file is missing or damaged,
\* whatever failed before, and whoever publishes beside.  Where the storage has no conditional
\* put, the heads and puts of two importers interleave, and it takes that nobody edited the
\* directory between a preflight and a publication: the key is then the content's.
PackageIsWhole ==
  (conditional \/ edits = 0) /\ book # None /\ book.package # None =>
    \A f \in Paths : Artifact(book.package, f) = book.package.fileHashes[f]
=============================================================================
