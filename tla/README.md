# TLA+ models of sandstorm-filesystem

This directory holds a verification development for the Go program in `src/`:
a filesystem protocol for [Sandstorm](https://sandstorm.io) grains, a server
for it ("localfs"), two clients with a web interface (a file viewer and a zip
uploader), and an experimental FUSE client.

## The system

| component | code | state it keeps | operations |
|---|---|---|---|
| protocol schema | `filesystem/filesystem.capnp`, generated `filesystem.capnp.go` | none | which interface offers which methods; `stat`, `list`, `walk`, `create`, `mkdir`, `delete`, `read`, `write`, `truncate`, `setExec`, `Stream.push`, `Stream.done` |
| local capability server | `filesystem/local/local.go` | one `Node` struct per live capability; the directory tree of the operating system | `Walk`, `Create`, `Mkdir`, `Delete`, `Stat`, `List`, `SetExec`, `Write`, `Truncate`, `Read`, `Save`, `Restore`, `MakeClient` |
| localfs grain | `localfs-grain.go` | the exported directory `/var/shared-dir` | start, `FulfillRequest`, `Restore`, `Drop`, `GetViewInfo` |
| httpfs | `filesystem/httpfs/httpfs.go` | an open `File` (position, cached info), one `fiStream` per listing | `Open`, `Read`, `Seek`, `Readdir`, `Stat` |
| file viewer grain | `fs-viewer.go`, `utils.go` | `rootDir`, a global lock | claim a capability, serve pages and files |
| zip uploader grain | `zip-uploader.go`, `utils.go` | `rootRwDir`, the same lock | claim a capability, upload an archive |
| start-up | `main.go`, `bridgePromise.go` | `/var/action`, a promise for the bridge | first start, restore, wait for the bridge |
| FUSE client | `fuseclient/main.go` | open directories | does not build with the generated code in this tree |

How they interact. A user lets another grain *claim* the localfs grain's root
directory through Sandstorm's powerbox. That grain then calls methods on the
capability over Cap'n Proto RPC and receives further capabilities in the
answers (`walk`, `create`), or passes in one of its own (`list` takes a stream
and `read` a sink, into which the server pushes). Capabilities can be *saved*:
the server turns its `Node` struct into JSON, the host keeps it as an object id
and gives it back to `Restore` at any later time, after any number of restarts.
Web requests in the two client grains run under one lock (`withLock`) and call
the remote filesystem while they hold it.

What is hard about it:

* **Capability discipline over a path-based filesystem.** A capability is a
  string of a path and three cached bits. That a client cannot leave the
  exported directory, and cannot write through a read-only directory, rests on
  every route by which a node can be reached, in any order, across restarts.
* **Stale state.** The bits are cached when a capability is made, used much
  later, and restored from object ids without looking at the node again.
  `SetExec` is a read-modify-write without a lock.
* **Asynchronous calls whose answers nobody awaits.** `List` ignores what its
  pushes return, `Readdir` ignores what `list` returned and waits on a channel,
  `File.Read` ignores what `read` returned and waits on a pipe, the uploader
  ignores what `mkdir` and `create` returned.
* **Failure.** Connections break in the middle of a listing, a read or an
  upload; grains are stopped at any moment; a first start may be cut short
  before `/var/action` is written.
* **Boundaries.** 64-bit sizes cast between signed and unsigned, `startAt` of
  -1, `O_APPEND` against explicit offsets, a listing limit checked by chunk.

What makes each component correct:

* local server and localfs grain: confinement to the exported directory, both
  of what clients hold and of what changes on disk; authority that agrees with
  the tree; no capability of the wrong kind or of a missing node; an exported
  directory that is always there (a panic in the code says so).
* listing: `Readdir` returns the whole directory or an error, once, and what it
  returned stays as it is; it returns unless something failed.
* files: `write` at an offset writes there, `read` reads what is there, and an
  HTTP file read from beginning to end gives the contents; a seek goes where it
  says and EOF means the end.
* viewer: a request gets the file it names and is answered unless the remote
  failed. (That a request that hangs should stop only itself is more than the
  code attempts: handlers hold one lock over their calls. See the findings.)
* uploader: an upload that reports success stored every file of the archive, in
  one directory, and no upload damages what was there.
* start-up: once a grain has been created it can always be restored, as what it
  was created; every request gets the bridge.

## Modules

| module | what it is |
|---|---|
| `Paths` | file names and paths: `validFileName`, and how the operating system resolves `d.Path + "/" + name` |
| `LocalNode` | the local server in the localfs grain: the tree `fs`, the live capabilities `caps`, the object ids `saved`, the `SetExec` calls under way `chmod`, and whether the process runs (`up`); one action per method, start, stop, restore and drop |
| `CapTree` | abstract: what the schema promises of capabilities, without paths, names or object ids |
| `LocalTree` | the mapping by which `LocalNode` implements `CapTree` |
| `MCLocalNode`, `MCLocalTree` | small trees and name tables for TLC |
| `FileIO` | the contents of one file under `Write`, `Truncate` and `Read`: any number of sinks and reads at once, integers of a given width |
| `Listing` | abstract: the promise of `File.Readdir`: one answer, all entries or `TooManyEntries` |
| `DirListing` | `Node.List`, the stream of calls between the grains, `fiStream` and `Readdir`; refines `Listing` |
| `HttpFile` | a `File` of httpfs: `Open`, `Seek`, `Read` over its pipe, with other clients of the remote file and its failure |
| `ServeFile`, `MCServeFile` | composed with `HttpFile`: a request for a file below `/fs/`, served by `http.FileServer`; and a user of whom nothing is known |
| `ClientGrain` | the web side of the viewer and the uploader: the lock, the claimed directory, requests that hang, panic or are given up |
| `ZipUpload`, `MCZipUpload` | an upload as a stream of pipelined calls, and the server that handles them; several uploads to the same tree |
| `GrainStart` | `main`, `getAction` and `BridgePromise`, with kills and restarts at every step |
| `PathsProofs`, `LocalNodeProofs`, `FileIOProofs`, `DirListingProofs`, `ServeFileProofs`, `ClientGrainProofs`, `ZipUploadProofs`, `GrainStartProofs` | theorems, checked by TLAPS |

`ServeFile`, `DirListing` and `ZipUpload` are what a request of `ClientGrain`
does while it holds the lock; `FileIO`, `DirListing` and the server of
`ZipUpload` are what a capability of `LocalNode` does when it is called.

**LocalNode and the code.** A capability is a `Node` struct: `path`, `isDir`,
`writable`, `executable`. `MakeClient` is the set of methods it answers, taken
from the generated tables; `Offers` is the guard of every call. An inode of the
tree keeps the three facts the code looks at: directory or not, the owner's
write bit, the owner's execute bit. The system calls (`OsStat`, `OsOpenRW`,
`OsMayAdd`) are modelled from the way the code uses them: a process that owns
the files but is not privileged, no symbolic links (nothing in the protocol
creates one), no second process that changes the directory. `Walk`, `Create`
and `Mkdir` are single steps, because what they read and do is one system call
each; `SetExec` is two, `SetExecStat` and `SetExecChmod`, because its `stat` and
its `chmod` are. A call that returns an error changes nothing and is not a step.
`Stop` may happen at any time and forgets everything but the disk and the
host's object ids. A name sent by a client is what splitting it at the slashes
gives; names with one slash stand for all names with slashes. `Sanitize` is
what `json.Marshal` does to a component of a path: the identity for UTF-8,
something else for other bytes.

**FileIO and the code.** `LocalNode` leaves out what is in a file; `FileIO` is
one file that was just created and that clients hold capabilities for. `sinks`
are the file descriptors that `Write` opened and wrapped in a byte stream, with
the position each was left at; `reads` are the calls of `Read`, with what they
have copied so far. A byte is named after the sink it came through, `Zero`
after truncation to a greater length. A round of `io.Copy` is one step: nothing
in the server depends on the time between reading a chunk and the sink's having
it. The end is two steps, since others may append between `io.Copy`'s seeing the
end of the file (`SeeEnd`) and the closing of the sink (`FinishRead`). `FailRead` covers a sink that refuses data, a cancelled call and a grain
that stops; a stop closes every sink as well, which is several `SinkClose`
steps. `cut` is the only variable that is not in the code: it remembers which
reads were overtaken by a truncation. Opening a file that cannot be opened
changes nothing and is not a step. `AsInt64` is Go's conversion, for integers
whose greatest value is `MaxInt`.

**DirListing and the code.** Entries are numbered in the order in which the
operating system reports them, and a push carries an interval of them. `net` is
the queue of calls on the stream: the RPC library delivers calls on one
capability in order and handles them one at a time (no handler acknowledges
early). When the connection is lost, what is under way is lost with it, and the
context of `List` is cancelled. `fiStream.Close` is not an action: the generated
glue looks for a `Shutdown` method (`server.Shutdowner`), so nothing calls it,
and a listing whose `done` never comes waits for ever. Nor is cancellation by
the client, since `Readdir` passes `context.TODO()`. `Listing` has no stream, no
chunks and no connection; the mapping is the identity on the four variables the
modules share.

**CapTree, LocalTree and the code.** `CapTree` has nodes, some of them
directories, some writable, and capabilities `[node, rw]`. The mapping takes
the part of the disk at and below the exported directory for the tree, and a
`Node` struct for a capability for the node at its path. `Delete`, `Stat`,
`List` and file contents change none of this, and `SetExec` maps to a stutter.

**HttpFile, ServeFile and the code.** `Open` is one step: its walks are
pipelined, nothing removes or renames a node, and a chain either resolves or
`stat` fails. What `stat` said (`info`) is kept as long as the file is open,
while other clients append to the file (`Append1`) or truncate it (`Cut`).
`Read` is several steps: the call, the writes into the pipe by the remote
grain, its closing, and the return of `io.ReadFull`. The answer to the call is
ignored by the code and not modelled. A remote grain that has failed may or may
not close the pipe, and so may one that is alive and whose `Read` returns an
error (`ReadFails`). `spoilt` is not in the code: it remembers which files were
cut, or had a read that failed, since they were opened. `Wrap` is the arithmetic of `int64`, for integers whose
greatest value is `MaxInt`. `FileServer` is external: it opens, asks for the
length, may read the beginning to guess the type and seek back, seeks if a
`Range` is wanted, and copies with a buffer. The real sizes, 32 kB and 512
bytes, are the constants `Buffer` and `SniffLen`. A directory is left to
`DirListing`; that `FileServer` first looks for an `index.html` in it is left
out, since that is one more request for a file. Nothing removes a node, so an
address resolves or not once and for all, unless the remote fails.

**ClientGrain and the code.** `pc` is where the handler of a request is: before
the lock, in the handler, waiting for another grain, before the deferred
`Unlock`. A claim replaces the directory. The uploader, to which a null
capability is no directory, and the viewer, to which it is one of which every
use fails, differ in that and in which calls can be cancelled: the viewer uses
`context.TODO()` for all but the claim. `dead` are the grains that have stopped
answering. A grain need not be dead for a use of the viewer never to come back:
in `FailureMissed` a call fails, and the handler, which ignores the answer, waits
for what will not come; `Hangs` is either of the two.

**ZipUpload and the code.** `uploader` is the handler of `/zipfile`, entry by
entry: `mkdir` and `walk` for the directories of the name, `create` with the
whole name, and a write for each round of `io.Copy`, which alone is waited for.
`queue` holds the calls that were sent. The RPC library is external: calls are
handled in the order they were made, a call on the result of a failed call
fails, releasing an answer does not undo the call. (Calls on different
capabilities may overtake one another, but those of an entry follow one chain
of capabilities.) `Mkdir`, `Walk` and `Create` at the server are those of
`LocalNode`, restricted to what they do to this tree; the contents of a file are
the chunks it was sent; the executable bit plays no part. A new upload starts
when the last one's calls have been handled: they are in the same queue ahead of
its own. After the connection
was lost a user has to claim the directory again, which `Upload` includes.

**GrainStart and the code.** `ioutil.WriteFile` is two steps, since it empties
the file before it writes. `ch`, `once` and `bridge` are the fields of
`BridgePromise`; `sync.Once` lets one caller run the function and the others
wait for it. `Crash` is the host's kill or a panic in `chkfatal`.

In these modules, definitions marked "wrong version, for the mutation runs" are
variants with a plausible bug. They are in no specification; substituted for
the definition they vary, each makes a property fail, which shows that the
property can fail.

## Runs

| run | checks | shows |
|---|---|---|
| `local_core` | `TypeOK`, `Confinement`, `KindAccurate`, `AuthorityMatchesTree`, `RootAvailable`, `EffectsConfined`, `ReadOnlyFrozen`, `ImplementsCapTree` | clients stay inside the exported directory, their authority agrees with the tree, and the server does only what a tree of capabilities allows |
| `local_stat` | `StatReportsNode`, expected to fail | `Stat` reports a stale executable bit |
| `file_io` | `TypeOK`, `SliceRead`, `ReadComplete`, `TruncateExact` | concurrent writers, a reader and truncations: what is read is a slice of the file, `done` means complete, a size is never misread |
| `file_offset` | `WritesAtOffset`, expected to fail | data goes to the end of the file whatever `startAt` says |
| `listing` | `TypeOK`, `SignalledOnce`, `ResultStable`, `WithinLimit`, `ReaddirKeepsPromise`, `ReaddirReturns` | a listing is whole or an error, and comes unless something failed |
| `listing_hang` | `ReaddirAnswers`, expected to fail | if `List` fails, `Readdir` never returns, though both grains are alive |
| `serve_file` | `ServeTypeOK`, `SmallBodyRight`, `OpensWhatIsNamed`, `RequestEnds`, `SeekExact`, `EndIsEnd` | a request opens the node its address names, gets exactly what it asked for if that fits the buffer, and ends unless the remote failed; seeks do not wrap around and EOF is the end, for any user |
| `serve_long` | `BodyIsFile`, expected to fail | a file longer than the buffer is served as its beginning, over and over |
| `grain_lock` | `OneDirectory`, `Answered` | an archive goes to one directory though the user claims another one meanwhile; every request is answered, unless a handler of the viewer hangs over a call that failed, and then none is |
| `zip_upload` | `TypeOK`, `SuccessIsComplete`, `OnlyArchiveAdded`, `DataInPlace`, `UploadEnds` | success means that every file with contents is there; nothing that was there is lost, and nothing changes outside the claimed directory or where it may not be written; every byte is where it belongs, also after a failure and when uploading again |
| `zip_unpack` | `UnpacksArchive`, expected to fail | a file in a subdirectory is not created |
| `grain_start` | `RunsAsCreated`, `PanicsOnlyUnsaved`, `PromiseKept`, `WaitReturns`, `SavedGrainServes` | wherever it is killed, a grain comes up as what it was created or panics because the first start saved nothing; requests get the bridge |

Bounds. `local_core` has two file names, seven nodes, two capabilities, one
object id and one `SetExec` slot, over four trees: a fresh grain, a directory
with a read-only directory that holds writable nodes, one with a read-only file
and an unsearchable directory, and a read-only root. Two capabilities are
enough for one client to hold a directory while another acts on a node below
it; the private part of the grain's disk (`/var` and a file in it) is in every
tree, so that leaving the exported directory has a target. One of the two names
is that of the exported directory itself, so that `..` followed by a name can
come back to it. `file_io` has integers of three bits, so that every
size and offset there is can be sent, two sinks, one read, and a file of up to
three bytes, which a read takes in several rounds; the amounts are none, one
within the file and one that the conversion makes negative. `listing` has up to
five entries, chunks of two (so full, short and empty chunks), and limits of
none, one and three (below a chunk, and between two); `listing_hang` needs
fewer entries. `serve_file` has integers
of three bits, so that every offset can be sought, files of up to three bytes,
buffers of two (so that a body fits, fits exactly, or needs a second round), a
tree with a directory that is itself called `fs`, and addresses that lead to
each node and to none; every address starts with `/fs/`, as the router sees to.
`serve_long` has one file of up to four bytes. `grain_lock` has two requests and
two claims: one can claim while the other uploads, and the second claim
replaces the first. `zip_upload` has two uploads in a row, archives of at most
two entries out of nine kinds (plain, nested, in a directory that is a file,
named `..`, empty, without a name, a directory, damaged, unreadable) and four
trees, one with files that are in the archive already. `grain_start` has three
requests, so that one receives while two wait, and is not bounded otherwise.

Fairness. `LocalNode` and `FileIO` have none. A call of the first returns after
a bounded number of system calls; a read to the end of a file that others
append to for ever need not end, and the code does not say that it does.
`DirListing` assumes that `List` takes its next step, that a call sent over a
live connection is handled, and that `Readdir` takes a token that is there:
goroutines are scheduled and the transport is reliable while it is up. Nothing is assumed of errors or of losing
the connection, and `ReaddirReturns` is stated for the case in which neither
happens; `ReaddirAnswers`, which also wants an answer if `List` fails, is
violated. `ServeFile` assumes as much: `FileServer` and `ReadFull` go on, the
remote grain writes to the pipe and closes it, while it is up and if its `Read`
did not fail. `ZipUpload` assumes that
the handler goes on and that calls that were sent and not lost are handled; an
answer that is lost with the connection is noticed. `GrainStart` assumes that
`main` and the waiters are scheduled, never that they are not killed.
`ClientGrain` assumes strong fairness of taking the lock, since Go's
`sync.Mutex` hands it to a waiter that has been passed over for long enough;
that a handler that can go on does; and that users do not wait for a page for
ever. It does not assume that another grain answers, nor that a use of the
viewer returns: any call may fail unnoticed (`FailureMissed`). Deadlock checking
is off where the system does stop: a finished listing, a served request, the
last upload.

## Theorems

`LocalNodeProofs` proves every property of the `local_core` run, for every tree,
every set of names and any number of nodes, capabilities, object ids and
concurrent calls. The assumptions are those of `Paths` and `LocalNode`: the
initial tree is a tree in which `/var` can be reached, and JSON does not change
the path of the exported directory. The argument has two layers.

* `SafeInv` is inductive whatever names are: types, `Confinement`, the shape of
  the tree around the root (`TreeOK`: closed under parents, every directory
  above the root searchable, the root there while the grain runs), and for
  every pending `SetExec` that its file exists and its mode is fresh
  (`PendingOK`). The step from a valid name to a child of the directory is
  `JoinValidName`; from there confinement is a fact about prefixes. `TreeOK` is
  needed because `RootAvailable` alone does not say why a chmod cannot close
  the way to the root: pending chmods are confined, so they are not above it.
* `AuthInv` (`KindAccurate`, `AuthorityMatchesTree`, and that a pending
  `SetExec` is on a file that may be written) needs names that JSON leaves
  alone, hypothesis `NamesAreUTF8`. It rests on `TreeSteps`: a step adds only
  nodes that are writable, below writable capabilities, and of other nodes it
  changes only the executable bit; so no existing path ever becomes more or
  less writable (`WritableToStable`).

Without `NamesAreUTF8` these two properties are false: a capability for a
directory whose name is not UTF-8 can be saved and come back as one for another
node. `Confinement` and `EffectsConfined` hold all the same, and are proved for
any replacement of names (`Sanitize`); the run has names that stay as they are.

The same module proves that `LocalNode` implements `CapTree` (`Refinement`),
for any tree, names and number of capabilities, if names are UTF-8. It uses
these invariants: `Confinement` says that a capability has a node
in the abstract tree, `TreeOK` that a path is that of a child only if its parent
is there, `AuthInv` that the bits of a `Node` struct agree with the tree. There
is one lemma for each action. `SetExec` maps to a stutter because the mode it
writes back has a fresh write bit: this is `PendingOK`.

`FileIOProofs` proves every property of the `file_io` run, for integers of any
width, any file length, and any number of sinks and reads. The assumptions are
those of `FileIO`: the inputs are integers of that width, and a file is no
longer than the greatest of them. `Inv` is `TypeOK` and `SliceRead`; it is kept
because a write only adds bytes at the end (`ContentGrowsBySinks`, by `O_APPEND`),
because a round of copying carries a slice on where it ended (`CopyKeepsSlice`),
and because a truncation marks every read that is past the new end
(`TruncateKeepsSlices`). `ReadComplete` also needs that a read never exceeds its
limit (`WithinAmount`); which of its cases applies is the question whether the
conversion left the amount alone (`AsInt64Facts`). That the data stays complete
between the end's being seen and `done` is `EndSeen` and `DoneIsEnd`.

`DirListingProofs` proves the safety properties of the `listing` run for
directories, chunks and limits of any size, and that `DirListing` implements
`Listing`. The inductive invariant is `Inv`: the calls under way continue one
another from where the stream is to where `List` is, and `done` is the last of
them and comes only when everything has been read (`Chain`); the stream holds
the first `have` entries and, once closed, enough of them or an error with a
reason (`Collected`).

`ServeFileProofs` proves `SeekExact` and `EndIsEnd` for every user of a `File`,
integers of any width and any other clients. `Inv` says that what `stat` said
stays a lower bound on the size until the file is cut (`SizeInv`), that a read
holds consecutive bytes (`SliceInv`), and that one that was closed has all it
asked for, or all there was, or an excuse (`CloseInv`); `WrapRefuses` is why
overflow comes out negative and is refused. Then `ServeImplementsFile` shows
that a request is one such user, and `SmallBodiesAreRight` proves
`SmallBodyRight` for buffers of any size: `PhaseInv` says what `FileServer` knows
at each step, `BodyInv` that the first read brings all, or none that follows
brings anything. `NamedNodeIsOpened` proves `OpensWhatIsNamed` for every tree
and every address: `Open` walks by the pieces of the path between slashes, and
since every name in the tree is one that `validFileName` accepts
(`SegmentsAreValid`), a node that is there resolves (`NodesResolve`). Its
invariant, `NameInv`, speaks only of addresses that `http.ServeMux` hands on,
those below `/fs/` (`Routed`).

`ClientGrainProofs` proves `OneDirectory` for any number of requests and claims:
only the holder of the lock is handled (`TypeOK`), so that no claim comes
between two calls of an upload (`UsedInv`).

`GrainStartProofs` proves `RunsAsCreated`, `PanicsOnlyUnsaved` and `PromiseKept`
for any number of requests, and two facts that no run checks: that a file that
was saved is never touched again (`SavedActionStays`), and that the exported directory is
there before anything can be called (`DirComesFirst`), which is why `Start` may
be a single step of `LocalNode`. `MainInv` relates where `main` is to what is in
the file, `PromiseInv` the state of `Once` to the bridge.

`ZipUploadProofs` proves the four invariants of the `zip_upload` run for every
tree, every archive of any number of entries of any length, and any number of
uploads. The assumptions are those of `ZipUpload`: an entry has a name
(`ArchiveAssumption`), trees are trees (`ServerAssumption`), and a failed result
is not a path (`ResultAssumption`). None of the four is inductive, because the
uploader runs ahead of the server: it has answers only to its writes. `Inv`
says what is on the way:

* `QueueOK`: each call in the queue is the one that the current entry makes at
  that step and follows the one before it, the queue ends where the uploader is,
  and `dir` is where the calls that were handled have led, or broken. So a name
  is created where the entry says or not at all. Calls of an earlier entry may
  still be there when the next one begins; calls of an earlier upload are
  gone.
* `PlaceOK`: the directory and the open file are at or below the claimed one,
  and the file may be written. With `Allowed` this is the part of
  `OnlyArchiveAdded` that says where changes happen.
* `ProgressOK` and `FileOK`: which file is open while the uploader copies an
  entry, and that an answer that was given belongs to the chunk last sent.
* `DataOK`: the exact contents of every file: what was there, what the entries
  before this one contain, and the chunks of this one that were written
  (`Written` counts one whose answer has not been seen). This implies
  `DataInPlace` at every step and `SuccessIsComplete` at the end.
* `OldOK` and `OnlyArchiveAdded` itself.

What the entries before the `i`th contain is `FlattenSeq` of their pieces, a
recursion over a sequence of any length. The induction theorems of the library
take operators as parameters and cannot be used, but that a set of numbers has
a least element can be had from well-founded relations (`LeastNumber`), and it
gives the three facts that are needed: the recursion defines a function
(`FlatExists`), which depends only on what it has come to (`FlatUnique`), and
one sequence more comes last (`FlattenStep`).

Model-checked only: the liveness properties `ReaddirReturns`, `WaitReturns`,
`SavedGrainServes`, `UploadEnds`, `RequestEnds` and `Answered`,
since fairness is beyond the prover. Every safety property of a passing run is
a theorem. Those of the five runs that expect a violation are false.

## Findings

* `Stat` reports the executable bit the capability remembers, not the node's
  (`local_stat`): walk to a file, set the bit through another capability (or
  the same one), and ask. The schema: "Report information about the node."

* `Write` ignores where it should start (`file_offset`): it opens the file with
  `O_APPEND` and then seeks, which has no effect on where data goes. The schema:
  "Writing starts at offset `startAt`." There is no way
  to replace a byte of a file, and the zip uploader, which asks for offset 0, appends to a file that is
  there already.

* A file longer than `FileServer`'s buffer is not served as it is
  (`serve_long`): `File.Read` reads at `f.pos` and leaves it there, so that the
  next read returns the same bytes, and the response is as long as the file and
  repeats its beginning. What fits one buffer is right: `SmallBodyRight`.

* `Readdir` hangs if `List` fails (`listing_hang`): `List` returns `OpenFailed`, or
  the error of reading the directory, without calling `done`; `Readdir` ignores
  the answer and waits for `done`. The handler holds the viewer's lock, so from
  then on every request to that grain waits as well: this is the one excuse that
  `Answered` makes, besides a remote that never answers. The schema has `list`
  return when everything was pushed "(or an error has occurred)", and the FIXME
  at `httpfs.go:171` speaks only of a remote that makes the client hang; the
  server in this repository does so when it may not read a directory. A `Read`
  that fails may have the same effect, if the RPC library does not close the
  pipe (`RequestEnds` excuses it).

* The uploader does not create files in subdirectories (`zip_unpack`): it walks
  to the subdirectory and asks it for a file with the whole name, slashes and
  all, which the server refuses. The page says that the archive is unpacked. If
  such a file has contents, the upload fails at the first of them; if it is
  empty, the upload succeeds without it.

* A remark, not a run: `main.go:28` says of a later start that the action was
  saved. It was not if the first start was killed before or while it wrote the
  file, and then every later start panics; `PanicsOnlyUnsaved` shows that this
  is the only way.

## Not modelled

* `fuseclient`: it is written against another version of the RPC library.
* Reference counts and the wire format of the RPC library, which is not part of
  the repository. Handlers that keep a client after releasing the results it
  came from (`zip-uploader.go:62`, `httpfs.go:273`) depend on the former.
* A listing that cannot be decoded (`httpfs.go:144`): the local server never
  sends one, and other servers are not in the repository.
* Open file descriptors as a limited resource, and errors of the disk.
* Wording of pages and logs, descriptors and templates.

## Plan

What is left: a theorem that the server's steps in `ZipUpload` are steps of
`CapTree`. The two modules share `Paths` and otherwise agree by reading. It
needs a variable for the capabilities an upload has had, since `dir` and `file`
are only the last ones, and a mapping like that of `LocalTree`.
