# libmedia-thumbnail: TLA+ models, checks and proofs

libmedia-thumbnail makes and finds the thumbnails of the media files of a Tizen
device. An application calls the client library; the library sends one UDP
datagram to `media-thumbnail-server`, which looks in the media database, makes
the thumbnail when there is none, writes file and row, and answers. This
directory holds TLA+ modules of that system, configurations that TLC checks, and
proofs that TLAPS checks. `PROJECT.json` maps every definition to its lines.

Paths below are relative to the repository's root. The models follow the build
of `src/CMakeLists.txt`: `_USE_NEW_MEDIA_DB_` is defined (the table `media`),
`DO_RETRY` is not (no request is sent twice).

## Inventory

| Component | State | Operations | Hard behaviour |
|---|---|---|---|
| Media database access, `src/util/media-thumb-db.c` | one global handle; the rows of `media`, shared with the media server | connect, disconnect, path of a row, type, size, two updates | queries that fail as busy, updates that are no transaction, rows that go away |
| Thumbnail job, `src/ipc/media-thumb-ipc.c` (`_media_thumb_process`) | locals of one call, `req_msg`, `res_msg` | look up, remove, generate, save, fsync, update | eight returns, failures and crashes between steps, stale answers of the database |
| Thumbnail files, `src/util/media-thumb-util.c` | the files of the thumbnail directories | hash name, save, remove | interrupted writes, files deleted by others, one shared default thumbnail |
| Server, `server/thumb-server.c`, `server/thumb-server-internal.c` | UDP socket, GLib sources, `arr_path`, `g_idx`, `g_cur_idx` | read a request, answer, extract all, one queued path per idle call, power-off | idle sources that share one array, a pointer that outlives it, datagrams lost, restart |
| Client library, `src/media-thumbnail.c`, `src/ipc/media-thumb-ipc.c` | a socket per call, watches of the application's main loop, user data | five requests, timeout, callback | late and lost answers, descriptor numbers used again, watches left behind |
| Image generation, `src/media-thumb-internal.c` | buffers of one call | EXIF thumbnail, rotation, decoding by type, video frames, sizes, formats | a file written as a side effect, rotation, integer overflow, proportions |
| Header parser, `src/codec/img-codec-parser.c` | a read buffer | type and size from a header | ends of buffers and files |
| Animated GIF decoder, `src/codec/IfegDecodeAGIF.c`, and its front end `img-codec.c` | ten blocks of memory, a position in the file, bit reader, code table, lines | create, decode the first frame, destroy | codes that grow and cross blocks, a full table, passes of interlaced rows, files cut off, sixteen ways out |
| MD5 and hash name, `md5/` | none | hash of a path | none here: an imported function |
| Log, test program, packaging | none | | |

Interaction: the library and the server share only the datagrams (`thumbMsg`).
The server calls the job directly, in its one thread: while a job runs nothing
else of the server does. The job shares the database with the media server and
the files with whoever may delete them. `heynoti` ends the main loop.

What makes each correct: the job closes what it opens, writes only its
original's file and row, leaves no row that names a damaged file, keeps the
default thumbnail, and answers with a file; the server uses its array only while
it lives, takes every path once and in order and answers every request it
received; a call of the library has one outcome, about its own original, and
leaves no descriptor.

## Modules

| Module | Models | Extends |
|---|---|---|
| `ThumbStore` | rows, files, the media server, users and the kernel's write-back | |
| `ThumbJob` | one job, each access to a store an action; crash and power cut; jobs in any sequence | `ThumbStore` |
| `ThumbServer` | main loop, socket, array, idle sources, restart; jobs one after the other | `ThumbJob` |
| `ExtractQueue` | abstract: what the extract-all queue promises | |
| `ThumbIpc` | the client library in applications, with the server | `ThumbServer` |
| `ThumbService` | abstract: what a call of the library promises | |
| `GifBlocks` | abstract: what the header parser promises of a GIF, without a buffer | |
| `GifFormat` | reference: what the blocks of a GIF are, as the format says | |
| `ImgHeader` | type and size from the header; reading a GIF through the refilled buffer | |
| `ThumbImage` | making the pixels: buffers, library objects, sizes, turns, every call that can fail | `ImgHeader` |
| `GifPicture` | reference: what the codes, rows and colours of a GIF show, as the format says | `GifFormat` |
| `GifFrame` | the first frame of a GIF, from the bytes of the file to the pixels | |
| `MCThumbJob`, `MCThumbServer`, `MCThumbIpc`, `MCImgHeader`, `MCThumbImage`, `MCGifFrame` | constants for TLC; `MCGifFrame` has an encoder of GIFs | |
| `ThumbJobProofs`, `ThumbServerProofs`, `ThumbIpcProofs`, `ImgHeaderProofs`, `ThumbImageProofs`, `GifFrameProofs`, `GifFileProofs`, `GifPictureProofs` | proofs | |

### ThumbStore and ThumbJob

`db` gives each original its row (or `NoRow`), `files` each path its content,
`dirty` the paths whose content a power cut would destroy. A picture is the
original it shows and its quarter turns. `job` holds the locals of
`_thumb_daemon_process_job` and `_media_thumb_process`; `job.pc` is where it
waits. Between two labels there is at most one access to a store, because other
programs may step in at every access:

| Label | Code |
|---|---|
| `connect` | ipc.c 187-230, `_media_thumb_db_connect` |
| `lookup`, `stat`, `get_size` | db.c 402-449, called at ipc.c 209; the hit at 211-214 |
| `remove` | ipc.c 246-250 |
| `exif`, `rotate` | `_media_thumb_get_thumb_from_exif`, its write and what follows |
| `decode` | `_thumbnail_get_data` otherwise |
| `save`, `fsync` | ipc.c 273-300 |
| `get_type`, `store_path`, `store_size` | `_media_thumb_update_db` |
| `answer` | back in `_thumb_daemon_process_job` |
| `reconnect` | thumb-server-internal.c 163-180, queued paths only |

The two ways of generating give a sideways original two sizes: `FileSize`, as
the EXIF tags or the header have it, and `EvasSize`, which Evas gives after it
turned the picture. `Exif` writes the EXIF thumbnail to the hash path unless a
file is there; `Rotate` turns whatever it then finds there.

`conns` counts the open connections of the job and `evas` records
`ecore_evas_init`. `Faults` is the set of failures and foreign steps that may
happen; every run names its own. `JobSpec` runs any jobs in any order; the
server's are a subset of them, which is proved (`ServerImplementsJob`).

### ThumbServer

One action per callback of the main loop. `ReadRequest` reads a datagram and
starts a job, `Reply` answers it; `ReadExtractAll` is the whole callback of an
extract-all request, whose answer is the uninitialised `res_msg`. `PollIdle` is
an iteration that found the socket empty: it calls each idle source once, which
`dispatch` counts, as `TakePath` (the source stays) or `DeleteArray` (it goes).
`heap` says what the pointer `arr_path` is; freeing a freed array is undefined,
so `DeleteArray` either goes on or ends the server as `"aborted"`. `PowerOff`,
`ServerCrash` and `ServerPowerCut` end the process with its memory and its
socket's queue; `Boot` starts it again on the stores as they are.

### ThumbIpc

Each member of `Clients` is one call of the library. `fd` is its descriptor,
`watch` the descriptor *number* its GLib watch was given: descriptors are given
out lowest number first (`Lowest`), so that a stale watch may meet a later
call's socket. `RequestSync` is `_media_thumb_request` up to `recvfrom`,
`Receive` and `Timeout` are its usual ends, `RequestAsync` is
`_media_thumb_request_async`, `PollWatches` an iteration of the application's
main loop and `WriteSocket` the callback `_media_thumb_write_socket`.
`ReceiveFails` stands for the two other ends of a blocked call, a `recvfrom` that
fails and a datagram from another address.

Two things are taken from the kernel and the device, because the code does not
see to them. The UDP port of a closed socket is not given to a later call while
an answer to the closed one may still come: an answer names no request, and
`_media_thumb_request` checks only the IP address of its sender (ipc.c 141).
And only the server writes to the socket of an asynchronous call, which does not
check even that (ipc.c 337). Descriptor numbers *are* given out again.

### ImgHeader

`ImgGetInfoFile`. `stream` is `IFEGSTREAMCTRL` with the buffer and the offset of
the file; `CheckBuffer` is `_CheckBuffer`, which moves what is left of the buffer
to its start and fills the rest. Each step is one call of it, or the reading of
a length that has none. A byte behind the buffer is one of `Beyond`. `misread`
is no variable of the code: it remembers that a length was read from behind what
the buffer holds. Of PNG, BMP and JPEG only what is found is modelled.
`Position` is where in the file the next byte of the buffer lies: the state of
`GifBlocks`, whose parser has no buffer and reads byte after byte of the file.
`BlocksFollowed` says that every step of the parser is one of `GifBlocks`, but for
the length that the code misreads (`gif_length`).

`GifBlocks` is what the parser does, `GifFormat` what it is to find: the blocks of
a GIF as GIF89a lays them out, with nothing taken from the code. Each file comes
with its layout (`file.blocks`: where each block starts, where each length in it
is, and how many images are in front of it), and `Format!WholeGif` says by
conditions on neighbours only that bytes, layout and images agree. That whole files
satisfy it is `WholeAssumption`, which TLC evaluates on every file of the runs.

### ThumbImage

`_thumbnail_get_data` and what it calls, one call after the other: `ThumbJob`
sees of it only whether it succeeds. A step runs from one library call to the
next; `Fails` names the calls that may fail. `heap` gives each address its
buffer, the buffer its size and the picture in it: its width, height, bytes per
pixel and the quarter turns it still needs (`left`). `open` holds the Evas
canvases, EXIF data, file attributes and GIF decoder to be closed.
An original comes with what lies at its hash path (`file.there`): nothing, its
raw EXIF thumbnail, or an upright thumbnail of an earlier job, which the code
decodes and turns as it would the raw one. A file that Evas cannot load (line
590, unchecked) has the size 0 x 0; its proper height is 0 / 0 as an `int`, which
is undefined and comes out as 0 or as the least `int` (`ZeroByZero`).

| Label | Code |
|---|---|
| `start` | util.c 294-350, internal.c 1033-1071: the header (`ImgHeader`), first limit |
| `exif`, `write`, `decode`, `resize_thumb`, `orient`, `turn` | `_media_thumb_get_thumb_from_exif`; every failure goes on at `evas` (`DecodeInstead`) |
| `convert_thumb` | internal.c 989-1010, the conversion in `_media_thumb_jpeg` |
| `evas`, `load`, `target`, `pixels` | `_media_thumb_decode_with_evas` |
| `wbmp`, `measure` | `_media_thumb_get_wh_with_evas`, second limit |
| `frame`, `convert_frame`, `copy_frame` | `ImgGetFirstFrameAGIFAtSize` |
| `content`, `tracks`, `read_frame` | `_media_thumb_video` |
| `resize_data`, `resize_copy`, `convert` | `_media_thumb_resize_data`, `_media_thumb_convert_format` |

### GifFrame

`ImgGetFirstFrameAGIFAtSize` again, now from inside: what `ThumbImage` calls
`frame` and `convert_frame` is here every block, byte and code of the file.
`gif` is the file with the size the parser found, `memory` a byte that may lie
behind what was read of it. The names of the state are those of
`IfegDecodeAGIF.c`; `held` counts the allocations of each block.

| Label | Code |
|---|---|
| `create` | `ImgCreateAGIFFrame`, `FastImgCreateAGIFFrameData`: eight allocations |
| `header`, `block`, `extension`, `text`, `image` | the loop over blocks of `__FastImgGetNextFrameAGIF_NoBuffer`, up to the size of the codes |
| `code`, `bits` | the readers `__get_next_code_...`, a step for each byte; `checked` for those that look for the end of the block; then the use of the code |
| `lines` | 1027-1343: a full line, of a plain or an interlaced image, is converted into its row of `pDecBuf` |
| `paint` | the background, and the rows over it |
| `returned` | the front end: the result is ignored, the frame destroyed |

`table` holds the strings themselves, where the code keeps chains of a prefix
and a suffix and pushes them on `dstack`. A code that no string and no next slot
has ends at `astray`: no encoder writes one.

What a file shows is not taken from the decoder: each file carries its
`picture`, whether it is `whole`, and whether it shows a frame at all (`shown`).
`MCGifFrame` has pictures and an encoder that follows the format (GIF89a and its
codes), and files made from them. That a file shows its picture is said a second
time, without an encoder, by `GifPicture`: a file comes with its parts up to
the first image that has pixels, an image with its data, where in it each code
begins and which pixels it stands for, and the order of its rows.
`Format!ShownGif` says that bytes, parts and picture agree, by conditions on a
part and the next one, a code and the next one, a row and a later one. Part of it
is: colours are hidden until the next control block says otherwise; an image
without pixels has no table of its own (of the next one the code would then
confuse the colours, see below); where the image does not cover the
screen, the file has a table and begins with the block that says what is hidden.
`AllShown` says it of all files; TLC evaluates it on those of the run. A file
that is cut is the beginning of an `original` that agrees with its parts. Only files with two images, or whose first image is
empty, get here; `ThumbImage` has that choice. Cut files stand for files that
became shorter after the parser read them. An allocation of `"encoded"` that
fails stands also for a file that cannot be opened or read.

## Runs

Passing:

| Run | Checks | Bounds |
|---|---|---|
| `job_faults` | `TypeOK`, `ConnsBalanced`, `OwnFiles`, `AnswerNamesFile`, `IconKept` | a JPEG taken upside down, with EXIF thumbnail, and a file of no type, one save target; generation, saving and queries fail, the server crashes |
| `job_durable` | `ListedIsWhole`, `SizeOfOriginal`, `PicturesTurned` | a sideways JPEG with EXIF thumbnail and a save target; crashes and power cuts, connection, generation, writing and saving fail, the media goes away; no failing query or fsync, nobody deletes thumbnails, which `ListedIsWhole` needs |
| `server_queue` | `ServerOK`, `ArrayLive`, `NoStrandedWork`, `QueueSpec` (safety and liveness of `ExtractQueue`) | two originals, two requests, selections cut short, crash, power-off, restart |
| `server_fair` | `QueuedGetThumb`, `RequestsAnswered` | one original, two requests; generation and saving fail, rows removed, thumbnails deleted, crash, power-off, power cut, restart |
| `ipc_close` | `IpcOK`, `OwnUnlessLeft`, `DescriptorsClosed` | two calls of one application, two originals, one save target, `socket`, `sendto` and `recvfrom` fail, a datagram comes from elsewhere, arguments rejected, server off |
| `ipc_service` | `ServiceSpec` (`ThumbService`), `AsyncAnswered` | two calls, long paths, `socket`, `setsockopt` and `recvfrom` fail, arguments rejected, server off and on |
| `image_made` | `ImageOK`, `StreamCoherent`, `HeaderRight`, `HeaderBounded`, `HeaderAdvances`, `BlocksFollowed` (`GifBlocks`), `BuffersOwned`, `ObjectsClosed`, `PictureWhole`, `ThumbFits` | thumbnails of 8 x 6 and 4 x 3; originals of every type in ten shapes, 256 more GIFs in which blocks of every kind meet the end of a buffer of 32 bytes or the end of the file, JPEGs with each orientation and EXIF thumbnails for neither, one or both types, and with nothing, a raw or an upright thumbnail there before, of three shapes; every library call fails except the two of `LeakingCalls`; three addresses |
| `gif_frame` | `FrameOK`, `FrameRight`, `LinesInFrame`, `ReadsInside`, `BitsKept`, `BlocksFreed`, `FrameAdvances`, `FrameReturned` | pictures up to 6 x 5 coded in 32 styles, interlaced ones of every height to 12, hidden colours, local tables, other blocks and empty images in front, files cut after each byte, files longer than what is read; each allocation fails; the byte behind the file is one of 0, 44, 59, 255 |

The bounds. Originals matter to each other only through shared paths, descriptor
numbers and the array, and two show each of these; one is enough where a
property is about a row and its file. Two extract-all requests give two idle
sources and the second append to the array; the socket holds two datagrams, as
many as there are clients, and a datagram is lost by the server being down.
Sequences of jobs are not bounded: the state space of the jobs closes. In
`image_made` the shapes lie below, at and above the thumbnail's width, on either
side of square, with a shorter side that rounds to nothing, above the limit and
above the greatest int; at most three buffers exist at once. A buffer of 32
bytes holds any single request as 4096 do (texts and tables are below half of
it, as the largest block of 777 is of 4096: `RoomForBlocks`), and texts of 1 to
15 bytes put the blocks that follow at every place.
In `gif_frame` codes have at most 4 bits instead of 12 (`MaxBits`), so that
pictures of 25 pixels fill the table, and at most 9 in the files whose colours
need 8, where a code takes three bytes; blocks of 1, 2 and 3 bytes put a code
over every edge; the styles clear the table at the start or not, after every
three codes or never, and use the longest strings or none. The room for a header
is 100 bytes instead of 4096, so that a comment makes a file too long.

`CHECK_DEADLOCK FALSE` is said where each client makes one request, so that the
system may come to rest, and where one picture is made or one frame decoded.

Violations, each a disagreement between the code and what the repository says of
it (`findings` in `PROJECT.json` quotes both):

| Run | Property | What the trace shows |
|---|---|---|
| `job_unextracted` | `UnextractedSelected` | the queue stores `''` as thumbnail path; the next extract-all does not select it |
| `server_array` | `DeletesArrayOnce` | `arr_path` is freed twice |
| `gif_length` | `LengthInBuffer` | the length of a piece of text is read from behind the buffer's end |
| `ipc_stale` | `ResultOwn` | a watch left by a failed `sendto` takes another call's answer |

The models also show what no run of its own asks about:

- a sideways original whose thumbnail is made from the EXIF thumbnail is recorded
  with the sides its file has (`media-thumb-internal.c` 228, 239), one that is decoded
  with those of the upright picture (589-598). An EXIF thumbnail narrower than 320
  pixels is never used for a large thumbnail and a wider one is, so two such
  originals are recorded in different orders; that one and the same changes its
  order takes one failure, of a call of libmm-util or of the write, that does not
  come back. `SizeOfOriginal` allows both orders;
- a thumbnail that a save-to-file request finds at the hash path is taken for the
  raw one and turned again (`media-thumb-internal.c` 261): the saved picture is
  turned once too often. In the code, large upright thumbnails of sideways
  pictures are narrower than 320 and not used; it is small thumbnails of any
  turned picture, and large ones of a picture taken upside down, that it happens
  to. `ThumbImage` has these sizes; `ThumbJob`, which has none, lets any picture it
  finds be used. `PicturesTurned` and `PictureWhole` allow this case and no other;
- a hit answers the height as the width, and no height (`media-thumb-ipc.c` 212);
- a lookup that fails makes the job remove a good thumbnail (`media-thumb-db.c`
  415), and nothing brings it back when generating then fails: `ListedIsWhole`
  is claimed, and `job_durable` run, only without failing queries;
- a product of sizes beyond `int` may come out below the limit
  (`media-thumb-internal.c` 602, 1055, 1087); the model lets it (`TooBig`), and no
  property says that the limit holds;
- a save-to-file request fails when the database cannot be opened
  (`_media_thumb_process` opens it for every request), though the header says of
  the saving function that it does not use the database;
- when the default thumbnail is missing, an original's picture is generated at
  its path (`media-thumb-db.c` 428-432, `media-thumb-ipc.c` 216), and is then what every
  original without a thumbnail shows;
- a request that waits when the server starts is served before
  `ecore_evas_init` (`thumb-server.c` 92);
- an asynchronous call whose server goes down, or whose datagram is lost, is never
  called back: its watch is for input only and nothing times out
  (`media-thumb-ipc.c` 418), so `AsyncAnswered` asks for less;
- when the server cannot open the database, a request is answered with success
  and an empty path (`thumb-server-internal.c` 77): the cause of
  `job_unextracted` again;
- when the size for converting an EXIF thumbnail fails, its picture leaks
  (`media-thumb-internal.c` 1002), as does the GIF frame when the size for its
  copy does (`img-codec.c` 64): `LeakingCalls`;
- a small thumbnail made from an EXIF thumbnail can have the size of a large one
  (`media-thumb-internal.c` 318), and a video's frame loses its proportions, so
  `ThumbFits` leaves both out;
- a failed `setsockopt` leaves the descriptor open, so `ipc_close` leaves that
  fault out;
- an interlaced image of height 2, 3 or 4 is decoded a row behind its buffer: the
  passes move on once when a start lies behind the image, but the second pass
  then starts at row 4 (`IfegDecodeAGIF.c` 1066), so `FrameRight` and
  `LinesInFrame` leave these heights out (`Low`);
- of a file longer than width * height * 2 + 4096 only that many bytes are read,
  but the decoder is told the whole size (`img-codec.c` 207) and reads on:
  `FrameRight` and `FrameReturned` leave these files out (`Fits`);
- an image without pixels that has a colour table of its own leaves `numcolors`
  behind, but not its table: the next image, which uses the file's, takes its
  colour numbers modulo the wrong count (`IfegDecodeAGIF.c` 898, 1115). `GifPicture`
  and the files of `gif_frame` leave such a table out; with one, TLC finds
  `FrameRight` violated;
- what the decoder returns is ignored (`img-codec.c` 51): when it fails, a frame
  that was not painted, or only blackened, becomes the thumbnail;
- when another block than the first cannot be allocated, the bytes of the file
  leak (`BlocksFreed` says so);
- a call whose `sendto` failed may be called back all the same through its stale
  watch, so `ipc_service` leaves that one out.

### Fairness

`FairServerSpec` has weak fairness of `ServerStep`: the server is one thread that
runs whenever a callback is due, and every step of a job returns. No fairness is
assumed of clients, failures or the environment. `FairIpcSpec` adds weak
fairness of each call's own step: `recvfrom` returns or times out
(`SO_RCVTIMEO`), and an application runs its main loop. Idle sources run only in
iterations that found no datagram; as each client makes one request they are not
starved in the runs. A server that is asked for ever may starve them: GLib
promises nothing else, and `QueuedGetThumb` (`server_fair`) and the liveness of
`QueueSpec` (`server_queue`) are checked for finitely many requests only.
`FairGifSpec` lets the thread of the decoder run until it returns: the question of
`FrameReturned` is whether its loops end.

## Proofs

All for any originals, kinds, orientations, save targets, clients, socket size
and set of faults, from the named assumptions of the constants
(`StoreAssumption`, `JobAssumption`, `ServerAssumption`: special values differ
from paths and rows, hash names are none of the clients' targets, `Media` is
finite; `IpcAssumption`: the calls are finitely many), and for any files, size of
the read buffer, sizes of the thumbnails and set of failing calls
(`HeaderAssumption`, `WholeAssumption`, `ImageAssumption`), any memory and failing
allocations of the GIF decoder (`GifAssumption`; `AllShown` for what a file shows).

- `ThumbJobProofs`: `JobSpec` implies `TypeOK`, `ConnsBalanced`, `OwnFiles` and
  `SizeOfOriginal`. None of the last three is inductive alone: what a job will
  write depends on what it holds. `JobInv` adds, by label, that a job past its
  lookup aims at its original's hash path, at the default path or at a client's
  target (`JobOwn`), that its data shows its own original, and that a job about
  to store a size holds the measured one or none (`JobSize`). The invariant is in
  two parts, `Locals` of the job and `Stores` it shares, with one lemma for each
  action and part.
  `PicturesTurned` follows from an invariant of its own: the picture a job is
  about to save has been turned from one at the hash path, so upright or once too
  far, and only a job that removed the file at the hash path, and so decodes the
  raw one or the original, saves there.
  In its second half, on the files: `JobSpec` implies `IconKept`; `AnswerNamesFile`, when nobody
  deletes thumbnails; and `ListedIsWhole`, when also no query and no `fsync` fails
  (what the run `job_durable` leaves out: a failed lookup reads as a missing row,
  and the job removes the file the row names). `IconInv` says that a job that
  aims at the default path past `stat` found nothing there and is the only one
  to write it, and that an installed icon is on the medium, so that a power cut
  spares it. `NamedExists` says from which label on the file a job names exists.
  `WholeInv` adds to `ListedIsWhole` that a job generates a file only while the
  row of its original does not name one (`Unnamed`), so that whatever writing is
  cut short harms no file a row names (`HalfWrittenWhole`); that the picture
  turned upright is the one just written, never one turned before
  (`AtHashPath`); and that the file is saved and synced when the row is stored.
- `ThumbServerProofs`: `ServerSpec` implies `JobSpec` (each server step starts,
  runs or ends a job, or leaves the jobs alone), so the above holds of the
  server; and `ArrayLive` and `NoStrandedWork`. The latter needs that an
  iteration calls no more sources than there are (`SourcesCalled`), so that the
  last source to go finds the queue empty.
  `ServerSpec` also implies the initial state and the steps of
  `ExtractQueue` (its fairness stays with TLC). The sequence of the abstract queue
  is what lies between the two indices (`BetweenIndices`): appending goes to its
  end whether the array is made or grown (`ExtendsTodo`), taking is its tail, and
  the last source retires with both indices equal.
- `ThumbIpcProofs`: `IpcSpec` implies `JobSpec`, `IpcOK` and `OwnUnlessLeft`;
  `DescriptorsClosed` when `setsockopt` does not fail; and, when `sendto` does not
  fail, `ResultOwn` and the steps of `ThumbService`. `ipc_stale` shows that the last
  two need it. `IpcInv` is about whose things are: no two calls of an application
  share a descriptor and a watch is for its own call's as long as that is open
  (`OwnDescriptors`), which `socket()` keeps because it gives a free number
  (`LowestFree`); every datagram, the job made from it and the answer are about the
  original of one call (`Messages`), which the server keeps because its job is
  about the client it will answer; and `NothingCrosses` then says that watch and
  descriptor go together unless a watch was left. `WatchesWait` adds that a watch
  belongs to a call without an outcome, so that no outcome changes.
- `ImgHeaderProofs`: `HeaderSpec` implies `StreamCoherent`. The argument is one
  lemma for each way the buffer changes (`RefilledCoherent`, `SkippedCoherent`,
  `SoughtPastCoherent`); `StreamInv` adds the type, because the lengths that are
  skipped are bytes read from that buffer. The position may be past the buffer's
  end (`misread`): the property holds all the same, as `_CheckBuffer` then fails.
  `HeaderInv` adds the other types, for the proofs about the pictures: a size is
  the file's or two bytes of the buffer, never negative.
  It implies `HeaderBounded` and `HeaderAdvances` too, for any file and size of the
  buffer: the parser never goes back, takes at most four steps without passing a
  byte, and stands at most `MaxSkip` bytes behind the file's end, so that it ends.
  A refill that got too little is a success, and a seek may lead past the end;
  `Reach` is what keeps both in bounds: a buffer with bytes in it lies in the
  file (`Within`), and only a seek leads past its end, which leaves the buffer
  empty.
  And it implies `BlocksFollowed`, the refinement of `GifBlocks`, with one lemma for
  each action of the parser. There a file that is not at its end must not look
  like one that is. `Filled` says why: as long as the offset is inside the file,
  the buffer is full or, after a seek, empty, so that a refill drops no byte and
  refuses no block that fits. The hypothesis is `RoomForBlocks`, that the buffer
  holds two of the largest blocks; the code's 4096 bytes hold five.
  Last, it implies `HeaderRight`: of every whole GIF, of any number of blocks,
  texts, tables and pieces, what is found is right. There is no induction over the
  file in it: the layout that comes with the file takes its place, and the
  induction is over the steps. `OnBlocks` says that the parser is in some block of
  the layout (`Reads`), at its start, behind one or two bytes of it, behind its
  colour table or at one of its lengths, has counted the images in front of it, and
  knows the size of the first once it has read it. One lemma for each action of
  `GifBlocks` shows that the next byte is the one the format puts there and leads
  to the next place of the layout (`PieceRight`, `DataRight`) or the next block;
  `HeaderFollowsBlocks` carries this over to the parser with the buffer.
- `GifFrameProofs`: `GifSpec` implies `ReadsInside`, `BitsKept`, `FrameOK`,
  `BlocksFreed`, `FrameAdvances` and, up to its last row, `LinesInFrame`,
  for any files, damaged ones included, any memory behind them, any failing
  allocations and codes of 3 to 12 bits (`GifAssumption`). The reader that does
  not look for the end of the block reads inside it because, between codes, less
  than a byte is left over and a code has at most 12 bits; `Reader` says that
  while a code is read unwatched, the bytes left in its block and the bits at hand
  are enough for it. `AtHand` says what `ret` is before a code is complete: the
  upper bits of a byte that was begun or, once another was taken, that one above
  them; as two shifts are one (`DivTwice`), a code leaves what the next begins with.
  `CodeTable` ties the size of the codes to the slots in use,
  `Strings` bounds each string of the table by its place, so that `dstack` is long
  enough, and `Owned` says which blocks are allocated at which label.
  `Decoded` says which rows there are in each pass of an interlaced image: all
  those of the passes before it and, of this one, those in front of `startloc`; so
  the next is new and inside. The theorem is about data with no more lines than
  the image has (`rowcount <= image.hgt`): a damaged file may end with a string
  that fills more, as the loop over a string does not look at the height. Encoders
  write no such string, and TLC checks `LinesInFrame` of theirs without the hypothesis.
  `FrameAdvances` compares `Work`: the stage and, in an image, the bits and colours
  not used yet. It shows that no loop turns on the spot. That they end does not
  follow from it: the position is not bounded, since a damaged file whose blocks
  are empty is read on behind its end.
- `GifFileProofs` and `GifPictureProofs`: with `AllShown`, `GifSpec` implies
  `FrameRight`, for any files that are laid out as a GIF, with any number of parts,
  pieces, codes and rows, any tables and hidden colours, cut anywhere or whole. As for
  `HeaderRight`, the parts that come with a file take the place of an induction
  over it, and the induction is over the steps. `FrameTrack` says where the decoder
  is: at a block of the parts (`AtBlock`); in an image, before some code `k` and
  behind some piece `q` of its data (`InImage`); about to paint (`Ready`); behind the
  cut (`Lost`), from where every way leads to an answer other than a picture; or
  back with its answer (`Answered`).
  `InImage` has one part for each thing that can go wrong. `ReaderIs`: the bytes that
  are left, the bits at hand and the value begun are those of code `k`
  (`GatheredNext`, `BytesOfCode`: it takes up to three bytes, of two or three
  pieces). `TableIs`: the size of the codes is the one the encoder used
  (`WidthNext`), and each entry of the table spells the pixels of an earlier code
  and one more, until the table is full. `LinesAre`: what is in rows, line and stack
  are the pixels in front of code `k`, in the order of the rows of the pass (`RowIs`).
  A code that names the slot about to be filled needs that its last pixel is
  the first one of the string before it, which is what the format says of it too.
  Two inductions over data remain, that the pieces of an image lie one behind the
  other and that parts do: they use least numbers (`LeastOf`), which the
  theorem of well-founded sets gives without an operator as parameter.
  `GifFileProofs` has the invariant and the steps that read blocks, descriptions
  and bytes, `GifPictureProofs` those that use codes, fill rows and paint.
- `ThumbImageProofs`: `ImageSpec` implies `StreamCoherent`, `HeaderBounded`,
  `HeaderAdvances` and, with `RoomForBlocks`, `BlocksFollowed`: no step but the
  parser's and the next call touches the parser, and the next call starts it anew;
  with `RoomForBlocks` also `HeaderRight`, of each original in turn.
  It implies `ObjectsClosed`, from
  `OpenInv`, which says at which labels each object may be open; and `ImageOK`,
  `BuffersOwned`, `PictureWhole` and `ThumbFits`, from `ImageInv`. `Pointers` says at
  which labels `src`, `dst` and `thumb_info` have a buffer: at each there is one
  answer but for a resize, whose source is a GIF's copied frame or, for a video,
  belongs to libmm-fileinfo. `Owned` says that these three own what is allocated,
  and no two the same. `Contents` follows the picture: in `Turn` the source needs
  as many turns as there are to do and both buffers have its size, so that the
  last turn leaves it upright and the buffer, whose sides are exchanged, exactly
  full; of an upright thumbnail found at the hash path it needs none and gets as
  many, which is what `LeftOver` and, on the way, `StillLeft` say. `Fitting` is `ThumbFits` of the size aimed at; it rests on `ProperFacts`:
  scaling with a quotient that is rounded down, or by one too far down where it is
  whole, leaves the shorter side less than one pixel short, or exactly one.
  `ImageOK`, `PictureWhole` and `ThumbFits` hold whatever fails. `BuffersOwned` assumes that
  neither of the calls of `LeakingCalls` fails, and `ObjectsClosed` that `raw_size` does
  not: these are the two leaks listed above, and only the part of the invariant
  that counts the buffers (`NoLeaks`) needs it.

Only model-checked:

- all liveness (`QueuedGetThumb`, `RequestsAnswered`, `AsyncAnswered`,
  `FrameReturned`, the fairness of `QueueSpec` and `ServiceSpec`), which is out of the
  prover's reach;
- that the files of the encoder in `MCGifFrame` are what `GifPicture` says: an
  induction over a recursive encoder is out of the prover's reach, and TLC evaluates
  `AllShown` on each of them;
- `LinesInFrame` of a last row that is counted behind the image's height;
- the four properties of the violations, which do not hold.

## Abstractions

- MD5 is injective on the originals. Paths are values; their lengths matter only
  where an answer does not fit the caller's buffer (`LongPaths`).
- Every original measures `OriginWidth` x `OriginHeight` as its file has it; the
  size in EXIF tags equals the one in the header. What matters is whether width
  and height are stored, and in which order.
- The media server's type of a row agrees with the type the job finds.
- `remove`, `db_util_close` and the server's own `sendto` and `recvfrom` do not
  fail. A short write of an EXIF thumbnail counts as a failed one.
- Thumbnail types (large, small) and pixel formats are left out of `ThumbJob`.
- In `ImgHeader` a file that is cut before its first block is of unknown type; the
  colour table of a GIF is black; DRM files are not opened, so a seek never fails;
  what a whole GIF is `GifFormat` says. `ImgGetInfo`, which nothing
  calls, is left out.
- In `ThumbImage` memory is never short, the format asked for is BGRA (the
  server's), and Evas turns a picture before it gives its size. A file at the
  hash path that is no JPEG fails to decode.
  A product that fits no `int` may come out either way (`TooBig`), a double that
  is rounded down may come out one less where the result is whole (`Scaled`).
- In `GifFrame` a product of sizes fits an `int`; the picture is not resized, as
  the size asked for is the file's own (`img-codec.c` 46); colours are those of
  RGB565, and transparent pixels show black. `INTERNAL_IMGCODEC` is defined
  (`img-codec-config.h`), so lines of any width are decoded.
- `FAILED` in `Results` is the `-1` that `_media_thumb_request` returns.
- Each client makes one call, an application has one thread.
- The connection of `_thumb_daemon_all_extract` is opened and closed in one step
  and is not in `conns`.

## Not modelled

- Of the GIF decoder: the frames after the first and loops, which the library
  never asks for, and the decoder with a buffer (`MODE` is 0, so nothing calls
  it): three quarters of the file. What happens after a damaged code is not
  followed, though the proofs hold up to it.
- MD5 (`src/md5/`): a published function, of which only injectivity matters here.
- `ImgGetInfo`, `_media_thumb_get_thumb_from_db` and what else nothing calls.
- The log, the test program and the packaging keep no state of the library.

## Plan

Done: stores and jobs; server and queue; client library; image pipeline;
header parser; animated GIF decoder; the proofs above. Next, in this order:

1. Proofs: that the chains of prefixes and suffixes stand for the strings of
   `table`, with a bound for their depth in place of recursion.
2. Paths and buffers: `strncpy`, `snprintf` and the limits of `MAX_PATH_SIZE`.
