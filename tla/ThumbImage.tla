----------------------------- MODULE ThumbImage -----------------------------
(***************************************************************************)
(* Making the pixels of a thumbnail: _thumbnail_get_data with              *)
(* _media_thumb_image, _media_thumb_video and what they call, one call     *)
(* after the other.  ThumbJob sees of this only whether it succeeds; here  *)
(* are the buffers and library objects it works with, the sizes and turns  *)
(* of the picture, and every library call that may fail on the way.  Type  *)
(* and size of an image are those that ImgHeader finds.                    *)
(***************************************************************************)
EXTENDS ImgHeader

CONSTANTS
    Buffers,      \* addresses of malloc
    NULL,
    Unused,       \* the content of an address that is not allocated
    NoExif,       \* the JPEG has no EXIF data
    NoThumb,      \* no file is at the original's hash path
    Mirrored,     \* an EXIF orientation that is no rotation
    LARGE_WIDTH, LARGE_HEIGHT,  \* THUMB_LARGE_WIDTH, THUMB_LARGE_HEIGHT
    SMALL_WIDTH, SMALL_HEIGHT,  \* THUMB_SMALL_WIDTH, THUMB_SMALL_HEIGHT
    MaxPixels,    \* THUMB_MAX_ALLOWED_MEM_FOR_THUMB
    IntMax,       \* the greatest int
    Fails         \* the library calls that may fail

\* Bytes of a pixel; encoded JPEG data counts as none.
JPEG == 0
RGB565 == 2
RGB888 == 3
BGRA == 4

\* Calls by where they are made; those of Sizes are mm_util_get_image_size.
Sizes == {"thumb_size", "rotate_size", "exif_size", "pixels_size",
          "frame_size", "raw_size", "data_size", "convert_size"}
Calls == {"write", "decode", "resize", "rotate", "evas", "file_set",
          "frame", "content", "attrs", "drm"} \cup Sizes

(***************************************************************************)
(* An original: what it is, or "other" for neither image nor video;        *)
(* "still" is PNG and BMP.  turns are the quarter turns that make it       *)
(* upright.  A video without track has no size.                            *)
(***************************************************************************)
ImageTypes == {"jpeg", "gif", "still", "wbmp", "unknown"}
Types == ImageTypes \cup {"video", "other"}

Exif == [thumb : BOOLEAN,           \* there is a JPEG thumbnail,
         w : Nat, h : Nat,          \* of this size;
         sized : BOOLEAN]           \* the size of the original is given

\* A file at the hash path: a thumbnail as it is in the EXIF data, or upright.
Thumb == [w : Nat, h : Nat, raw : BOOLEAN]

File == [type : Types, w : Nat, h : Nat,
         turns : 0 .. 3 \cup {Mirrored}, exif : Exif \cup {NoExif},
         there : Thumb \cup {NoThumb},
         bytes : Seq(Byte), images : Seq(Nat \X Nat),
         blocks : Seq(Format!Block), whole : BOOLEAN]

\* The width or height of a picture is an int, but only a height can come out
\* as the least one, from a division 0 / 0 (see ProperSizes).
IntMin == -IntMax - 1
Height == Nat \cup {IntMin}

\* The pixels in a buffer, and the quarter turns they still need.
Image == [left : 0 .. 3 \cup {Mirrored}, w : Nat, h : Height,
          bpp : {JPEG, RGB565, RGB888, BGRA}]
Pixels(left, w, h, bpp) == [left |-> left, w |-> w, h |-> h, bpp |-> bpp]

\* A buffer of the size mm_util_get_image_size gives.
Buffer == [size : Nat, image : Image]
Holding(image) == [size |-> image.w * image.h * image.bpp, image |-> image]

ASSUME ImageAssumption ==
    /\ Files \subseteq File
    /\ NULL \notin Buffers /\ Unused \notin Buffer
    /\ NoExif \notin Exif /\ NoThumb \notin Thumb /\ Mirrored \notin 0 .. 3
    /\ {LARGE_WIDTH, LARGE_HEIGHT, SMALL_WIDTH, SMALL_HEIGHT} \subseteq Nat \ {0}
    /\ SMALL_WIDTH < LARGE_WIDTH
    /\ MaxPixels \in Nat /\ IntMax \in Nat /\ MaxPixels <= IntMax
    /\ Fails \subseteq Calls

VARIABLES
    want,         \* the thumbnail type: "large" or "small"
    pc,           \* the next library call, or "start" or "done"
    failed,       \* the call that ended was an error
    info,         \* thumb_info
    thumb_width, thumb_height,  \* the size the thumbnail is to have
    src, dst,     \* locals: the buffer to read from and the one to fill
    n_times,      \* quarter turns still to do
    heap,         \* [Buffers -> Buffer \cup {Unused}]
    open          \* library objects that are to be closed

input == <<file, want>>
size == <<thumb_width, thumb_height>>
locals == <<src, dst, n_times>>
imageVars == <<input, pc, failed, info, size, locals, heap, open>>

Labels == {"start", "exif", "write", "decode", "resize_thumb", "orient",
           "turn", "convert_thumb", "evas", "load", "target", "pixels",
           "wbmp", "measure", "frame", "convert_frame", "copy_frame",
           "content", "tracks", "read_frame", "resize_data", "resize_copy",
           "convert", "done"}

Info == [data : Buffers \cup {NULL}, size : Nat, width : Nat, height : Height,
         origin_width : Nat, origin_height : Nat]
NoInfo == [data |-> NULL, size |-> 0, width |-> 0, height |-> 0,
           origin_width |-> 0, origin_height |-> 0]

Objects == {"exif", "ee", "target_ee", "frame", "content"}

ImageOK ==
    /\ HeaderOK /\ want \in {"large", "small"}
    /\ pc \in Labels /\ failed \in BOOLEAN
    /\ info \in Info
    /\ thumb_width \in Nat /\ thumb_height \in Height
    /\ {src, dst} \subseteq Buffers \cup {NULL}
    /\ n_times \in 0 .. 3
    /\ heap \in [Buffers -> Buffer \cup {Unused}]
    /\ open \subseteq Objects

(***************************************************************************)
(* malloc and free.  A step of this module takes one new buffer.           *)
(***************************************************************************)
Freed(gone) == [b \in Buffers |-> IF b \in gone THEN Unused ELSE heap[b]]

\* b is new, and is filled when those gone are freed.
Allocated(b, gone, buffer) ==
    /\ heap[b] = Unused
    /\ heap' = [Freed(gone) EXCEPT ![b] = buffer]

\* Leaving with an error: what is freed, what is closed; info is forgotten.
Fail(gone, closed) ==
    /\ pc' = "done" /\ failed' = TRUE
    /\ heap' = Freed(gone)
    /\ open' = open \ closed
    /\ src' = NULL /\ dst' = NULL /\ n_times' = 0
    /\ UNCHANGED <<input, info, size>>

Go(label) == pc' = label /\ UNCHANGED failed

MayFail(call) == call \in Fails

(***************************************************************************)
(* Sizes.                                                                  *)
(***************************************************************************)
get_width(type) == IF type = "large" THEN LARGE_WIDTH ELSE SMALL_WIDTH
get_height(type) == IF type = "large" THEN LARGE_HEIGHT ELSE SMALL_HEIGHT

Least(a, b) == IF a < b THEN a ELSE b

\* Mutant of Scaled: always one less.
ScaledShort(w, short, long) == {((w * short) \div long) - 1}

\* The shorter side when the longer one becomes w: w times a double that is
\* rounded, so that a whole result may come out one less.
Scaled(w, short, long) ==
    LET s == (w * short) \div long IN
    IF short < long /\ s > 0 /\ (w * short) % long = 0 THEN {s - 1, s} ELSE {s}

\* 0 / 0 is no number, and what it is as an int is undefined: 0 on an ARM, the
\* least int on an x86.
ZeroByZero == {0, IntMin}

\* Mutant of ProperSizes: the width decides, also of a portrait.
ProperByWidth(type, w, h) ==
    LET tw == Least(w, get_width(type)) IN
    {<<tw, th>> : th \in IF w = 0 THEN ZeroByZero ELSE Scaled(tw, h, w)}

\* _media_thumb_get_proper_thumb_size
ProperSizes(type, w, h) ==
    IF w < h
    THEN LET th == Least(h, get_width(type)) IN
         {<<tw, th>> : tw \in Scaled(th, w, h)}
    ELSE LET tw == Least(w, get_width(type)) IN
         {<<tw, th>> : th \in IF w = 0 THEN ZeroByZero ELSE Scaled(tw, h, w)}

\* The thumbnail of an original of that size gets its proper size.
Fit(w, h) ==
    \E proper \in ProperSizes(want, w, h) :
       thumb_width' = proper[1] /\ thumb_height' = proper[2]

\* width * height > THUMB_MAX_ALLOWED_MEM_FOR_THUMB; int overflow is undefined.
TooBig(w, h) == IF w * h <= IntMax THEN {w * h > MaxPixels} ELSE BOOLEAN

(***************************************************************************)
(* _media_thumb_image and _media_thumb_video up to their first call.       *)
(***************************************************************************)
ReadHeader ==
    /\ pc = "start" /\ file.type \in ImageTypes
    /\ HeaderStep
    /\ UNCHANGED imageVars

FirstCall == [jpeg |-> "exif", agif |-> "frame", gif |-> "evas",
              still |-> "evas"]

Start ==
    /\ pc = "start" /\ (file.type \in ImageTypes => at = "done")
    /\ info' = [NoInfo EXCEPT !.origin_width = image_info.width,
                              !.origin_height = image_info.height]
    /\ \/ /\ image_type \in {"agif", "gif", "still"}
          /\ \E big \in TooBig(image_info.width, image_info.height) :
                IF big THEN pc' = "done" /\ failed' = TRUE
                       ELSE Go(FirstCall[image_type])
       \/ image_type = "jpeg" /\ Go(FirstCall[image_type])
       \/ file.type = "wbmp" /\ Go("wbmp")
       \/ file.type = "video" /\ Go("content")
       \/ /\ image_type \in {"none", "unknown"}
          /\ file.type \in ImageTypes \ {"wbmp"}
          /\ pc' = "done" /\ failed' = TRUE
       \/ file.type = "other" /\ Go("done")
    /\ UNCHANGED <<input, size, locals, heap, open>>

(***************************************************************************)
(* _media_thumb_jpeg.  Without a usable EXIF thumbnail, whatever the       *)
(* reason, the original is decoded.                                        *)
(***************************************************************************)
\* Mutants of DecodeInstead: the buffers, or the EXIF data, are kept.
DecodeInsteadKept(gone) ==
    /\ Go("evas")
    /\ open' = open \ {"exif"}
    /\ src' = NULL /\ dst' = NULL /\ n_times' = 0
    /\ UNCHANGED <<input, size, heap>>

DecodeInsteadOpen(gone) ==
    /\ Go("evas")
    /\ heap' = Freed(gone)
    /\ src' = NULL /\ dst' = NULL /\ n_times' = 0
    /\ UNCHANGED <<input, size, open>>

DecodeInstead(gone) ==
    /\ Go("evas")
    /\ heap' = Freed(gone)
    /\ open' = open \ {"exif"}
    /\ src' = NULL /\ dst' = NULL /\ n_times' = 0
    /\ UNCHANGED <<input, size>>

HasThumb == IF file.exif = NoExif THEN FALSE ELSE file.exif.thumb

\* _media_thumb_get_thumb_from_exif: the tags, and a copy of the thumbnail
ReadExif ==
    /\ pc = "exif"
    /\ \/ /\ ~HasThumb
          /\ DecodeInstead({})
          /\ UNCHANGED info
       \/ /\ HasThumb
          /\ Go("write")
          /\ src' \in Buffers
          /\ Allocated(src', {}, [size |-> 1, image |->
                Pixels(file.turns, file.exif.w, file.exif.h, JPEG)])
          /\ info' = IF file.exif.sized
                     THEN [info EXCEPT !.origin_width = file.w,
                                       !.origin_height = file.h]
                     ELSE info
          /\ open' = open \cup {"exif"}
          /\ UNCHANGED <<input, size, dst, n_times>>

(***************************************************************************)
(* The copy is written to the hash path, unless a file is there already,   *)
(* and freed.  Then what is at the hash path is decoded: the thumbnail or, *)
(* when a job or a client had it made before, perhaps one that is upright. *)
(***************************************************************************)
WriteThumb ==
    /\ pc = "write"
    /\ \/ /\ Go("decode")
          /\ heap' = Freed({src}) /\ src' = NULL
          /\ UNCHANGED <<input, size, dst, n_times, open>>
       \/ MayFail("write") /\ DecodeInstead({src})
    /\ UNCHANGED info

OnDisk == IF file.there # NoThumb THEN file.there
          ELSE [w |-> file.exif.w, h |-> file.exif.h, raw |-> TRUE]

\* The turns it needs; what is done later does not ask which of the two it is.
Needs(thumb) == IF thumb.raw THEN file.turns ELSE 0

\* One that is too small is not used.
DecodeThumb ==
    /\ pc = "decode"
    /\ LET e == OnDisk
           small == want = "large" /\ e.w < LARGE_WIDTH
           large == want = "small" /\ e.w > SMALL_WIDTH
       IN \/ MayFail("decode") /\ DecodeInstead({})
          \/ small /\ DecodeInstead({})
          \/ /\ ~small
             /\ Go(IF large THEN "resize_thumb" ELSE "orient")
             /\ src' \in Buffers
             /\ Allocated(src', {},
                   Holding(Pixels(Needs(e), e.w, e.h, RGB888)))
             /\ UNCHANGED <<input, size, dst, n_times, open>>
    /\ UNCHANGED info

\* A small thumbnail is resized too, to the size of a large one.
ResizeThumb ==
    /\ pc = "resize_thumb"
    /\ \/ MayFail("thumb_size") /\ DecodeInstead({src})
       \/ MayFail("resize") /\ DecodeInstead({src})
       \/ /\ Go("orient")
          /\ src' \in Buffers
          /\ Allocated(src', {src},
                Holding(Pixels(Needs(OnDisk), LARGE_WIDTH, LARGE_HEIGHT, RGB888)))
          /\ UNCHANGED <<input, size, dst, n_times, open>>
    /\ UNCHANGED info

\* The picture in b becomes that of thumb_info.
Finished(b, buffer) ==
    info' = [info EXCEPT !.data = b, !.size = buffer.size,
                         !.width = buffer.image.w, !.height = buffer.image.h]

\* Only the rotations are done here; mirrored pictures are decoded by Evas.
Orient ==
    /\ pc = "orient"
    /\ \/ /\ file.turns = 0
          /\ Go("convert_thumb")
          /\ Finished(src, heap[src])
          /\ src' = NULL
          /\ UNCHANGED <<input, size, dst, n_times, heap, open>>
       \/ /\ file.turns \in 1 .. 3
          /\ Go("turn")
          /\ dst' \in Buffers
          /\ Allocated(dst', {}, heap[src])
          /\ n_times' = file.turns
          /\ UNCHANGED <<input, size, info, src, open>>
       \/ /\ file.turns \in 1 .. 3 => MayFail("rotate_size")
          /\ file.turns # 0
          /\ DecodeInstead({src})
          /\ UNCHANGED info

\* Mutant of Turned: it turns the other way.
TurnedBack(image) ==
    [image EXCEPT !.left = (@ + 1) % 4, !.w = image.h, !.h = image.w]

\* mm_util_rotate_image by 90 degrees
Turned(image) ==
    [image EXCEPT !.left = (@ + 3) % 4, !.w = image.h, !.h = image.w]

\* One turn of the loop; dst is the source of the next.
Turn ==
    /\ pc = "turn"
    /\ LET turned == [heap[dst] EXCEPT !.image = Turned(heap[src].image)] IN
       \/ /\ MayFail("rotate")
          /\ DecodeInstead({src, dst})
          /\ UNCHANGED info
       \/ /\ n_times = 1
          /\ Go("convert_thumb")
          /\ heap' = [Freed({src}) EXCEPT ![dst] = turned]
          /\ Finished(dst, turned)
          /\ src' = NULL /\ dst' = NULL /\ n_times' = 0
          /\ UNCHANGED <<input, size, open>>
       \/ /\ n_times > 1
          /\ dst' \in Buffers \ {dst}
          /\ heap[dst'] = Unused
          /\ heap' = [Freed({src}) EXCEPT ![dst] = turned, ![dst'] = turned]
          /\ src' = dst /\ n_times' = n_times - 1
          /\ UNCHANGED <<input, pc, failed, info, size, open>>

\* _media_thumb_convert_data: the picture of thumb_info from RGB888 to BGRA
ToBGRA(closed) ==
    /\ Go("done")
    /\ LET bgra == [size |-> info.width * info.height * BGRA,
                    image |-> [heap[info.data].image EXCEPT !.bpp = BGRA]]
       IN \E b \in Buffers :
             /\ Allocated(b, {info.data}, bgra)
             /\ info' = [info EXCEPT !.data = b, !.size = bgra.size]
    /\ open' = open \ closed
    /\ UNCHANGED <<input, size, locals>>

\* The size for the conversion failing, the picture is not freed.
ConvertThumb ==
    /\ pc = "convert_thumb"
    /\ \/ ToBGRA({"exif"})
       \/ MayFail("exif_size") /\ Fail({}, {"exif"})

(***************************************************************************)
(* _media_thumb_decode_with_evas: from one canvas, which loads the file    *)
(* upright and scaled, to the pixels of another.                           *)
(***************************************************************************)
Opened(object, label) ==
    /\ Go(label)
    /\ open' = open \cup {object}
    /\ UNCHANGED <<input, info, size, locals, heap>>

OpenSource ==
    /\ pc = "evas"
    /\ \/ Opened("ee", "load")
       \/ MayFail("evas") /\ Fail({}, {})

\* Some of the mirrored pictures lie on their side as well.
UprightSizes ==
    (IF file.turns \in {1, 3} THEN {} ELSE {<<file.w, file.h>>})
    \cup (IF file.turns \in {0, 2} THEN {} ELSE {<<file.h, file.w>>})

\* evas_object_image_size_get: nobody asks whether the file could be loaded,
\* and one that could not has no size.
Loaded(sizes) ==
    sizes \cup (IF MayFail("file_set") THEN {<<0, 0>>} ELSE {})

LoadSource ==
    /\ pc = "load"
    /\ \/ /\ Go("target")
          /\ \E upright \in Loaded(UprightSizes) :
                /\ info' = [info EXCEPT !.origin_width = upright[1],
                                        !.origin_height = upright[2]]
                /\ Fit(upright[1], upright[2])
          /\ UNCHANGED <<input, locals, heap, open>>
       \/ MayFail("evas") /\ Fail({}, {"ee"})

OpenTarget ==
    /\ pc = "target"
    /\ \/ Opened("target_ee", "pixels")
       \/ MayFail("evas") /\ Fail({}, {"ee"})

CopyPixels ==
    /\ pc = "pixels"
    /\ \/ /\ Go("done")
          /\ LET copy == Holding(Pixels(0, thumb_width, thumb_height, BGRA)) IN
             \E b \in Buffers : Allocated(b, {}, copy) /\ Finished(b, copy)
          /\ open' = open \ {"ee", "target_ee"}
          /\ UNCHANGED <<input, size, locals>>
       \/ /\ MayFail("pixels_size") \/ MayFail("evas")
          /\ Fail({}, {"ee", "target_ee"})

(***************************************************************************)
(* A WBMP is known by its extension only: _media_thumb_get_wh_with_evas    *)
(* gives its size.                                                         *)
(***************************************************************************)
OpenToMeasure ==
    /\ pc = "wbmp"
    /\ \/ Opened("ee", "measure")
       \/ MayFail("evas") /\ Fail({}, {})

Measure ==
    /\ pc = "measure"
    /\ \E s \in Loaded({<<file.w, file.h>>}) :
          \/ /\ FALSE \in TooBig(s[1], s[2])
             /\ Go("evas")
             /\ open' = open \ {"ee"}
             /\ info' = [info EXCEPT !.origin_width = s[1], !.origin_height = s[2]]
             /\ UNCHANGED <<input, size, locals, heap>>
          \/ /\ TRUE \in TooBig(s[1], s[2]) \/ MayFail("evas")
             /\ Fail({}, {"ee"})

(***************************************************************************)
(* _media_thumb_agif with ImgGetFirstFrameAGIFAtSize: the first frame      *)
(* decoded, converted and copied.                                          *)
(***************************************************************************)
CreateFrame ==
    /\ pc = "frame"
    /\ \/ /\ Go("convert_frame")
          /\ src' \in Buffers
          /\ Allocated(src', {}, Holding(Pixels(0, image_info.width,
                                             image_info.height, RGB565)))
          /\ open' = open \cup {"frame"}
          /\ UNCHANGED <<input, info, size, dst, n_times>>
       \/ MayFail("frame") /\ Fail({}, {})

\* ImgConvertRGB565ToRGB888
ConvertFrame ==
    /\ pc = "convert_frame"
    /\ \/ /\ Go("copy_frame")
          /\ src' \in Buffers
          /\ Allocated(src', {src}, Holding([heap[src].image EXCEPT !.bpp = RGB888]))
          /\ UNCHANGED <<input, info, size, dst, n_times, open>>
       \/ MayFail("frame_size") /\ Fail({src}, {"frame"})

\* The size for the copy failing, the frame is not destroyed.
CopyFrame ==
    /\ pc = "copy_frame"
    /\ \/ /\ Go("resize_data")
          /\ src' \in Buffers
          /\ Allocated(src', {src}, heap[src])
          /\ open' = open \ {"frame"}
          /\ Fit(info.origin_width, info.origin_height)
          /\ UNCHANGED <<input, info, dst, n_times>>
       \/ MayFail("raw_size") /\ Fail({}, {})

(***************************************************************************)
(* _media_thumb_video.  The frame belongs to the content: src is NULL.     *)
(* Whether the file is DRM is not initialised when the call for it fails.  *)
(***************************************************************************)
OpenContent ==
    /\ pc = "content"
    /\ \/ Opened("content", "tracks")
       \/ MayFail("content") /\ Fail({}, {})

CountTracks ==
    /\ pc = "tracks"
    /\ \/ /\ file.w > 0 \/ MayFail("drm")
          /\ Go("read_frame")
          /\ UNCHANGED <<input, info, size, locals, heap, open>>
       \/ /\ file.w = 0 \/ MayFail("attrs")
          /\ Fail({}, {"content"})

\* A frame larger than the thumbnail is resized to it, whatever its shape.
ReadFrame ==
    /\ pc = "read_frame"
    /\ LET whole == file.w > 0 /\ file.h > 0
           larger == file.w > thumb_width \/ file.h > thumb_height
           sized == [info EXCEPT !.origin_width = file.w,
                                 !.origin_height = file.h]
           copy == Holding(Pixels(0, file.w, file.h, RGB888))
       IN \/ /\ whole /\ larger
             /\ Go("resize_data")
             /\ info' = sized
             /\ UNCHANGED <<input, size, locals, heap, open>>
          \/ /\ whole /\ ~larger
             /\ Go("convert")
             /\ \E b \in Buffers :
                   /\ Allocated(b, {}, copy)
                   /\ info' = [sized EXCEPT !.data = b, !.size = copy.size,
                                            !.width = file.w, !.height = file.h]
             /\ UNCHANGED <<input, size, locals, open>>
          \/ /\ ~whole \/ MayFail("attrs")
             /\ Fail({}, {"content"})

(***************************************************************************)
(* _media_thumb_resize_data, and the conversion that follows it.           *)
(***************************************************************************)
ResizeData ==
    /\ pc = "resize_data"
    /\ \/ /\ Go("resize_copy")
          /\ dst' \in Buffers
          /\ Allocated(dst', {},
                Holding(Pixels(0, thumb_width, thumb_height, RGB888)))
          /\ UNCHANGED <<input, info, size, src, n_times, open>>
       \/ MayFail("data_size") /\ Fail({src}, {"content"})

ResizeCopy ==
    /\ pc = "resize_copy"
    /\ \/ /\ Go("convert")
          /\ \E b \in Buffers :
                Allocated(b, {src, dst}, heap[dst]) /\ Finished(b, heap[dst])
          /\ src' = NULL /\ dst' = NULL
          /\ UNCHANGED <<input, size, n_times, open>>
       \/ MayFail("resize") /\ Fail({src, dst}, {"content"})

Convert ==
    /\ pc = "convert"
    /\ \/ ToBGRA({"content"})
       \/ MayFail("convert_size") /\ Fail({info.data}, {"content"})

(***************************************************************************)
(* Calls.  The caller frees what it was given and calls again.             *)
(***************************************************************************)
Call ==
    /\ file' \in Files /\ want' \in {"large", "small"}
    /\ pc' = "start" /\ failed' = FALSE
    /\ info' = NoInfo
    /\ thumb_width' = get_width(want') /\ thumb_height' = get_height(want')
    /\ src' = NULL /\ dst' = NULL /\ n_times' = 0
    /\ at' = "open" /\ image_type' = "none" /\ imagecount' = 0
    /\ image_info' = [width |-> 0, height |-> 0]
    /\ stream' = NoStream /\ misread' = FALSE

Return ==
    /\ pc = "done"
    /\ heap' = Freed(IF failed THEN {} ELSE {info.data})
    /\ Call
    /\ UNCHANGED open

ImageInit ==
    /\ HeaderInit /\ want \in {"large", "small"}
    /\ pc = "start" /\ failed = FALSE
    /\ info = NoInfo
    /\ thumb_width = get_width(want) /\ thumb_height = get_height(want)
    /\ src = NULL /\ dst = NULL /\ n_times = 0
    /\ heap = [b \in Buffers |-> Unused]
    /\ open = {}

ImageStep ==
    \/ Start
    \/ ReadExif \/ WriteThumb \/ DecodeThumb \/ ResizeThumb
    \/ Orient \/ Turn \/ ConvertThumb
    \/ OpenSource \/ LoadSource \/ OpenTarget \/ CopyPixels
    \/ OpenToMeasure \/ Measure
    \/ CreateFrame \/ ConvertFrame \/ CopyFrame
    \/ OpenContent \/ CountTracks \/ ReadFrame
    \/ ResizeData \/ ResizeCopy \/ Convert

ImageNext == ReadHeader \/ (ImageStep /\ UNCHANGED reader) \/ Return

ImageSpec == ImageInit /\ [][ImageNext]_<<imageVars, reader>>

-----------------------------------------------------------------------------
(***************************************************************************)
(* Properties                                                              *)
(***************************************************************************)

\* The pointers that own a buffer; thumb_info is forgotten after an error.
Owners == <<src, dst, IF pc = "done" /\ failed THEN NULL ELSE info.data>>

\* Whichever call fails, and however often the picture was turned: at every
\* moment each buffer has exactly one pointer that will free it, and no
\* pointer is to memory that was freed.  It needs that the two calls of
\* LeakingCalls do not fail.
BuffersOwned ==
    /\ {b \in Buffers : heap[b] # Unused} =
          {Owners[i] : i \in 1 .. 3} \ {NULL}
    /\ \A i, j \in 1 .. 3 : Owners[i] = Owners[j] => i = j \/ Owners[i] = NULL

\* When a call ends, by any of its ways, it has closed what it opened in
\* Evas, libexif, libmm-fileinfo and the GIF decoder.
ObjectsClosed == pc \in {"start", "done"} => open = {}

\* The turns a returned picture may still need: none, or as many as bring one
\* right that was upright already when it was found at the hash path, and was
\* turned all the same.
LeftOver ==
    {0} \cup (IF HasThumb /\ ~OnDisk.raw /\ file.turns \in 1 .. 3
              THEN {4 - file.turns} ELSE {})

\* A picture that is returned is what thumb_info says: BGRA pixels of that
\* width and height, in a buffer of that size.  It is upright, however it was
\* made and wherever an error sent it another way, but for the one case where
\* the job found an upright thumbnail in place of the raw one.
PictureWhole ==
    pc = "done" /\ ~failed /\ file.type # "other" =>
       \E left \in LeftOver :
          LET picture == Pixels(left, info.width, info.height, BGRA) IN
          /\ info.data # NULL
          /\ heap[info.data] = Holding(picture)
          /\ info.size = Holding(picture).size

\* A decoded image (not an EXIF thumbnail, not a video frame) is no larger
\* than the original, its longer side no longer than the width of the
\* thumbnail type, and the other side in proportion, one pixel short at most.
ThumbFits ==
    pc = "done" /\ ~failed /\ file.type \in ImageTypes /\ ~HasThumb =>
       LET ow == info.origin_width   tw == info.width
           oh == info.origin_height  th == info.height
       IN /\ tw <= Least(ow, get_width(want))
          /\ th <= Least(oh, get_width(want))
          /\ IF ow < oh THEN th * ow - tw * oh \in 0 .. oh
                        ELSE tw * oh - th * ow \in 0 .. ow

LeakingCalls == {"exif_size", "raw_size"}
=============================================================================
