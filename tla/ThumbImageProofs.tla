-------------------------- MODULE ThumbImageProofs --------------------------
(***************************************************************************)
(* Proofs about the making of a picture, for every original, size of the   *)
(* thumbnails, memory and choice of the calls that fail: the header is     *)
(* read from the file itself, what a call opens it closes, what it         *)
(* allocates has one owner, and the picture it returns is right.           *)
(***************************************************************************)
EXTENDS ThumbImage, ImgHeaderProofs

-----------------------------------------------------------------------------
\* Only ReadHeader and Return touch the header's reader and the file.
LEMMA StepKeepsFile == ImageStep => UNCHANGED input
  BY DEF ImageStep, Start, ReadExif, WriteThumb, DecodeThumb, ResizeThumb,
         Orient, Turn, ConvertThumb, OpenSource, LoadSource, OpenTarget,
         CopyPixels, OpenToMeasure, Measure, CreateFrame, ConvertFrame,
         CopyFrame, OpenContent, CountTracks, ReadFrame, ResizeData,
         ResizeCopy, Convert, DecodeInstead, Fail, ToBGRA, Opened

LEMMA NoStreamCoherent == NoStream \in Stream /\ Coherent(NoStream)
  BY HeaderAssumption DEF HeaderAssumption, NoStream, Coherent, Stream, Byte

LEMMA ImageHeaderReaches ==
  /\ ImageSpec => []HeaderReach
  /\ ImageSpec => [][(at' = "open") \/ Goes]_reader
  <1>1. ImageInit => HeaderReach
    BY StreamInvInit, ReachInit
    DEF ImageInit, HeaderInit, HeaderStart, HeaderReach
  <1>2. HeaderReach /\ [ImageNext]_<<imageVars, reader>>
          => HeaderReach' /\ [(at' = "open") \/ Goes]_reader
    <2> SUFFICES ASSUME HeaderReach, [ImageNext]_<<imageVars, reader>>
                 PROVE  HeaderReach' /\ [(at' = "open") \/ Goes]_reader
      OBVIOUS
    <2>1. CASE ReadHeader
      BY <2>1, StreamInvStep, StepReaches
      DEF ReadHeader, imageVars, input, HeaderReach
    <2>2. ASSUME UNCHANGED <<input, reader>> PROVE HeaderReach'
      BY <2>2
      DEF input, reader, HeaderReach, StreamInv, StreamCoherent, Coherent,
          Reach, Within, Over
    <2>3. CASE ImageStep /\ UNCHANGED reader
      BY <2>2, <2>3, StepKeepsFile
    <2>4. CASE Return
      <3>1. stream' = NoStream /\ file' \in Files /\ at' = "open"
        BY <2>4 DEF Return, Call, HeaderStart
      <3>2. StreamInv'
        BY <3>1, NoStreamCoherent, HeaderAssumption
        DEF HeaderAssumption, StreamInv, StreamCoherent, Coherent, NoStream,
            Stream, Byte
      <3>3. Reach'
        BY <3>1, HeaderAssumption
        DEF HeaderAssumption, NoStream, Reach, Within, Over, MaxSkip
      <3> QED
        BY <3>1, <3>2, <3>3 DEF HeaderReach
    <2>5. CASE UNCHANGED <<imageVars, reader>>
      BY <2>2, <2>5 DEF imageVars
    <2> QED
      BY <2>1, <2>3, <2>4, <2>5 DEF ImageNext
  <1> QED
    BY <1>1, <1>2, PTL DEF ImageSpec

\* However many originals the library is given, one after the other, the
\* buffer holds the piece of the present one that ends at its offset.
THEOREM ImageStreamCoherent == ImageSpec => []StreamCoherent
  <1>1. HeaderReach => StreamCoherent
    BY DEF HeaderReach, StreamInv
  <1> QED
    BY <1>1, ImageHeaderReaches, PTL

\* Of none of these originals the parser reads more than a block behind the
\* end, wherever it is cut off.
THEOREM ImageHeaderBounded == ImageSpec => []HeaderBounded
  <1>1. HeaderReach => HeaderBounded
    BY ReachBounds DEF HeaderReach
  <1> QED
    BY <1>1, ImageHeaderReaches, PTL

\* Nor does the parser go back in any of them, until the next is given.
THEOREM ImageHeaderAdvances == ImageSpec => HeaderAdvances
  <1>1. [(at' = "open") \/ Goes]_reader
          => [\/ at' = "open"
              \/ Position' > Position
              \/ Position' = Position /\ Rank(at') < Rank(at)]_reader
    BY DEF Goes, Where, Position
  <1> QED
    BY <1>1, ImageHeaderReaches, PTL DEF HeaderAdvances

\* All of them are read as by a parser without a buffer.
THEOREM ImageFollowsBlocks ==
  ASSUME RoomForBlocks
  PROVE  ImageSpec => BlocksFollowed
  <1>1. ImageInit => Follow
    BY FollowStart DEF ImageInit, HeaderInit, HeaderStart
  <1>2. HeaderReach /\ Follow /\ [ImageNext]_<<imageVars, reader>>
          => /\ Follow'
             /\ [\/ misread' \/ at' = "open"
                 \/ at = "open" /\ (at' = "done" \/ Blocks!Init')
                 \/ Blocks!Next]_reader
    <2> SUFFICES ASSUME HeaderReach, Follow, [ImageNext]_<<imageVars, reader>>
                 PROVE  /\ Follow'
                        /\ [\/ misread' \/ at' = "open"
                            \/ at = "open" /\ (at' = "done" \/ Blocks!Init')
                            \/ Blocks!Next]_reader
      OBVIOUS
    <2>1. CASE ReadHeader
      BY <2>1, StepFollows
      DEF ReadHeader, imageVars, input, HeaderReach, Follows
    <2>2. CASE ImageStep /\ UNCHANGED reader
      BY <2>2, StepKeepsFile, FollowStutter DEF input
    <2>3. CASE Return
      <3>1. /\ stream' = NoStream /\ at' = "open" /\ imagecount' = 0
            /\ image_type' = "none"
        BY <2>3 DEF Return, Call
      <3>2. Follow'
        BY <3>1 DEF Follow, Filled, NoStream
      <3> QED
        BY <3>1, <3>2
    <2>4. CASE UNCHANGED <<imageVars, reader>>
      BY <2>4, FollowStutter DEF imageVars, input
    <2> QED
      BY <2>1, <2>2, <2>3, <2>4 DEF ImageNext
  <1> QED
    BY <1>1, <1>2, ImageHeaderReaches, PTL DEF ImageSpec, BlocksFollowed

\* Of all those that are whole GIFs the images are counted right, and the size
\* is that of the first one, but for a length that is misread.
THEOREM ImageHeaderRight ==
  ASSUME RoomForBlocks
  PROVE  ImageSpec => []HeaderRight
  <1> DEFINE Inv == HeaderReach /\ Follow /\ OnBlocks
  <1>1. ImageInit => Follow /\ OnBlocks
    BY FollowStart DEF ImageInit, HeaderInit, HeaderStart, OnBlocks
  <1>2. Inv /\ [ImageNext]_<<imageVars, reader>> => Follow' /\ OnBlocks'
    <2> SUFFICES ASSUME Inv, [ImageNext]_<<imageVars, reader>>
                 PROVE  Follow' /\ OnBlocks'
      OBVIOUS
    <2>1. CASE ReadHeader
      BY <2>1, StepFollows, RightStep
      DEF ReadHeader, imageVars, input, HeaderReach
    <2>2. CASE ImageStep /\ UNCHANGED reader
      BY <2>2, StepKeepsFile, FollowStutter, RightStutter DEF input
    <2>3. CASE Return
      <3>1. /\ stream' = NoStream /\ at' = "open" /\ imagecount' = 0
            /\ image_type' = "none"
        BY <2>3 DEF Return, Call, HeaderStart
      <3> QED
        BY <3>1 DEF Follow, Filled, NoStream, OnBlocks
    <2>4. CASE UNCHANGED <<imageVars, reader>>
      BY <2>4, FollowStutter, RightStutter DEF imageVars, input
    <2> QED
      BY <2>1, <2>2, <2>3, <2>4 DEF ImageNext
  <1>3. HeaderReach /\ OnBlocks => HeaderRight
    BY RightHolds DEF HeaderReach, StreamInv
  <1> QED
    BY <1>1, <1>2, <1>3, ImageHeaderReaches, PTL DEF ImageSpec

-----------------------------------------------------------------------------
\* The labels at which an object may be open.
OpenInv ==
    /\ pc \in Labels /\ open \subseteq Objects
    /\ "exif" \in open =>
          pc \in {"write", "decode", "resize_thumb", "orient", "turn",
                  "convert_thumb"}
    /\ "ee" \in open => pc \in {"load", "target", "measure", "pixels"}
    /\ "target_ee" \in open => pc = "pixels"
    /\ "frame" \in open => pc \in {"convert_frame", "copy_frame"}
    /\ "content" \in open =>
          pc \in {"tracks", "read_frame", "resize_data", "resize_copy",
                  "convert"}

LEMMA OpenInvStep ==
  ASSUME "raw_size" \notin Fails, OpenInv, ImageStep
  PROVE  OpenInv'
  <1> USE DEF OpenInv, Objects, Labels, Go
  <1>1. CASE Start
    BY <1>1 DEF Start, FirstCall
  <1>2. ASSUME NEW gone, DecodeInstead(gone), open \subseteq {"exif"}
        PROVE  OpenInv'
    BY <1>2 DEF DecodeInstead
  <1>3. ASSUME NEW gone, NEW closed, Fail(gone, closed), open \subseteq closed
        PROVE  OpenInv'
    BY <1>3 DEF Fail
  <1>4. ASSUME NEW closed, ToBGRA(closed), open \subseteq closed
        PROVE  OpenInv'
    BY <1>4 DEF ToBGRA
  <1>5. CASE ReadExif
    BY <1>2, <1>5 DEF ReadExif
  <1>6. CASE WriteThumb
    BY <1>2, <1>6 DEF WriteThumb
  <1>7. CASE DecodeThumb
    BY <1>2, <1>7 DEF DecodeThumb
  <1>8. CASE ResizeThumb
    BY <1>2, <1>8 DEF ResizeThumb
  <1>9. CASE Orient
    BY <1>2, <1>9 DEF Orient
  <1>10. CASE Turn
    BY <1>2, <1>10 DEF Turn
  <1>11. CASE ConvertThumb
    BY <1>3, <1>4, <1>11 DEF ConvertThumb
  <1>12. CASE OpenSource \/ OpenTarget \/ OpenToMeasure \/ OpenContent
    BY <1>3, <1>12
    DEF OpenSource, OpenTarget, OpenToMeasure, OpenContent, Opened
  <1>13. CASE LoadSource
    <2>1. \/ pc' = "target" /\ UNCHANGED open
          \/ pc' = "done" /\ open' = open \ {"ee"}
      BY <1>13, Zenon DEF LoadSource, Go, Fail
    <2>2. pc = "load"
      BY <1>13 DEF LoadSource
    <2> QED
      BY <2>1, <2>2
  <1>14. CASE CopyPixels
    <2>1. pc' = "done" /\ open' = open \ {"ee", "target_ee"}
      BY <1>14, Zenon DEF CopyPixels, Go, Fail
    <2>2. pc = "pixels"
      BY <1>14 DEF CopyPixels
    <2> QED
      BY <2>1, <2>2
  <1>15. CASE Measure
    <2>1. \/ pc' = "evas" /\ open' = open \ {"ee"}
          \/ pc' = "done" /\ open' = open \ {"ee"}
      BY <1>15, Zenon DEF Measure, Go, Fail
    <2>2. pc = "measure"
      BY <1>15 DEF Measure
    <2> QED
      BY <2>1, <2>2
  <1>16. CASE CreateFrame
    <2>1. \/ pc' = "convert_frame" /\ open' = open \cup {"frame"}
          \/ pc' = "done" /\ open' = open \ {}
      BY <1>16, Zenon DEF CreateFrame, Go, Fail
    <2>2. pc = "frame"
      BY <1>16 DEF CreateFrame
    <2> QED
      BY <2>1, <2>2
  <1>17. CASE ConvertFrame
    <2>1. \/ pc' = "copy_frame" /\ UNCHANGED open
          \/ pc' = "done" /\ open' = open \ {"frame"}
      BY <1>17, Zenon DEF ConvertFrame, Go, Fail
    <2>2. pc = "convert_frame"
      BY <1>17 DEF ConvertFrame
    <2> QED
      BY <2>1, <2>2
  <1>18. CASE CopyFrame
    BY <1>18 DEF CopyFrame, MayFail
  <1>19. CASE CountTracks
    <2>1. \/ pc' = "read_frame" /\ UNCHANGED open
          \/ pc' = "done" /\ open' = open \ {"content"}
      BY <1>19, Zenon DEF CountTracks, Go, Fail
    <2>2. pc = "tracks"
      BY <1>19 DEF CountTracks
    <2> QED
      BY <2>1, <2>2
  <1>20. CASE ReadFrame
    <2>1. \/ pc' \in {"resize_data", "convert"} /\ UNCHANGED open
          \/ pc' = "done" /\ open' = open \ {"content"}
      BY <1>20, Zenon DEF ReadFrame, Go, Fail
    <2>2. pc = "read_frame"
      BY <1>20 DEF ReadFrame
    <2> QED
      BY <2>1, <2>2
  <1>21. CASE ResizeData
    <2>1. \/ pc' = "resize_copy" /\ UNCHANGED open
          \/ pc' = "done" /\ open' = open \ {"content"}
      BY <1>21, Zenon DEF ResizeData, Go, Fail
    <2>2. pc = "resize_data"
      BY <1>21 DEF ResizeData
    <2> QED
      BY <2>1, <2>2
  <1>22. CASE ResizeCopy
    <2>1. \/ pc' = "convert" /\ UNCHANGED open
          \/ pc' = "done" /\ open' = open \ {"content"}
      BY <1>22, Zenon DEF ResizeCopy, Go, Fail
    <2>2. pc = "resize_copy"
      BY <1>22 DEF ResizeCopy
    <2> QED
      BY <2>1, <2>2
  <1>23. CASE Convert
    BY <1>3, <1>4, <1>23 DEF Convert
  <1> QED
    BY <1>1, <1>5, <1>6, <1>7, <1>8, <1>9, <1>10, <1>11, <1>12, <1>13, <1>14,
       <1>15, <1>16, <1>17, <1>18, <1>19, <1>20, <1>21, <1>22, <1>23
    DEF ImageStep

\* Whichever of the other calls fail, a call that ends, by success or by any
\* of its error returns, has closed every library object that it opened.
THEOREM ImageObjectsClosed ==
  ASSUME "raw_size" \notin Fails
  PROVE  ImageSpec => []ObjectsClosed
  <1>1. ImageInit => OpenInv
    BY DEF ImageInit, OpenInv, Objects, Labels
  <1>2. OpenInv /\ [ImageNext]_<<imageVars, reader>> => OpenInv'
    <2> SUFFICES ASSUME OpenInv, [ImageNext]_<<imageVars, reader>>
                 PROVE  OpenInv'
      OBVIOUS
    <2>1. CASE ReadHeader
      BY <2>1 DEF ReadHeader, imageVars, OpenInv
    <2>2. CASE ImageStep
      BY <2>2, OpenInvStep
    <2>3. CASE Return
      BY <2>3 DEF Return, Call, OpenInv, Objects, Labels
    <2>4. CASE UNCHANGED <<imageVars, reader>>
      BY <2>4 DEF imageVars, OpenInv
    <2> QED
      BY <2>1, <2>2, <2>3, <2>4 DEF ImageNext
  <1>3. OpenInv => ObjectsClosed
    BY DEF OpenInv, Objects, ObjectsClosed
  <1> QED
    BY <1>1, <1>2, <1>3, PTL DEF ImageSpec

-----------------------------------------------------------------------------
(***************************************************************************)
(* Buffers and pictures.  Which pointers own a buffer depends on the label *)
(* only, but for the source of a resize, which a video has not.            *)
(***************************************************************************)
ThumbCalls == {"write", "decode", "resize_thumb", "orient", "turn",
               "convert_thumb"}
VideoCalls == {"content", "tracks", "read_frame"}
HoldsSrc == {"write", "resize_thumb", "orient", "turn", "convert_frame",
             "copy_frame"}
MayHoldSrc == {"resize_data", "resize_copy"}
HoldsDst == {"turn", "resize_copy"}
HoldsData == {"convert_thumb", "convert"}

Pointers ==
    /\ pc \in HoldsSrc => src # NULL
    /\ pc \notin HoldsSrc \cup MayHoldSrc => src = NULL
    /\ dst # NULL <=> pc \in HoldsDst
    /\ pc \in HoldsData => info.data # NULL
    /\ pc \notin HoldsData \cup {"done"} => info.data = NULL

\* What thumb_info owns.
Data == IF pc = "done" /\ failed THEN NULL ELSE info.data

\* A buffer whose owner is a pointer is allocated; and unless the calls fail
\* that leak, no other is.
NoLeaks == LeakingCalls \cap Fails = {}
Held(content, owned) ==
    /\ owned => content # Unused
    /\ NoLeaks => (content # Unused => owned)

Owned ==
    /\ \A b \in Buffers : Held(heap[b], b \in {src, dst, Data})
    /\ src = dst => src = NULL
    /\ src = Data => src = NULL
    /\ dst = Data => dst = NULL

Branches ==
    /\ pc \in ThumbCalls => HasThumb
    /\ pc \in VideoCalls => file.type = "video"

(***************************************************************************)
(* What the buffers hold.  A thumbnail that came raw needs, while it is    *)
(* turned, as many turns as there are to do; one that came upright needs   *)
(* those it has been given back.  The buffer to fill is large enough.      *)
(***************************************************************************)
StillLeft(n) == IF OnDisk.raw THEN n ELSE (4 + n - file.turns) % 4

\* Only pictures without a column have a height that is no number.
Sized(w, h) == w \in Nat /\ h \in Height /\ (h \in Nat \/ w = 0)

Contents ==
    /\ pc = "orient" =>
          \E w, h \in Nat :
             heap[src] = Holding(Pixels(Needs(OnDisk), w, h, RGB888))
    /\ pc = "turn" =>
          /\ n_times \in 1 .. 3
          /\ file.turns \in 1 .. 3 /\ n_times <= file.turns
          /\ \E w, h \in Nat :
                /\ heap[src] = Holding(Pixels(StillLeft(n_times), w, h, RGB888))
                /\ heap[dst].size = heap[src].size
    /\ pc = "convert_frame" => heap[src].image.h \in Nat
    /\ pc = "resize_copy" =>
          heap[dst] = Holding(Pixels(0, thumb_width, thumb_height, RGB888))
    /\ pc \in HoldsData =>
          /\ Sized(info.width, info.height)
          /\ \E left \in LeftOver :
                heap[info.data] =
                   Holding(Pixels(left, info.width, info.height, RGB888))

\* A size that is proper for the original's: the shorter side is rounded.
Proper(tw, th, ow, oh) ==
    /\ tw <= Least(ow, get_width(want))
    /\ th <= Least(oh, get_width(want))
    /\ IF ow < oh THEN th * ow - tw * oh \in 0 .. oh
                  ELSE tw * oh - th * ow \in 0 .. ow

Fitting ==
    file.type \in ImageTypes =>
       /\ pc \in {"target", "pixels", "resize_data", "resize_copy"} =>
             Proper(thumb_width, thumb_height,
                    info.origin_width, info.origin_height)
       /\ pc = "convert" =>
             Proper(info.width, info.height,
                    info.origin_width, info.origin_height)

LocalTypes ==
    /\ file \in Files /\ want \in {"large", "small"}
    /\ pc \in Labels /\ failed \in BOOLEAN /\ (failed => pc = "done")
    /\ info \in Info
    /\ Sized(thumb_width, thumb_height)
    /\ src \in Buffers \cup {NULL} /\ dst \in Buffers \cup {NULL}
    /\ n_times \in 0 .. 3
    /\ heap \in [Buffers -> Buffer \cup {Unused}]
    /\ image_info \in [width : Nat, height : Nat]
    /\ image_type \in HeaderTypes

Memory == LocalTypes /\ Pointers /\ Owned
Picture == Branches /\ Contents /\ PictureWhole /\ Fitting /\ ThumbFits
PictureInv == Memory /\ Picture

-----------------------------------------------------------------------------
LEMMA NatProduct ==
  ASSUME NEW a \in Nat, NEW b \in Nat
  PROVE  a * b \in Nat
  OBVIOUS

LEMMA NoArea ==
  ASSUME NEW h \in Height
  PROVE  0 * h \in Nat
  <1>1. h \in Int
    BY ImageAssumption DEF ImageAssumption, Height, IntMin
  <1> QED
    BY <1>1

LEMMA HoldingFacts ==
  ASSUME NEW left \in 0 .. 3 \cup {Mirrored}, NEW w, NEW h, Sized(w, h),
         NEW bpp \in {JPEG, RGB565, RGB888, BGRA}
  PROVE  LET p == Pixels(left, w, h, bpp) IN
         /\ p \in Image /\ p.left = left /\ p.w = w /\ p.h = h /\ p.bpp = bpp
         /\ Holding(p) \in Buffer /\ Holding(p) # Unused
         /\ Holding(p).image = p /\ Holding(p).size = w * h * bpp
         /\ [p EXCEPT !.bpp = BGRA] = Pixels(left, w, h, BGRA)
         /\ [p EXCEPT !.bpp = RGB888] = Pixels(left, w, h, RGB888)
  <1> DEFINE p == Pixels(left, w, h, bpp)
  <1>1. p \in Image /\ p.left = left /\ p.w = w /\ p.h = h /\ p.bpp = bpp
    BY DEF Pixels, Image, Sized
  <1>2. /\ [p EXCEPT !.bpp = BGRA] = Pixels(left, w, h, BGRA)
        /\ [p EXCEPT !.bpp = RGB888] = Pixels(left, w, h, RGB888)
    BY DEF Pixels
  <1>3. w * h * bpp \in Nat
    <2>1. w * h \in Nat
      BY NatProduct, NoArea DEF Sized
    <2>2. bpp \in Nat
      BY DEF JPEG, RGB565, RGB888, BGRA
    <2> QED
      BY <2>1, <2>2, NatProduct
  <1>4. Holding(p) = [size |-> w * h * bpp, image |-> p]
    BY <1>1 DEF Holding
  <1> HIDE DEF p
  <1>5. Holding(p) \in Buffer
    BY <1>1, <1>3, <1>4 DEF Buffer
  <1>6. Holding(p).image = p /\ Holding(p).size = w * h * bpp
    BY <1>4
  <1>7. Holding(p) # Unused
    BY <1>5, ImageAssumption DEF ImageAssumption
  <1> QED
    BY <1>1, <1>2, <1>5, <1>6, <1>7 DEF p

\* The originals.
LEMMA FileFacts ==
  ASSUME file \in Files
  PROVE  /\ file \in File /\ file.type \in Types
         /\ file.w \in Nat /\ file.h \in Nat
         /\ file.turns \in 0 .. 3 \cup {Mirrored}
         /\ HasThumb => file.exif \in Exif /\ file.exif.w \in Nat
                        /\ file.exif.h \in Nat
         /\ HasThumb => OnDisk \in Thumb
  <1>1. file \in File
    BY ImageAssumption DEF ImageAssumption
  <1>2. /\ file.type \in Types /\ file.w \in Nat /\ file.h \in Nat
        /\ file.turns \in 0 .. 3 \cup {Mirrored}
        /\ file.exif \in Exif \cup {NoExif} /\ file.there \in Thumb \cup {NoThumb}
    BY <1>1 DEF File
  <1>3. HasThumb => file.exif \in Exif /\ file.exif.w \in Nat
                    /\ file.exif.h \in Nat
    BY <1>2 DEF HasThumb, Exif
  <1>4. HasThumb => OnDisk \in Thumb
    BY <1>2, <1>3 DEF OnDisk, Thumb
  <1> QED
    BY <1>1, <1>2, <1>3, <1>4

\* The thumbnail that is decoded and turned.
LEMMA OnDiskFacts ==
  ASSUME file \in Files, HasThumb
  PROVE  /\ OnDisk.w \in Nat /\ OnDisk.h \in Nat /\ OnDisk.raw \in BOOLEAN
         /\ Sized(OnDisk.w, OnDisk.h)
         /\ Needs(OnDisk) \in 0 .. 3 \cup {Mirrored}
         /\ file.turns \in 1 .. 3 => Needs(OnDisk) = StillLeft(file.turns)
         /\ file.turns = 0 => Needs(OnDisk) = 0
         /\ file.turns \in 1 .. 3 => StillLeft(0) \in LeftOver
         /\ \A n \in 1 .. 3 : file.turns \in 1 .. 3 /\ n <= file.turns =>
               /\ StillLeft(n) \in 0 .. 3
               /\ (StillLeft(n) + 3) % 4 = StillLeft(n - 1)
  <1> DEFINE raw == OnDisk.raw
             t == file.turns
  <1>1. OnDisk \in Thumb /\ t \in 0 .. 3 \cup {Mirrored}
    BY FileFacts
  <1>2. OnDisk.w \in Nat /\ OnDisk.h \in Nat /\ raw \in BOOLEAN
    BY <1>1 DEF Thumb
  <1>3. Sized(OnDisk.w, OnDisk.h)
    BY <1>2 DEF Sized, Height
  <1>4. Needs(OnDisk) = IF raw THEN t ELSE 0
    BY DEF Needs
  <1>5. \A n : StillLeft(n) = IF raw THEN n ELSE (4 + n - t) % 4
    BY DEF StillLeft
  <1>6. LeftOver = {0} \cup (IF ~raw /\ t \in 1 .. 3 THEN {4 - t} ELSE {})
    BY DEF LeftOver
  <1> HIDE DEF raw, t
  <1>7. Needs(OnDisk) \in 0 .. 3 \cup {Mirrored}
    BY <1>1, <1>4
  <1>8. t = 0 => Needs(OnDisk) = 0
    BY <1>4
  <1>9. t \in 1 .. 3 => Needs(OnDisk) = StillLeft(t)
    BY <1>4, <1>5
  <1>10. t \in 1 .. 3 => StillLeft(0) \in LeftOver
    <2>1. t \in 1 .. 3 => (4 + 0 - t) % 4 = 4 - t
      OBVIOUS
    <2> QED
      BY <1>5, <1>6, <2>1
  <1>11. ASSUME NEW n \in 1 .. 3, t \in 1 .. 3, n <= t
         PROVE  /\ StillLeft(n) \in 0 .. 3
                /\ (StillLeft(n) + 3) % 4 = StillLeft(n - 1)
    <2>1. (n + 3) % 4 = n - 1
      OBVIOUS
    <2>2. /\ (4 + n - t) % 4 \in 0 .. 3
          /\ (((4 + n - t) % 4) + 3) % 4 = (4 + (n - 1) - t) % 4
      BY <1>11
    <2> QED
      BY <1>5, <2>1, <2>2
  <1> QED
    BY <1>2, <1>3, <1>7, <1>8, <1>9, <1>10, <1>11 DEF raw, t

\* What a picture may still need depends on the file alone.
LEMMA LeftOverFacts ==
  ASSUME file \in Files
  PROVE  /\ 0 \in LeftOver /\ LeftOver \subseteq 0 .. 3
         /\ UNCHANGED file => UNCHANGED LeftOver
  BY DEF LeftOver, HasThumb, OnDisk

-----------------------------------------------------------------------------
(***************************************************************************)
(* The ways buffers change hands.                                          *)
(***************************************************************************)
LEMMA FreedTyped ==
  ASSUME Memory, NEW gone
  PROVE  /\ Freed(gone) \in [Buffers -> Buffer \cup {Unused}]
         /\ \A b \in Buffers :
               Freed(gone)[b] # Unused <=> heap[b] # Unused /\ b \notin gone
  BY DEF Memory, LocalTypes, Freed

\* All that was owned is freed, and nothing is left.
LEMMA AllFreed ==
  ASSUME Memory, NEW gone, heap' = Freed(gone),
         NoLeaks => \A b \in {src, dst, Data} \ {NULL} : b \in gone,
         src' = NULL, dst' = NULL, Data' = NULL
  PROVE  Owned'
  <1>1. \A b \in Buffers : b # NULL
    BY ImageAssumption DEF ImageAssumption
  <1>2. NoLeaks => \A b \in Buffers : heap[b] # Unused => b \in gone
    BY <1>1 DEF Memory, Owned, Held
  <1> QED
    BY <1>1, <1>2, FreedTyped DEF Owned, Held

\* A new buffer, and some old ones freed.
LEMMA OneAllocated ==
  ASSUME Memory, NEW b \in Buffers, NEW gone, NEW buffer \in Buffer,
         Allocated(b, gone, buffer)
  PROVE  /\ b # NULL /\ b \notin {src, dst, Data} /\ heap'[b] = buffer
         /\ heap' \in [Buffers -> Buffer \cup {Unused}]
         /\ \A c \in Buffers :
               Held(heap'[c],
                  c = b \/ (c \in {src, dst, Data} /\ c \notin gone))
         /\ \A c \in Buffers \ {b} : c \notin gone => heap'[c] = heap[c]
  <1>1. b # NULL /\ buffer # Unused
    BY ImageAssumption DEF ImageAssumption
  <1>2. heap[b] = Unused /\ heap' = [Freed(gone) EXCEPT ![b] = buffer]
    BY DEF Allocated
  <1>3. b \notin {src, dst, Data}
    BY <1>2 DEF Memory, Owned, Held
  <1>4. /\ heap' \in [Buffers -> Buffer \cup {Unused}] /\ heap'[b] = buffer
        /\ \A c \in Buffers \ {b} : heap'[c] = Freed(gone)[c]
    BY <1>2, FreedTyped
  <1>5. \A c \in Buffers \ {b} : c \notin gone => heap'[c] = heap[c]
    BY <1>4 DEF Freed
  <1>6. \A c \in Buffers \ {b} :
           Held(heap'[c], c \in {src, dst, Data} /\ c \notin gone)
    BY <1>4, FreedTyped DEF Memory, Owned, Held
  <1> QED
    BY <1>1, <1>3, <1>4, <1>5, <1>6 DEF Held

\* Leaving with an error: whatever was owned is freed.
LEMMA FailKeeps ==
  ASSUME PictureInv, NEW gone, NEW closed, Fail(gone, closed),
         UNCHANGED reader,
         NoLeaks => \A b \in {src, dst, Data} \ {NULL} : b \in gone
  PROVE  PictureInv'
  <1>1. /\ pc' = "done" /\ failed' = TRUE /\ heap' = Freed(gone)
        /\ src' = NULL /\ dst' = NULL /\ n_times' = 0
        /\ UNCHANGED <<file, want, info, thumb_width, thumb_height>>
        /\ UNCHANGED <<image_info, image_type>>
    BY DEF Fail, input, size, reader
  <1>2. Owned'
    BY <1>1, AllFreed DEF PictureInv, Data
  <1>3. LocalTypes'
    <2>1. failed' \in BOOLEAN
      BY <1>1, Zenon
    <2> QED
      BY <1>1, <2>1, FreedTyped DEF PictureInv, Memory, LocalTypes, Labels
  <1>4. Pointers'
    BY <1>1
    DEF Pointers, HoldsSrc, MayHoldSrc, HoldsDst, HoldsData
  <1>5. Picture'
    BY <1>1
    DEF Picture, Branches, Contents, PictureWhole, Fitting, ThumbFits,
        ThumbCalls, VideoCalls, HoldsData
  <1> QED
    BY <1>2, <1>3, <1>4, <1>5 DEF PictureInv, Memory

\* The EXIF thumbnail is of no use.
LEMMA DecodeInsteadKeeps ==
  ASSUME PictureInv, NEW gone, DecodeInstead(gone), UNCHANGED <<info, reader>>,
         pc \in {"exif", "write", "decode", "resize_thumb", "orient", "turn"},
         \A b \in {src, dst} \ {NULL} : b \in gone
  PROVE  PictureInv'
  <1>1. /\ pc' = "evas" /\ failed' = failed /\ heap' = Freed(gone)
        /\ src' = NULL /\ dst' = NULL /\ n_times' = 0
        /\ UNCHANGED <<file, want, info, thumb_width, thumb_height>>
        /\ UNCHANGED <<image_info, image_type>>
    BY DEF DecodeInstead, Go, input, size, reader
  <1>2. info.data = NULL /\ Data = NULL
    BY DEF PictureInv, Memory, Pointers, HoldsData, Data
  <1>3. Owned'
    BY <1>1, <1>2, AllFreed DEF PictureInv, Data
  <1>4. LocalTypes'
    BY <1>1, FreedTyped DEF PictureInv, Memory, LocalTypes, Labels
  <1>5. Pointers'
    BY <1>1, <1>2
    DEF Pointers, HoldsSrc, MayHoldSrc, HoldsDst, HoldsData
  <1>6. Picture'
    BY <1>1
    DEF Picture, Branches, Contents, PictureWhole, Fitting, ThumbFits,
        ThumbCalls, VideoCalls, HoldsData
  <1> QED
    BY <1>3, <1>4, <1>5, <1>6 DEF PictureInv, Memory

\* A step that leaves the buffers alone.
LEMMA QuietOwned ==
  ASSUME Memory, UNCHANGED <<heap, src, dst>>, Data' = Data
  PROVE  Owned'
  BY DEF Memory, Owned, Held

\* The labels at which nothing is owned.
Bare == {"start", "exif", "decode", "evas", "load", "target", "pixels", "wbmp",
         "measure", "frame", "content", "tracks", "read_frame"}

LEMMA BareFacts ==
  ASSUME PictureInv, pc \in Bare
  PROVE  src = NULL /\ dst = NULL /\ info.data = NULL /\ Data = NULL
  BY DEF PictureInv, Memory, Pointers, Data, Bare, HoldsSrc, MayHoldSrc,
     HoldsDst, HoldsData

\* From one of them to another.
LEMMA BareKeeps ==
  ASSUME PictureInv, pc \in Bare, pc' \in Bare,
         UNCHANGED <<file, want, failed, src, dst, n_times, heap, image_info,
                     image_type>>,
         info' \in Info, info'.data = NULL,
         Sized(thumb_width', thumb_height'),
         Branches', Fitting'
  PROVE  PictureInv'
  <1>1. Data' = Data
    BY BareFacts DEF Data, Bare
  <1>2. Owned'
    BY <1>1, QuietOwned DEF PictureInv
  <1>3. LocalTypes'
    BY DEF PictureInv, Memory, LocalTypes, Labels, Bare
  <1>4. Pointers'
    BY BareFacts
    DEF Pointers, HoldsSrc, MayHoldSrc, HoldsDst, HoldsData, Bare
  <1>5. Picture'
    BY DEF Picture, Contents, PictureWhole, ThumbFits, HoldsData, Bare
  <1> QED
    BY <1>2, <1>3, <1>4, <1>5 DEF PictureInv, Memory

-----------------------------------------------------------------------------
(***************************************************************************)
(* The steps, in the order of the module.                                  *)
(***************************************************************************)
LEMMA StartKeeps ==
  ASSUME PictureInv, Start, UNCHANGED reader
  PROVE  PictureInv'
  <1>1. /\ pc = "start" /\ pc \in Bare
        /\ UNCHANGED <<file, want, thumb_width, thumb_height, src, dst,
                       n_times, heap, image_info, image_type>>
    BY DEF Start, Bare, input, size, locals, reader
  <1>2. info' \in Info /\ info'.data = NULL
    <2>1. image_info.width \in Nat /\ image_info.height \in Nat
      BY DEF PictureInv, Memory, LocalTypes
    <2> QED
      BY <2>1 DEF Start, NoInfo, Info, Height
  <1>3. \/ /\ pc' \in {"exif", "frame", "evas", "wbmp", "content"}
           /\ UNCHANGED failed
           /\ pc' = "content" => file.type = "video"
        \/ pc' = "done" /\ failed' = TRUE
        \/ pc' = "done" /\ UNCHANGED failed /\ file.type = "other"
    BY DEF Start, Go, FirstCall
  <1>4. LocalTypes
    BY DEF PictureInv, Memory
  <1>5. CASE pc' \in {"exif", "frame", "evas", "wbmp", "content"}
    <2>1. Branches' /\ Fitting'
      BY <1>1, <1>3, <1>5 DEF Branches, Fitting, ThumbCalls, VideoCalls
    <2>2. Sized(thumb_width', thumb_height')
      BY <1>1, <1>4 DEF LocalTypes
    <2> QED
      BY <1>1, <1>2, <1>3, <1>5, <2>1, <2>2, BareKeeps DEF Bare
  <1>6. CASE pc' = "done"
    <2>1. src = NULL /\ dst = NULL /\ Data = NULL
      BY <1>1, BareFacts
    <2>2. Owned'
      BY <1>1, <1>2, <1>6, <2>1, QuietOwned DEF PictureInv, Data
    <2>3. failed' \in BOOLEAN
      BY <1>3, <1>4, Zenon DEF LocalTypes
    <2>4. LocalTypes'
      BY <1>1, <1>2, <1>4, <1>6, <2>3 DEF LocalTypes, Labels
    <2>5. Pointers'
      BY <1>1, <1>6, <2>1
      DEF Pointers, HoldsSrc, MayHoldSrc, HoldsDst, HoldsData
    <2>6. Picture'
      BY <1>1, <1>3, <1>6
      DEF Picture, Branches, Contents, PictureWhole, Fitting, ThumbFits,
          ThumbCalls, VideoCalls, HoldsData, ImageTypes
    <2> QED
      BY <2>2, <2>4, <2>5, <2>6 DEF PictureInv, Memory
  <1> QED
    BY <1>3, <1>5, <1>6

LEMMA ReadExifKeeps ==
  ASSUME PictureInv, ReadExif, UNCHANGED reader
  PROVE  PictureInv'
  <1>1. pc = "exif" /\ src = NULL /\ dst = NULL /\ info.data = NULL /\ Data = NULL
    BY BareFacts DEF ReadExif, Bare
  <1>2. CASE DecodeInstead({}) /\ UNCHANGED info
    BY <1>1, <1>2, DecodeInsteadKeeps
  <1> DEFINE copy == [size |-> 1, image |->
                        Pixels(file.turns, file.exif.w, file.exif.h, JPEG)]
  <1>3. CASE /\ HasThumb /\ Go("write")
             /\ src' \in Buffers
             /\ Allocated(src', {}, copy)
             /\ info' = IF file.exif.sized
                        THEN [info EXCEPT !.origin_width = file.w,
                                          !.origin_height = file.h]
                        ELSE info
             /\ UNCHANGED <<input, size, dst, n_times>>
    <2>1. LocalTypes
      BY DEF PictureInv, Memory
    <2>2. copy \in Buffer
      <3>1. /\ file.turns \in 0 .. 3 \cup {Mirrored}
            /\ file.exif.w \in Nat /\ file.exif.h \in Nat
        BY <1>3, <2>1, FileFacts DEF LocalTypes
      <3>2. Pixels(file.turns, file.exif.w, file.exif.h, JPEG) \in Image
        BY <3>1 DEF Pixels, Image, Height
      <3> QED
        BY <3>2 DEF Buffer
    <2> HIDE DEF copy
    <2>3. PICK b \in Buffers : src' = b /\ Allocated(b, {}, copy)
      BY <1>3
    <2>4. /\ b # NULL
          /\ heap' \in [Buffers -> Buffer \cup {Unused}]
          /\ \A c \in Buffers :
                Held(heap'[c], c = b \/ c \in {src, dst, Data})
      BY <2>2, <2>3, OneAllocated DEF PictureInv, Held
    <2>5. info' \in Info /\ info'.data = NULL
      BY <1>1, <1>3, <2>1, FileFacts DEF LocalTypes, Info
    <2>6. /\ pc' = "write" /\ UNCHANGED <<failed, file, want, thumb_width,
                             thumb_height, dst, n_times, image_info, image_type>>
      BY <1>3 DEF Go, input, size, reader
    <2>7. LocalTypes'
      BY <1>1, <2>1, <2>3, <2>4, <2>5, <2>6 DEF LocalTypes, Labels
    <2>8. Owned'
      BY <1>1, <2>3, <2>4, <2>5, <2>6, ImageAssumption
      DEF ImageAssumption, Owned, Held, Data
    <2>9. Pointers'
      BY <1>1, <2>3, <2>4, <2>5, <2>6
      DEF Pointers, HoldsSrc, MayHoldSrc, HoldsDst, HoldsData
    <2>10. Picture'
      BY <1>3, <2>6
      DEF Picture, Branches, Contents, PictureWhole, Fitting, ThumbFits,
          ThumbCalls, VideoCalls, HoldsData, HasThumb
    <2> QED
      BY <2>7, <2>8, <2>9, <2>10 DEF PictureInv, Memory
  <1> QED
    BY <1>2, <1>3 DEF ReadExif

LEMMA WriteThumbKeeps ==
  ASSUME PictureInv, WriteThumb, UNCHANGED reader
  PROVE  PictureInv'
  <1>1. pc = "write" /\ UNCHANGED info
    BY DEF WriteThumb
  <1>2. src # NULL /\ dst = NULL /\ info.data = NULL /\ Data = NULL
    BY <1>1
    DEF PictureInv, Memory, Pointers, Data, HoldsSrc, HoldsDst, HoldsData
  <1>3. CASE DecodeInstead({src})
    BY <1>1, <1>2, <1>3, DecodeInsteadKeeps
  <1>4. CASE /\ Go("decode")
             /\ heap' = Freed({src}) /\ src' = NULL
             /\ UNCHANGED <<input, size, dst, n_times>>
    <2>1. /\ pc' = "decode"
          /\ UNCHANGED <<failed, file, want, thumb_width, thumb_height,
                         n_times, image_info, image_type>>
      BY <1>4 DEF Go, input, size, reader
    <2>2. dst' = NULL /\ Data' = NULL
      BY <1>1, <1>2, <1>4, <2>1 DEF Data
    <2>3. Owned'
      BY <1>2, <1>4, <2>2, AllFreed DEF PictureInv
    <2>4. LocalTypes'
      BY <1>1, <1>4, <2>1, <2>2, FreedTyped
      DEF PictureInv, Memory, LocalTypes, Labels
    <2>5. Pointers'
      BY <1>1, <1>2, <1>4, <2>1, <2>2
      DEF Pointers, HoldsSrc, MayHoldSrc, HoldsDst, HoldsData
    <2>6. Picture'
      BY <1>1, <2>1
      DEF PictureInv, Picture, Branches, Contents, PictureWhole, Fitting,
          ThumbFits, ThumbCalls, VideoCalls, HoldsData, HasThumb
    <2> QED
      BY <2>3, <2>4, <2>5, <2>6 DEF PictureInv, Memory
  <1> QED
    BY <1>3, <1>4 DEF WriteThumb

\* A new source takes the place of the one there was, if any.
LEMMA SourceMade ==
  ASSUME PictureInv, NEW gone, NEW buffer \in Buffer,
         src' \in Buffers, Allocated(src', gone, buffer),
         \A b \in {src} \ {NULL} : b \in gone,
         dst = NULL, info.data = NULL, Data = NULL, pc # "done",
         pc' \in HoldsSrc \cup MayHoldSrc, pc' \notin HoldsDst,
         Sized(thumb_width', thumb_height'),
         UNCHANGED <<file, want, failed, info, dst, n_times, image_info,
                     image_type>>
  PROVE  Memory' /\ heap'[src'] = buffer
  <1>1. PICK b \in Buffers : src' = b /\ Allocated(b, gone, buffer)
    OBVIOUS
  <1>2. /\ b # NULL /\ heap'[b] = buffer
        /\ heap' \in [Buffers -> Buffer \cup {Unused}]
        /\ \A c \in Buffers :
              Held(heap'[c],
                 c = b \/ (c \in {src, dst, Data} /\ c \notin gone))
    BY <1>1, OneAllocated DEF PictureInv, Held
  <1>3. \A c \in Buffers : Held(heap'[c], c = b)
    BY <1>2, ImageAssumption DEF ImageAssumption, Held
  <1>4. LocalTypes'
    BY <1>1, <1>2
    DEF PictureInv, Memory, LocalTypes, HoldsSrc, MayHoldSrc, Labels
  <1>5. Owned'
    BY <1>1, <1>2, <1>3, ImageAssumption DEF ImageAssumption, Owned, Held, Data
  <1>6. Pointers'
    BY <1>1, <1>2 DEF Pointers, HoldsSrc, MayHoldSrc, HoldsDst, HoldsData
  <1> QED
    BY <1>1, <1>2, <1>4, <1>5, <1>6 DEF Memory

LEMMA DecodeThumbKeeps ==
  ASSUME PictureInv, DecodeThumb, UNCHANGED reader
  PROVE  PictureInv'
  <1>1. /\ pc = "decode" /\ UNCHANGED info
        /\ src = NULL /\ dst = NULL /\ info.data = NULL /\ Data = NULL
    BY BareFacts DEF DecodeThumb, Bare
  <1>2. LocalTypes /\ HasThumb
    BY <1>1 DEF PictureInv, Memory, Picture, Branches, ThumbCalls
  <1>3. CASE DecodeInstead({})
    BY <1>1, <1>3, DecodeInsteadKeeps
  <1> DEFINE picture == Pixels(Needs(OnDisk), OnDisk.w, OnDisk.h, RGB888)
  <1>4. CASE /\ Go("resize_thumb") \/ Go("orient")
             /\ src' \in Buffers
             /\ Allocated(src', {}, Holding(picture))
             /\ UNCHANGED <<input, size, dst, n_times>>
    <2>1. Holding(picture) \in Buffer
      <3>1. /\ Needs(OnDisk) \in 0 .. 3 \cup {Mirrored}
            /\ Sized(OnDisk.w, OnDisk.h)
            /\ RGB888 \in {JPEG, RGB565, RGB888, BGRA}
        BY <1>2, OnDiskFacts DEF LocalTypes
      <3> QED
        BY <3>1, HoldingFacts
    <2>2. /\ pc' \in {"resize_thumb", "orient"}
          /\ UNCHANGED <<failed, file, want, thumb_width, thumb_height, dst,
                         n_times, image_info, image_type>>
      BY <1>4 DEF Go, input, size, reader
    <2>3. Sized(thumb_width', thumb_height')
      BY <1>2, <2>2 DEF LocalTypes
    <2>4. Memory' /\ heap'[src'] = Holding(picture)
      <3> HIDE DEF picture
      <3> QED
        BY <1>1, <1>4, <2>1, <2>2, <2>3, SourceMade
        DEF HoldsSrc, MayHoldSrc, HoldsDst
    <2>5. OnDisk.w \in Nat /\ OnDisk.h \in Nat
      BY <1>2, OnDiskFacts DEF LocalTypes
    <2>6. Contents'
      <3>1. /\ OnDisk' = OnDisk /\ Needs(OnDisk)' = Needs(OnDisk)
        BY <2>2 DEF OnDisk, Needs
      <3>2. heap'[src'] = Holding(Pixels(Needs(OnDisk)', OnDisk.w, OnDisk.h, RGB888))
        BY <2>4, <3>1
      <3> QED
        BY <2>2, <2>5, <3>2 DEF Contents, HoldsData
    <2>7. Picture'
      BY <1>2, <2>2, <2>6
      DEF Picture, Branches, PictureWhole, Fitting, ThumbFits, ThumbCalls,
          VideoCalls, HasThumb
    <2> QED
      BY <2>4, <2>7 DEF PictureInv
  <1> QED
    BY <1>3, <1>4 DEF DecodeThumb

LEMMA ResizeThumbKeeps ==
  ASSUME PictureInv, ResizeThumb, UNCHANGED reader
  PROVE  PictureInv'
  <1>1. /\ pc = "resize_thumb" /\ UNCHANGED info
        /\ dst = NULL /\ info.data = NULL /\ Data = NULL
    BY DEF ResizeThumb, PictureInv, Memory, Pointers, Data, HoldsDst, HoldsData
  <1>2. LocalTypes /\ HasThumb
    BY <1>1 DEF PictureInv, Memory, Picture, Branches, ThumbCalls
  <1>3. CASE DecodeInstead({src})
    BY <1>1, <1>3, DecodeInsteadKeeps
  <1> DEFINE picture == Pixels(Needs(OnDisk), LARGE_WIDTH, LARGE_HEIGHT, RGB888)
  <1>4. CASE /\ Go("orient")
             /\ src' \in Buffers
             /\ Allocated(src', {src}, Holding(picture))
             /\ UNCHANGED <<input, size, dst, n_times>>
    <2>1. LARGE_WIDTH \in Nat /\ LARGE_HEIGHT \in Nat
      BY ImageAssumption DEF ImageAssumption
    <2>2. Holding(picture) \in Buffer
      <3>1. /\ Needs(OnDisk) \in 0 .. 3 \cup {Mirrored}
            /\ Sized(LARGE_WIDTH, LARGE_HEIGHT)
            /\ RGB888 \in {JPEG, RGB565, RGB888, BGRA}
        BY <1>2, <2>1, OnDiskFacts DEF LocalTypes, Sized, Height
      <3> QED
        BY <3>1, HoldingFacts
    <2>3. /\ pc' = "orient"
          /\ UNCHANGED <<failed, file, want, thumb_width, thumb_height, dst,
                         n_times, image_info, image_type>>
      BY <1>4 DEF Go, input, size, reader
    <2>4. Sized(thumb_width', thumb_height')
      BY <1>2, <2>3 DEF LocalTypes
    <2>5. Memory' /\ heap'[src'] = Holding(picture)
      <3> HIDE DEF picture
      <3> QED
        BY <1>1, <1>4, <2>2, <2>3, <2>4, SourceMade
        DEF HoldsSrc, MayHoldSrc, HoldsDst
    <2>6. Contents'
      <3>1. Needs(OnDisk)' = Needs(OnDisk)
        BY <2>3 DEF OnDisk, Needs
      <3>2. heap'[src'] =
               Holding(Pixels(Needs(OnDisk)', LARGE_WIDTH, LARGE_HEIGHT, RGB888))
        BY <2>5, <3>1
      <3> QED
        BY <2>1, <2>3, <3>2 DEF Contents, HoldsData
    <2>7. Picture'
      BY <1>2, <2>3, <2>6
      DEF Picture, Branches, PictureWhole, Fitting, ThumbFits, ThumbCalls,
          VideoCalls, HasThumb
    <2> QED
      BY <2>5, <2>7 DEF PictureInv
  <1> QED
    BY <1>3, <1>4 DEF ResizeThumb

LEMMA OrientKeeps ==
  ASSUME PictureInv, Orient, UNCHANGED reader
  PROVE  PictureInv'
  <1>1. /\ pc = "orient"
        /\ src # NULL /\ dst = NULL /\ info.data = NULL /\ Data = NULL
    BY DEF Orient, PictureInv, Memory, Pointers, Data, HoldsSrc, HoldsDst,
       HoldsData
  <1>2. LocalTypes /\ HasThumb /\ Owned
    BY <1>1 DEF PictureInv, Memory, Picture, Branches, ThumbCalls
  <1>3. PICK w \in Nat, h \in Nat :
           heap[src] = Holding(Pixels(Needs(OnDisk), w, h, RGB888))
    BY <1>1 DEF PictureInv, Picture, Contents
  <1> DEFINE picture == Pixels(Needs(OnDisk), w, h, RGB888)
  <1>4. /\ Holding(picture) \in Buffer /\ Holding(picture).image = picture
        /\ picture.w = w /\ picture.h = h
        /\ Holding(picture).size = w * h * RGB888
    <2>1. Needs(OnDisk) \in 0 .. 3 \cup {Mirrored} /\ Sized(w, h)
      BY <1>2, OnDiskFacts DEF LocalTypes, Sized, Height
    <2>2. RGB888 \in {JPEG, RGB565, RGB888, BGRA}
      OBVIOUS
    <2> QED
      BY <2>1, <2>2, HoldingFacts
  <1>5. CASE DecodeInstead({src}) /\ UNCHANGED info
    BY <1>1, <1>5, DecodeInsteadKeeps
  <1>6. CASE /\ file.turns = 0
             /\ Go("convert_thumb")
             /\ Finished(src, heap[src])
             /\ src' = NULL
             /\ UNCHANGED <<input, size, dst, n_times, heap>>
    <2>1. /\ pc' = "convert_thumb" /\ src' = NULL
          /\ UNCHANGED <<failed, file, want, thumb_width, thumb_height, dst,
                         n_times, heap, image_info, image_type>>
      BY <1>6 DEF Go, input, size, reader
    <2>2. w * h * RGB888 \in Nat
      BY NatProduct DEF RGB888
    <2>3. /\ info' \in Info /\ info'.data = src
          /\ info'.width = w /\ info'.height = h
      <3> HIDE DEF picture
      <3>1. info' = [info EXCEPT !.data = src, !.size = w * h * RGB888,
                                 !.width = w, !.height = h]
        BY <1>3, <1>4, <1>6 DEF Finished, picture
      <3>2. info \in Info /\ src \in Buffers /\ w \in Nat /\ h \in Height
        BY <1>1, <1>2 DEF LocalTypes, Height
      <3> QED
        BY <2>2, <3>1, <3>2 DEF Info
    <2>4. LocalTypes'
      BY <1>1, <1>2, <2>1, <2>3 DEF LocalTypes, Labels
    <2>5. Owned'
      BY <1>1, <1>2, <2>1, <2>3 DEF Owned, Held, Data
    <2>6. Pointers'
      BY <1>1, <2>1, <2>3
      DEF Pointers, HoldsSrc, MayHoldSrc, HoldsDst, HoldsData
    <2>7. Contents'
      <3>1. Needs(OnDisk) = 0 /\ 0 \in LeftOver /\ LeftOver' = LeftOver
        BY <1>2, <1>6, <2>1, OnDiskFacts, LeftOverFacts DEF LocalTypes
      <3>2. heap'[info'.data] = Holding(Pixels(0, info'.width, info'.height, RGB888))
        BY <1>3, <2>1, <2>3, <3>1
      <3>3. Sized(info'.width, info'.height)
        BY <2>3 DEF Sized, Height
      <3> QED
        BY <2>1, <3>1, <3>2, <3>3 DEF Contents, HoldsData
    <2>8. Picture'
      BY <1>2, <2>1, <2>7
      DEF Picture, Branches, PictureWhole, Fitting, ThumbFits, ThumbCalls,
          VideoCalls, HasThumb
    <2> QED
      BY <2>4, <2>5, <2>6, <2>8 DEF PictureInv, Memory
  <1>7. CASE /\ file.turns \in 1 .. 3
             /\ Go("turn")
             /\ dst' \in Buffers
             /\ Allocated(dst', {}, heap[src])
             /\ n_times' = file.turns
             /\ UNCHANGED <<input, size, info, src>>
    <2>1. PICK b \in Buffers : dst' = b /\ Allocated(b, {}, heap[src])
      BY <1>7
    <2>2. heap[src] \in Buffer
      BY <1>3, <1>4
    <2>3. /\ b # NULL /\ b \notin {src, dst, Data} /\ heap'[b] = heap[src]
          /\ heap' \in [Buffers -> Buffer \cup {Unused}]
          /\ \A c \in Buffers :
                Held(heap'[c], c = b \/ c \in {src, dst, Data})
          /\ \A c \in Buffers \ {b} : heap'[c] = heap[c]
      BY <2>1, <2>2, OneAllocated DEF PictureInv, Held
    <2>4. /\ pc' = "turn" /\ n_times' = file.turns
          /\ UNCHANGED <<failed, file, want, thumb_width, thumb_height, info,
                         src, image_info, image_type>>
      BY <1>7 DEF Go, input, size, reader
    <2>5. LocalTypes'
      BY <1>1, <1>2, <1>7, <2>1, <2>3, <2>4 DEF LocalTypes, Labels
    <2>6. Owned'
      BY <1>1, <2>1, <2>3, <2>4, ImageAssumption
      DEF ImageAssumption, Owned, Held, Data
    <2>7. Pointers'
      BY <1>1, <2>1, <2>3, <2>4
      DEF Pointers, HoldsSrc, MayHoldSrc, HoldsDst, HoldsData
    <2>8. src \in Buffers \ {b}
      BY <1>1, <1>2, <2>3 DEF LocalTypes
    <2>9. heap'[src'] = heap[src] /\ heap'[dst'] = heap[src]
      BY <2>1, <2>3, <2>4, <2>8
    <2>10. Contents'
      <3>1. /\ Needs(OnDisk) = StillLeft(file.turns)
            /\ StillLeft(n_times)' = StillLeft(file.turns)
        BY <1>2, <1>7, <2>4, OnDiskFacts DEF LocalTypes, StillLeft, OnDisk
      <3>2. heap'[src'] = Holding(Pixels(StillLeft(n_times)', w, h, RGB888))
        BY <1>3, <2>9, <3>1
      <3> QED
        BY <1>7, <2>4, <2>9, <3>2 DEF Contents, HoldsData
    <2>11. Picture'
      BY <1>2, <2>4, <2>10
      DEF Picture, Branches, PictureWhole, Fitting, ThumbFits, ThumbCalls,
          VideoCalls, HasThumb
    <2> QED
      BY <2>5, <2>6, <2>7, <2>11 DEF PictureInv, Memory
  <1> QED
    BY <1>5, <1>6, <1>7 DEF Orient

\* A turn leaves one turn less to do, or three after a needless one, in a
\* buffer of the same size.
LEMMA TurnedPixels ==
  ASSUME NEW n \in 0 .. 3, NEW w \in Nat, NEW h \in Nat, NEW p,
         p = [left |-> n, w |-> w, h |-> h, bpp |-> RGB888]
  PROVE  Turned(p) = Pixels((n + 3) % 4, h, w, RGB888)
  <1> HIDE DEF RGB888
  <1>1. p.left = n /\ p.w = w /\ p.h = h
    OBVIOUS
  <1>2. Turned(p) = [p EXCEPT !.left = (n + 3) % 4, !.w = h, !.h = w]
    BY <1>1, Zenon DEF Turned
  <1>3. Turned(p) = [left |-> (n + 3) % 4, w |-> h, h |-> w, bpp |-> RGB888]
    BY <1>2
  <1> QED
    BY <1>3 DEF Pixels

LEMMA TurnedHolding ==
  ASSUME NEW n \in 0 .. 3, NEW w \in Nat, NEW h \in Nat, NEW d \in Buffer,
         NEW s, s = Holding(Pixels(n, w, h, RGB888)), d.size = s.size
  PROVE  [d EXCEPT !.image = Turned(s.image)] =
            Holding(Pixels((n + 3) % 4, h, w, RGB888))
  <1>1. s.image = Pixels(n, w, h, RGB888) /\ s.size = w * h * RGB888
    <2>1. n \in 0 .. 3 \cup {Mirrored} /\ Sized(w, h)
          /\ RGB888 \in {JPEG, RGB565, RGB888, BGRA}
      BY DEF Sized, Height
    <2> QED
      BY <2>1, HoldingFacts
  <1>2. Turned(s.image) = Pixels((n + 3) % 4, h, w, RGB888)
    <2> HIDE DEF RGB888
    <2>1. s.image = [left |-> n, w |-> w, h |-> h, bpp |-> RGB888]
      BY <1>1 DEF Pixels
    <2> QED
      BY <2>1, TurnedPixels
  <1>3. [d EXCEPT !.image = Turned(s.image)] =
           [size |-> w * h * RGB888,
            image |-> Pixels((n + 3) % 4, h, w, RGB888)]
    <2> HIDE DEF RGB888
    <2> QED
      BY <1>1, <1>2 DEF Buffer
  <1>4. /\ Pixels((n + 3) % 4, h, w, RGB888).w = h
        /\ Pixels((n + 3) % 4, h, w, RGB888).h = w
        /\ Pixels((n + 3) % 4, h, w, RGB888).bpp = RGB888
    BY DEF Pixels
  <1>5. w * h * RGB888 = h * w * RGB888
    BY DEF RGB888
  <1> QED
    BY <1>3, <1>4, <1>5 DEF Holding

LEMMA TurnKeeps ==
  ASSUME PictureInv, Turn, UNCHANGED reader
  PROVE  PictureInv'
  <1>1. /\ pc = "turn"
        /\ src # NULL /\ dst # NULL /\ info.data = NULL /\ Data = NULL
    BY DEF Turn, PictureInv, Memory, Pointers, Data, HoldsSrc, HoldsDst,
       HoldsData
  <1>2. LocalTypes /\ HasThumb /\ Owned
    BY <1>1 DEF PictureInv, Memory, Picture, Branches, ThumbCalls
  <1>3. /\ src \in Buffers /\ dst \in Buffers /\ src # dst
        /\ heap[src] # Unused /\ heap[dst] \in Buffer
    BY <1>1, <1>2, ImageAssumption DEF LocalTypes, Owned, Held, ImageAssumption
  <1>4. PICK w \in Nat, h \in Nat :
           /\ n_times \in 1 .. 3
           /\ file.turns \in 1 .. 3 /\ n_times <= file.turns
           /\ heap[src] = Holding(Pixels(StillLeft(n_times), w, h, RGB888))
           /\ heap[dst].size = heap[src].size
    BY <1>1 DEF PictureInv, Picture, Contents
  <1> DEFINE turned == [heap[dst] EXCEPT !.image = Turned(heap[src].image)]
  <1> DEFINE left == StillLeft(n_times - 1)
  <1>5. turned = Holding(Pixels(left, h, w, RGB888)) /\ left \in 0 .. 3
    <2>1. StillLeft(n_times) \in 0 .. 3 /\ (StillLeft(n_times) + 3) % 4 = left
      BY <1>2, <1>4, OnDiskFacts DEF LocalTypes
    <2> HIDE DEF left
    <2>2. turned = Holding(Pixels((StillLeft(n_times) + 3) % 4, h, w, RGB888))
      BY <1>3, <1>4, <2>1, TurnedHolding
    <2>3. (StillLeft(n_times) + 3) % 4 \in 0 .. 3
      BY <2>1
    <2> QED
      BY <2>1, <2>2, <2>3
  <1> HIDE DEF left
  <1>6. /\ turned \in Buffer /\ turned # Unused
        /\ turned.size = h * w * RGB888
        /\ turned.image = Pixels(left, h, w, RGB888)
        /\ turned.image.w = h /\ turned.image.h = w
    <2>1. left \in 0 .. 3 \cup {Mirrored} /\ Sized(h, w)
          /\ RGB888 \in {JPEG, RGB565, RGB888, BGRA}
      BY <1>5 DEF Sized, Height
    <2> HIDE DEF turned
    <2> QED
      BY <1>5, <2>1, HoldingFacts
  <1> HIDE DEF turned
  <1>7. CASE DecodeInstead({src, dst}) /\ UNCHANGED info
    BY <1>1, <1>7, DecodeInsteadKeeps
  <1>8. Freed({src}) \in [Buffers -> Buffer \cup {Unused}]
    BY FreedTyped DEF PictureInv
  <1>9. \A b \in Buffers : Held(Freed({src})[b], b = dst)
    BY <1>1, <1>3, FreedTyped, ImageAssumption
    DEF ImageAssumption, PictureInv, Memory, Owned, Held
  <1>10. CASE /\ n_times = 1
              /\ Go("convert_thumb")
              /\ heap' = [Freed({src}) EXCEPT ![dst] = turned]
              /\ Finished(dst, turned)
              /\ src' = NULL /\ dst' = NULL /\ n_times' = 0
              /\ UNCHANGED <<input, size, open>>
    <2>1. /\ pc' = "convert_thumb"
          /\ UNCHANGED <<failed, file, want, thumb_width, thumb_height,
                         image_info, image_type>>
      BY <1>10 DEF Go, input, size, reader
    <2>2. /\ heap' \in [Buffers -> Buffer \cup {Unused}]
          /\ heap'[dst] = turned
          /\ \A b \in Buffers : Held(heap'[b], b = dst)
      BY <1>3, <1>6, <1>8, <1>9, <1>10 DEF Held
    <2>3. h * w * RGB888 \in Nat
      BY NatProduct DEF RGB888
    <2>4. /\ info' \in Info /\ info'.data = dst
          /\ info'.width = h /\ info'.height = w
      <3>1. info' = [info EXCEPT !.data = dst, !.size = turned.size,
                                 !.width = h, !.height = w]
        BY <1>6, <1>10 DEF Finished
      <3>2. turned.size \in Nat
        BY <1>6, <2>3
      <3> QED
        BY <1>2, <1>3, <3>1, <3>2 DEF LocalTypes, Info, Height
    <2>5. LocalTypes'
      <3>1. /\ src' \in Buffers \cup {NULL} /\ dst' \in Buffers \cup {NULL}
            /\ n_times' \in 0 .. 3
        BY <1>10
      <3> QED
        BY <1>1, <1>2, <2>1, <2>2, <2>4, <3>1 DEF LocalTypes, Labels
    <2>6. Data' = dst
      BY <2>1, <2>4 DEF Data
    <2>7. Owned'
      BY <1>1, <1>10, <2>2, <2>6, ImageAssumption DEF ImageAssumption, Owned, Held
    <2>8. Pointers'
      BY <1>1, <1>10, <2>1, <2>4
      DEF Pointers, HoldsSrc, MayHoldSrc, HoldsDst, HoldsData
    <2>9. /\ Sized(info'.width, info'.height)
          /\ left \in LeftOver'
          /\ heap'[info'.data] = Holding(Pixels(left, info'.width, info'.height, RGB888))
      <3>1. left = StillLeft(0)
        <4>1. n_times - 1 = 0
          BY <1>10
        <4> QED
          BY <4>1 DEF left
      <3>2. left \in LeftOver /\ LeftOver' = LeftOver
        BY <1>2, <1>4, <2>1, <3>1, OnDiskFacts, LeftOverFacts DEF LocalTypes
      <3>3. Sized(info'.width, info'.height)
        BY <2>4 DEF Sized, Height
      <3> QED
        BY <1>5, <2>2, <2>4, <3>2, <3>3
    <2>10. Contents'
      BY <2>1, <2>9 DEF Contents, HoldsData
    <2>11. Picture'
      BY <1>2, <2>1, <2>10
      DEF Picture, Branches, PictureWhole, Fitting, ThumbFits, ThumbCalls,
          VideoCalls, HasThumb
    <2> QED
      BY <2>5, <2>7, <2>8, <2>11 DEF PictureInv, Memory
  <1>11. CASE /\ n_times > 1
              /\ dst' \in Buffers \ {dst}
              /\ heap[dst'] = Unused
              /\ heap' = [Freed({src}) EXCEPT ![dst] = turned, ![dst'] = turned]
              /\ src' = dst /\ n_times' = n_times - 1
              /\ UNCHANGED <<input, pc, failed, info, size, open>>
    <2>1. PICK b \in Buffers \ {dst} : b = dst'
      BY <1>11
    <2>2. b # src /\ b # NULL
      BY <1>3, <1>11, <2>1, ImageAssumption DEF ImageAssumption
    <2>3. heap' = [Freed({src}) EXCEPT ![dst] = turned, ![b] = turned]
      BY <1>11, <2>1
    <2>4. /\ heap' \in [Buffers -> Buffer \cup {Unused}]
          /\ heap'[dst] = turned /\ heap'[b] = turned
          /\ \A c \in Buffers : Held(heap'[c], c \in {dst, b})
      BY <1>3, <1>6, <1>8, <1>9, <2>1, <2>3 DEF Held
    <2>5. /\ UNCHANGED <<failed, file, want, thumb_width, thumb_height,
                         image_info, image_type>>
          /\ pc' = pc /\ info' = info
      BY <1>11 DEF input, size, reader
    <2>6. LocalTypes'
      <3>1. /\ src' \in Buffers /\ dst' \in Buffers /\ n_times' \in 0 .. 3
        BY <1>3, <1>4, <1>11
      <3> QED
        BY <1>2, <2>4, <2>5, <3>1 DEF LocalTypes
    <2>7. Data' = NULL
      BY <1>1, <2>5 DEF Data
    <2>8. Owned'
      BY <1>1, <1>11, <2>1, <2>2, <2>4, <2>7, ImageAssumption
      DEF ImageAssumption, Owned, Held
    <2>9. Pointers'
      BY <1>1, <1>11, <2>1, <2>2, <2>5
      DEF Pointers, HoldsSrc, MayHoldSrc, HoldsDst, HoldsData
    <2>10. /\ n_times' \in 1 .. 3
           /\ file'.turns \in 1 .. 3 /\ n_times' <= file'.turns
           /\ heap'[src'] = Holding(Pixels(StillLeft(n_times)', h, w, RGB888))
           /\ heap'[dst'] = heap'[src']
      <3>1. StillLeft(n_times)' = left
        BY <1>11, <2>5 DEF StillLeft, OnDisk, left
      <3>2. n_times' \in 1 .. 3 /\ n_times' <= file.turns
        BY <1>4, <1>11
      <3> QED
        BY <1>4, <1>5, <1>11, <2>1, <2>4, <2>5, <3>1, <3>2
    <2>11. Contents'
      BY <1>1, <2>5, <2>10 DEF Contents, HoldsData
    <2>12. Picture'
      BY <1>1, <1>2, <2>5, <2>11
      DEF Picture, Branches, PictureWhole, Fitting, ThumbFits, ThumbCalls,
          VideoCalls, HasThumb
    <2> QED
      BY <2>6, <2>8, <2>9, <2>12 DEF PictureInv, Memory
  <1> QED
    BY <1>7, <1>10, <1>11 DEF Turn, turned

\* The picture of thumb_info becomes BGRA, in another buffer.
LEMMA ToBGRAKeeps ==
  ASSUME PictureInv, NEW closed, ToBGRA(closed), UNCHANGED reader,
         pc \in HoldsData
  PROVE  PictureInv'
  <1>1. src = NULL /\ dst = NULL /\ info.data # NULL /\ Data = info.data
    BY DEF PictureInv, Memory, Pointers, Data, HoldsSrc, MayHoldSrc, HoldsDst,
       HoldsData
  <1>2. LocalTypes /\ Owned /\ Sized(info.width, info.height)
    BY DEF PictureInv, Memory, Picture, Contents
  <1>15. PICK left \in LeftOver :
           heap[info.data] = Holding(Pixels(left, info.width, info.height, RGB888))
    BY DEF PictureInv, Picture, Contents
  <1>16. left \in 0 .. 3 \cup {Mirrored}
    BY <1>2, LeftOverFacts DEF LocalTypes
  <1> DEFINE rgb == Pixels(left, info.width, info.height, RGB888)
             bgra == Pixels(left, info.width, info.height, BGRA)
  <1>3. /\ heap[info.data] = Holding(rgb)
        /\ heap[info.data].image = rgb
        /\ [rgb EXCEPT !.bpp = BGRA] = bgra
        /\ Holding(bgra) \in Buffer
        /\ Holding(bgra).size = info.width * info.height * BGRA
        /\ Holding(bgra) = [size |-> info.width * info.height * BGRA,
                            image |-> bgra]
        /\ info.width * info.height * BGRA \in Nat
    <2>1. heap[info.data] = Holding(rgb)
      BY <1>15
    <2>2. RGB888 \in {JPEG, RGB565, RGB888, BGRA}
          /\ BGRA \in {JPEG, RGB565, RGB888, BGRA}
      OBVIOUS
    <2>3. Holding(rgb).image = rgb /\ [rgb EXCEPT !.bpp = BGRA] = bgra
      BY <1>2, <1>16, <2>2, HoldingFacts
    <2>4. /\ Holding(bgra) \in Buffer
          /\ Holding(bgra).size = info.width * info.height * BGRA
          /\ bgra.w = info.width /\ bgra.h = info.height /\ bgra.bpp = BGRA
      BY <1>2, <1>16, <2>2, HoldingFacts
    <2>5. Holding(bgra).size \in Nat
      <3> HIDE DEF bgra
      <3> QED
        BY <2>4 DEF Buffer
    <2>6. Holding(bgra) = [size |-> bgra.w * bgra.h * bgra.bpp, image |-> bgra]
      BY DEF Holding
    <2> HIDE DEF rgb, bgra
    <2> QED
      BY <2>1, <2>3, <2>4, <2>5, <2>6
  <1>4. PICK b \in Buffers :
           /\ Allocated(b, {info.data}, Holding(bgra))
           /\ info' = [info EXCEPT !.data = b,
                                   !.size = info.width * info.height * BGRA]
    <2> HIDE DEF rgb, bgra
    <2> QED
      BY <1>3 DEF ToBGRA
  <1> HIDE DEF rgb, bgra
  <1>5. /\ b # NULL /\ heap'[b] = Holding(bgra)
        /\ heap' \in [Buffers -> Buffer \cup {Unused}]
        /\ \A c \in Buffers : Held(heap'[c], c = b)
    <2>1. /\ b # NULL /\ heap'[b] = Holding(bgra)
          /\ heap' \in [Buffers -> Buffer \cup {Unused}]
          /\ \A c \in Buffers :
                Held(heap'[c],
                   c = b \/ (c \in {src, dst, Data} /\ c \notin {info.data}))
      BY <1>3, <1>4, OneAllocated DEF PictureInv, Held
    <2> QED
      BY <1>1, <2>1, ImageAssumption DEF ImageAssumption, Held
  <1>6. /\ pc' = "done"
        /\ UNCHANGED <<failed, file, want, thumb_width, thumb_height, src, dst,
                       n_times, image_info, image_type>>
    BY DEF ToBGRA, Go, input, size, locals, reader
  <1>7. /\ info' \in Info /\ info'.data = b
        /\ info'.size = info.width * info.height * BGRA
        /\ info'.width = info.width /\ info'.height = info.height
        /\ info'.origin_width = info.origin_width
        /\ info'.origin_height = info.origin_height
    <2> DEFINE n == info.width * info.height * BGRA
    <2>1. n \in Nat /\ info' = [info EXCEPT !.data = b, !.size = n]
      BY <1>3, <1>4
    <2> HIDE DEF n
    <2>2. /\ info' \in Info /\ info'.data = b /\ info'.size = n
          /\ info'.width = info.width /\ info'.height = info.height
          /\ info'.origin_width = info.origin_width
          /\ info'.origin_height = info.origin_height
      BY <1>2, <2>1 DEF LocalTypes, Info
    <2> QED
      BY <2>2 DEF n
  <1>8. LocalTypes'
    BY <1>2, <1>5, <1>6, <1>7 DEF LocalTypes, Labels
  <1>9. Data' = b
    BY <1>2, <1>6, <1>7 DEF LocalTypes, HoldsData, Data
  <1>10. Owned'
    BY <1>1, <1>5, <1>6, <1>9, ImageAssumption DEF ImageAssumption, Owned, Held
  <1>11. Pointers'
    BY <1>1, <1>6 DEF Pointers, HoldsSrc, MayHoldSrc, HoldsDst, HoldsData
  <1>12. PictureWhole'
    <2>1. left \in LeftOver'
      BY <1>2, <1>6, LeftOverFacts DEF LocalTypes
    <2>2. heap'[info'.data] = Holding(Pixels(left, info'.width, info'.height, BGRA))
      BY <1>5, <1>7 DEF bgra
    <2>3. info'.size = Holding(Pixels(left, info'.width, info'.height, BGRA)).size
      BY <1>3, <1>7 DEF bgra
    <2> QED
      BY <1>1, <1>5, <1>7, <2>1, <2>2, <2>3 DEF PictureWhole
  <1>13. ThumbFits'
    <2>1. CASE HasThumb
      BY <1>6, <2>1 DEF ThumbFits, HasThumb
    <2>2. CASE file.type \notin ImageTypes
      BY <1>6, <2>2 DEF ThumbFits
    <2>3. CASE ~HasThumb /\ file.type \in ImageTypes
      <3>1. pc = "convert"
        BY <2>3 DEF HoldsData, PictureInv, Picture, Branches, ThumbCalls
      <3>2. Proper(info.width, info.height,
                   info.origin_width, info.origin_height)
        BY <2>3, <3>1 DEF PictureInv, Picture, Fitting
      <3> QED
        BY <1>6, <1>7, <3>2 DEF ThumbFits, Proper
    <2> QED
      BY <2>1, <2>2, <2>3
  <1>14. Picture'
    BY <1>6, <1>12, <1>13
    DEF Picture, Branches, Contents, Fitting, ThumbCalls, VideoCalls, HoldsData
  <1> QED
    BY <1>8, <1>10, <1>11, <1>14 DEF PictureInv, Memory

LEMMA ConvertThumbKeeps ==
  ASSUME PictureInv, ConvertThumb, UNCHANGED reader
  PROVE  PictureInv'
  <1>1. CASE ToBGRA({"exif"})
    BY <1>1, ToBGRAKeeps DEF ConvertThumb, HoldsData
  <1>2. CASE MayFail("exif_size") /\ Fail({}, {"exif"})
    <2>1. ~NoLeaks
      BY <1>2 DEF MayFail, NoLeaks, LeakingCalls
    <2> QED
      BY <1>2, <2>1, FailKeeps
  <1> QED
    BY <1>1, <1>2 DEF ConvertThumb

LEMMA ConvertKeeps ==
  ASSUME PictureInv, Convert, UNCHANGED reader
  PROVE  PictureInv'
  <1>1. pc = "convert"
    BY DEF Convert
  <1>2. CASE ToBGRA({"content"})
    BY <1>1, <1>2, ToBGRAKeeps DEF HoldsData
  <1>3. CASE Fail({info.data}, {"content"})
    <2>1. src = NULL /\ dst = NULL /\ Data = info.data
      BY <1>1 DEF PictureInv, Memory, Pointers, Data, HoldsSrc, MayHoldSrc,
         HoldsDst
    <2> QED
      BY <1>3, <2>1, FailKeeps
  <1> QED
    BY <1>2, <1>3 DEF Convert

-----------------------------------------------------------------------------
\* Leaving with an error where nothing is owned.
LEMMA BareFails ==
  ASSUME PictureInv, pc \in Bare, NEW closed, Fail({}, closed),
         UNCHANGED reader
  PROVE  PictureInv'
  BY BareFacts, FailKeeps

\* Opening an object owns nothing.
LEMMA OpenedKeeps ==
  ASSUME PictureInv, NEW object, NEW label, Opened(object, label),
         UNCHANGED reader, pc \in Bare, label \in Bare,
         label \in VideoCalls => file.type = "video",
         label = "pixels" => pc = "target",
         label \notin {"target", "decode"}
  PROVE  PictureInv'
  <1>1. /\ pc' = label
        /\ UNCHANGED <<file, want, failed, info, thumb_width, thumb_height,
                       src, dst, n_times, heap, image_info, image_type>>
    BY DEF Opened, Go, input, size, locals, reader
  <1>2. LocalTypes /\ info.data = NULL
    BY BareFacts DEF PictureInv, Memory
  <1>3. Branches'
    BY <1>1 DEF PictureInv, Picture, Branches, ThumbCalls, Bare, VideoCalls
  <1>4. Fitting'
    BY <1>1 DEF PictureInv, Picture, Fitting, Proper, Bare
  <1> QED
    BY <1>1, <1>2, <1>3, <1>4, BareKeeps DEF LocalTypes

LEMMA OpenSourceKeeps ==
  ASSUME PictureInv, OpenSource, UNCHANGED reader
  PROVE  PictureInv'
  BY OpenedKeeps, BareFails DEF OpenSource, Bare, VideoCalls

LEMMA OpenTargetKeeps ==
  ASSUME PictureInv, OpenTarget, UNCHANGED reader
  PROVE  PictureInv'
  <1>1. pc = "target" /\ pc \in Bare
    BY DEF OpenTarget, Bare
  <1>2. CASE Opened("target_ee", "pixels")
    BY <1>1, <1>2, OpenedKeeps DEF Bare, VideoCalls
  <1>3. CASE Fail({}, {"ee"})
    BY <1>1, <1>3, BareFails
  <1> QED
    BY <1>2, <1>3 DEF OpenTarget

LEMMA OpenToMeasureKeeps ==
  ASSUME PictureInv, OpenToMeasure, UNCHANGED reader
  PROVE  PictureInv'
  BY OpenedKeeps, BareFails DEF OpenToMeasure, Bare, VideoCalls

LEMMA OpenContentKeeps ==
  ASSUME PictureInv, OpenContent, UNCHANGED reader
  PROVE  PictureInv'
  <1>1. pc = "content" /\ file.type = "video"
    BY DEF OpenContent, PictureInv, Picture, Branches, VideoCalls
  <1> QED
    BY <1>1, OpenedKeeps, BareFails DEF OpenContent, Bare

LEMMA CountTracksKeeps ==
  ASSUME PictureInv, CountTracks, UNCHANGED reader
  PROVE  PictureInv'
  <1>1. pc = "tracks" /\ file.type = "video" /\ pc \in Bare
    BY DEF CountTracks, PictureInv, Picture, Branches, VideoCalls, Bare
  <1>2. CASE Fail({}, {"content"})
    BY <1>1, <1>2, BareFails
  <1>3. CASE /\ Go("read_frame")
             /\ UNCHANGED <<input, info, size, locals, heap, open>>
    <2>1. /\ pc' = "read_frame"
          /\ UNCHANGED <<file, want, failed, info, thumb_width, thumb_height,
                         src, dst, n_times, heap, image_info, image_type>>
      BY <1>3 DEF Go, input, size, locals, reader
    <2>2. LocalTypes /\ info.data = NULL
      BY <1>1, BareFacts DEF PictureInv, Memory
    <2>3. Branches' /\ Fitting'
      BY <1>1, <2>1
      DEF Branches, Fitting, ThumbCalls, VideoCalls, ImageTypes
    <2> QED
      BY <1>1, <2>1, <2>2, <2>3, BareKeeps DEF LocalTypes, Bare
  <1> QED
    BY <1>2, <1>3, Zenon DEF CountTracks

LEMMA MeasureKeeps ==
  ASSUME PictureInv, Measure, UNCHANGED reader
  PROVE  PictureInv'
  <1>1. pc = "measure" /\ pc \in Bare
    BY DEF Measure, Bare
  <1>2. CASE Fail({}, {"ee"})
    BY <1>1, <1>2, BareFails
  <1>3. ASSUME NEW s \in Loaded({<<file.w, file.h>>}), Go("evas"),
               info' = [info EXCEPT !.origin_width = s[1],
                                    !.origin_height = s[2]],
               UNCHANGED <<input, size, locals, heap>>
        PROVE  PictureInv'
    <2>1. /\ pc' = "evas"
          /\ UNCHANGED <<file, want, failed, thumb_width, thumb_height,
                         src, dst, n_times, heap, image_info, image_type>>
      BY <1>3 DEF Go, input, size, locals, reader
    <2>2. LocalTypes /\ info.data = NULL
      BY <1>1, BareFacts DEF PictureInv, Memory
    <2>3. info' \in Info /\ info'.data = NULL
      <3>1. file.w \in Nat /\ file.h \in Nat
        BY <2>2, FileFacts DEF LocalTypes
      <3>2. s[1] \in Nat /\ s[2] \in Nat
        BY <1>3, <3>1 DEF Loaded
      <3> QED
        BY <1>3, <2>2, <3>2 DEF LocalTypes, Info
    <2>4. Branches' /\ Fitting'
      BY <2>1 DEF Branches, Fitting, ThumbCalls, VideoCalls
    <2> QED
      BY <1>1, <2>1, <2>2, <2>3, <2>4, BareKeeps DEF LocalTypes, Bare
  <1> QED
    BY <1>2, <1>3, Zenon DEF Measure

-----------------------------------------------------------------------------
(***************************************************************************)
(* The sizes of a thumbnail.                                               *)
(***************************************************************************)
LEMMA Quotient ==
  ASSUME NEW n \in Nat, NEW d \in Nat \ {0}
  PROVE  /\ n \div d \in Nat /\ n % d \in 0 .. d - 1
         /\ n = (n \div d) * d + (n % d)
  <1>1. n = (n \div d) * d + (n % d)
    OBVIOUS
  <1>2. n \div d \in Nat /\ n % d \in 0 .. d - 1
    OBVIOUS
  <1> QED
    BY <1>1, <1>2, Zenon

LEMMA Ordered ==
  ASSUME NEW a \in Nat, NEW b \in Nat, NEW c \in Nat, a <= b
  PROVE  a * c <= b * c
  OBVIOUS

LEMMA Cancelled ==
  ASSUME NEW a \in Nat, NEW b \in Nat, NEW c \in Nat \ {0}, a * c <= b * c
  PROVE  a <= b
  OBVIOUS

\* The shorter side, scaled as the longer one is scaled to a.
LEMMA ScaledFacts ==
  ASSUME NEW a \in Nat, NEW short \in Nat, NEW long \in Nat \ {0},
         short <= long, a <= long, NEW s \in Scaled(a, short, long)
  PROVE  /\ s \in Nat /\ s <= a /\ s <= short
         /\ a * short - s * long \in 0 .. long
  <1> DEFINE n == a * short
             q == n \div long
             r == n % long
  <1>1. n \in Nat
    OBVIOUS
  <1>2. q \in Nat /\ r \in 0 .. long - 1 /\ q * long + r = n
    <2> HIDE DEF n
    <2> QED
      BY <1>1, Quotient
  <1>3. s = q \/ (s = q - 1 /\ q > 0 /\ r = 0)
    BY DEF Scaled
  <1> HIDE DEF q, r
  <1>4. q <= short
    <2>1. n <= short * long
      BY Ordered
    <2>2. q * long <= short * long
      <3>1. q * long \in Nat /\ short * long \in Nat
        BY <1>2
      <3> HIDE DEF n
      <3> QED
        BY <1>1, <1>2, <2>1, <3>1
    <2> QED
      BY <1>2, <2>2, Cancelled
  <1>5. q <= a
    <2>1. n <= a * long
      <3>1. short * a <= long * a
        BY Ordered
      <3> QED
        BY <3>1
    <2>2. q * long <= a * long
      <3>1. q * long \in Nat /\ a * long \in Nat
        BY <1>2
      <3> HIDE DEF n
      <3> QED
        BY <1>1, <1>2, <2>1, <3>1
    <2> QED
      BY <1>2, <2>2, Cancelled
  <1>6. s \in Nat /\ s <= a /\ s <= short
    BY <1>2, <1>3, <1>4, <1>5
  <1>7. a * short - s * long \in 0 .. long
    <2>1. CASE s = q
      <3> HIDE DEF n
      <3>1. n - s * long = r
        BY <1>1, <1>2, <2>1
      <3> QED
        BY <1>2, <3>1 DEF n
    <2>2. CASE s = q - 1 /\ r = 0
      <3>1. s * long = q * long - long
        BY <1>2, <2>2
      <3>2. q * long \in Nat
        BY <1>2
      <3> HIDE DEF n
      <3>3. n - s * long = long
        BY <1>1, <1>2, <2>2, <3>1, <3>2
      <3> QED
        BY <3>3 DEF n
    <2> QED
      BY <1>3, <2>1, <2>2
  <1> QED
    BY <1>6, <1>7

LEMMA ProperFacts ==
  ASSUME NEW w \in Nat, NEW h \in Nat, NEW t \in ProperSizes(want, w, h)
  PROVE  Sized(t[1], t[2]) /\ Proper(t[1], t[2], w, h)
  <1> DEFINE g == get_width(want)
  <1>1. g \in Nat
    BY ImageAssumption DEF ImageAssumption, get_width
  <1> HIDE DEF g
  <1>2. CASE w < h
    <2> DEFINE th == Least(h, g)
    <2>1. th \in Nat /\ th <= h /\ th <= g
      BY <1>1 DEF Least
    <2>2. t[1] \in Scaled(th, w, h) /\ t[2] = th
      BY <1>2 DEF ProperSizes, g
    <2> HIDE DEF th
    <2>3. /\ t[1] \in Nat /\ t[1] <= th /\ t[1] <= w
          /\ th * w - t[1] * h \in 0 .. h
      BY <1>2, <2>1, <2>2, ScaledFacts
    <2>4. t[1] <= Least(w, g) /\ t[2] <= Least(h, g)
      BY <1>1, <2>1, <2>2, <2>3 DEF Least, th
    <2> QED
      BY <1>2, <2>1, <2>2, <2>3, <2>4 DEF Proper, Sized, Height, g
  <1>3. CASE ~(w < h) /\ w # 0
    <2> DEFINE tw == Least(w, g)
    <2>1. tw \in Nat /\ tw <= w /\ tw <= g
      BY <1>1 DEF Least
    <2>2. t[2] \in Scaled(tw, h, w) /\ t[1] = tw
      BY <1>3 DEF ProperSizes, g
    <2> HIDE DEF tw
    <2>3. /\ t[2] \in Nat /\ t[2] <= tw /\ t[2] <= h
          /\ tw * h - t[2] * w \in 0 .. w
      BY <1>3, <2>1, <2>2, ScaledFacts
    <2>4. t[1] <= Least(w, g) /\ t[2] <= Least(h, g)
      BY <1>1, <2>1, <2>2, <2>3 DEF Least, tw
    <2> QED
      BY <1>3, <2>1, <2>2, <2>3, <2>4 DEF Proper, Sized, Height, g
  <1>4. CASE ~(w < h) /\ w = 0
    <2>1. t[1] = 0 /\ t[2] \in ZeroByZero /\ h = 0
      BY <1>1, <1>4 DEF ProperSizes, g, Least
    <2>2. t[2] \in Height /\ t[2] \in Int /\ t[2] <= 0
      BY <2>1, ImageAssumption
      DEF ImageAssumption, ZeroByZero, Height, IntMin
    <2>3. Least(w, g) = 0 /\ Least(h, g) = 0
      BY <1>1, <1>4, <2>1 DEF Least
    <2>4. t[1] * h - t[2] * w \in 0 .. w
      BY <1>4, <2>1, <2>2
    <2> QED
      BY <1>4, <2>1, <2>2, <2>3, <2>4 DEF Proper, Sized, g
  <1> QED
    BY <1>2, <1>3, <1>4

LEMMA FitFacts ==
  ASSUME NEW w \in Nat, NEW h \in Nat, Fit(w, h)
  PROVE  /\ Sized(thumb_width', thumb_height')
         /\ Proper(thumb_width', thumb_height', w, h)
  <1>1. PICK t \in ProperSizes(want, w, h) :
           thumb_width' = t[1] /\ thumb_height' = t[2]
    BY DEF Fit
  <1> QED
    BY <1>1, ProperFacts

LEMMA LoadSourceKeeps ==
  ASSUME PictureInv, LoadSource, UNCHANGED reader
  PROVE  PictureInv'
  <1>1. pc = "load" /\ pc \in Bare
    BY DEF LoadSource, Bare
  <1>2. CASE Fail({}, {"ee"})
    BY <1>1, <1>2, BareFails
  <1>3. ASSUME NEW upright \in Loaded(UprightSizes), Go("target"),
               info' = [info EXCEPT !.origin_width = upright[1],
                                    !.origin_height = upright[2]],
               Fit(upright[1], upright[2]),
               UNCHANGED <<input, locals, heap>>
        PROVE  PictureInv'
    <2> DEFINE ow == upright[1]
               oh == upright[2]
    <2>1. /\ pc' = "target"
          /\ UNCHANGED <<file, want, failed, src, dst, n_times, heap,
                         image_info, image_type>>
      BY <1>3 DEF Go, input, locals, reader
    <2>2. LocalTypes /\ info.data = NULL
      BY <1>1, BareFacts DEF PictureInv, Memory
    <2>3. ow \in Nat /\ oh \in Nat
      <3>1. file.w \in Nat /\ file.h \in Nat
        BY <2>2, FileFacts DEF LocalTypes
      <3> QED
        BY <1>3, <3>1 DEF Loaded, UprightSizes
    <2>8. /\ info' = [info EXCEPT !.origin_width = ow, !.origin_height = oh]
          /\ Fit(ow, oh)
      BY <1>3
    <2> HIDE DEF ow, oh
    <2>4. /\ info' \in Info /\ info'.data = NULL
          /\ info'.origin_width = ow /\ info'.origin_height = oh
      BY <2>8, <2>2, <2>3 DEF LocalTypes, Info
    <2>5. /\ Sized(thumb_width', thumb_height')
          /\ Proper(thumb_width', thumb_height', ow, oh)
      BY <2>8, <2>3, FitFacts
    <2>6. Branches'
      BY <2>1 DEF Branches, ThumbCalls, VideoCalls
    <2>7. Fitting'
      BY <2>1, <2>4, <2>5 DEF Fitting, Proper
    <2> QED
      BY <1>1, <2>1, <2>4, <2>5, <2>6, <2>7, BareKeeps DEF Bare
  <1> QED
    BY <1>2, <1>3 DEF LoadSource

\* thumb_info is given a picture in a new buffer.
LEMMA DataMade ==
  ASSUME PictureInv, NEW b \in Buffers, NEW gone, NEW buffer \in Buffer,
         Allocated(b, gone, buffer),
         \A c \in {src, dst} \ {NULL} : c \in gone,
         src' = NULL, dst' = NULL, Data = NULL, pc # "done",
         pc' \in {"convert", "done"}, info' \in Info, info'.data = b,
         UNCHANGED <<file, want, failed, thumb_width, thumb_height, n_times,
                     image_info, image_type>>
  PROVE  Memory' /\ heap'[b] = buffer
  <1>1. /\ b # NULL /\ heap'[b] = buffer
        /\ heap' \in [Buffers -> Buffer \cup {Unused}]
        /\ \A c \in Buffers :
              Held(heap'[c],
                 c = b \/ (c \in {src, dst, Data} /\ c \notin gone))
    BY OneAllocated DEF PictureInv, Held
  <1>2. \A c \in Buffers : Held(heap'[c], c = b)
    BY <1>1, ImageAssumption DEF ImageAssumption, Held
  <1>3. LocalTypes'
    BY <1>1 DEF PictureInv, Memory, LocalTypes, Labels
  <1>4. Data' = b
    BY DEF PictureInv, Memory, LocalTypes, Data
  <1>5. Owned'
    BY <1>1, <1>2, <1>4, ImageAssumption DEF ImageAssumption, Owned, Held
  <1>6. Pointers'
    BY <1>1 DEF Pointers, HoldsSrc, MayHoldSrc, HoldsDst, HoldsData
  <1> QED
    BY <1>1, <1>3, <1>5, <1>6 DEF Memory

LEMMA CopyPixelsKeeps ==
  ASSUME PictureInv, CopyPixels, UNCHANGED reader
  PROVE  PictureInv'
  <1>1. pc = "pixels" /\ pc \in Bare
    BY DEF CopyPixels, Bare
  <1>2. CASE Fail({}, {"ee", "target_ee"})
    BY <1>1, <1>2, BareFails
  <1> DEFINE picture == Pixels(0, thumb_width, thumb_height, BGRA)
  <1>3. CASE /\ Go("done")
             /\ \E b \in Buffers : /\ Allocated(b, {}, Holding(picture))
                                   /\ Finished(b, Holding(picture))
             /\ UNCHANGED <<input, size, locals>>
    <2>1. LocalTypes /\ src = NULL /\ dst = NULL /\ Data = NULL
      BY <1>1, BareFacts DEF PictureInv, Memory
    <2>2. /\ Holding(picture) \in Buffer
          /\ Holding(picture).size \in Nat /\ Holding(picture).image = picture
          /\ picture.w = thumb_width /\ picture.h = thumb_height
      <3>1. /\ Holding(picture) \in Buffer /\ Holding(picture).image = picture
            /\ picture.w = thumb_width /\ picture.h = thumb_height
        <4>1. /\ 0 \in 0 .. 3 \cup {Mirrored}
              /\ BGRA \in {JPEG, RGB565, RGB888, BGRA}
              /\ Sized(thumb_width, thumb_height)
          BY <2>1 DEF LocalTypes
        <4> QED
          BY <4>1, HoldingFacts
      <3> HIDE DEF picture
      <3> QED
        BY <3>1 DEF Buffer
    <2> HIDE DEF picture
    <2>3. PICK b \in Buffers : /\ Allocated(b, {}, Holding(picture))
                              /\ Finished(b, Holding(picture))
      BY <1>3
    <2>4. /\ pc' = "done"
          /\ UNCHANGED <<file, want, failed, thumb_width, thumb_height, src,
                         dst, n_times, image_info, image_type>>
      BY <1>3 DEF Go, input, size, locals, reader
    <2>5. /\ info' \in Info /\ info'.data = b
          /\ info'.size = Holding(picture).size
          /\ info'.width = thumb_width /\ info'.height = thumb_height
          /\ info'.origin_width = info.origin_width
          /\ info'.origin_height = info.origin_height
      <3>1. info' = [info EXCEPT !.data = b, !.size = Holding(picture).size,
                                 !.width = thumb_width, !.height = thumb_height]
        BY <2>2, <2>3 DEF Finished
      <3>2. thumb_width \in Nat /\ thumb_height \in Height /\ info \in Info
        BY <2>1 DEF LocalTypes, Sized
      <3> QED
        BY <2>2, <3>1, <3>2 DEF Info
    <2>6. Memory' /\ heap'[b] = Holding(picture)
      BY <1>1, <2>1, <2>2, <2>3, <2>4, <2>5, DataMade
    <2>7. PictureWhole'
      <3>1. 0 \in LeftOver'
        BY <2>1, <2>4, LeftOverFacts DEF LocalTypes
      <3>2. /\ heap'[info'.data] = Holding(Pixels(0, info'.width, info'.height, BGRA))
            /\ info'.size = Holding(Pixels(0, info'.width, info'.height, BGRA)).size
        BY <2>5, <2>6 DEF picture
      <3>3. info'.data # NULL
        BY <2>5, ImageAssumption DEF ImageAssumption
      <3> QED
        BY <3>1, <3>2, <3>3 DEF PictureWhole
    <2>8. ThumbFits'
      <3>1. file.type \in ImageTypes =>
               Proper(thumb_width, thumb_height,
                      info.origin_width, info.origin_height)
        BY <1>1 DEF PictureInv, Picture, Fitting
      <3> QED
        BY <2>4, <2>5, <3>1 DEF ThumbFits, Proper
    <2>9. Picture'
      BY <2>4, <2>7, <2>8
      DEF Picture, Branches, Contents, Fitting, ThumbCalls, VideoCalls,
          HoldsData
    <2> QED
      BY <2>6, <2>9 DEF PictureInv
  <1> QED
    BY <1>2, <1>3 DEF CopyPixels

LEMMA CreateFrameKeeps ==
  ASSUME PictureInv, CreateFrame, UNCHANGED reader
  PROVE  PictureInv'
  <1>1. pc = "frame" /\ pc \in Bare
    BY DEF CreateFrame, Bare
  <1>2. CASE Fail({}, {})
    BY <1>1, <1>2, BareFails
  <1> DEFINE picture == Pixels(0, image_info.width, image_info.height, RGB565)
  <1>3. CASE /\ Go("convert_frame")
             /\ src' \in Buffers
             /\ Allocated(src', {}, Holding(picture))
             /\ UNCHANGED <<input, info, size, dst, n_times>>
    <2>1. /\ LocalTypes
          /\ src = NULL /\ dst = NULL /\ info.data = NULL /\ Data = NULL
      BY <1>1, BareFacts DEF PictureInv, Memory
    <2>2. Holding(picture) \in Buffer
      <3>1. 0 \in 0 .. 3 \cup {Mirrored}
            /\ RGB565 \in {JPEG, RGB565, RGB888, BGRA}
        OBVIOUS
      <3>2. Sized(image_info.width, image_info.height)
        BY <2>1 DEF LocalTypes, Sized, Height
      <3> QED
        BY <3>1, <3>2, HoldingFacts
    <2>6. Holding(picture).image.h \in Nat
      BY <2>1 DEF LocalTypes, Holding, Pixels
    <2> HIDE DEF picture
    <2>3. /\ pc' = "convert_frame"
          /\ UNCHANGED <<file, want, failed, info, thumb_width, thumb_height,
                         dst, n_times, image_info, image_type>>
      BY <1>3 DEF Go, input, size, reader
    <2>4. Memory' /\ heap'[src'] = Holding(picture)
      BY <1>1, <1>3, <2>1, <2>2, <2>3, SourceMade
      DEF LocalTypes, HoldsSrc, MayHoldSrc, HoldsDst
    <2>5. Picture'
      BY <2>3, <2>4, <2>6
      DEF Picture, Branches, Contents, PictureWhole, Fitting, ThumbFits,
          ThumbCalls, VideoCalls, HoldsData
    <2> QED
      BY <2>4, <2>5 DEF PictureInv
  <1> QED
    BY <1>2, <1>3 DEF CreateFrame

LEMMA ConvertFrameKeeps ==
  ASSUME PictureInv, ConvertFrame, UNCHANGED reader
  PROVE  PictureInv'
  <1>1. /\ pc = "convert_frame"
        /\ src # NULL /\ dst = NULL /\ info.data = NULL /\ Data = NULL
    BY DEF ConvertFrame, PictureInv, Memory, Pointers, Data, HoldsSrc,
       HoldsDst, HoldsData
  <1>2. LocalTypes /\ heap[src] \in Buffer /\ heap[src].image.h \in Nat
    BY <1>1
    DEF PictureInv, Memory, LocalTypes, Owned, Held, Picture, Contents
  <1>3. CASE Fail({src}, {"frame"})
    BY <1>1, <1>3, FailKeeps
  <1> DEFINE rgb == [heap[src].image EXCEPT !.bpp = RGB888]
  <1>4. CASE /\ Go("copy_frame")
             /\ src' \in Buffers
             /\ Allocated(src', {src}, Holding(rgb))
             /\ UNCHANGED <<input, info, size, dst, n_times>>
    <2>1. rgb \in Image /\ rgb.w \in Nat /\ rgb.h \in Nat /\ rgb.bpp = RGB888
      <3>1. heap[src].image \in Image
        BY <1>2 DEF Buffer
      <3> QED
        BY <1>2, <3>1 DEF Image
    <2>2. rgb.w * rgb.h * rgb.bpp \in Nat
      <3> HIDE DEF rgb
      <3>1. rgb.w * rgb.h \in Nat /\ rgb.bpp \in Nat
        BY <2>1, NatProduct DEF RGB888
      <3> QED
        BY <3>1, NatProduct
    <2> HIDE DEF rgb
    <2>3. Holding(rgb) \in Buffer
      BY <2>1, <2>2 DEF Holding, Buffer
    <2>4. /\ pc' = "copy_frame"
          /\ UNCHANGED <<file, want, failed, info, thumb_width, thumb_height,
                         dst, n_times, image_info, image_type>>
      BY <1>4 DEF Go, input, size, reader
    <2>5. Memory'
      BY <1>1, <1>2, <1>4, <2>3, <2>4, SourceMade
      DEF LocalTypes, HoldsSrc, MayHoldSrc, HoldsDst
    <2>6. Picture'
      BY <2>4
      DEF Picture, Branches, Contents, PictureWhole, Fitting, ThumbFits,
          ThumbCalls, VideoCalls, HoldsData
    <2> QED
      BY <2>5, <2>6 DEF PictureInv
  <1> QED
    BY <1>3, <1>4 DEF ConvertFrame

LEMMA CopyFrameKeeps ==
  ASSUME PictureInv, CopyFrame, UNCHANGED reader
  PROVE  PictureInv'
  <1>1. /\ pc = "copy_frame"
        /\ src # NULL /\ dst = NULL /\ info.data = NULL /\ Data = NULL
    BY DEF CopyFrame, PictureInv, Memory, Pointers, Data, HoldsSrc,
       HoldsDst, HoldsData
  <1>2. LocalTypes /\ heap[src] \in Buffer
    BY <1>1 DEF PictureInv, Memory, LocalTypes, Owned, Held
  <1>3. CASE /\ Go("resize_data")
             /\ src' \in Buffers
             /\ Allocated(src', {src}, heap[src])
             /\ Fit(info.origin_width, info.origin_height)
             /\ UNCHANGED <<input, info, dst, n_times>>
    <2>1. /\ Sized(thumb_width', thumb_height')
          /\ Proper(thumb_width', thumb_height',
                    info.origin_width, info.origin_height)
      BY <1>2, <1>3, FitFacts DEF LocalTypes, Info
    <2>2. /\ pc' = "resize_data"
          /\ UNCHANGED <<file, want, failed, info, dst, n_times, image_info,
                         image_type>>
      BY <1>3 DEF Go, input, reader
    <2>3. Memory'
      BY <1>1, <1>2, <1>3, <2>1, <2>2, SourceMade
      DEF HoldsSrc, MayHoldSrc, HoldsDst
    <2>4. Picture'
      BY <2>1, <2>2
      DEF Picture, Branches, Contents, PictureWhole, Fitting, Proper, ThumbFits,
          ThumbCalls, VideoCalls, HoldsData
    <2> QED
      BY <2>3, <2>4 DEF PictureInv
  <1>4. CASE MayFail("raw_size") /\ Fail({}, {})
    <2>1. ~NoLeaks
      BY <1>4 DEF MayFail, NoLeaks, LeakingCalls
    <2> QED
      BY <1>4, <2>1, FailKeeps
  <1> QED
    BY <1>3, <1>4 DEF CopyFrame

LEMMA ReadFrameKeeps ==
  ASSUME PictureInv, ReadFrame, UNCHANGED reader
  PROVE  PictureInv'
  <1>1. pc = "read_frame" /\ pc \in Bare /\ file.type = "video"
    BY DEF ReadFrame, Bare, PictureInv, Picture, Branches, VideoCalls
  <1>2. /\ LocalTypes /\ Owned /\ file.w \in Nat /\ file.h \in Nat
        /\ src = NULL /\ dst = NULL /\ info.data = NULL /\ Data = NULL
    BY <1>1, BareFacts, FileFacts DEF PictureInv, Memory, LocalTypes
  <1> DEFINE sized == [info EXCEPT !.origin_width = file.w,
                                   !.origin_height = file.h]
             picture == Pixels(0, file.w, file.h, RGB888)
  <1>3. sized \in Info /\ sized.data = NULL
    BY <1>2 DEF LocalTypes, Info
  <1>4. CASE Fail({}, {"content"})
    BY <1>1, <1>4, BareFails
  <1>5. CASE /\ Go("resize_data")
             /\ info' = sized
             /\ UNCHANGED <<input, size, locals, heap>>
    <2>1. /\ pc' = "resize_data"
          /\ UNCHANGED <<file, want, failed, thumb_width, thumb_height, src,
                         dst, n_times, heap, image_info, image_type>>
      BY <1>5 DEF Go, input, size, locals, reader
    <2>2. Data' = Data
      BY <1>2, <1>3, <1>5, <2>1 DEF Data
    <2>3. Owned'
      BY <2>1, <2>2, QuietOwned DEF PictureInv
    <2>4. LocalTypes'
      BY <1>1, <1>2, <1>3, <1>5, <2>1 DEF LocalTypes, Labels
    <2>5. Pointers'
      BY <1>2, <1>3, <1>5, <2>1
      DEF Pointers, HoldsSrc, MayHoldSrc, HoldsDst, HoldsData
    <2>6. Picture'
      BY <1>1, <2>1
      DEF Picture, Branches, Contents, PictureWhole, Fitting, ThumbFits,
          ThumbCalls, VideoCalls, HoldsData, ImageTypes
    <2> QED
      BY <2>3, <2>4, <2>5, <2>6 DEF PictureInv, Memory
  <1>6. ASSUME NEW b \in Buffers, Go("convert"),
               Allocated(b, {}, Holding(picture)),
               info' = [sized EXCEPT !.data = b,
                                     !.size = Holding(picture).size,
                                     !.width = file.w, !.height = file.h],
               UNCHANGED <<input, size, locals>>
        PROVE  PictureInv'
    <2>1. /\ pc' = "convert"
          /\ UNCHANGED <<file, want, failed, thumb_width, thumb_height, src,
                         dst, n_times, image_info, image_type>>
      BY <1>6 DEF Go, input, size, locals, reader
    <2>2. Holding(picture) \in Buffer
      <3>1. 0 \in 0 .. 3 \cup {Mirrored}
            /\ RGB888 \in {JPEG, RGB565, RGB888, BGRA}
        OBVIOUS
      <3>2. Sized(file.w, file.h)
        BY <1>2 DEF Sized, Height
      <3> QED
        BY <3>1, <3>2, HoldingFacts
    <2> HIDE DEF picture
    <2>3. Holding(picture).size \in Nat
      BY <2>2 DEF Buffer
    <2>4. /\ info' \in Info /\ info'.data = b
          /\ info'.width = file.w /\ info'.height = file.h
      <3> HIDE DEF sized
      <3> QED
        BY <1>2, <1>3, <1>6, <2>3 DEF Info, Height
    <2>5. Memory' /\ heap'[b] = Holding(picture)
      BY <1>1, <1>2, <1>6, <2>1, <2>2, <2>4, DataMade
    <2>6. Contents'
      <3>1. 0 \in LeftOver'
        BY <1>2, <2>1, LeftOverFacts DEF LocalTypes
      <3>2. Sized(info'.width, info'.height)
        BY <1>2, <2>4 DEF Sized, Height
      <3>3. heap'[info'.data] = Holding(Pixels(0, info'.width, info'.height, RGB888))
        BY <2>4, <2>5 DEF picture
      <3> QED
        BY <2>1, <3>1, <3>2, <3>3 DEF Contents, HoldsData
    <2>7. Picture'
      BY <1>1, <2>1, <2>6
      DEF Picture, Branches, PictureWhole, Fitting, ThumbFits, ThumbCalls,
          VideoCalls, ImageTypes
    <2> QED
      BY <2>5, <2>7 DEF PictureInv
  <1> QED
    BY <1>4, <1>5, <1>6 DEF ReadFrame

LEMMA ResizeDataKeeps ==
  ASSUME PictureInv, ResizeData, UNCHANGED reader
  PROVE  PictureInv'
  <1>1. /\ pc = "resize_data"
        /\ dst = NULL /\ info.data = NULL /\ Data = NULL
    BY DEF ResizeData, PictureInv, Memory, Pointers, Data, HoldsDst, HoldsData
  <1>2. LocalTypes /\ Owned
    BY DEF PictureInv, Memory
  <1>3. CASE Fail({src}, {"content"})
    BY <1>1, <1>3, FailKeeps
  <1> DEFINE picture == Pixels(0, thumb_width, thumb_height, RGB888)
  <1>4. CASE /\ Go("resize_copy")
             /\ dst' \in Buffers
             /\ Allocated(dst', {}, Holding(picture))
             /\ UNCHANGED <<input, info, size, src, n_times>>
    <2>1. Holding(picture) \in Buffer
      <3>1. /\ 0 \in 0 .. 3 \cup {Mirrored}
            /\ RGB888 \in {JPEG, RGB565, RGB888, BGRA}
            /\ Sized(thumb_width, thumb_height)
        BY <1>2 DEF LocalTypes
      <3> QED
        BY <3>1, HoldingFacts
    <2> HIDE DEF picture
    <2>2. PICK b \in Buffers : dst' = b /\ Allocated(b, {}, Holding(picture))
      BY <1>4
    <2>3. /\ b # NULL /\ b \notin {src, dst, Data}
          /\ heap'[b] = Holding(picture)
          /\ heap' \in [Buffers -> Buffer \cup {Unused}]
          /\ \A c \in Buffers :
                Held(heap'[c], c = b \/ c \in {src, dst, Data})
      BY <2>1, <2>2, OneAllocated DEF PictureInv, Held
    <2>4. /\ pc' = "resize_copy"
          /\ UNCHANGED <<file, want, failed, info, thumb_width, thumb_height,
                         src, n_times, image_info, image_type>>
      BY <1>4 DEF Go, input, size, reader
    <2>5. LocalTypes'
      BY <1>1, <1>2, <2>2, <2>3, <2>4 DEF LocalTypes, Labels
    <2>6. Owned'
      BY <1>1, <1>2, <2>2, <2>3, <2>4, ImageAssumption
      DEF ImageAssumption, Owned, Held, Data
    <2>7. Pointers'
      BY <1>1, <2>2, <2>3, <2>4
      DEF Pointers, HoldsSrc, MayHoldSrc, HoldsDst, HoldsData
    <2>8. Contents'
      BY <2>2, <2>3, <2>4 DEF Contents, HoldsData, picture
    <2>9. Fitting'
      BY <1>1, <2>4 DEF PictureInv, Picture, Fitting, Proper
    <2>10. Picture'
      BY <2>4, <2>8, <2>9
      DEF Picture, Branches, PictureWhole, ThumbFits, ThumbCalls, VideoCalls
    <2> QED
      BY <2>5, <2>6, <2>7, <2>10 DEF PictureInv, Memory
  <1> QED
    BY <1>3, <1>4 DEF ResizeData

LEMMA ResizeCopyKeeps ==
  ASSUME PictureInv, ResizeCopy, UNCHANGED reader
  PROVE  PictureInv'
  <1>1. /\ pc = "resize_copy"
        /\ dst # NULL /\ info.data = NULL /\ Data = NULL
    BY DEF ResizeCopy, PictureInv, Memory, Pointers, Data, HoldsDst, HoldsData
  <1>2. LocalTypes /\ Owned
    BY DEF PictureInv, Memory
  <1>3. CASE Fail({src, dst}, {"content"})
    BY <1>1, <1>3, FailKeeps
  <1> DEFINE picture == Pixels(0, thumb_width, thumb_height, RGB888)
  <1>4. CASE /\ Go("convert")
             /\ \E b \in Buffers : /\ Allocated(b, {src, dst}, heap[dst])
                                   /\ Finished(b, heap[dst])
             /\ src' = NULL /\ dst' = NULL
             /\ UNCHANGED <<input, size, n_times>>
    <2>1. /\ heap[dst] = Holding(picture)
          /\ Holding(picture) \in Buffer /\ Holding(picture).image = picture
          /\ picture.w = thumb_width /\ picture.h = thumb_height
      <3>1. /\ 0 \in 0 .. 3 \cup {Mirrored}
            /\ RGB888 \in {JPEG, RGB565, RGB888, BGRA}
            /\ Sized(thumb_width, thumb_height)
        BY <1>2 DEF LocalTypes
      <3>2. heap[dst] = Holding(picture)
        BY <1>1 DEF PictureInv, Picture, Contents
      <3> QED
        BY <3>1, <3>2, HoldingFacts
    <2> HIDE DEF picture
    <2>2. PICK b \in Buffers : /\ Allocated(b, {src, dst}, heap[dst])
                              /\ Finished(b, heap[dst])
      BY <1>4
    <2>3. /\ pc' = "convert"
          /\ UNCHANGED <<file, want, failed, thumb_width, thumb_height,
                         n_times, image_info, image_type>>
      BY <1>4 DEF Go, input, size, reader
    <2>4. /\ info' \in Info /\ info'.data = b
          /\ info'.width = thumb_width /\ info'.height = thumb_height
          /\ info'.origin_width = info.origin_width
          /\ info'.origin_height = info.origin_height
      <3>1. info' = [info EXCEPT !.data = b, !.size = Holding(picture).size,
                                 !.width = thumb_width, !.height = thumb_height]
        BY <2>1, <2>2 DEF Finished
      <3>2. Holding(picture).size \in Nat
        BY <2>1 DEF Buffer
      <3> QED
        BY <1>2, <3>1, <3>2 DEF LocalTypes, Info, Sized
    <2>5. Memory' /\ heap'[b] = Holding(picture)
      <3>1. heap[dst] \in Buffer
        BY <2>1
      <3> QED
        BY <1>1, <1>4, <2>1, <2>2, <2>3, <2>4, <3>1, DataMade
    <2>6. Contents'
      <3>1. 0 \in LeftOver'
        BY <1>2, <2>3, LeftOverFacts DEF LocalTypes
      <3>2. Sized(info'.width, info'.height)
        BY <1>2, <2>4 DEF LocalTypes
      <3>3. heap'[info'.data] = Holding(Pixels(0, info'.width, info'.height, RGB888))
        BY <2>4, <2>5 DEF picture
      <3> QED
        BY <2>3, <3>1, <3>2, <3>3 DEF Contents, HoldsData
    <2>7. Fitting'
      BY <1>1, <2>3, <2>4 DEF PictureInv, Picture, Fitting, Proper
    <2>8. Picture'
      BY <2>3, <2>6, <2>7
      DEF Picture, Branches, PictureWhole, ThumbFits, ThumbCalls, VideoCalls
    <2> QED
      BY <2>5, <2>8 DEF PictureInv
  <1> QED
    BY <1>3, <1>4 DEF ResizeCopy

LEMMA ImageStepKeeps ==
  ASSUME PictureInv, ImageStep, UNCHANGED reader
  PROVE  PictureInv'
  BY StartKeeps, ReadExifKeeps, WriteThumbKeeps, DecodeThumbKeeps,
     ResizeThumbKeeps, OrientKeeps, TurnKeeps, ConvertThumbKeeps,
     OpenSourceKeeps, LoadSourceKeeps, OpenTargetKeeps, CopyPixelsKeeps,
     OpenToMeasureKeeps, MeasureKeeps, CreateFrameKeeps, ConvertFrameKeeps,
     CopyFrameKeeps, OpenContentKeeps, CountTracksKeeps, ReadFrameKeeps,
     ResizeDataKeeps, ResizeCopyKeeps, ConvertKeeps
  DEF ImageStep

LEMMA ReadHeaderKeeps ==
  ASSUME PictureInv, HeaderInv, ReadHeader
  PROVE  PictureInv' /\ HeaderInv'
  <1>1. /\ pc = "start" /\ HeaderStep
        /\ UNCHANGED <<file, want, pc, failed, info, thumb_width, thumb_height,
                       src, dst, n_times, heap>>
    BY DEF ReadHeader, imageVars, input, size, locals
  <1>2. HeaderInv'
    BY <1>1, HeaderInvStep
  <1>3. /\ image_info' \in [width : Nat, height : Nat]
        /\ image_type' \in HeaderTypes
    BY <1>2 DEF HeaderInv, HeaderOK
  <1>4. LocalTypes'
    BY <1>1, <1>3 DEF PictureInv, Memory, LocalTypes
  <1>5. Data' = Data
    BY <1>1 DEF Data
  <1>6. Owned'
    BY <1>1, <1>5, QuietOwned DEF PictureInv
  <1>7. Pointers'
    BY <1>1 DEF PictureInv, Memory, Pointers
  <1>8. Picture'
    BY <1>1
    DEF Picture, Branches, Contents, PictureWhole, Fitting, ThumbFits,
        ThumbCalls, VideoCalls, HoldsData
  <1> QED
    BY <1>2, <1>4, <1>6, <1>7, <1>8 DEF PictureInv, Memory

\* At the beginning of a call nothing is owned and there is no picture; what
\* was leaked stays.
Beginning ==
    /\ HeaderInit /\ want \in {"large", "small"}
    /\ pc = "start" /\ failed = FALSE /\ info = NoInfo
    /\ thumb_width = get_width(want) /\ thumb_height = get_height(want)
    /\ src = NULL /\ dst = NULL /\ n_times = 0
    /\ heap \in [Buffers -> Buffer \cup {Unused}]
    /\ NoLeaks => \A b \in Buffers : heap[b] = Unused

LEMMA CallBegins == Beginning => PictureInv /\ HeaderInv
  <1> SUFFICES ASSUME Beginning PROVE PictureInv /\ HeaderInv
    OBVIOUS
  <1> USE DEF Beginning
  <1>1. /\ image_type = "none" /\ image_info \in [width : Nat, height : Nat]
        /\ file \in Files
    BY DEF HeaderStart, HeaderInit
  <1>2. info \in Info /\ info.data = NULL /\ Data = NULL
    BY DEF NoInfo, Info, Height, Data
  <1>3. Sized(thumb_width, thumb_height)
    BY ImageAssumption
    DEF ImageAssumption, get_width, get_height, Sized, Height
  <1>4. LocalTypes
    <2>1. failed \in BOOLEAN /\ ~failed
      BY Zenon
    <2>2. pc \in Labels /\ image_type \in HeaderTypes
      BY <1>1 DEF Labels, HeaderTypes
    <2> QED
      BY <1>1, <1>2, <1>3, <2>1, <2>2 DEF LocalTypes
  <1>5. Owned
    BY <1>2, ImageAssumption DEF ImageAssumption, Owned, Held
  <1>6. Pointers
    BY <1>2 DEF Pointers, HoldsSrc, MayHoldSrc, HoldsDst, HoldsData
  <1>7. Picture
    BY DEF Picture, Branches, Contents, PictureWhole, Fitting, ThumbFits,
           ThumbCalls, VideoCalls, HoldsData
  <1> QED
    BY <1>1, <1>4, <1>5, <1>6, <1>7, HeaderInvInit DEF PictureInv, Memory

LEMMA ReturnKeeps ==
  ASSUME PictureInv, Return
  PROVE  PictureInv' /\ HeaderInv'
  <1>1. /\ pc = "done" /\ Call
        /\ heap' = Freed(IF failed THEN {} ELSE {info.data})
    BY DEF Return
  <1>2. src = NULL /\ dst = NULL
    BY <1>1 DEF PictureInv, Memory, Pointers, HoldsSrc, MayHoldSrc, HoldsDst
  <1>3. /\ heap' \in [Buffers -> Buffer \cup {Unused}]
        /\ NoLeaks => \A b \in Buffers : heap'[b] = Unused
    <2>1. NoLeaks => \A b \in Buffers : heap[b] # Unused => ~failed /\ b = info.data
      BY <1>1, <1>2, ImageAssumption
      DEF ImageAssumption, PictureInv, Memory, Owned, Held, Data
    <2> QED
      BY <1>1, <2>1, FreedTyped DEF PictureInv
  <1>4. HeaderInit'
    BY <1>1, Zenon DEF Call, HeaderInit, HeaderStart
  <1>5. Beginning'
    BY <1>1, <1>3, <1>4 DEF Call, Beginning
  <1> QED
    BY <1>5, CallBegins, PTL

\* What may be open is one of the objects, whichever calls fail.
LEMMA OpenKeeps ==
  ASSUME open \subseteq Objects, ImageNext
  PROVE  open' \subseteq Objects
  <1>1. CASE ReadHeader \/ Return
    BY <1>1 DEF ReadHeader, Return, imageVars
  <1>2. CASE ImageStep
    <2>1. \/ open' \subseteq open
          \/ \E object \in Objects : open' = open \cup {object}
      BY <1>2, Zenon
      DEF ImageStep, Start, ReadExif, WriteThumb, DecodeThumb, ResizeThumb,
          Orient, Turn, ConvertThumb, OpenSource, LoadSource, OpenTarget,
          CopyPixels, OpenToMeasure, Measure, CreateFrame, ConvertFrame,
          CopyFrame, OpenContent, CountTracks, ReadFrame, ResizeData,
          ResizeCopy, Convert, DecodeInstead, Fail, ToBGRA, Opened, Objects
    <2> QED
      BY <2>1
  <1> QED
    BY <1>1, <1>2 DEF ImageNext

ImageInv == PictureInv /\ HeaderInv /\ open \subseteq Objects

LEMMA ImageInvAlways == ImageSpec => []ImageInv
  <1>1. ImageInit => ImageInv
    <2> SUFFICES ASSUME ImageInit PROVE Beginning /\ open \subseteq Objects
      BY CallBegins DEF ImageInv
    <2> QED
      BY DEF ImageInit, Beginning
  <1>2. ImageInv /\ [ImageNext]_<<imageVars, reader>> => ImageInv'
    <2> SUFFICES ASSUME ImageInv, [ImageNext]_<<imageVars, reader>>
                 PROVE  ImageInv'
      OBVIOUS
    <2> USE DEF ImageInv
    <2>1. CASE ReadHeader
      BY <2>1, ReadHeaderKeeps, OpenKeeps DEF ImageNext
    <2>2. CASE ImageStep /\ UNCHANGED reader
      <3>1. UNCHANGED file
        BY <2>2, StepKeepsFile DEF input
      <3>2. HeaderInv'
        BY <2>2, <3>1
        DEF reader, HeaderInv, HeaderOK, StreamInv, StreamCoherent, Coherent
      <3> QED
        BY <2>2, <3>2, ImageStepKeeps, OpenKeeps DEF ImageNext
    <2>3. CASE Return
      BY <2>3, ReturnKeeps, OpenKeeps DEF ImageNext
    <2>4. CASE UNCHANGED <<imageVars, reader>>
      BY <2>4
      DEF imageVars, reader, input, size, locals, HeaderInv, HeaderOK,
          StreamInv, StreamCoherent, Coherent, PictureInv, Memory, LocalTypes,
          Pointers, Owned, Held, Data, Picture, Branches, HasThumb, Contents,
          Needs, OnDisk, StillLeft, LeftOver, PictureWhole, Fitting, Proper,
          ThumbFits
    <2> QED
      BY <2>1, <2>2, <2>3, <2>4 DEF ImageNext
  <1> QED
    BY <1>1, <1>2, PTL DEF ImageSpec

\* The variables keep their types: no size is negative but the height that
\* comes of 0 / 0, every buffer holds pixels, and no address but those of
\* malloc is ever in a pointer.
THEOREM ImageTyped == ImageSpec => []ImageOK
  <1>1. ImageInv => ImageOK
    BY DEF ImageInv, PictureInv, Memory, LocalTypes, Sized, HeaderInv, ImageOK
  <1> QED
    BY <1>1, ImageInvAlways, PTL

\* Through every failure of the other calls and any number of turns, each
\* buffer has exactly one pointer that will free it, and no pointer is to
\* freed memory.
THEOREM ImageBuffersOwned ==
  ASSUME LeakingCalls \cap Fails = {}
  PROVE  ImageSpec => []BuffersOwned
  <1>1. ImageInv => BuffersOwned
    <2> SUFFICES ASSUME ImageInv PROVE BuffersOwned
      OBVIOUS
    <2>1. /\ Owned /\ NULL \notin Buffers
          /\ {src, dst, Data} \subseteq Buffers \cup {NULL}
      BY ImageAssumption
      DEF ImageAssumption, ImageInv, PictureInv, Memory, LocalTypes, Info, Data
    <2>2. Owners = <<src, dst, Data>>
      BY DEF Owners, Data
    <2>3. {Owners[i] : i \in 1 .. 3} = {src, dst, Data}
      <3>1. 1 .. 3 = {1, 2, 3}
        OBVIOUS
      <3>2. Owners[1] = src /\ Owners[2] = dst /\ Owners[3] = Data
        BY <2>2
      <3> QED
        BY <3>1, <3>2
    <2>4. {b \in Buffers : heap[b] # Unused} = {src, dst, Data} \ {NULL}
      BY <2>1 DEF Owned, Held, NoLeaks
    <2>5. \A i, j \in 1 .. 3 : Owners[i] = Owners[j] => i = j \/ Owners[i] = NULL
      BY <2>1, <2>2 DEF Owned, Held
    <2> QED
      BY <2>3, <2>4, <2>5 DEF BuffersOwned
  <1> QED
    BY <1>1, ImageInvAlways, PTL

\* Whatever way a picture was made, the one returned is BGRA, of the size
\* thumb_info says, and fills its buffer exactly.  It is upright, unless the
\* thumbnail was found at the hash path and was so already; then it is turned
\* by exactly the turns that the original needs.
THEOREM ImagePictureWhole == ImageSpec => []PictureWhole
  <1>1. ImageInv => PictureWhole
    BY DEF ImageInv, PictureInv, Picture
  <1> QED
    BY <1>1, ImageInvAlways, PTL

\* The decoded thumbnail of an image of any size fits the original and the
\* thumbnail type, and its shorter side is in proportion, although rounded.
THEOREM ImageThumbFits == ImageSpec => []ThumbFits
  <1>1. ImageInv => ThumbFits
    BY DEF ImageInv, PictureInv, Picture
  <1> QED
    BY <1>1, ImageInvAlways, PTL
=============================================================================
