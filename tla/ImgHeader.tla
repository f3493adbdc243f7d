------------------------------ MODULE ImgHeader ------------------------------
(***************************************************************************)
(* Type and size of an image from its header: ImgGetInfoFile.  The blocks  *)
(* of a GIF are read through a buffer that _CheckBuffer refills, until a   *)
(* second image shows that it is animated.  Between two steps is a call    *)
(* of _CheckBuffer or the reading of a length.                             *)
(***************************************************************************)
EXTENDS Integers, Sequences

CONSTANTS
    Files,           \* originals
    FILE_READ_SIZE,  \* bytes of the buffer
    Beyond           \* bytes that may lie behind the buffer

VARIABLES
    file,        \* the original
    at,          \* what is read next, or "open" or "done"
    stream,      \* ifegstreamctrl, and the offset fd in the file
    imagecount,
    image_type, image_info,  \* the result, and the size found so far
    misread      \* a length was read behind what the buffer holds

reader == <<at, stream, imagecount, image_type, image_info, misread>>

Byte == 0 .. 255

\* An original as its header has it.  Of a GIF, bytes is what follows the
\* colour table: whole, it shows those images, each a width and a height.
HeaderAssumption ==
    /\ FILE_READ_SIZE \in Nat /\ Beyond \subseteq Byte
    /\ \A f \in Files : /\ f.w \in Nat /\ f.h \in Nat
                        /\ f.bytes \in Seq(Byte)
                        /\ f.images \in Seq(Nat \X Nat)
                        /\ f.whole \in BOOLEAN
ASSUME HeaderAssumption

\* A whole GIF is made of blocks, as the format says.
Format == INSTANCE GifFormat
WholeAssumption ==
    \A f \in Files : f.type = "gif" /\ f.whole =>
                       Format!WholeGif(f.bytes, f.images, f.blocks)
ASSUME WholeAssumption

\* The first byte of a block, and the second of an extension
Trailer == 59
Extension == 33
ImageStart == 44
Control == 249
Texts == {1, 254, 255}

Stream == [buffer : [0 .. FILE_READ_SIZE - 1 -> Byte], buffpos : Nat,
           buffend : Nat, filepos : Nat, fd : Nat]

HeaderTypes == {"none", "jpeg", "still", "gif", "agif", "unknown"}
ReaderLabels == {"open", "block", "extension", "control", "texts", "length",
                 "image", "code_size", "data", "done"}

HeaderOK ==
    /\ file \in Files /\ at \in ReaderLabels
    /\ stream \in Stream
    /\ imagecount \in 0 .. 1
    /\ image_type \in HeaderTypes
    /\ image_info \in [width : Nat, height : Nat]
    /\ misread \in BOOLEAN

(***************************************************************************)
(* _CheckBuffer: at least n bytes are to lie in the buffer from buffpos.   *)
(* The buffer is filled behind what is left of it, as far as the file goes.*)
(***************************************************************************)
Failed == [buffpos |-> -1]

\* Mutant of Refilled: the bytes that are left are not moved.
RefilledInPlace(s, kept, got) ==
    [buffer |-> [i \in 0 .. FILE_READ_SIZE - 1 |->
                    IF i \in kept .. kept + got - 1
                    THEN file.bytes[s.fd + i - kept + 1] ELSE s.buffer[i]],
     buffpos |-> 0, buffend |-> kept + got,
     filepos |-> s.filepos + got, fd |-> s.fd + got]

Refilled(s, kept, got) ==
    [buffer |-> [i \in 0 .. FILE_READ_SIZE - 1 |->
                    IF i < kept THEN s.buffer[s.buffpos + i]
                    ELSE IF i < kept + got THEN file.bytes[s.fd + i - kept + 1]
                    ELSE s.buffer[i]],
     buffpos |-> 0, buffend |-> kept + got,
     filepos |-> s.filepos + got, fd |-> s.fd + got]

\* fread of that many bytes
Gets(s, room) ==
    LET rest == Len(file.bytes) - s.fd IN
    IF rest <= 0 THEN 0 ELSE IF rest < room THEN rest ELSE room

\* Mutant of CheckBuffer: reading nothing is no failure.
CheckBufferNoEnd(s, n) ==
    LET left == s.buffend - s.buffpos
        kept == IF s.buffpos = 0 THEN 0 ELSE left
        got == Gets(s, IF s.buffpos = 0 THEN FILE_READ_SIZE ELSE s.buffpos)
        refuses == \/ s.filepos = Len(file.bytes)
                   \/ s.buffpos > 0 /\ (2 * n >= FILE_READ_SIZE \/ left < 0)
    IN IF n + s.buffpos <= s.buffend THEN s
       ELSE IF refuses THEN Failed ELSE Refilled(s, kept, got)

CheckBuffer(s, n) ==
    LET left == s.buffend - s.buffpos
        kept == IF s.buffpos = 0 THEN 0 ELSE left
        got == Gets(s, IF s.buffpos = 0 THEN FILE_READ_SIZE ELSE s.buffpos)
        refuses == \/ s.filepos = Len(file.bytes)
                   \/ s.buffpos > 0 /\ 2 * n >= FILE_READ_SIZE
                   \/ s.buffpos > 0 /\ left < 0
                   \/ got = 0
    IN IF n + s.buffpos <= s.buffend THEN s
       ELSE IF refuses THEN Failed ELSE Refilled(s, kept, got)

Skipped(s, n) == [s EXCEPT !.buffpos = @ + n]

\* The byte n behind the position.
Ahead(s, n) ==
    LET i == s.buffpos + n IN
    IF i < FILE_READ_SIZE THEN {s.buffer[i]} ELSE Beyond

(***************************************************************************)
(* ImgGetInfoFile                                                          *)
(***************************************************************************)
Finish(type) ==
    /\ at' = "done" /\ image_type' = type
    /\ UNCHANGED <<stream, imagecount, image_info, misread>>

\* On to what is read next, from there.
ReadOn(label, s) == at' = label /\ stream' = s /\ UNCHANGED image_type

NoStream == [buffer |-> [i \in 0 .. FILE_READ_SIZE - 1 |-> 0],
             buffpos |-> 0, buffend |-> 0, filepos |-> 0, fd |-> 0]

\* Only of PNG and BMP the size is in the first bytes; of a JPEG it is not read.
OpenFile ==
    /\ at = "open"
    /\ UNCHANGED <<stream, imagecount, misread>>
    /\ image_info' = IF file.type \in {"still", "gif"}
                     THEN [width |-> file.w, height |-> file.h]
                     ELSE image_info
    /\ IF file.type = "gif" THEN at' = "block" /\ UNCHANGED image_type
       ELSE /\ at' = "done"
            /\ image_type' = IF file.type \in {"still", "jpeg"}
                             THEN file.type ELSE "unknown"

NextBlock ==
    /\ at = "block"
    /\ LET s == CheckBuffer(stream, 1) IN
       \/ stream.buffpos > stream.buffend /\ Finish("gif")
       \/ stream.buffpos <= stream.buffend /\ s = Failed /\ Finish("unknown")
       \/ /\ stream.buffpos <= stream.buffend /\ s # Failed
          /\ \E b \in Ahead(s, 0) :
             \/ b = Trailer /\ Finish("gif")
             \/ /\ b # Trailer
                /\ ReadOn(CASE b = Extension -> "extension"
                            [] b = ImageStart -> "image"
                            [] OTHER -> "block", Skipped(s, 1))
                /\ UNCHANGED <<imagecount, image_info, misread>>

ReadExtension ==
    /\ at = "extension"
    /\ LET s == CheckBuffer(stream, 1) IN
       \/ s = Failed /\ Finish("unknown")
       \/ /\ s # Failed
          /\ \E b \in Ahead(s, 0) :
                ReadOn(CASE b = Control -> "control"
                         [] b \in Texts -> "texts"
                         [] OTHER -> "block", Skipped(s, 1))
          /\ UNCHANGED <<imagecount, image_info, misread>>

ReadControl ==
    /\ at = "control"
    /\ LET s == CheckBuffer(stream, 6) IN
       \/ s = Failed /\ Finish("unknown")
       \/ /\ s # Failed
          /\ \E b \in Ahead(s, 0) :
             \/ b # 4 /\ Finish("none")
             \/ /\ b = 4
                /\ ReadOn("block", Skipped(s, 6))
                /\ UNCHANGED <<imagecount, image_info, misread>>

ReadTexts ==
    /\ at = "texts"
    /\ LET s == CheckBuffer(stream, 1) IN
       \/ s = Failed /\ Finish("unknown")
       \/ /\ s # Failed
          /\ ReadOn("length", s)
          /\ UNCHANGED <<imagecount, image_info, misread>>

\* A length and the text of that length; whether the length of the next one
\* lies in the buffer is not checked.
ReadLength ==
    /\ at = "length"
    /\ misread' = (misread \/ stream.buffpos >= stream.buffend)
    /\ UNCHANGED <<imagecount, image_info>>
    /\ \E n \in Ahead(stream, 0) :
       LET s == CheckBuffer(Skipped(stream, 1), n) IN
       \/ n = 0 /\ ReadOn("block", Skipped(stream, 1))
       \/ /\ n > 0 /\ s = Failed
          /\ at' = "done" /\ image_type' = "unknown"
          /\ UNCHANGED stream
       \/ n > 0 /\ s # Failed /\ ReadOn("length", Skipped(s, n))

\* 1 << n entries of three bytes, n from 1 to 8
TableSizes == <<6, 12, 24, 48, 96, 192, 384, 768>>
TableSize(flags) == IF flags >= 128 THEN TableSizes[(flags % 8) + 1] ELSE 0

\* The size of the first image is that of the picture.
ReadImage ==
    /\ at = "image"
    /\ LET s == CheckBuffer(stream, 9) IN
       \/ s = Failed /\ Finish("unknown")
       \/ /\ s # Failed
          /\ \E w0 \in Ahead(s, 4), w1 \in Ahead(s, 5),
                h0 \in Ahead(s, 6), h1 \in Ahead(s, 7), flags \in Ahead(s, 8) :
             LET table == TableSize(flags)
                 t == IF table > 0 THEN CheckBuffer(s, table + 9) ELSE s
             IN /\ image_info' = IF imagecount = 0
                                 THEN [width |-> w0 + 256 * w1,
                                       height |-> h0 + 256 * h1]
                                 ELSE image_info
                /\ UNCHANGED <<imagecount, misread>>
                /\ IF t # Failed THEN ReadOn("code_size", Skipped(t, table + 9))
                   ELSE /\ at' = "done" /\ image_type' = "unknown"
                        /\ UNCHANGED stream

ReadCodeSize ==
    /\ at = "code_size"
    /\ LET s == CheckBuffer(stream, 1) IN
       \/ s = Failed /\ Finish("unknown")
       \/ /\ s # Failed
          /\ \E b \in Ahead(s, 0) :
             \/ b \notin 2 .. 9 /\ Finish("unknown")
             \/ /\ b \in 2 .. 9
                /\ ReadOn("data", Skipped(s, 1))
                /\ UNCHANGED <<imagecount, image_info, misread>>

\* Mutant of SoughtPast: from where the file is, not the buffer.
SoughtWhole(s, n) ==
    [buffer |-> s.buffer, buffpos |-> 0, buffend |-> 0,
     filepos |-> s.filepos + n, fd |-> s.fd + n]

\* Mutant of SoughtPast: as if nothing of the buffer had been read.
SoughtBack(s, n) ==
    [buffer |-> s.buffer, buffpos |-> 0, buffend |-> 0,
     filepos |-> s.filepos + n - s.buffend, fd |-> s.fd + n - s.buffend]

\* What is not in the buffer is passed by a seek, which may lead past the end.
SoughtPast(s, n) ==
    LET rest == n + s.buffpos - s.buffend IN
    [buffer |-> s.buffer, buffpos |-> 0, buffend |-> 0,
     filepos |-> s.filepos + rest, fd |-> s.fd + rest]

ReadData ==
    /\ at = "data"
    /\ LET s == CheckBuffer(stream, 1) IN
       \/ s = Failed /\ Finish("unknown")
       \/ /\ s # Failed
          /\ \E n \in Ahead(s, 0) :
             LET t == Skipped(s, 1) IN
             \/ /\ n > 0
                /\ ReadOn("data", IF n + t.buffpos > t.buffend
                                  THEN SoughtPast(t, n) ELSE Skipped(t, n))
                /\ UNCHANGED <<imagecount, image_info, misread>>
             \/ /\ n = 0 /\ imagecount = 0
                /\ ReadOn("block", t)
                /\ imagecount' = 1
                /\ UNCHANGED <<image_info, misread>>
             \/ n = 0 /\ imagecount = 1 /\ Finish("agif")

HeaderStart ==
    /\ at = "open" /\ image_type = "none" /\ imagecount = 0
    /\ image_info = [width |-> 0, height |-> 0]
    /\ stream = NoStream /\ misread = FALSE

HeaderStep ==
    \/ OpenFile \/ NextBlock \/ ReadExtension \/ ReadControl \/ ReadTexts
    \/ ReadLength \/ ReadImage \/ ReadCodeSize \/ ReadData

HeaderNext == HeaderStep /\ UNCHANGED file

HeaderInit == file \in Files /\ HeaderStart

HeaderSpec == HeaderInit /\ [][HeaderNext]_<<file, reader>>

-----------------------------------------------------------------------------
(***************************************************************************)
(* Properties                                                              *)
(***************************************************************************)

\* The buffer holds the piece of the file that ends at the file's offset.
Coherent(s) ==
    /\ s.filepos = s.fd
    /\ s.buffend <= FILE_READ_SIZE /\ s.buffend <= s.fd
    /\ \A i \in 0 .. s.buffend - 1 :
          s.buffer[i] = file.bytes[s.fd - s.buffend + i + 1]

\* However often the buffer was refilled or a seek passed over data, what it
\* holds is the file.
StreamCoherent == Coherent(stream)

\* Of a whole GIF, wherever its blocks lie in the buffer, the images are
\* counted right and the first one gives the size, unless a length was read
\* from behind the end of the buffer.
HeaderRight ==
    at = "done" /\ file.type = "gif" /\ file.whole /\ ~misread =>
       /\ image_type = IF Len(file.images) > 1 THEN "agif" ELSE "gif"
       /\ file.images # <<>> =>
             <<image_info.width, image_info.height>> = file.images[1]

\* Where in the file the next byte of the buffer is.
Position == stream.fd - stream.buffend + stream.buffpos

\* Steps that may follow without a byte being passed.
Rank(label) ==
    CASE label = "open" -> 4 [] label = "texts" -> 2 [] label = "length" -> 1
      [] label = "done" -> 0 [] OTHER -> 3

\* No refill or seek takes the parser back: each step passes bytes of the
\* file, or is one of at most four that do not, so that no chain of blocks is
\* read twice.  Only the next original starts again.
HeaderAdvances ==
    [][\/ at' = "open"
       \/ Position' > Position
       \/ Position' = Position /\ Rank(at') < Rank(at)]_reader

\* The largest colour table and what is before it: as far as a refill that
\* got less than was asked for lets a block reach over the end.
MaxSkip == 768 + 9

\* The parser stops where the file does, wherever it was cut off, although a
\* refill that got too little is a success and a seek may lead past the end.
\* As it never goes back, it reads every file in a bounded number of steps.
HeaderBounded == Position <= Len(file.bytes) + MaxSkip

Blocks == INSTANCE GifBlocks WITH pos <- Position

\* The buffer does not show: but for a length that is misread, and wherever the
\* blocks lie in it, each step is one of a parser that reads the file itself.
\* Where the file was cut off is noticed, if not always at once.
BlocksFollowed ==
    [][\/ misread' \/ at' = "open"
       \/ at = "open" /\ (at' = "done" \/ Blocks!Init')
       \/ Blocks!Next]_reader

\* "get the data length": the length of a text is a byte of the file.
LengthInBuffer == at = "length" => stream.buffpos < stream.buffend
=============================================================================
