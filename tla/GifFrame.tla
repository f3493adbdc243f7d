------------------------------ MODULE GifFrame -------------------------------
(***************************************************************************)
(* The first frame of an animated GIF: ImgGetFirstFrameAGIFAtSize with the *)
(* decoder it drives, from the allocation of its blocks to their release.  *)
(* The file is bytes, read as they are; a step reads a block, a byte of    *)
(* compressed data, or uses a code.  Strings of the code table stand for   *)
(* the chains of pPrefix and pSuffix.  A stream with a code that no string *)
(* and no next slot has is damaged, and is not followed any further.       *)
(***************************************************************************)
EXTENDS Integers, Sequences

CONSTANTS
    GifFiles,             \* the files
    Memory,               \* bytes that may lie behind what was read of a file
    MAX_GIF_HEADER_SIZE,
    MaxBits,              \* the greatest size of a code: 12
    NoMemoryFor           \* the blocks whose allocation may fail

\* One after the other, as they are allocated; then those of an image.
FrameBlocks == <<"encoded", "frame", "prev_img", "out_bits", "global_table",
                 "prefix", "dstack", "suffix">>
ImageBlocks == {"decoderline", "decbuf"}
Blocks == {FrameBlocks[i] : i \in 1 .. 8} \cup ImageBlocks

\* A file, the size the header parser found, and what encoder and viewer of
\* the file call its first frame; whole or cut off.
GifAssumption ==
    /\ Memory \subseteq 0 .. 255
    /\ MAX_GIF_HEADER_SIZE \in Nat
    /\ MaxBits \in 3 .. 12
    /\ NoMemoryFor \subseteq Blocks
    /\ \A f \in GifFiles : /\ f.w \in Nat /\ f.h \in Nat
                           /\ f.bytes \in Seq(0 .. 255)
                           /\ {f.whole, f.shown} \subseteq BOOLEAN
ASSUME GifAssumption

\* Powers of two, for shifts
Powers == <<1, 2, 4, 8, 16, 32, 64, 128, 256, 512, 1024, 2048, 4096>>
Two(n) == Powers[n + 1]

Format == INSTANCE GifPicture

\* The files are GIFs with their first frame, whole or cut off.
AllShown ==
    \A f \in GifFiles :
       IF f.w = 0 \/ f.h = 0 THEN ~f.shown
       ELSE /\ Format!ShownGif(f.original, f.parts, f.w, f.h, f.shown, f.picture)
            /\ f.original \in Seq(0 .. 255) /\ Len(f.bytes) <= Len(f.original)
            /\ \A p \in 1 .. Len(f.bytes) : f.bytes[p] = f.original[p]
            /\ f.whole => f.bytes = f.original

VARIABLES
    gif, memory,     \* the file, and the byte behind what was read of it
    at, inputPos,
    result,          \* what the decoder returned: 1, 0 and -1 as words
    out,             \* pOutBits
    held,            \* how many of each block are allocated
    noMemory,        \* an allocation failed
    transparent, transIndex, numcolors,
    image,           \* the image that is being decoded
    curr_size, table, oc, fc, stack,          \* the code table
    navail_bytes, nbits_left, b1, ret,        \* the bit reader
    checked,         \* the code is read by the macros that watch the block
    phase,           \* which code of an image is read
    line, rows, rowcount, startloc, inter_step  \* decoderline and pDecBuf

source == <<gif, memory>>
control == <<transparent, transIndex>>
codes == <<curr_size, table, oc, fc>>
bits == <<navail_bytes, nbits_left, b1, ret, checked>>
lines == <<line, rows, rowcount, startloc, inter_step>>
picture == <<image, numcolors>>
blocks == <<held, noMemory>>
gifVars == <<source, at, inputPos, result, out, blocks, control, picture, codes,
             stack, bits, phase, lines>>

Labels == {"create", "header", "block", "extension", "text", "image", "code",
           "bits", "lines", "paint", "returned", "astray", "done"}

MAX_CODES == 4096

clear == Two(image.size)
ending == clear + 1
newcodes == clear + 2
slot == newcodes + Len(table)
top_slot == Two(curr_size)

(***************************************************************************)
(* The file in memory: no more than an uncompressed frame would need, and  *)
(* some bytes for what is in front of it; but the decoder is told the size *)
(* of the file.                                                            *)
(***************************************************************************)
filesize == Len(gif.bytes)
mem_alloc_size == gif.w * gif.h * 2 + MAX_GIF_HEADER_SIZE
Fits == filesize <= mem_alloc_size
Least(a, b) == IF a < b THEN a ELSE b
Greater(a, b) == IF a < b THEN b ELSE a
BytesRead == Least(filesize, mem_alloc_size)

ByteAt(p) == IF p < BytesRead THEN gif.bytes[p + 1] ELSE memory
ShortAt(p) == ByteAt(p) + 256 * ByteAt(p + 1)

(***************************************************************************)
(* Colours, as RGB565 keeps them.                                          *)
(***************************************************************************)
Black == <<0, 0, 0>>
White == <<31, 63, 31>>
Leave == <<>>      \* 0x4000000
Rgb565(r, g, b) == <<r \div 8, g \div 4, b \div 8>>
ColourAt(p) == Rgb565(ByteAt(p), ByteAt(p + 1), ByteAt(p + 2))

HasTable(flags) == flags >= 128
TableColours(flags) == Two((flags % 8) + 1)
TableBytes(flags) == IF HasTable(flags) THEN 3 * TableColours(flags) ELSE 0
global_flags == ByteAt(10)
header_temp == TableBytes(global_flags)

\* The colours that a pixel's mask tells apart.
Rounded(n) == IF n > 16 THEN 256 ELSE IF n \in 3 .. 15 THEN 16 ELSE n

\* A colour of the image's table; entries it does not give are black.
Dac(val) ==
    IF image.dac > 0
    THEN IF val < image.colours THEN ColourAt(image.dac + 3 * val) ELSE Black
    ELSE IF HasTable(global_flags)
    THEN IF val < TableColours(global_flags) THEN ColourAt(13 + 3 * val)
                                            ELSE Black
    ELSE IF val = 1 THEN White ELSE Black

\* The background: a control block is looked for at two places only.
ControlAt ==
    IF ByteAt(14 + header_temp) = 249 THEN 14 + header_temp
    ELSE IF ByteAt(33 + header_temp) = 249 THEN 33 + header_temp ELSE 0

Background ==
    LET index == ByteAt(11)
        hidden == /\ ControlAt > 0
                  /\ ByteAt(ControlAt + 2) % 2 = 1
                  /\ ByteAt(ControlAt + 5) = index
        none == ControlAt = 0 /\ ~HasTable(global_flags)
    IN IF hidden \/ none THEN Black ELSE ColourAt(13 + 3 * index)

Canvas == (0 .. gif.h - 1) \X (0 .. gif.w - 1)

(***************************************************************************)
(* Allocation                                                              *)
(***************************************************************************)
MayLack(block) == block \in NoMemoryFor

\* Each pointer of bs is freed if it is set.
Freed(h, bs) ==
    [b \in Blocks |-> IF b \in bs /\ h[b] > 0 THEN h[b] - 1 ELSE h[b]]
Taken(h, bs) == [b \in Blocks |-> IF b \in bs THEN h[b] + 1 ELSE h[b]]

\* The decoder returns r.
Return(r) ==
    /\ at' = "returned" /\ result' = r
    /\ held' = Freed(held, ImageBlocks)

\* ImgCreateAGIFFrame with FastImgCreateAGIFFrameData: the first allocation
\* that fails frees those before it, except the file's bytes.
Create ==
    /\ at = "create"
    /\ \/ /\ at' = "header"
          /\ held' = Taken(held, {FrameBlocks[i] : i \in 1 .. 8})
          /\ UNCHANGED noMemory
       \/ \E i \in 1 .. 8 :
             /\ MayLack(FrameBlocks[i])
             /\ at' = "done" /\ noMemory' = TRUE
             /\ held' = IF i = 1 THEN held ELSE Taken(held, {"encoded"})
    /\ UNCHANGED <<source, inputPos, result, out, control, picture, codes,
                   stack, bits, phase, lines>>

(***************************************************************************)
(* Blocks                                                                  *)
(***************************************************************************)
blockless == <<source, out, codes, stack, bits, phase, lines, noMemory>>

ReadHeader ==
    /\ at = "header"
    /\ \/ /\ gif.w = 0 \/ gif.h = 0
          /\ Return("nothing")
          /\ UNCHANGED <<inputPos, picture>>
       \/ /\ gif.w > 0 /\ gif.h > 0
          /\ at' = "block"
          /\ inputPos' = 13 + header_temp
          /\ numcolors' = IF HasTable(global_flags)
                          THEN Rounded(TableColours(global_flags)) ELSE 2
          /\ UNCHANGED <<result, held, image>>
    /\ UNCHANGED <<blockless, control>>

\* Mutant of AtTrailer: without an image the file is read again.
AtTrailerAgain ==
    /\ at' = "block" /\ inputPos' = 13 + header_temp
    /\ UNCHANGED <<result, held>>

\* No image was shown before the end.
AtTrailer == Return("error") /\ inputPos' = inputPos + 1

\* One byte behind the end is read too.
NextBlock ==
    /\ at = "block"
    /\ \/ /\ inputPos > filesize
          /\ Return("nothing")
          /\ UNCHANGED inputPos
       \/ /\ inputPos <= filesize /\ ByteAt(inputPos) = 59
          /\ AtTrailer
       \/ /\ inputPos <= filesize /\ ByteAt(inputPos) # 59
          /\ at' = IF ByteAt(inputPos) = 33 THEN "extension"
                   ELSE IF ByteAt(inputPos) = 44 THEN "image" ELSE "block"
          /\ inputPos' = inputPos + 1
          /\ UNCHANGED <<result, held>>
    /\ UNCHANGED <<blockless, control, picture>>

ReadExtension ==
    /\ at = "extension"
    /\ \/ /\ ByteAt(inputPos) = 249 /\ ByteAt(inputPos + 1) # 4
          /\ Return("error")
          /\ UNCHANGED <<inputPos, control>>
       \/ /\ ByteAt(inputPos) = 249 /\ ByteAt(inputPos + 1) = 4
          /\ at' = "block"
          /\ transparent' = (ByteAt(inputPos + 2) % 2 = 1)
          /\ transIndex' = ByteAt(inputPos + 5)
          /\ inputPos' = inputPos + 7
          /\ UNCHANGED <<result, held>>
       \/ /\ ByteAt(inputPos) # 249
          /\ at' = IF ByteAt(inputPos) \in {1, 254, 255} THEN "text" ELSE "block"
          /\ inputPos' = inputPos + 1
          /\ UNCHANGED <<result, held, control>>
    /\ UNCHANGED <<blockless, picture>>

ReadText ==
    /\ at = "text"
    /\ LET n == ByteAt(inputPos)
           next == inputPos + 1 + n
       IN \/ /\ n > 0 /\ next > filesize
             /\ Return("error")
             /\ UNCHANGED inputPos
          \/ /\ n = 0 \/ next <= filesize
             /\ at' = IF n = 0 THEN "block" ELSE "text"
             /\ inputPos' = next
             /\ UNCHANGED <<result, held>>
    /\ UNCHANGED <<blockless, control, picture>>

(***************************************************************************)
(* The description of an image, its colour table and its code size.  An    *)
(* image in front of it, which was empty, leaves its blocks.               *)
(***************************************************************************)
Described ==
    LET flags == ByteAt(inputPos + 8)
        after == inputPos + 9
    IN [wdt |-> ShortAt(inputPos + 4), hgt |-> ShortAt(inputPos + 6),
        interlaced |-> (flags \div 64) % 2 = 1,
        dac |-> IF HasTable(flags) THEN after ELSE 0,
        colours |-> IF HasTable(flags) THEN TableColours(flags) ELSE 0,
        size |-> ByteAt(after + TableBytes(flags))]

NoPixels == Described.wdt = 0 \/ Described.hgt = 0

\* Mutant of Renewed: the blocks of the image in front are forgotten.
RenewedKept == Taken(held, ImageBlocks)

Renewed == Taken(Freed(held, ImageBlocks), ImageBlocks)

ReadImage ==
    /\ at = "image"
    /\ out' = [p \in Canvas |-> Black]
    /\ \/ /\ \/ MayLack("decoderline") /\ noMemory' = TRUE
             \/ NoPixels /\ UNCHANGED noMemory
             \/ ~NoPixels /\ MayLack("decbuf") /\ noMemory' = TRUE
          /\ Return("nothing")
          /\ UNCHANGED <<inputPos, picture, codes, stack, bits, phase, lines>>
       \/ /\ ~NoPixels /\ Described.size \notin 2 .. 9
          /\ Return("error")
          /\ UNCHANGED <<inputPos, picture, codes, stack, bits, phase, lines,
                         noMemory>>
       \/ /\ ~NoPixels /\ Described.size \in 2 .. 9
          /\ at' = "code" /\ phase' = "first"
          /\ held' = Renewed
          /\ image' = Described
          /\ numcolors' = IF Described.dac > 0
                          THEN Rounded(Described.colours) ELSE numcolors
          /\ inputPos' = inputPos + 10 + TableBytes(ByteAt(inputPos + 8))
          /\ curr_size' = Described.size + 1 /\ table' = <<>>
          /\ oc' = 0 /\ fc' = 0 /\ stack' = <<>>
          /\ navail_bytes' = 0 /\ nbits_left' = 0
          /\ line' = <<>> /\ rows' = <<>> /\ rowcount' = 0
          /\ startloc' = IF Described.interlaced THEN -8 ELSE startloc
          /\ inter_step' = 1
          /\ UNCHANGED <<b1, ret, checked, result, noMemory>>
    /\ UNCHANGED <<source, control>>

(***************************************************************************)
(* The bit reader, __get_next_code: the byte that was begun, then as many  *)
(* bytes as the code needs.  With two bytes left in the block at its start *)
(* the end of the block is not looked for.                                 *)
(***************************************************************************)
\* Mutant of WatchesBlock: one byte is thought to be enough.
WatchesEmptyBlock == navail_bytes < 1

WatchesBlock == navail_bytes < 2

\* Mutant of BitsLeft: the low bits of the byte, which were used.
BitsLeftLow == b1 % Two(nbits_left)

BitsLeft == b1 \div Two(8 - nbits_left)

StartCode ==
    /\ at = "code"
    /\ at' = "bits"
    /\ checked' = WatchesBlock
    /\ ret' = BitsLeft
    /\ UNCHANGED <<source, inputPos, result, out, blocks, control, picture,
                   codes, stack, navail_bytes, nbits_left, b1, phase, lines>>

\* The next byte lies at p, in a block that has n bytes from there.
TakeByte(p, n) ==
    /\ b1' = ByteAt(p)
    /\ ret' = ret + ByteAt(p) * Two(nbits_left)
    /\ nbits_left' = nbits_left + 8
    /\ navail_bytes' = n - 1
    /\ inputPos' = p + 1
    /\ UNCHANGED <<at, result, held>>

FetchByte ==
    /\ at = "bits" /\ curr_size > nbits_left
    /\ \/ /\ ~(checked /\ navail_bytes = 0)
          /\ TakeByte(inputPos, navail_bytes)
       \/ /\ checked /\ navail_bytes = 0
          /\ inputPos + 1 + ByteAt(inputPos) <= filesize
          /\ TakeByte(inputPos + 1, ByteAt(inputPos))
       \/ /\ checked /\ navail_bytes = 0
          /\ inputPos + 1 + ByteAt(inputPos) > filesize
          /\ Return("error")
          /\ UNCHANGED <<inputPos, navail_bytes, nbits_left, b1, ret>>
    /\ UNCHANGED <<source, out, noMemory, control, picture, codes, stack,
                   checked, phase, lines>>

\* A code is complete.
c == ret % Two(curr_size)
HasCode ==
    /\ at = "bits" /\ curr_size <= nbits_left
    /\ nbits_left' = nbits_left - curr_size
    /\ UNCHANGED <<source, inputPos, result, out, blocks, control, picture,
                   navail_bytes, b1, ret, checked, lines>>

(***************************************************************************)
(* Codes                                                                   *)
(***************************************************************************)
\* The end of an image that was not begun leads to the next block.
UseEnding ==
    /\ HasCode /\ c = ending
    /\ at' = IF phase \in {"first", "first_clear"} THEN "block" ELSE "paint"
    /\ UNCHANGED <<codes, stack, phase>>

UseClear ==
    /\ HasCode /\ c = clear
    /\ at' = "code"
    /\ curr_size' = image.size + 1 /\ table' = <<>>
    /\ phase' = IF phase \in {"first", "first_clear"} THEN "first_clear"
                                                      ELSE "cleared"
    /\ UNCHANGED <<oc, fc, stack>>

UseFirst ==
    /\ HasCode /\ c \notin {clear, ending} /\ phase # "next"
    /\ LET first == IF c >= slot THEN 0 ELSE c IN
       /\ oc' = first /\ fc' = first
       /\ stack' = <<first % 256>>
    /\ at' = IF rowcount < image.hgt THEN "lines" ELSE "paint"
    /\ phase' = "next"
    /\ UNCHANGED <<curr_size, table>>

StringOf(code) ==
    IF code < newcodes THEN <<code % 256>> ELSE table[code - newcodes + 1]

\* Mutant of CodeString: the next slot's string without its last colour.
CodeStringShort(code) == StringOf(IF code >= slot THEN oc ELSE code)

\* The string of the slot that comes next is known from the code in front.
CodeString(code) ==
    IF code >= slot THEN StringOf(oc) \o <<fc % 256>> ELSE StringOf(code)

\* Mutant of Grown: without the limit.
GrownOn(size, next) == IF next >= Two(size) THEN size + 1 ELSE size

Grown(size, next) ==
    IF next >= Two(size) /\ size < MaxBits THEN size + 1 ELSE size

UseNext ==
    /\ HasCode /\ c \notin {clear, ending} /\ phase = "next" /\ c <= slot
    /\ LET s == CodeString(c) IN
       /\ stack' = s
       /\ \/ /\ slot < top_slot
             /\ table' = Append(table, StringOf(oc) \o <<s[1]>>)
             /\ fc' = s[1] /\ oc' = c
             /\ curr_size' = Grown(curr_size, slot + 1)
          \/ /\ slot >= top_slot
             /\ curr_size' = Grown(curr_size, slot)
             /\ UNCHANGED <<table, fc, oc>>
    /\ at' = IF rowcount < image.hgt THEN "lines" ELSE "paint"
    /\ UNCHANGED phase

\* Neither an encoder nor the end of a file leads here.
Damaged ==
    /\ HasCode /\ c \notin {clear, ending} /\ phase = "next" /\ c > slot
    /\ at' = "astray"
    /\ UNCHANGED <<codes, stack, phase>>

(***************************************************************************)
(* Lines.  The string on dstack fills the line; a full line is converted   *)
(* into its row of pDecBuf.  Rows of interlaced images come in four passes.*)
(***************************************************************************)
Room == image.wdt - Len(line)

NextStart == startloc + (CASE inter_step \in {1, 2} -> 8 [] inter_step = 3 -> 4
                           [] inter_step = 4 -> 2 [] OTHER -> 0)

\* Mutant of PassStart: the second pass starts where the third does.
PassStartTwo(step, start) ==
    IF step \in 2 .. 4 THEN <<2, 2, 1>>[step - 1] ELSE start

PassStart(step, start) ==
    IF step \in 2 .. 4 THEN <<4, 2, 1>>[step - 1] ELSE start

Pixel(p) ==
    LET val == p % numcolors IN
    IF transparent /\ val = transIndex THEN Leave ELSE Dac(val)

PutLine ==
    /\ at = "lines" /\ Len(stack) >= Room
    /\ LET full == line \o SubSeq(stack, 1, Room)
           passed == NextStart >= image.hgt
       IN /\ IF image.interlaced
             THEN /\ inter_step' = IF passed THEN inter_step + 1 ELSE inter_step
                  /\ startloc' = IF passed THEN PassStart(inter_step + 1, NextStart)
                                           ELSE NextStart
             ELSE UNCHANGED <<inter_step, startloc>>
          /\ LET row == IF image.interlaced THEN startloc' ELSE rowcount IN
             rows' = [i \in DOMAIN rows \cup {row} |->
                         IF i = row THEN [j \in 1 .. image.wdt |-> Pixel(full[j])]
                                    ELSE rows[i]]
    /\ rowcount' = rowcount + 1
    /\ line' = <<>>
    /\ stack' = SubSeq(stack, Room + 1, Len(stack))
    /\ UNCHANGED <<source, at, inputPos, result, out, blocks, control, picture,
                   codes, bits, phase>>

PopRest ==
    /\ at = "lines" /\ Len(stack) < Room
    /\ line' = line \o stack
    /\ stack' = <<>>
    /\ at' = IF rowcount = image.hgt THEN "paint" ELSE "code"
    /\ UNCHANGED <<source, inputPos, result, out, blocks, control, picture,
                   codes, bits, phase, rows, rowcount, startloc, inter_step>>

(***************************************************************************)
(* The frame: the background, and the image in its upper left corner.  A   *)
(* row that was not decoded is black; what is transparent shows the colour *)
(* of the user interface, which is black too.                              *)
(***************************************************************************)
Painted(r, k) ==
    IF r >= image.hgt \/ k >= image.wdt THEN Background
    ELSE IF r \notin DOMAIN rows THEN Black
    ELSE IF rows[r][k + 1] = Leave THEN Black ELSE rows[r][k + 1]

Paint ==
    /\ at = "paint"
    /\ out' = [p \in Canvas |-> Painted(p[1], p[2])]
    /\ Return("frame")
    /\ UNCHANGED <<source, inputPos, noMemory, control, picture, codes, stack,
                   bits, phase, lines>>

\* What the decoder returned is ignored; ImgDestroyAGIFFrame.
Destroy ==
    /\ at = "returned"
    /\ at' = "done"
    /\ held' = Freed(held, {FrameBlocks[i] : i \in 1 .. 8})
    /\ UNCHANGED <<source, inputPos, result, out, noMemory, control, picture,
                   codes, stack, bits, phase, lines>>

NoImage == [wdt |-> 0, hgt |-> 0, interlaced |-> FALSE, dac |-> 0,
            colours |-> 0, size |-> 2]

GifInit ==
    /\ gif \in GifFiles /\ memory \in Memory
    /\ at = "create" /\ inputPos = 0
    /\ result = "running" /\ out = <<>>
    /\ held = [b \in Blocks |-> 0] /\ noMemory = FALSE
    /\ transparent = FALSE /\ transIndex = 0 /\ numcolors = 2
    /\ image = NoImage
    /\ curr_size = 3 /\ table = <<>> /\ oc = 0 /\ fc = 0 /\ stack = <<>>
    /\ navail_bytes = 0 /\ nbits_left = 0 /\ b1 = 0 /\ ret = 0 /\ checked = TRUE
    /\ phase = "first"
    /\ line = <<>> /\ rows = <<>> /\ rowcount = 0
    /\ startloc = 0 /\ inter_step = 1

GifNext ==
    \/ Create \/ ReadHeader \/ NextBlock \/ ReadExtension \/ ReadText
    \/ ReadImage \/ StartCode \/ FetchByte
    \/ UseEnding \/ UseClear \/ UseFirst \/ UseNext \/ Damaged
    \/ PutLine \/ PopRest \/ Paint \/ Destroy

GifSpec == GifInit /\ [][GifNext]_gifVars

\* The decoder runs until it returns.
FairGifSpec == GifSpec /\ WF_gifVars(GifNext)

-----------------------------------------------------------------------------
(***************************************************************************)
(* Properties                                                              *)
(***************************************************************************)

\* Types, with the limits of the code table: sizes of codes up to 12 bits,
\* no slot behind the table, no string longer than dstack.
FrameOK ==
    /\ gif \in GifFiles /\ memory \in Memory
    /\ at \in Labels /\ inputPos \in Nat
    /\ result \in {"running", "frame", "nothing", "error"}
    /\ held \in [Blocks -> Nat] /\ noMemory \in BOOLEAN
    /\ image.size \in 2 .. 9 /\ {image.wdt, image.hgt} \subseteq Nat
    /\ curr_size \in image.size + 1 .. Greater(MaxBits, image.size + 1)
    /\ slot <= top_slot
    /\ Len(stack) <= MAX_CODES + 1
    /\ navail_bytes \in Int /\ nbits_left \in 0 .. 20
    /\ phase \in {"first", "first_clear", "cleared", "next"}

\* For heights from 2 to 4 the second pass would start behind the image.
Low == image.interlaced /\ image.hgt \in 2 .. 4

\* However the image is coded (sizes of codes that grow, a table that is
\* full, clearing codes anywhere, codes across blocks, a string that is only
\* just known) and interlaced, and wherever the file is cut off: what the
\* decoder calls a frame is the one the encoder was given, and a whole file
\* that shows one is decoded, with nothing read behind its last byte.  It
\* needs that the file was read as a whole.
FrameRight ==
    at = "done" /\ Fits /\ ~Low =>
       /\ result = "frame" => out = gif.picture
       /\ gif.whole => /\ inputPos <= filesize
                       /\ noMemory \/ (result = "frame" <=> gif.shown)

\* Whatever the passes, a row lies in the image, no row is decoded over
\* another one, and when all were decoded none is missing.
LinesInFrame ==
    ~Low => /\ \A r \in DOMAIN rows : r \in 0 .. image.hgt - 1
            /\ rowcount = image.hgt => DOMAIN rows = 0 .. image.hgt - 1

\* A byte that is read without looking for the end of the block is in it:
\* wherever in a block a code of any size begins, two bytes are enough.
ReadsInside ==
    at = "bits" /\ ~checked /\ curr_size > nbits_left => navail_bytes > 0

\* No bit is lost or used twice between two codes, in blocks and over their
\* ends: what a complete code leaves of the bits that were taken is what the
\* next one begins with.
BitsKept ==
    at = "bits" /\ curr_size <= nbits_left =>
       ret \div Two(curr_size) = b1 \div Two(8 - (nbits_left - curr_size))

\* By whatever way the decoder leaves, and however many empty images came
\* first: every block is freed once the frame is destroyed.  Only the bytes
\* of the file stay when another block cannot be allocated.
BlocksFreed ==
    at = "done" =>
       \A b \in Blocks :
          held[b] = 0 \/ (b = "encoded" /\ result = "running" /\ held[b] = 1)

\* What is left to do before more of the file is read: the stages, and in an
\* image the bits that were not used and the colours on dstack.
Stage == [create |-> 5, header |-> 4, block |-> 3, extension |-> 3, text |-> 3,
          image |-> 3, code |-> 4, bits |-> 3, lines |-> 5, paint |-> 2,
          returned |-> 1, astray |-> 0, done |-> 0]

Work == Stage[at] + IF at \in {"code", "bits", "lines"}
                    THEN MAX_CODES * nbits_left + Len(stack) ELSE 0

\* Nothing is read twice, and no loop (over blocks, texts, codes, bits of a
\* code, colours of a string) goes round without coming closer to its end:
\* a step reads on, or stays in the file and leaves less to do.
FrameAdvances ==
    [][inputPos' > inputPos \/ (inputPos' = inputPos /\ Work' < Work)]_gifVars

\* The decoder always returns, also from a file that is cut off.
FrameReturned == Fits => <>(at = "done")
=============================================================================
