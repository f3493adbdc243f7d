--------------------------- MODULE GifFileProofs ----------------------------
(***************************************************************************)
(* Where the decoder of GifFrame is in a file that follows the format,     *)
(* whole or cut off: at which block, or in an image behind which bytes of  *)
(* its data, with which bits, strings and lines.  This module has the      *)
(* invariant and proves it for the steps that read blocks, descriptions    *)
(* and bytes of data; GifPictureProofs for those that use them.            *)
(***************************************************************************)
EXTENDS GifFrameProofs, WellFoundedInduction

\* A string is the pixels of an image behind the first ones, up to some place.
Spells(b, string, from, to) ==
    /\ string \in Seq(Nat) /\ Len(string) = to - from
    /\ \A m \in 1 .. to - from : string[m] = b.pixels[from + m]

\* A pixel as a row of pDecBuf has it.
Shade(f, b, v) ==
    IF v = b.hidden THEN Leave
    ELSE Format!Colour(f.original, Format!FirstColour(f.original, b) + 3 * v)

\* What is hidden where a part starts, and the colours of the file.
Hides(b) == b.hidden = IF transparent THEN transIndex ELSE -1
FileColours == IF HasTable(global_flags) THEN Rounded(TableColours(global_flags)) ELSE 2

\* The image is the one of the part.
ImageIs(f, b) ==
    LET own == Format!OwnTable(f.original, b)
        count == TableColours(Format!Octet(f.original, b.start + 9))
    IN /\ image = [wdt |-> Format!Width(f.original, b), hgt |-> Format!Height(f.original, b),
                   interlaced |-> Format!Interlaced(f.original, b),
                   dac |-> IF own THEN b.start + 10 ELSE 0,
                   colours |-> IF own THEN count ELSE 0,
                   size |-> Format!Size(f.original, b)]
       /\ numcolors = IF own THEN Rounded(count) ELSE FileColours

\* The bytes of the data that were taken, and of code k the bits.
TakenOf(b, q) == b.before[q] - navail_bytes
ReaderIs(f, b, k, q) ==
    LET e == b.codes[k] IN
    /\ navail_bytes \in 0 .. (IF q = 1 THEN 0 ELSE b.before[q] - b.before[q - 1])
    /\ inputPos + navail_bytes = b.places[q] /\ b.places[q] <= Len(f.bytes)
    /\ nbits_left = 8 * TakenOf(b, q) - 8 * (e.byte - 1) - e.bit
    /\ TakenOf(b, q) > 0 => b1 = b.data[TakenOf(b, q)]
    /\ at = "bits" => ret = Format!Gathered(b.data, e, TakenOf(b, q))

\* The entry j of the table, when code k comes.
Entry(b, k, j) == k - b.codes[k].since + j - 1
RoomOf(size) == Two(Format!Widest(size)) - Format!FirstEntry(size)
TableRoom == RoomOf(image.size)

\* The table before code k.
TableIs(b, k) ==
    LET e == b.codes[k] IN
    /\ curr_size = e.width
    /\ phase = "next" <=> e.since > 0
    /\ b.kind = "empty" => phase \in {"first", "first_clear"}
    /\ Len(table) = Format!Entries(image.size, e.since)
    /\ \A j \in 1 .. Len(table) :
          Spells(b, table[j], b.codes[Entry(b, k, j)].from,
                 b.codes[Entry(b, k, j) + 1].from + 1)
    /\ e.since > 0 /\ Len(table) < TableRoom =>
          /\ Spells(b, StringOf(oc), b.codes[k - 1].from, e.from)
          /\ fc = b.pixels[b.codes[k - 1].from + 1]

RowsAre(f, b) ==
    ~Low =>
       /\ DOMAIN rows = {b.rows[i] : i \in 1 .. rowcount}
       /\ \A i \in 1 .. rowcount :
             rows[b.rows[i]] = [j \in 1 .. image.wdt |->
                                   Shade(f, b, b.pixels[(i - 1) * image.wdt + j])]

\* The lines that were filled before code k.
LinesAre(f, b, k) ==
    /\ at = "lines" => b.kind = "drawn"
    /\ b.kind = "drawn" =>
          LET from == rowcount * image.wdt + Len(line) IN
          /\ Spells(b, line, rowcount * image.wdt, from)
          /\ at = "lines" => rowcount <= image.hgt /\ Spells(b, stack, from, b.codes[k].from)
          /\ at # "lines" => rowcount < image.hgt /\ b.codes[k].from = from
          /\ RowsAre(f, b)

InImage(f, b, k, q) ==
    /\ b.kind \in {"empty", "drawn"} /\ k \in DOMAIN b.codes /\ q \in DOMAIN b.places
    /\ Hides(b) /\ ImageIs(f, b) /\ ReaderIs(f, b, k, q) /\ TableIs(b, k) /\ LinesAre(f, b, k)

AtBlock(f, b) ==
    /\ Hides(b) /\ numcolors = FileColours
    /\ \/ /\ at = "block" /\ inputPos <= Len(f.bytes)
          /\ \/ inputPos = b.start
             \/ b.kind = "empty" /\ inputPos = b.places[Len(b.places)]
       \/ /\ at = "extension" /\ inputPos = b.start + 1 /\ b.start < Len(f.bytes)
          /\ b.kind \in {"control", "text"}
       \/ /\ at = "image" /\ inputPos = b.start + 1 /\ b.start < Len(f.bytes)
          /\ b.kind \in {"empty", "drawn"}
       \/ /\ at = "text" /\ b.kind = "text" /\ inputPos < Len(f.bytes)
          /\ \E q \in DOMAIN b.places : inputPos = b.places[q]

Ready(f, b) ==
    /\ at = "paint" /\ b.kind = "drawn" /\ inputPos <= Len(f.bytes)
    /\ b.places[1] <= Len(f.bytes)
    /\ Hides(b) /\ ImageIs(f, b) /\ RowsAre(f, b) /\ rowcount = image.hgt

\* The file was cut off in front of what is read.
Lost ==
    /\ ~gif.whole
    /\ \/ at \in {"block", "extension"} /\ inputPos > filesize
       \/ at = "image" /\ inputPos > filesize /\ memory = 44
       \/ at = "text" /\ inputPos >= filesize
       \/ /\ at \in {"code", "bits"} /\ inputPos >= filesize
          /\ navail_bytes = 0 /\ nbits_left = 0 /\ (at = "bits" => checked)

OnTrack(f) ==
    \E i \in DOMAIN f.parts :
       LET b == f.parts[i] IN
       \/ AtBlock(f, b)
       \/ at \in {"code", "bits", "lines"}
          /\ \E k \in DOMAIN b.codes, q \in DOMAIN b.places : InImage(f, b, k, q)
       \/ Ready(f, b)

Answered ==
    /\ at \in {"returned", "done"}
    /\ result = "frame" => (~Low => out = gif.picture)
    /\ gif.whole => /\ inputPos <= filesize
                    /\ noMemory \/ (result = "frame" <=> gif.shown)

FrameTrack ==
    Fits => \/ at \in {"create", "header"} /\ inputPos = 0 /\ ~transparent /\ result = "running"
            \/ Answered
            \/ gif.w # 0 /\ gif.h # 0 /\ (Lost \/ OnTrack(gif))

\* A file that is read as a whole, of which the layout is known.
Reading(f) ==
    /\ AllShown
    /\ f \in GifFiles /\ gif = f /\ Fits /\ f.w # 0 /\ f.h # 0

\* What the layout is.
LEMMA LayoutOf ==
    ASSUME NEW f, Reading(f)
    PROVE  /\ Format!ShownGif(f.original, f.parts, f.w, f.h, f.shown, f.picture)
           /\ f.original \in Seq(0 .. 255) /\ Len(f.bytes) <= Len(f.original)
           /\ \A p \in 1 .. Len(f.bytes) : f.bytes[p] = f.original[p]
           /\ f.whole => f.bytes = f.original
           /\ f.bytes \in Seq(0 .. 255) /\ filesize = Len(f.bytes)
           /\ f.w \in Nat \ {0} /\ f.h \in Nat \ {0}
    BY GifAssumption DEF Reading, AllShown, GifAssumption, filesize

\* A byte that is read is the one of the file, up to where it was cut off.
LEMMA ByteIs ==
    ASSUME NEW f, Reading(f), Input, NEW p \in Nat
    PROVE  /\ p < Len(f.bytes) => ByteAt(p) = Format!Octet(f.original, p)
           /\ p < Len(f.bytes) => Format!Octet(f.original, p) \in 0 .. 255
           /\ p >= Len(f.bytes) => ByteAt(p) = memory
           /\ ByteAt(p) \in 0 .. 255
<1>1. f.bytes \in Seq(0 .. 255) /\ Len(f.bytes) \in Nat
    BY LayoutOf
<1>2. gif = f /\ filesize = Len(f.bytes) /\ Fits
    BY LayoutOf DEF Reading
<1>3. BytesRead = Len(f.bytes)
    <2>1. filesize <= mem_alloc_size
        BY <1>2 DEF Fits
    <2>2. f.w \in Nat /\ f.h \in Nat /\ MAX_GIF_HEADER_SIZE \in Nat
        BY LayoutOf, GifAssumption DEF GifAssumption
    <2>3. f.w * f.h \in Nat
        BY <2>2
    <2>4. mem_alloc_size \in Nat
        BY <1>2, <2>2, <2>3 DEF mem_alloc_size
    <2> QED BY <1>1, <1>2, <2>1, <2>4 DEF BytesRead, Least
<1>4. PICK n \in Nat : n = Len(f.bytes)
    BY <1>1
<1>5. CASE p < n
    <2>1. p + 1 \in 1 .. Len(f.bytes)
        BY <1>4, <1>5
    <2>2. ByteAt(p) = f.bytes[p + 1]
        BY <1>2, <1>3, <1>4, <1>5 DEF ByteAt
    <2>3. f.bytes[p + 1] = f.original[p + 1]
        BY <2>1, LayoutOf
    <2>4. f.bytes[p + 1] \in 0 .. 255
        BY <1>1, <2>1, ElementOfSeq
    <2>5. ByteAt(p) = Format!Octet(f.original, p) /\ ByteAt(p) \in 0 .. 255
        BY <2>2, <2>3, <2>4, Zenon DEF Format!Octet
    <2>6. ~(p >= n)
        BY <1>5
    <2> QED BY <1>4, <2>5, <2>6, Zenon
<1>6. CASE ~(p < n)
    <2>1. ByteAt(p) = memory
        BY <1>3, <1>4, <1>6 DEF ByteAt
    <2>2. memory \in 0 .. 255
        BY GifAssumption DEF Input, GifAssumption
    <2> QED BY <1>4, <1>6, <2>1, <2>2, Zenon
<1> QED BY <1>5, <1>6, Zenon

\* The bytes of a colour table are as many as the format says.
LEMMA TableLength ==
    ASSUME NEW flags \in 0 .. 255
    PROVE  /\ Format!Table(flags) = TableBytes(flags)
           /\ HasTable(flags) => Format!Table(flags) = 3 * TableColours(flags)
           /\ HasTable(flags) => TableColours(flags) \in {2, 4, 8, 16, 32, 64, 128, 256}
           /\ Format!Table(flags) \in Nat
<1>1. PICK n \in 0 .. 7 : n = flags % 8
    OBVIOUS
<1>2. Two(n + 1) = <<2, 4, 8, 16, 32, 64, 128, 256>>[n + 1]
      /\ Two(n + 1) \in {2, 4, 8, 16, 32, 64, 128, 256}
    <2>1. n + 1 \in 0 .. 12
        OBVIOUS
    <2> QED BY <2>1, TwoValue
<1>3. TableColours(flags) = Two(n + 1)
    BY <1>1 DEF TableColours
<1> QED BY <1>1, <1>2, <1>3 DEF Format!Table, TableBytes, HasTable

\* Where the parts are, and that the image with pixels or the trailer is last.
LEMMA PartsOf ==
    ASSUME NEW f, Reading(f)
    PROVE  /\ f.parts \in Seq(Format!Part) /\ Len(f.parts) \in Nat
           /\ DOMAIN f.parts = 1 .. Len(f.parts) /\ 1 \in DOMAIN f.parts
           /\ f.parts[1].start = 13 + Format!Table(Format!Octet(f.original, 10))
           /\ f.parts[1].hidden = -1
           /\ f.parts[Len(f.parts)].kind \in {"drawn", "trailer"}
           /\ \A i \in DOMAIN f.parts :
                 /\ f.parts[i] \in Format!Part
                 /\ f.parts[i].kind \in {"control", "text", "filler", "empty"}
                       => /\ i + 1 \in DOMAIN f.parts
                          /\ Format!After(f.original, f.parts[i], f.parts[i + 1])
                 /\ f.parts[i].kind \in {"drawn", "trailer"} => i = Len(f.parts)
<1>1. /\ f.parts \in Seq(Format!Part) /\ Len(f.parts) > 0
      /\ f.parts[1].start = 13 + Format!Table(Format!Octet(f.original, 10))
      /\ f.parts[1].hidden = -1
      /\ f.parts[Len(f.parts)].kind \in {"drawn", "trailer"}
      /\ \A i \in 1 .. Len(f.parts) - 1 :
            Format!After(f.original, f.parts[i], f.parts[i + 1])
    BY LayoutOf, ZenonT(30) DEF Format!ShownGif
<1>2. PICK n \in Nat : n = Len(f.parts) /\ n > 0
    BY <1>1
<1>3. DOMAIN f.parts = 1 .. n
    BY <1>1, <1>2
<1>4. \A i \in 1 .. n : i < n => i \in 1 .. n - 1 /\ i + 1 \in 1 .. n
    BY <1>2
<1>5. \A i \in 1 .. n - 1 : f.parts[i].kind \in {"control", "text", "filler", "empty"}
    BY <1>1, <1>2, Zenon DEF Format!After
<1>6. \A i \in 1 .. n : i < n \/ i = n
    BY <1>2
<1>7. \A i \in 1 .. n : f.parts[i] \in Format!Part
    BY <1>1, <1>2, ElementOfSeq
<1>8. ASSUME NEW i \in DOMAIN f.parts
      PROVE  /\ f.parts[i] \in Format!Part
             /\ f.parts[i].kind \in {"control", "text", "filler", "empty"}
                   => /\ i + 1 \in DOMAIN f.parts
                      /\ Format!After(f.original, f.parts[i], f.parts[i + 1])
             /\ f.parts[i].kind \in {"drawn", "trailer"} => i = Len(f.parts)
    <2>1. i \in 1 .. n /\ (i < n \/ i = n)
        BY <1>3, <1>6
    <2>2. CASE i < n
        <3>1. i \in 1 .. n - 1 /\ i + 1 \in DOMAIN f.parts
            BY <1>3, <1>4, <2>1, <2>2
        <3> QED BY <1>1, <1>2, <1>5, <1>7, <2>1, <3>1
    <2>3. CASE i = n
        BY <1>1, <1>2, <1>7, <2>1, <2>3
    <2> QED BY <2>1, <2>2, <2>3
<1>9. 1 \in DOMAIN f.parts
    BY <1>2, <1>3
<1> QED BY <1>1, <1>2, <1>3, <1>8, <1>9, Zenon

\* A part and the fields it has.
LEMMA PartType ==
    ASSUME NEW f, Reading(f), NEW i \in DOMAIN f.parts, NEW b, b = f.parts[i]
    PROVE  /\ b.kind \in {"control", "text", "filler", "empty", "drawn", "trailer"}
           /\ b.start \in Nat /\ b.places \in Seq(Nat) /\ b.hidden \in Int
           /\ b.before \in Seq(Nat) /\ b.data \in Seq(0 .. 255)
           /\ b.codes \in Seq(Format!Code) /\ b.pixels \in Seq(0 .. 255)
           /\ b.rows \in Seq(Nat)
<1>1. b \in Format!Part
    BY PartsOf
<1> QED BY <1>1 DEF Format!Part

\* An image is one of the format, with its data and its codes.
LEMMA ImagePart ==
    ASSUME NEW f, Reading(f), NEW i \in DOMAIN f.parts, NEW b, b = f.parts[i],
           b.kind \in {"empty", "drawn"}
    PROVE  /\ Format!CodedImage(f.original, b)
           /\ b.kind = "drawn" => /\ Format!Drawn(f.original, b) /\ f.shown
                                  /\ Format!Shows(f.original, f.parts, b, f.w, f.h,
                                                  f.picture)
           /\ b.kind = "empty" => /\ b.pixels = <<>> /\ ~Format!OwnTable(f.original, b)
<1>1. CASE b.kind = "empty"
    <2>1. Format!After(f.original, b, f.parts[i + 1])
        BY <1>1, PartsOf
    <2> QED BY <1>1, <2>1 DEF Format!After
<1>2. CASE b.kind = "drawn"
    <2>1. i = Len(f.parts)
        BY <1>2, PartsOf
    <2>2. f.shown /\ Format!Drawn(f.original, b)
          /\ Format!Shows(f.original, f.parts, b, f.w, f.h, f.picture)
        BY <1>2, <2>1, LayoutOf, Zenon DEF Format!ShownGif
    <2> QED BY <1>2, <2>2 DEF Format!Drawn
<1> QED BY <1>1, <1>2

\* The pieces of a block, one behind the other in the file.
LEMMA PiecesOf ==
    ASSUME NEW f, Reading(f), NEW i \in DOMAIN f.parts, NEW b, b = f.parts[i],
           b.kind \in {"control", "text", "empty", "drawn"},
           NEW last, last = Len(b.places)
    PROVE  /\ last \in Nat \ {0} /\ DOMAIN b.places = 1 .. last
           /\ \A q \in 1 .. last : b.places[q] \in Nat /\ b.places[q] < Len(f.original)
           /\ \A q \in 1 .. last - 1 :
                 /\ Format!Octet(f.original, b.places[q]) > 0
                 /\ b.places[q + 1] = b.places[q] + 1
                                      + Format!Octet(f.original, b.places[q])
           /\ Format!Octet(f.original, b.places[last]) = 0
<1>1. b.places \in Seq(Nat)
    BY PartType
<1>2. Format!Chain(f.original, b.places)
    <2>1. CASE b.kind \in {"control", "text", "empty"}
        BY <2>1, PartsOf, Zenon DEF Format!After, Format!Piecewise
    <2>2. CASE b.kind = "drawn"
        BY <2>2, ImagePart DEF Format!CodedImage, Format!Piecewise
    <2> QED BY <2>1, <2>2
<1>3. Len(b.places) \in Nat /\ DOMAIN b.places = 1 .. Len(b.places)
      /\ b.places # <<>>
    BY <1>1, <1>2 DEF Format!Chain
<1>4. Len(b.places) # 0
    BY <1>1, <1>3, EmptySeq
<1>5. \A q \in DOMAIN b.places : b.places[q] \in Nat
    BY <1>1, <1>3, ElementOfSeq
<1>6. /\ \A q \in DOMAIN b.places : b.places[q] < Len(f.original)
      /\ \A q \in 1 .. Len(b.places) - 1 :
            /\ Format!Octet(f.original, b.places[q]) > 0
            /\ b.places[q + 1] = b.places[q] + 1 + Format!Octet(f.original, b.places[q])
      /\ Format!Octet(f.original, b.places[Len(b.places)]) = 0
    BY <1>2, Zenon DEF Format!Chain
<1>7. Len(b.places) \in Nat \ {0}
    BY <1>3, <1>4
<1> QED BY <1>3, <1>5, <1>6, <1>7, Zenon

\* Every part lies in the file, and every length of its pieces.
LEMMA PartInFile ==
    ASSUME NEW f, Reading(f), NEW i \in DOMAIN f.parts, NEW b, b = f.parts[i]
    PROVE  /\ b.start < Len(f.original)
           /\ b.kind \in {"control", "text", "empty", "drawn"} =>
                 /\ Len(b.places) \in Nat \ {0} /\ DOMAIN b.places = 1 .. Len(b.places)
                 /\ \A q \in DOMAIN b.places : /\ b.places[q] \in Nat
                                               /\ b.places[q] < Len(f.original)
                 /\ \A q \in 1 .. Len(b.places) - 1 :
                       /\ Format!Octet(f.original, b.places[q]) > 0
                       /\ b.places[q + 1] = b.places[q] + 1
                                            + Format!Octet(f.original, b.places[q])
                 /\ Format!Octet(f.original, b.places[Len(b.places)]) = 0
           /\ b.kind \in {"control", "text"} => b.places[1] = b.start + 2
<1>1. b.start \in Nat /\ b.places \in Seq(Nat)
    BY PartType
<1>2. PICK len \in Nat : len = Len(f.original)
    BY LayoutOf
<1>3. /\ b.kind = "control" => Format!ControlBlock(f.original, b)
      /\ b.kind = "text" => Format!Text(f.original, b)
      /\ b.kind = "filler" => b.start < Len(f.original)
    BY PartsOf, Zenon DEF Format!After
<1>4. b.kind \in {"empty", "drawn"} => Format!Image(f.original, b)
    BY ImagePart DEF Format!CodedImage
<1>5. b.kind = "trailer" => b.start < Len(f.original)
    <2>1. b.kind = "trailer" => i = Len(f.parts)
        BY PartsOf
    <2> QED BY <2>1, LayoutOf, Zenon DEF Format!ShownGif
<1>6. ASSUME b.kind \in {"control", "text", "empty", "drawn"}
      PROVE  /\ Len(b.places) \in Nat \ {0} /\ DOMAIN b.places = 1 .. Len(b.places)
             /\ \A q \in DOMAIN b.places : /\ b.places[q] \in Nat
                                           /\ b.places[q] < Len(f.original)
             /\ \A q \in 1 .. Len(b.places) - 1 :
                   /\ Format!Octet(f.original, b.places[q]) > 0
                   /\ b.places[q + 1] = b.places[q] + 1
                                        + Format!Octet(f.original, b.places[q])
             /\ Format!Octet(f.original, b.places[Len(b.places)]) = 0
             /\ 1 \in DOMAIN b.places
    <2>1. PICK last : last = Len(b.places)
        OBVIOUS
    <2>2. /\ last \in Nat \ {0} /\ DOMAIN b.places = 1 .. last
          /\ \A q \in 1 .. last : b.places[q] \in Nat /\ b.places[q] < Len(f.original)
          /\ \A q \in 1 .. last - 1 :
                /\ Format!Octet(f.original, b.places[q]) > 0
                /\ b.places[q + 1] = b.places[q] + 1
                                     + Format!Octet(f.original, b.places[q])
          /\ Format!Octet(f.original, b.places[last]) = 0
        BY ONLY Reading(f), i \in DOMAIN f.parts, b = f.parts[i], <1>6, <2>1, PiecesOf, SMTT(30)
    <2>3. 1 \in DOMAIN b.places
        BY <2>2
    <2> QED BY ONLY <2>1, <2>2, <2>3, Zenon
<1>7. b.kind \in {"control", "text"} => b.places[1] = b.start + 2
    BY <1>3 DEF Format!ControlBlock, Format!Text
<1>8. b.start < Len(f.original)
    <2>1. CASE b.kind \in {"control", "text"}
        <3>1. b.places[1] < Len(f.original)
            BY <1>6, <2>1
        <3> QED BY <1>1, <1>2, <1>7, <2>1, <3>1
    <2>2. CASE b.kind \in {"empty", "drawn"}
        <3>1. b.start + 9 < Len(f.original)
            BY <1>4, <2>2 DEF Format!Image
        <3> QED BY <1>1, <1>2, <3>1
    <2> QED BY <1>3, <1>5, <2>1, <2>2, PartType
<1> QED BY <1>6, <1>7, <1>8, Zenon

\* A file that ends in front of a byte it had was cut off.
LEMMA CutOff ==
    ASSUME NEW f, Reading(f), NEW p \in Nat, p < Len(f.original), p >= Len(f.bytes)
    PROVE  ~gif.whole /\ ~f.whole
<1>1. f.bytes # f.original
    <2>1. PICK n \in Nat, m \in Nat : n = Len(f.bytes) /\ m = Len(f.original)
        BY LayoutOf
    <2>2. n < m
        BY <2>1
    <2> QED BY <2>1, <2>2
<1> QED BY <1>1, LayoutOf DEF Reading

\* Every byte up to where the file ends.
LEMMA BytesAre ==
    ASSUME NEW f, Reading(f), Input, NEW n, n = Len(f.bytes)
    PROVE  /\ n \in Nat /\ n = filesize
           /\ \A m \in Nat : /\ m < n => ByteAt(m) = Format!Octet(f.original, m)
                              /\ ByteAt(m) \in 0 .. 255
           /\ \A m \in Nat : m < Len(f.original) /\ ~(m < n) => ~gif.whole
<1>1. n \in Nat /\ n = filesize
    BY LayoutOf
<1>2. ASSUME NEW m \in Nat
      PROVE  /\ m < n => ByteAt(m) = Format!Octet(f.original, m)
             /\ ByteAt(m) \in 0 .. 255
             /\ m < Len(f.original) /\ ~(m < n) => ~gif.whole
    <2>1. ByteAt(m) \in 0 .. 255
        BY ByteIs
    <2>2. ASSUME m < n PROVE ByteAt(m) = Format!Octet(f.original, m)
        <3>1. m < Len(f.bytes)
            BY <2>2
        <3> QED BY <3>1, ByteIs
    <2>3. ASSUME m < Len(f.original), ~(m < n) PROVE ~gif.whole
        <3>1. m >= Len(f.bytes)
            BY <1>1, <2>3
        <3> QED BY <2>3, <3>1, CutOff
    <2> QED BY <2>1, <2>2, <2>3
<1> QED BY <1>1, <1>2, Zenon

\* The file stays the same.
LEMMA ReadingStep ==
    ASSUME NEW f, Reading(f), gif' = gif
    PROVE  Reading(f)' /\ filesize' = filesize
    BY DEF Reading, Fits, filesize, mem_alloc_size

\* Where a step can lead to.
LEMMA ToLost ==
    ASSUME NEW f, Reading(f), gif' = gif, Lost'
    PROVE  FrameTrack'
    BY DEF FrameTrack, Reading

\* The answer is given and the file is read no more.
LEMMA ToAnswer ==
    ASSUME Answered'
    PROVE  FrameTrack'
    BY DEF FrameTrack

\* The decoder comes to a block.
LEMMA ToBlock ==
    ASSUME NEW f, Reading(f), gif' = gif, NEW i \in DOMAIN f.parts, AtBlock(f, f.parts[i])'
    PROVE  FrameTrack'
    BY DEF FrameTrack, Reading, OnTrack

\* The decoder is in the data of an image.
LEMMA ToImage ==
    ASSUME NEW f, Reading(f), gif' = gif, NEW i \in DOMAIN f.parts,
           at' \in {"code", "bits", "lines"},
           NEW k \in DOMAIN f.parts[i].codes, NEW q \in DOMAIN f.parts[i].places,
           InImage(f, f.parts[i], k, q)'
    PROVE  FrameTrack'
    BY DEF FrameTrack, Reading, OnTrack

\* The lines of an image are complete, or it has none.
LEMMA ToPaint ==
    ASSUME NEW f, Reading(f), gif' = gif, NEW i \in DOMAIN f.parts, Ready(f, f.parts[i])'
    PROVE  FrameTrack'
    BY DEF FrameTrack, Reading, OnTrack

\* An error, of a file that was cut off.
LEMMA CutAnswer ==
    ASSUME gif' = gif, ~gif.whole, Return("error") \/ Return("nothing")
    PROVE  FrameTrack'
    BY DEF FrameTrack, Answered, Return

\* The flags of the file's colour table, once the table was read.
LEMMA ColoursOf ==
    ASSUME NEW f, Reading(f), Input, 10 < Len(f.bytes)
    PROVE  /\ global_flags = Format!Octet(f.original, 10) /\ global_flags \in 0 .. 255
           /\ f.parts[1].start = 13 + header_temp /\ header_temp \in Nat
<1>1. ByteAt(10) = Format!Octet(f.original, 10) /\ ByteAt(10) \in 0 .. 255
    BY ByteIs
<1>2. Format!Table(ByteAt(10)) = TableBytes(ByteAt(10)) /\ TableBytes(ByteAt(10)) \in Nat
    BY ONLY <1>1, TableLength
<1> QED BY <1>1, <1>2, PartsOf DEF global_flags, header_temp

\* The header.
LEMMA TrackHeader ==
    ASSUME NEW f, gif = f, f \in GifFiles, AllShown, Fits, Input, ReadHeader,
           inputPos = 0, ~transparent, result = "running"
    PROVE  FrameTrack'
<1>1. gif' = gif /\ UNCHANGED <<control, noMemory>>
    BY DEF ReadHeader, source, blockless
<1>2. CASE (gif.w = 0 \/ gif.h = 0) /\ Return("nothing") /\ UNCHANGED inputPos
    <2>1. ~gif.shown
        BY <1>2 DEF AllShown
    <2>2. filesize \in Nat /\ filesize' = filesize
        BY <1>1, GifAssumption DEF filesize, GifAssumption
    <2> QED BY <1>1, <1>2, <2>1, <2>2 DEF FrameTrack, Answered, Return
<1>3. CASE /\ gif.w > 0 /\ gif.h > 0
           /\ at' = "block" /\ inputPos' = 13 + header_temp
           /\ numcolors' = IF HasTable(global_flags)
                           THEN Rounded(TableColours(global_flags)) ELSE 2
    <2>1. Reading(f)
        BY <1>3 DEF Reading
    <2>2. header_temp \in Nat
        <3>1. ByteAt(10) \in 0 .. 255
            BY ByteType DEF Input
        <3>2. TableBytes(ByteAt(10)) \in Nat
            BY ONLY <3>1, TableBytesType
        <3> QED BY <3>2 DEF header_temp, global_flags
    <2>3. PICK n \in Nat : n = Len(f.bytes) /\ n = filesize
        BY <2>1, LayoutOf
    <2>4. CASE 13 + header_temp <= n
        <3>1. 10 < Len(f.bytes)
            BY <2>2, <2>3, <2>4
        <3>2. f.parts[1].start = inputPos'
            BY <1>3, <2>1, <3>1, ColoursOf
        <3>3. 1 \in DOMAIN f.parts /\ f.parts[1].hidden = -1
            BY <2>1, PartsOf
        <3>4. Hides(f.parts[1])'
            BY <1>1, <3>3 DEF Hides, control
        <3>5. numcolors' = FileColours'
            BY <1>1, <1>3, ReadHeader DEF FileColours, ReadHeader, blockless, source,
               HasTable, TableColours, global_flags, ByteAt, BytesRead, filesize, mem_alloc_size
        <3>6. inputPos' <= Len(f.bytes)
            BY <1>3, <2>3, <2>4
        <3> QED BY <1>1, <1>3, <2>1, <3>2, <3>3, <3>4, <3>5, <3>6, ToBlock DEF AtBlock
    <2>5. CASE ~(13 + header_temp <= n)
        <3>1. ~gif.whole
            <4> SUFFICES ASSUME gif.whole PROVE FALSE
                OBVIOUS
            <4>1. f.bytes = f.original
                BY <2>1, LayoutOf DEF Reading
            <4>2. 1 \in DOMAIN f.parts
                  /\ f.parts[1].start = 13 + Format!Table(Format!Octet(f.original, 10))
                BY <2>1, PartsOf
            <4>3. f.parts[1].start < n /\ f.parts[1].start \in Nat
                BY <2>1, <2>3, <4>1, <4>2, PartInFile, PartType, ZenonT(30)
            <4>4. 10 < Len(f.bytes)
                <5>1. 12 < Len(f.original)
                    BY <2>1, LayoutOf DEF Format!ShownGif
                <5>2. n > 12
                    BY <2>3, <4>1, <5>1, Zenon
                <5>3. n > 10
                    BY <5>2
                <5> QED BY <2>3, <5>3, Zenon
            <4>5. f.parts[1].start = 13 + header_temp
                BY <2>1, <4>4, ColoursOf
            <4> QED BY <2>2, <2>5, <4>3, <4>5
        <3>2. inputPos' > filesize' /\ at' = "block"
            BY <1>1, <1>3, <2>1, <2>2, <2>3, <2>5, ReadingStep
        <3> QED BY <1>1, <2>1, <3>1, <3>2, ToLost DEF Lost
    <2> QED BY <2>4, <2>5
<1> QED BY <1>2, <1>3 DEF ReadHeader

\* What a control block hides is hidden behind it.
LEMMA HiddenNext ==
    ASSUME NEW f, Reading(f), NEW i \in DOMAIN f.parts, NEW b, b = f.parts[i],
           b.kind \in {"text", "filler", "empty"}
    PROVE  /\ i + 1 \in DOMAIN f.parts /\ f.parts[i + 1].hidden = b.hidden
           /\ f.parts[i + 1].start = IF b.kind = "filler" THEN b.start + 1
                                     ELSE b.places[Len(b.places)] + 1
<1>1. i + 1 \in DOMAIN f.parts /\ Format!After(f.original, b, f.parts[i + 1])
    BY PartsOf
<1> QED BY <1>1 DEF Format!After

\* What a step leaves alone that does not decode.
LEMMA BlockSame ==
    ASSUME NextBlock \/ ReadText
    PROVE  /\ gif' = gif /\ memory' = memory /\ UNCHANGED <<transparent, transIndex, numcolors>>
           /\ FileColours' = FileColours
<1>1. UNCHANGED <<source, control, picture>>
    BY DEF NextBlock, ReadText, blockless
<1> QED BY <1>1 DEF source, control, picture, FileColours, HasTable, TableColours,
                    global_flags, ByteAt, BytesRead, filesize, mem_alloc_size

\* The first byte of a block, in the file or behind its end.
LEMMA TrackBlock ==
    ASSUME NEW f, Reading(f), Input, NEW i \in DOMAIN f.parts, AtBlock(f, f.parts[i]),
           NextBlock
    PROVE  FrameTrack'
<1> DEFINE p == inputPos
           byte == ByteAt(inputPos)
<1>1. PICK b : b = f.parts[i]
    OBVIOUS
<1>2. /\ Hides(b) /\ numcolors = FileColours /\ p <= Len(f.bytes)
      /\ p = b.start \/ (b.kind = "empty" /\ p = b.places[Len(b.places)])
      /\ at = "block"
    BY <1>1 DEF AtBlock, NextBlock
<1>3. /\ gif' = gif /\ memory' = memory
      /\ UNCHANGED <<transparent, transIndex, numcolors>> /\ FileColours' = FileColours
    BY BlockSame
<1>4. PICK n \in Nat : n = Len(f.bytes) /\ n = filesize /\ filesize' = n
    BY <1>3, LayoutOf, ReadingStep
<1>5. p \in Nat /\ p < Len(f.original)
    <2>1. p \in Nat
        BY DEF Input
    <2>2. CASE p = b.start
        BY <1>1, <2>1, <2>2, PartInFile
    <2>3. CASE b.kind = "empty" /\ p = b.places[Len(b.places)]
        <3>1. Len(b.places) \in DOMAIN b.places
            BY <1>1, <2>3, PartInFile
        <3> QED BY <1>1, <2>1, <2>3, <3>1, PartInFile
    <2> QED BY <1>2, <2>2, <2>3
<1>6. gif = f
    BY DEF Reading
<1>7. CASE p = n
    <2>1. ~gif.whole /\ byte = memory
        <3>1. p \in Nat /\ p < Len(f.original) /\ p >= Len(f.bytes)
            BY <1>4, <1>5, <1>7
        <3>2. ~gif.whole
            BY <3>1, CutOff
        <3> QED BY <3>1, <3>2, ByteIs
    <2>2. CASE byte = 59
        <3>1. Return("error")
            BY <1>4, <1>7, <2>2 DEF NextBlock, AtTrailer
        <3> QED BY <1>3, <2>1, <3>1, CutAnswer
    <2>3. CASE byte # 59
        <3>1. /\ inputPos' = p + 1
              /\ at' = IF byte = 33 THEN "extension" ELSE IF byte = 44 THEN "image" ELSE "block"
            BY <1>4, <1>7, <2>3 DEF NextBlock
        <3>2. inputPos' > filesize'
            BY <1>4, <1>5, <1>7, <3>1
        <3>3. Lost'
            BY <1>3, <2>1, <3>1, <3>2 DEF Lost
        <3> QED BY <1>3, <3>3, ToLost
    <2> QED BY <2>2, <2>3
<1>8. CASE p < n
    <2>1. byte = Format!Octet(f.original, p)
        BY <1>4, <1>5, <1>8, ByteIs
    <2>2. \/ byte = 59 /\ Return("error") /\ inputPos' = p + 1
          \/ /\ byte # 59 /\ inputPos' = p + 1
             /\ at' = IF byte = 33 THEN "extension" ELSE IF byte = 44 THEN "image" ELSE "block"
        BY <1>4, <1>5, <1>8 DEF NextBlock, AtTrailer
    <2>3. inputPos' = p + 1 /\ inputPos' <= Len(f.bytes)
        BY <1>4, <1>5, <1>8, <2>2
    <2>4. Hides(b)' /\ numcolors' = FileColours'
        BY <1>2, <1>3 DEF Hides
    <2>5. CASE p = b.start /\ b.kind \in {"control", "text"}
        <3>1. byte = 33
            <4>1. Format!After(f.original, b, f.parts[i + 1])
                BY <1>1, <2>5, PartsOf
            <4> QED BY <2>1, <2>5, <4>1 DEF Format!After, Format!Text, Format!ControlBlock
        <3>2. AtBlock(f, b)'
            BY <1>4, <1>8, <2>2, <2>3, <2>4, <2>5, <3>1 DEF AtBlock
        <3> QED BY <1>1, <1>3, <3>2, ToBlock
    <2>6. CASE p = b.start /\ b.kind \in {"empty", "drawn"}
        <3>1. byte = 44
            <4>1. Format!Image(f.original, b)
                BY <1>1, <2>6, ImagePart DEF Format!CodedImage
            <4> QED BY <2>1, <2>6, <4>1 DEF Format!Image
        <3>2. AtBlock(f, b)'
            BY <1>4, <1>8, <2>2, <2>3, <2>4, <2>6, <3>1 DEF AtBlock
        <3> QED BY <1>1, <1>3, <3>2, ToBlock
    <2>7. CASE \/ p = b.start /\ b.kind = "filler"
               \/ b.kind = "empty" /\ p = b.places[Len(b.places)]
        <3>1. byte \notin {33, 44, 59}
            <4>1. CASE b.kind = "filler"
                <5>1. Format!After(f.original, b, f.parts[i + 1])
                    BY <1>1, <4>1, PartsOf
                <5> QED BY <2>1, <2>7, <4>1, <5>1 DEF Format!After
            <4>2. CASE b.kind = "empty"
                <5>1. Format!Octet(f.original, b.places[Len(b.places)]) = 0
                    BY <1>1, <4>2, PartInFile
                <5> QED BY <2>1, <2>7, <4>2, <5>1
            <4> QED BY <2>7, <4>1, <4>2
        <3>2. /\ i + 1 \in DOMAIN f.parts /\ f.parts[i + 1].hidden = b.hidden
              /\ f.parts[i + 1].start = p + 1
            BY <1>1, <2>7, HiddenNext
        <3>3. Hides(f.parts[i + 1])'
            BY <2>4, <3>2 DEF Hides
        <3>4. AtBlock(f, f.parts[i + 1])'
            BY <2>2, <2>3, <2>4, <3>1, <3>2, <3>3 DEF AtBlock
        <3> QED BY <1>3, <3>2, <3>4, ToBlock
    <2>8. CASE p = b.start /\ b.kind = "trailer"
        <3>1. i = Len(f.parts)
            BY <1>1, <2>8, PartsOf
        <3>2. ~f.shown /\ Format!Octet(f.original, b.start) = 59
            BY <1>1, <2>8, <3>1, LayoutOf, Zenon DEF Format!ShownGif
        <3>3. Return("error")
            BY <2>1, <2>2, <2>8, <3>2
        <3>4. Answered'
            BY <1>3, <1>4, <1>6, <2>3, <3>2, <3>3 DEF Answered, Return
        <3> QED BY <3>4, ToAnswer
    <2> QED BY <1>1, <1>2, <2>5, <2>6, <2>7, <2>8, PartType
<1> QED BY <1>2, <1>4, <1>5, <1>7, <1>8

\* Behind the cut of a file, there is no block to read.
LEMMA LostBlock ==
    ASSUME NEW f, Reading(f), Input, Lost, at = "block", NextBlock
    PROVE  FrameTrack'
<1>1. ~gif.whole /\ inputPos > filesize
    BY DEF Lost
<1>2. Return("nothing")
    <2>1. PICK n \in Nat : n = filesize
        BY LayoutOf
    <2> QED BY <1>1, <2>1 DEF NextBlock, Input
<1> QED BY <1>1, <1>2, BlockSame, CutAnswer

\* The label of an extension, and a control block as a whole.
LEMMA TrackExtension ==
    ASSUME NEW f, Reading(f), Input, NEW i \in DOMAIN f.parts, AtBlock(f, f.parts[i]),
           ReadExtension
    PROVE  FrameTrack'
<1> DEFINE label == ByteAt(inputPos)
<1>1. PICK b : b = f.parts[i]
    OBVIOUS
<1>2. /\ Hides(b) /\ numcolors = FileColours /\ inputPos = b.start + 1
      /\ b.start < Len(f.bytes) /\ b.kind \in {"control", "text"}
    BY <1>1 DEF AtBlock, ReadExtension
<1>3. /\ gif' = gif /\ memory' = memory /\ numcolors' = numcolors
      /\ FileColours' = FileColours
    BY DEF ReadExtension, blockless, source, picture, FileColours, HasTable,
           TableColours, global_flags, ByteAt, BytesRead, filesize, mem_alloc_size
<1>4. PICK n \in Nat : n = Len(f.bytes) /\ n = filesize /\ filesize' = n
    BY <1>3, LayoutOf, ReadingStep
<1>12. /\ \A m \in Nat : m < n => ByteAt(m) = Format!Octet(f.original, m)
       /\ \A m \in Nat : ByteAt(m) \in 0 .. 255
    <2>1. n = Len(f.bytes)
        BY <1>4
    <2>2. ASSUME NEW m \in Nat, m < n
          PROVE  ByteAt(m) = Format!Octet(f.original, m)
        BY <2>1, <2>2, BytesAre
    <2> QED BY <2>2, ByteType DEF Input
<1>5. PICK s \in Nat, p \in Nat, len \in Nat :
         s = b.start /\ p = s + 1 /\ inputPos = p /\ len = Len(f.original)
    <2>1. b.start \in Nat /\ b.start + 1 \in Nat
        BY <1>1, PartType
    <2> QED BY <1>2, <2>1, LayoutOf
<1>6. /\ \A q \in DOMAIN b.places : b.places[q] \in Nat /\ b.places[q] < len
      /\ b.places[1] = s + 2 /\ 1 \in DOMAIN b.places
      /\ DOMAIN b.places = 1 .. Len(b.places)
    <2>1. Len(b.places) \in Nat \ {0} /\ DOMAIN b.places = 1 .. Len(b.places)
        BY <1>1, <1>2, PartInFile
    <2>2. 1 \in DOMAIN b.places
        BY <2>1
    <2> QED BY <1>1, <1>2, <1>5, <2>1, <2>2, PartInFile, ZenonT(30)
<1>7. /\ s + 2 < len /\ s < n /\ s + 1 < len
      /\ s + 2 >= n \/ s + 1 >= n => ~gif.whole
    <2>1. s + 2 < len
        BY <1>6
    <2>2. s + 1 < len /\ s + 1 \in Nat /\ s + 2 \in Nat /\ s < n
        BY <1>2, <1>4, <1>5, <2>1
    <2>3. ASSUME s + 2 >= n \/ s + 1 >= n PROVE ~gif.whole
        BY <1>4, <1>5, <2>1, <2>2, <2>3, CutOff
    <2> QED BY <2>1, <2>2, <2>3
<1>8. \/ /\ label = 249 /\ ByteAt(p + 1) # 4 /\ Return("error")
      \/ /\ label = 249 /\ ByteAt(p + 1) = 4 /\ at' = "block" /\ inputPos' = p + 7
         /\ transparent' = (ByteAt(p + 2) % 2 = 1) /\ transIndex' = ByteAt(p + 5)
      \/ /\ label # 249 /\ inputPos' = p + 1
         /\ at' = IF label \in {1, 254, 255} THEN "text" ELSE "block"
         /\ UNCHANGED <<transparent, transIndex>>
    BY <1>5 DEF ReadExtension, control
<1>9. CASE p = n
    <2>1. ~gif.whole
        BY <1>5, <1>7, <1>9
    <2>2. CASE Return("error")
        BY <1>3, <2>1, <2>2, CutAnswer
    <2>3. CASE at' \in {"block", "text"} /\ inputPos' \in {p + 1, p + 7}
        <3>1. inputPos' > filesize' /\ inputPos' >= filesize'
            BY <1>4, <1>9, <2>3
        <3> QED BY <1>3, <2>1, <2>3, <3>1, ToLost DEF Lost
    <2> QED BY <1>8, <2>2, <2>3
<1>10. CASE p < n /\ b.kind = "text"
    <2>1. Format!After(f.original, b, f.parts[i + 1])
        BY <1>1, <1>10, PartsOf
    <2>2. Format!Octet(f.original, p) \in {1, 254, 255}
        BY <1>5, <1>10, <2>1 DEF Format!After, Format!Text
    <2>3. label \in {1, 254, 255}
        BY <1>5, <1>10, <1>12, <2>2
    <2>4. at' = "text" /\ inputPos' = s + 2 /\ UNCHANGED <<transparent, transIndex>>
        BY <1>5, <1>8, <2>3
    <2>5. CASE s + 2 < n
        <3>1. AtBlock(f, b)'
            BY <1>2, <1>3, <1>4, <1>6, <1>10, <2>4, <2>5 DEF AtBlock, Hides
        <3> QED BY <1>1, <1>3, <3>1, ToBlock
    <2>6. CASE s + 2 >= n
        <3>1. ~gif.whole
            BY <1>7, <2>6
        <3>2. inputPos' >= filesize'
            BY <1>4, <2>4, <2>6
        <3> QED BY <1>3, <2>4, <3>1, <3>2, ToLost DEF Lost
    <2> QED BY <1>4, <1>5, <2>5, <2>6
<1>11. CASE p < n /\ b.kind = "control"
    <2>1. /\ i + 1 \in DOMAIN f.parts /\ Format!After(f.original, b, f.parts[i + 1])
          /\ f.parts[i + 1].start \in Nat /\ f.parts[i + 1].start < len
        BY <1>1, <1>5, <1>11, PartsOf, PartInFile, PartType, SMTT(30)
    <2>2. /\ Format!ControlBlock(f.original, b)
          /\ f.parts[i + 1].hidden = IF Format!Octet(f.original, s + 3) % 2 = 1
                                     THEN Format!Octet(f.original, s + 6) ELSE -1
          /\ f.parts[i + 1].start = b.places[Len(b.places)] + 1
        BY <1>5, <1>11, <2>1 DEF Format!After
    <2>3. /\ Format!Octet(f.original, p) = 249 /\ Format!Octet(f.original, p + 1) = 4
          /\ Len(b.places) = 2 /\ Format!Octet(f.original, b.places[1]) = 4
        <3>1. /\ Format!Octet(f.original, s + 1) = 249
              /\ Format!Octet(f.original, s + 2) = 4
            BY <1>5, <2>2 DEF Format!ControlBlock
        <3>2. p + 1 = s + 2
            BY <1>5
        <3> QED BY <1>5, <1>6, <2>2, <3>1, <3>2 DEF Format!ControlBlock
    <2>4. f.parts[i + 1].start = s + 8
        <3>1. b.places[2] = b.places[1] + 1 + Format!Octet(f.original, b.places[1])
            <4>1. 1 \in 1 .. Len(b.places) - 1
                BY <2>3
            <4>2. b.places[1 + 1] = b.places[1] + 1 + Format!Octet(f.original, b.places[1])
                BY <1>1, <1>11, <4>1, PartInFile
            <4> QED BY <4>2
        <3> QED BY <1>6, <2>2, <2>3, <3>1
    <2>5. label = 249
        BY <1>5, <1>11, <1>12, <2>3
    <2>6. CASE p + 1 < n
        <3>1. p + 1 \in Nat
            OBVIOUS
        <3>2. ByteAt(p + 1) = 4
            BY <1>12, <2>3, <2>6, <3>1
        <3>3. /\ at' = "block" /\ inputPos' = s + 8
              /\ transparent' = (ByteAt(p + 2) % 2 = 1) /\ transIndex' = ByteAt(p + 5)
            BY <1>5, <1>8, <2>5, <3>2
        <3>4. CASE s + 8 <= n
            <4>1. /\ p + 2 = s + 3 /\ p + 5 = s + 6 /\ s + 3 \in Nat /\ s + 6 \in Nat
                  /\ s + 3 < n /\ s + 6 < n
                BY <1>5, <3>4, SMTT(30)
            <4>2. /\ ByteAt(s + 3) = Format!Octet(f.original, s + 3)
                  /\ ByteAt(s + 6) = Format!Octet(f.original, s + 6)
                BY <1>12, <4>1
            <4>3. /\ transparent' = (Format!Octet(f.original, s + 3) % 2 = 1)
                  /\ transIndex' = Format!Octet(f.original, s + 6)
                BY <3>3, <4>1, <4>2, Zenon
            <4>4. Hides(f.parts[i + 1])'
                BY <2>2, <4>3, Zenon DEF Hides
            <4>5. inputPos' <= Len(f.bytes)
                BY <1>4, <3>3, <3>4
            <4>6. AtBlock(f, f.parts[i + 1])'
                BY <1>2, <1>3, <2>4, <3>3, <4>4, <4>5 DEF AtBlock
            <4> QED BY <1>3, <2>1, <4>6, ToBlock
        <3>5. CASE s + 8 > n
            <4>1. ~gif.whole
                <5>1. s + 8 \in Nat /\ s + 8 < Len(f.original) /\ s + 8 >= Len(f.bytes)
                    BY <1>4, <1>5, <2>1, <2>4, <3>5
                <5> QED BY <5>1, CutOff
            <4>2. inputPos' > filesize'
                BY <1>4, <3>3, <3>5
            <4> QED BY <1>3, <3>3, <4>1, <4>2, ToLost DEF Lost
        <3> QED BY <3>4, <3>5
    <2>7. CASE ~(p + 1 < n)
        <3>1. ~gif.whole
            BY <1>5, <1>7, <2>7
        <3>2. CASE Return("error")
            BY <1>3, <3>1, <3>2, CutAnswer
        <3>3. CASE at' = "block" /\ inputPos' = p + 7
            <4>1. inputPos' > filesize'
                BY <1>4, <2>7, <3>3
            <4> QED BY <1>3, <3>1, <3>3, <4>1, ToLost DEF Lost
        <3> QED BY <1>8, <2>5, <3>2, <3>3
    <2> QED BY <2>6, <2>7
<1> QED BY <1>2, <1>4, <1>5, <1>7, <1>9, <1>10, <1>11

\* Behind the cut, an extension keeps the decoder there.
LEMMA LostExtension ==
    ASSUME NEW f, Reading(f), Input, Lost, ReadExtension
    PROVE  FrameTrack'
<1>1. ~gif.whole /\ inputPos > filesize /\ gif' = gif
    BY DEF Lost, ReadExtension, blockless, source
<1>2. PICK n \in Nat : n = filesize /\ filesize' = n
    BY <1>1, LayoutOf, ReadingStep
<1>3. CASE Return("error")
    BY <1>1, <1>3, CutAnswer
<1>4. CASE at' \in {"block", "text"} /\ inputPos' \in {inputPos + 1, inputPos + 7}
    <2>1. inputPos' > filesize' /\ inputPos' >= filesize'
        BY <1>1, <1>2, <1>4 DEF Input
    <2> QED BY <1>1, <1>4, <2>1, ToLost DEF Lost
<1> QED BY <1>3, <1>4 DEF ReadExtension

\* A piece of a text.
LEMMA TrackText ==
    ASSUME NEW f, Reading(f), Input, NEW i \in DOMAIN f.parts, AtBlock(f, f.parts[i]),
           ReadText
    PROVE  FrameTrack'
<1>1. PICK b : b = f.parts[i]
    OBVIOUS
<1>2. /\ Hides(b) /\ numcolors = FileColours /\ b.kind = "text"
      /\ inputPos < Len(f.bytes)
    BY <1>1 DEF AtBlock, ReadText
<1>3. PICK q \in DOMAIN b.places : inputPos = b.places[q]
    BY <1>1 DEF AtBlock, ReadText
<1>4. /\ gif' = gif /\ memory' = memory
      /\ UNCHANGED <<transparent, transIndex, numcolors>> /\ FileColours' = FileColours
    BY BlockSame
<1>5. PICK n \in Nat : n = Len(f.bytes) /\ n = filesize /\ filesize' = n
    BY <1>4, LayoutOf, ReadingStep
<1>6. PICK p \in Nat, byte \in 0 .. 255, last \in Nat \ {0} :
         /\ p = inputPos /\ byte = ByteAt(p) /\ byte = Format!Octet(f.original, p)
         /\ last = Len(b.places)
    <2>1. inputPos \in Nat
        BY DEF Input
    <2>2. ByteAt(inputPos) = Format!Octet(f.original, inputPos) /\ ByteAt(inputPos) \in 0 .. 255
        BY <1>2, <2>1, ByteIs
    <2>3. Len(b.places) \in Nat \ {0}
        BY <1>1, <1>2, PartInFile
    <2> QED BY <2>1, <2>2, <2>3
<1>7. /\ DOMAIN b.places = 1 .. last /\ q \in 1 .. last /\ b.places[q] = p
      /\ Format!Octet(f.original, b.places[last]) = 0
      /\ \A m \in 1 .. last - 1 :
            /\ Format!Octet(f.original, b.places[m]) > 0
            /\ b.places[m + 1] = b.places[m] + 1 + Format!Octet(f.original, b.places[m])
      /\ \A m \in 1 .. last : b.places[m] \in Nat /\ b.places[m] < Len(f.original)
    <2>1. b.kind \in {"control", "text", "empty", "drawn"}
        BY <1>2
    <2>2. last = Len(b.places) /\ p = inputPos
        BY <1>6
    <2>3. /\ last \in Nat \ {0} /\ DOMAIN b.places = 1 .. last
          /\ \A m \in 1 .. last : b.places[m] \in Nat /\ b.places[m] < Len(f.original)
          /\ \A m \in 1 .. last - 1 :
                /\ Format!Octet(f.original, b.places[m]) > 0
                /\ b.places[m + 1] = b.places[m] + 1
                                     + Format!Octet(f.original, b.places[m])
          /\ Format!Octet(f.original, b.places[last]) = 0
        BY ONLY Reading(f), i \in DOMAIN f.parts, <1>1, <2>1, <2>2, PiecesOf, SMTT(30)
    <2>4. q \in DOMAIN b.places
        OBVIOUS
    <2> HIDE <1>6
    <2> QED BY ONLY <1>3, <2>2, <2>3, <2>4, Zenon
<1>8. \/ byte > 0 /\ p + 1 + byte > n /\ Return("error")
      \/ /\ byte = 0 \/ p + 1 + byte <= n
         /\ at' = IF byte = 0 THEN "block" ELSE "text"
         /\ inputPos' = p + 1 + byte
    BY <1>5, <1>6 DEF ReadText
<1>9. Hides(b)' /\ numcolors' = FileColours'
    BY <1>2, <1>4 DEF Hides
<1>10. CASE q = last
    <2>1. byte = 0
        BY <1>6, <1>7, <1>10
    <2>2. at' = "block" /\ inputPos' = p + 1 /\ inputPos' <= Len(f.bytes)
        BY <1>2, <1>5, <1>6, <1>8, <2>1
    <2>3. /\ i + 1 \in DOMAIN f.parts /\ f.parts[i + 1].hidden = b.hidden
          /\ f.parts[i + 1].start = p + 1
        <3>1. /\ i + 1 \in DOMAIN f.parts /\ f.parts[i + 1].hidden = b.hidden
              /\ f.parts[i + 1].start = b.places[Len(b.places)] + 1
            BY <1>1, <1>2, HiddenNext
        <3>2. last = Len(b.places)
            BY <1>6
        <3> QED BY <1>7, <1>10, <3>1, <3>2, Zenon
    <2>4. AtBlock(f, f.parts[i + 1])'
        BY <1>9, <2>2, <2>3 DEF AtBlock, Hides
    <2> QED BY <1>4, <2>3, <2>4, ToBlock
<1>11. CASE q < last
    <2>1. q \in 1 .. last - 1 /\ q + 1 \in DOMAIN b.places
        BY <1>7, <1>11
    <2>2. byte > 0 /\ b.places[q + 1] = p + 1 + byte
        <3>1. Format!Octet(f.original, p) = byte
            BY <1>6
        <3> QED BY <1>7, <2>1, <3>1
    <2>3. p + 1 + byte < Len(f.original) /\ p + 1 + byte \in Nat
        BY <1>7, <2>1, <2>2
    <2>4. CASE p + 1 + byte < n
        <3>1. at' = "text" /\ inputPos' = b.places[q + 1] /\ inputPos' < Len(f.bytes)
            BY <1>5, <1>8, <2>2, <2>4
        <3>2. AtBlock(f, b)'
            BY <1>2, <1>9, <2>1, <3>1 DEF AtBlock
        <3> QED BY <1>1, <1>4, <3>2, ToBlock
    <2>5. CASE ~(p + 1 + byte < n)
        <3>1. ~gif.whole
            <4>1. PICK r \in Nat : r = p + 1 + byte
                OBVIOUS
            <4>2. r < Len(f.original) /\ r >= Len(f.bytes)
                BY <1>5, <2>3, <2>5, <4>1
            <4> QED BY <4>2, CutOff
        <3>2. CASE Return("error")
            BY <1>4, <3>1, <3>2, CutAnswer
        <3>3. CASE at' = "text" /\ inputPos' = p + 1 + byte
            <4>1. inputPos' >= filesize'
                BY <1>5, <2>5, <3>3
            <4> QED BY <1>4, <3>1, <3>3, <4>1, ToLost DEF Lost
        <3> QED BY <1>8, <2>2, <3>2, <3>3
    <2> QED BY <2>4, <2>5
<1> QED BY <1>7, <1>10, <1>11

\* Behind the cut, the pieces of a text keep the decoder there.
LEMMA LostText ==
    ASSUME NEW f, Reading(f), Input, Lost, ReadText
    PROVE  FrameTrack'
<1>1. ~gif.whole /\ inputPos >= filesize /\ gif' = gif
    BY BlockSame DEF Lost, ReadText
<1>2. PICK n \in Nat, p \in Nat, byte \in 0 .. 255 :
         n = filesize /\ filesize' = n /\ p = inputPos /\ byte = ByteAt(p)
    <2>1. inputPos \in Nat
        BY DEF Input
    <2>2. ByteAt(inputPos) \in 0 .. 255
        BY <2>1, ByteIs
    <2>3. filesize \in Nat /\ filesize' = filesize
        BY <1>1, LayoutOf, ReadingStep
    <2> QED BY <2>1, <2>2, <2>3
<1>3. CASE Return("error")
    BY <1>1, <1>3, CutAnswer
<1>4. CASE /\ byte = 0 \/ p + 1 + byte <= n
           /\ at' = IF byte = 0 THEN "block" ELSE "text"
           /\ inputPos' = p + 1 + byte
    <2>1. at' = "block" /\ inputPos' > filesize'
        BY <1>1, <1>2, <1>4
    <2> QED BY <1>1, <2>1, ToLost DEF Lost
<1> QED BY <1>2, <1>3, <1>4 DEF ReadText

(***************************************************************************)
(* Images.                                                                 *)
(***************************************************************************)
\* An image of the format: its size, and where its description is.
LEMMA ImageFacts ==
    ASSUME NEW f, Reading(f), NEW i \in DOMAIN f.parts, NEW b, b = f.parts[i],
           b.kind \in {"empty", "drawn"},
           NEW s, s = b.start,
           NEW table0, table0 = Format!Table(Format!Octet(f.original, s + 9))
    PROVE  /\ s \in Nat /\ s + 9 < Len(f.original) /\ table0 \in Nat
           /\ s + 10 + table0 < Len(f.original)
           /\ b.places[1] = s + 11 + table0 /\ 1 \in DOMAIN b.places
           /\ Format!Size(f.original, b) \in 2 .. 8
           /\ Format!Octet(f.original, s + 10 + table0) = Format!Size(f.original, b)
           /\ Format!Data(f.original, b) /\ Format!Coded(b, Format!Size(f.original, b))
           /\ Format!Width(f.original, b) > 0 /\ Format!Height(f.original, b) > 0
<1>1. Format!CodedImage(f.original, b) /\ b.start \in Nat
    BY ImagePart, PartType
<1>2. /\ s + 9 < Len(f.original) /\ b.places[1] = s + 11 + table0
      /\ Format!Octet(f.original, s + 10 + table0) \in 2 .. 8
    BY <1>1 DEF Format!CodedImage, Format!Image
<1>3. Format!Octet(f.original, s + 10 + table0) = Format!Size(f.original, b)
    BY DEF Format!Size
<1>4. table0 \in Nat
    <2>1. PICK m \in Nat : m = s + 10
        BY <1>1
    <2>2. m \in 1 .. Len(f.original) /\ Len(f.original) \in Nat
        BY <1>1, <1>2, <2>1, LayoutOf, SMTT(30)
    <2>3. f.original[m] \in 0 .. 255
        BY <2>2, LayoutOf, ElementOfSeq
    <2>4. s + 9 + 1 = m
        BY <1>1, <2>1
    <2>5. Format!Octet(f.original, s + 9) \in 0 .. 255
        BY <2>3, <2>4 DEF Format!Octet
    <2> QED BY ONLY <2>5, TableLength, table0 = Format!Table(Format!Octet(f.original, s + 9))
<1>5. b.places[1] < Len(f.original) /\ 1 \in DOMAIN b.places
    <2>1. PICK last : last = Len(b.places)
        OBVIOUS
    <2>2. /\ last \in Nat \ {0} /\ DOMAIN b.places = 1 .. last
          /\ \A q \in 1 .. last : b.places[q] < Len(f.original)
        BY <2>1, PiecesOf
    <2>3. 1 \in 1 .. last
        BY <2>2
    <2> QED BY <2>2, <2>3, Zenon
<1>6. s + 10 + table0 < Len(f.original)
    <2>1. Len(f.original) \in Nat
        BY LayoutOf
    <2> QED BY <1>1, <1>2, <1>4, <1>5, <2>1, SMTT(30)
<1> QED BY <1>1, <1>2, <1>3, <1>4, <1>5, <1>6 DEF Format!CodedImage

\* Numbers of two bytes.
LEMMA WordIs ==
    ASSUME NEW f, Reading(f), Input, NEW p \in Nat, p + 1 < Len(f.bytes)
    PROVE  ShortAt(p) = Format!Word(f.original, p)
<1>1. PICK n \in Nat : n = Len(f.bytes)
    BY LayoutOf
<1>2. p < Len(f.bytes) /\ p + 1 \in Nat
    BY <1>1
<1> QED BY <1>2, ByteIs DEF ShortAt, Format!Word

\* What is read of a description that is in the file.
LEMMA DescribedIs ==
    ASSUME NEW f, Reading(f), Input, NEW i \in DOMAIN f.parts, NEW b, b = f.parts[i],
           b.kind \in {"empty", "drawn"}, inputPos = b.start + 1,
           NEW s, s = b.start,
           NEW table0, table0 = Format!Table(Format!Octet(f.original, s + 9)),
           s + 10 + table0 < Len(f.bytes)
    PROVE  /\ Described =
                 [wdt |-> Format!Width(f.original, b), hgt |-> Format!Height(f.original, b),
                  interlaced |-> Format!Interlaced(f.original, b),
                  dac |-> IF Format!OwnTable(f.original, b) THEN s + 10 ELSE 0,
                  colours |-> IF Format!OwnTable(f.original, b)
                              THEN TableColours(Format!Octet(f.original, s + 9)) ELSE 0,
                  size |-> Format!Size(f.original, b)]
           /\ TableBytes(ByteAt(inputPos + 8)) = table0
<1>1. /\ s \in Nat /\ table0 \in Nat
      /\ Format!Octet(f.original, s + 10 + table0) = Format!Size(f.original, b)
    BY ImageFacts
<1>2. PICK n \in Nat : n = Len(f.bytes)
    BY LayoutOf
<1>3. s + 6 < Len(f.bytes) /\ s + 8 < Len(f.bytes) /\ s + 9 < Len(f.bytes)
    BY ONLY <1>1, <1>2, n \in Nat, s + 10 + table0 < Len(f.bytes)
<1>4. /\ inputPos + 4 = s + 5 /\ inputPos + 6 = s + 7 /\ inputPos + 8 = s + 9
      /\ inputPos + 9 = s + 10 /\ s + 5 + 1 = s + 6 /\ s + 7 + 1 = s + 8
      /\ s + 5 \in Nat /\ s + 7 \in Nat /\ s + 9 \in Nat /\ s + 10 + table0 \in Nat
    <2>1. inputPos = s + 1
        OBVIOUS
    <2> QED BY ONLY <1>1, <2>1
<1>5. ShortAt(s + 5) = Format!Width(f.original, b)
    <2>1. s + 5 \in Nat /\ s + 5 + 1 < Len(f.bytes)
        BY <1>3, <1>4
    <2> QED BY <2>1, WordIs DEF Format!Width
<1>6. ShortAt(s + 7) = Format!Height(f.original, b)
    <2>1. s + 7 \in Nat /\ s + 7 + 1 < Len(f.bytes)
        BY <1>3, <1>4
    <2> QED BY <2>1, WordIs DEF Format!Height
<1>7. ByteAt(s + 9) = Format!Octet(f.original, s + 9) /\ ByteAt(s + 9) \in 0 .. 255
    <2>1. s + 9 \in Nat /\ s + 9 < Len(f.bytes)
        BY ONLY <1>3, <1>4
    <2> QED BY ONLY Reading(f), Input, <2>1, ByteIs, ZenonT(30)
<1>8. TableBytes(ByteAt(s + 9)) = table0
    <2>1. Format!Table(ByteAt(s + 9)) = TableBytes(ByteAt(s + 9))
        BY ONLY <1>7, TableLength
    <2> QED BY <1>7, <2>1
<1>9. ByteAt(s + 10 + table0) = Format!Size(f.original, b)
    BY <1>1, <1>4, ByteIs
<1>10. PICK flags : flags = ByteAt(s + 9) /\ flags = Format!Octet(f.original, s + 9)
    BY <1>7
<1>11. Described =
          [wdt |-> ShortAt(s + 5), hgt |-> ShortAt(s + 7),
           interlaced |-> (flags \div 64) % 2 = 1,
           dac |-> IF HasTable(flags) THEN s + 10 ELSE 0,
           colours |-> IF HasTable(flags) THEN TableColours(flags) ELSE 0,
           size |-> ByteAt(s + 10 + TableBytes(flags))]
    BY <1>4, <1>10, ZenonT(30) DEF Described
<1>12. /\ Format!Interlaced(f.original, b) = ((flags \div 64) % 2 = 1)
       /\ Format!OwnTable(f.original, b) = HasTable(flags)
    BY <1>10, Zenon DEF Format!Interlaced, Format!OwnTable, HasTable
<1>13. TableBytes(flags) = table0
    BY <1>8, <1>10
<1> QED BY <1>4, <1>5, <1>6, <1>8, <1>9, <1>10, <1>11, <1>12, <1>13, Zenon

\* The codes of an image, and where each comes in the data.
LEMMA CodesOf ==
    ASSUME NEW f, Reading(f), NEW i \in DOMAIN f.parts, NEW b, b = f.parts[i],
           b.kind \in {"empty", "drawn"},
           NEW size, size = Format!Size(f.original, b),
           NEW last, last = Len(b.codes)
    PROVE  /\ last \in Nat \ {0} /\ DOMAIN b.codes = 1 .. last
           /\ \A k \in 1 .. last :
                 /\ b.codes[k] \in Format!Code
                 /\ b.codes[k].since < k
                 /\ Format!WidthFor(b.codes[k].width, size,
                                    Format!Entries(size, b.codes[k].since))
                 /\ Format!LastByte(b.codes[k]) <= Len(b.data)
                 /\ b.codes[k].code = Format!Bits(b.data, b.codes[k])
           /\ \A k \in 1 .. last - 1 :
                 /\ 8 * b.codes[k + 1].byte + b.codes[k + 1].bit
                       = 8 * b.codes[k].byte + b.codes[k].bit + b.codes[k].width
                 /\ b.codes[k].code # Format!Ending(size)
                 /\ b.codes[k].code = Format!Clear(size)
                       => /\ b.codes[k + 1].since = 0
                          /\ b.codes[k + 1].from = b.codes[k].from
                 /\ b.codes[k].code # Format!Clear(size)
                       => /\ b.codes[k + 1].since = b.codes[k].since + 1
                          /\ Format!Stands(b, size, k)
           /\ b.codes[1].byte = 1 /\ b.codes[1].bit = 0
           /\ b.codes[1].from = 0 /\ b.codes[1].since = 0
           /\ b.codes[last].code = Format!Ending(size)
           /\ b.codes[last].from = Len(b.pixels)
           /\ Format!LastByte(b.codes[last]) = Len(b.data)
<1>1. Format!Coded(b, size) /\ b.codes \in Seq(Format!Code)
    BY ImagePart, PartType DEF Format!CodedImage
<1>2. Len(b.codes) \in Nat /\ DOMAIN b.codes = 1 .. Len(b.codes) /\ Len(b.codes) > 0
    BY <1>1, SMTT(30) DEF Format!Coded
<1>3. last \in Nat \ {0} /\ DOMAIN b.codes = 1 .. last
    BY <1>2
<1>4. \A k \in 1 .. last : b.codes[k] \in Format!Code
    BY <1>1, <1>3, ElementOfSeq
<1>5. /\ \A k \in 1 .. last :
            /\ b.codes[k].since < k
            /\ Format!WidthFor(b.codes[k].width, size,
                                    Format!Entries(size, b.codes[k].since))
            /\ Format!LastByte(b.codes[k]) <= Len(b.data)
            /\ b.codes[k].code = Format!Bits(b.data, b.codes[k])
      /\ \A k \in 1 .. last - 1 :
                 /\ 8 * b.codes[k + 1].byte + b.codes[k + 1].bit
                       = 8 * b.codes[k].byte + b.codes[k].bit + b.codes[k].width
                 /\ b.codes[k].code # Format!Ending(size)
                 /\ b.codes[k].code = Format!Clear(size)
                       => /\ b.codes[k + 1].since = 0
                          /\ b.codes[k + 1].from = b.codes[k].from
                 /\ b.codes[k].code # Format!Clear(size)
                       => /\ b.codes[k + 1].since = b.codes[k].since + 1
                          /\ Format!Stands(b, size, k)
      /\ b.codes[1].byte = 1 /\ b.codes[1].bit = 0
      /\ b.codes[1].from = 0 /\ b.codes[1].since = 0
      /\ b.codes[last].code = Format!Ending(size)
      /\ b.codes[last].from = Len(b.pixels)
      /\ Format!LastByte(b.codes[last]) = Len(b.data)
    BY <1>1, last = Len(b.codes), Zenon DEF Format!Coded
<1> QED BY ONLY <1>3, <1>4, <1>5, Zenon

\* Before a code that follows a clearing one, the table is empty and codes have
\* their first size.
LEMMA WidthFirst ==
    ASSUME NEW size \in 2 .. 8, NEW width,
           Format!WidthFor(width, size, 0)
    PROVE  width = size + 1
<1>1. MaxBits \in 3 .. 12
    BY GifAssumption DEF GifAssumption
<1>2. Format!Widest(size) \in 3 .. 12
    BY <1>1 DEF Format!Widest
<1>3. width \in size + 1 .. Format!Widest(size)
      /\ (width > size + 1 => Two(width - 1) <= Two(size) + 2 + 0)
    BY Zenon DEF Format!WidthFor, Format!FirstEntry
<1>4. ASSUME width > size + 1 PROVE FALSE
    <2>1. PICK w \in 3 .. 11 : w = width - 1 /\ w > size
        BY <1>2, <1>3, <1>4
    <2>2. Two(w) <= Two(size) + 2
        <3>1. size \in 0 .. 12
            OBVIOUS
        <3>2. Two(size) \in Nat
            BY ONLY <3>1, TwoType
        <3> QED BY <1>3, <1>4, <2>1, <3>2
    <2> QED BY <2>1, <2>2, TwoValue
<1> QED BY <1>2, <1>3, <1>4

\* The dictionary is empty until the second code behind a clear.
LEMMA EntriesFirst ==
    ASSUME NEW size \in 2 .. 8
    PROVE  Format!Entries(size, 0) = 0 /\ Format!Entries(size, 1) = 0
    BY DEF Format!Entries

\* What is left as it was, of an image that is not taken.
LEMMA ImageSame ==
    ASSUME ReadImage
    PROVE  /\ gif' = gif /\ memory' = memory /\ UNCHANGED <<transparent, transIndex>>
           /\ FileColours' = FileColours
<1>1. UNCHANGED <<source, control>>
    BY DEF ReadImage
<1> QED BY <1>1 DEF source, control, FileColours, HasTable, TableColours,
                    global_flags, ByteAt, BytesRead, filesize, mem_alloc_size

\* An image begins with its first code, and nothing of its data read.
LEMMA ImageBegun ==
    ASSUME NEW f, Reading(f), Input, NEW i \in DOMAIN f.parts, NEW b, b = f.parts[i],
           b.kind \in {"empty", "drawn"}, Hides(b), numcolors = FileColours,
           ReadImage, at' = "code", inputPos' = b.places[1],
           b.places[1] <= Len(f.bytes),
           image' = [wdt |-> Format!Width(f.original, b), hgt |-> Format!Height(f.original, b),
                     interlaced |-> Format!Interlaced(f.original, b),
                     dac |-> IF Format!OwnTable(f.original, b) THEN b.start + 10 ELSE 0,
                     colours |-> IF Format!OwnTable(f.original, b)
                                 THEN TableColours(Format!Octet(f.original, b.start + 9))
                                 ELSE 0,
                     size |-> Format!Size(f.original, b)]
    PROVE  InImage(f, b, 1, 1)'
<1> DEFINE size == Format!Size(f.original, b)
<1>1. size \in 2 .. 8 /\ b.start \in Nat /\ 1 \in DOMAIN b.places
      /\ Format!Data(f.original, b)
      /\ Format!Width(f.original, b) > 0 /\ Format!Height(f.original, b) > 0
    BY ImageFacts
<1>2. PICK last : last = Len(b.codes)
    OBVIOUS
<1>3. /\ last \in Nat \ {0} /\ DOMAIN b.codes = 1 .. last
      /\ b.codes[1].byte = 1 /\ b.codes[1].bit = 0
      /\ b.codes[1].from = 0 /\ b.codes[1].since = 0
      /\ \A k \in 1 .. last :
            Format!WidthFor(b.codes[k].width, size, Format!Entries(size, b.codes[k].since))
    BY <1>2, CodesOf
<1>4. 1 \in DOMAIN b.codes
    BY <1>3
<1>5. b.codes[1].width = size + 1
    <2>1. Format!Entries(size, b.codes[1].since) = 0
        BY <1>1, <1>3, EntriesFirst
    <2>2. Format!WidthFor(b.codes[1].width, size, 0)
        BY <1>3, <1>4, <2>1
    <2> HIDE DEF size
    <2> QED BY <1>1, <2>2, WidthFirst
<1>6. /\ image' = Described /\ phase' = "first"
      /\ numcolors' = IF image'.dac > 0 THEN Rounded(image'.colours) ELSE numcolors
      /\ curr_size' = image'.size + 1 /\ table' = <<>>
      /\ navail_bytes' = 0 /\ nbits_left' = 0
      /\ line' = <<>> /\ rows' = <<>> /\ rowcount' = 0
    BY DEF ReadImage, Return
<1>7. Hides(b)' /\ UNCHANGED <<transparent, transIndex>> /\ FileColours' = FileColours
    BY ImageSame DEF Hides
<1>8. ImageIs(f, b)'
    <2>1. Format!OwnTable(f.original, b)
             => /\ image'.dac > 0
                /\ image'.colours = TableColours(Format!Octet(f.original, b.start + 9))
        BY <1>1
    <2>2. ~Format!OwnTable(f.original, b) => ~(image'.dac > 0)
        OBVIOUS
    <2>3. numcolors' = IF Format!OwnTable(f.original, b)
                       THEN Rounded(TableColours(Format!Octet(f.original, b.start + 9)))
                       ELSE FileColours'
        BY <1>6, <1>7, <2>1, <2>2, Zenon
    <2> QED BY <2>3, Zenon DEF ImageIs, TableColours
<1>9. ReaderIs(f, b, 1, 1)'
    <2>1. b.before[1] = 0
        BY <1>1 DEF Format!Data
    <2>2. TakenOf(b, 1)' = 0
        BY <1>6, <2>1 DEF TakenOf
    <2>3. b.places[1] \in Nat
        BY <1>1, PartType, ElementOfSeq
    <2> QED BY <1>3, <1>6, <2>2, <2>3 DEF ReaderIs
<1>10. TableIs(b, 1)'
    <2>1. image'.size = size
        OBVIOUS
    <2>2. Format!Entries(image'.size, b.codes[1].since) = 0
        BY <1>1, <1>3, <2>1, EntriesFirst
    <2>3. Len(table') = 0
        BY <1>6
    <2> QED BY <1>3, <1>5, <1>6, <2>1, <2>2, <2>3 DEF TableIs
<1>11. LinesAre(f, b, 1)'
    <2>1. image'.wdt \in Nat /\ image'.hgt \in Nat /\ image'.hgt > 0
        BY <1>1, <1>6, DescribedType DEF ReadImage, Return, ImageRecord
    <2>2. rowcount' * image'.wdt = 0 /\ Len(line') = 0
        BY <1>6, <2>1
    <2>3. Spells(b, line', 0, 0)
        BY <1>6 DEF Spells
    <2>4. RowsAre(f, b)'
        BY <1>6 DEF RowsAre
    <2> QED BY <1>3, <1>6, <2>1, <2>2, <2>3, <2>4 DEF LinesAre
<1> QED BY <1>1, <1>4, <1>7, <1>8, <1>9, <1>10, <1>11 DEF InImage

\* The description of an image, in the file or with its end behind it.
LEMMA TrackImage ==
    ASSUME NEW f, Reading(f), Input, Input', NEW i \in DOMAIN f.parts,
           AtBlock(f, f.parts[i]), ReadImage
    PROVE  FrameTrack'
<1>1. PICK b : b = f.parts[i]
    OBVIOUS
<1>2. /\ Hides(b) /\ numcolors = FileColours /\ inputPos = b.start + 1
      /\ b.start < Len(f.bytes) /\ b.kind \in {"empty", "drawn"}
    BY <1>1 DEF AtBlock, ReadImage
<1>3. gif' = gif /\ memory' = memory
    BY ImageSame
<1>4. PICK n \in Nat : n = Len(f.bytes) /\ n = filesize /\ filesize' = n
    BY <1>3, LayoutOf, ReadingStep
<1>5. PICK s, table0 : s = b.start /\ table0 = Format!Table(Format!Octet(f.original, s + 9))
    OBVIOUS
<1>6. /\ s \in Nat /\ s + 9 < Len(f.original) /\ table0 \in Nat
      /\ s + 10 + table0 < Len(f.original)
      /\ b.places[1] = s + 11 + table0 /\ 1 \in DOMAIN b.places
      /\ Format!Size(f.original, b) \in 2 .. 8
      /\ Format!Width(f.original, b) > 0 /\ Format!Height(f.original, b) > 0
    BY <1>1, <1>2, <1>5, ImageFacts
<1>7. gif = f /\ inputPos = s + 1 /\ s < n
    BY <1>2, <1>4, <1>5 DEF Reading
<1>8. CASE s + 10 + table0 < n
    <2>1. /\ Described =
               [wdt |-> Format!Width(f.original, b), hgt |-> Format!Height(f.original, b),
                interlaced |-> Format!Interlaced(f.original, b),
                dac |-> IF Format!OwnTable(f.original, b) THEN s + 10 ELSE 0,
                colours |-> IF Format!OwnTable(f.original, b)
                            THEN TableColours(Format!Octet(f.original, s + 9)) ELSE 0,
                size |-> Format!Size(f.original, b)]
          /\ TableBytes(ByteAt(inputPos + 8)) = table0
        <3>1. s + 10 + table0 < Len(f.bytes) /\ inputPos = b.start + 1
            BY <1>2, <1>4, <1>8
        <3> QED BY <1>1, <1>2, <1>5, <3>1, DescribedIs
    <2>2. /\ Described.wdt = Format!Width(f.original, b)
          /\ Described.hgt = Format!Height(f.original, b)
          /\ Described.size = Format!Size(f.original, b)
        BY <2>1
    <2>3. Described.size \in 2 .. 9
        BY <1>6, <2>2
    <2>4. Format!Width(f.original, b) # 0 /\ Format!Height(f.original, b) # 0
        <3>1. ASSUME NEW x, x > 0, x = 0 PROVE FALSE
            BY <3>1
        <3> QED BY <1>6, <3>1
    <2>5. ~NoPixels
        BY <2>2, <2>4 DEF NoPixels
    <2>6. CASE Return("nothing") /\ noMemory' = TRUE /\ UNCHANGED inputPos
        <3>1. inputPos' <= filesize'
            BY <1>4, <1>6, <1>7, <1>8, <2>6
        <3>2. Answered'
            BY <1>3, <2>6, <3>1 DEF Answered, Return
        <3> QED BY <3>2, ToAnswer
    <2>7. CASE /\ at' = "code" /\ image' = Described
               /\ inputPos' = inputPos + 10 + TableBytes(ByteAt(inputPos + 8))
        <3>1. inputPos' = b.places[1] /\ b.places[1] <= Len(f.bytes)
            <4>1. inputPos' = inputPos + 10 + table0
                BY <2>1, <2>7
            <4> QED BY ONLY <1>4, <1>6, <1>7, <1>8, <4>1
        <3>2. InImage(f, b, 1, 1)'
            BY <1>1, <1>2, <1>5, <2>1, <2>7, <3>1, ImageBegun
        <3>3. 1 \in DOMAIN b.codes
            BY <3>2 DEF InImage
        <3> QED BY <1>1, <1>3, <1>6, <2>7, <3>2, <3>3, ToImage
    <2> QED BY <2>3, <2>5, <2>6, <2>7 DEF ReadImage
<1>9. CASE ~(s + 10 + table0 < n)
    <2>1. ~gif.whole
        <3>1. PICK z \in Nat : z = s + 10 + table0
            BY <1>6
        <3>2. z < Len(f.original) /\ z >= Len(f.bytes)
            BY <1>4, <1>6, <1>9, <3>1
        <3> QED BY <3>2, CutOff
    <2>2. CASE Return("nothing") \/ Return("error")
        BY <1>3, <2>1, <2>2, CutAnswer
    <2>3. CASE /\ at' = "code" /\ navail_bytes' = 0 /\ nbits_left' = 0
               /\ inputPos' = inputPos + 10 + TableBytes(ByteAt(inputPos + 8))
        <3>1. PICK flags \in 0 .. 255 : flags = ByteAt(inputPos + 8)
            <4>1. inputPos + 8 \in Nat
                BY DEF Input
            <4>2. ByteAt(inputPos + 8) \in 0 .. 255
                BY <4>1, ByteIs
            <4> QED BY <4>2
        <3>2. TableBytes(flags) \in Nat /\ Format!Table(flags) = TableBytes(flags)
            BY TableLength, TableBytesType
        <3>3. inputPos' = s + 11 + TableBytes(flags)
            BY <1>6, <1>7, <2>3, <3>1, <3>2
        <3>4. inputPos' >= n
            <4>1. CASE s + 9 < n
                <5>1. s + 9 \in Nat /\ inputPos + 8 = s + 9 /\ s + 9 < Len(f.bytes)
                    BY <1>4, <1>6, <1>7, <4>1
                <5>2. flags = Format!Octet(f.original, s + 9)
                    BY <3>1, <5>1, ByteIs
                <5>3. TableBytes(flags) = table0
                    BY <1>5, <3>2, <5>2
                <5> QED BY ONLY <1>6, <1>9, <3>3, <5>3, n \in Nat
            <4>2. CASE ~(s + 9 < n)
                BY <1>6, <3>2, <3>3, <4>2
            <4> QED BY <4>1, <4>2
        <3>5. Lost'
            BY <1>3, <1>4, <2>1, <2>3, <3>4 DEF Lost
        <3> QED BY <1>3, <3>5, ToLost
    <2> QED BY <2>2, <2>3 DEF ReadImage
<1> QED BY <1>8, <1>9

\* Behind the cut, a description keeps the decoder there.
LEMMA LostImage ==
    ASSUME NEW f, Reading(f), Input, Lost, ReadImage
    PROVE  FrameTrack'
<1>1. ~gif.whole /\ inputPos > filesize /\ memory = 44 /\ gif' = gif
    BY ImageSame DEF Lost, ReadImage
<1>2. PICK n \in Nat, p \in Nat : n = Len(f.bytes) /\ n = filesize /\ p = inputPos /\ p > n
    BY <1>1, LayoutOf DEF Input
<1>3. Described.size = 44
    <2>1. PICK flags \in 0 .. 255 : flags = ByteAt(p + 8)
        BY <1>2, ByteType DEF Input
    <2>2. PICK t \in Nat : t = TableBytes(flags)
        BY TableBytesType
    <2>3. PICK z \in Nat : z = p + 9 + t
        BY <2>2
    <2>4. z >= Len(f.bytes)
        BY <1>2, <2>2, <2>3
    <2>5. ByteAt(z) = memory
        BY <2>4, ByteIs
    <2>6. Described.size = ByteAt(p + 9 + TableBytes(ByteAt(p + 8)))
        BY <1>2 DEF Described
    <2> QED BY <1>1, <2>1, <2>2, <2>3, <2>5, <2>6
<1>4. CASE Return("nothing") \/ Return("error")
    BY <1>1, <1>4, CutAnswer
<1> QED BY <1>3, <1>4 DEF ReadImage

(***************************************************************************)
(* The bits of an image's codes.                                           *)
(***************************************************************************)
\* The data, piece by piece.
LEMMA DataOf ==
    ASSUME NEW f, Reading(f), NEW i \in DOMAIN f.parts, NEW b, b = f.parts[i],
           b.kind \in {"empty", "drawn"}, NEW last, last = Len(b.places)
    PROVE  /\ b.before[1] = 0 /\ b.before[last] = Len(b.data)
           /\ \A q \in 1 .. last : b.before[q] \in Nat
           /\ \A q \in 1 .. last - 1 :
                 /\ b.before[q + 1] = b.before[q] + Format!Octet(f.original, b.places[q])
                 /\ \A m \in 1 .. Format!Octet(f.original, b.places[q]) :
                       b.data[b.before[q] + m] = Format!Octet(f.original, b.places[q] + m)
           /\ \A m \in 1 .. Len(b.data) : b.data[m] \in 0 .. 255
           /\ Len(b.data) \in Nat
<1>1. Format!Data(f.original, b)
    BY ImageFacts
<1>2. b.before \in Seq(Nat) /\ b.data \in Seq(0 .. 255)
    BY PartType, ZenonT(30)
<1>3. Len(b.before) = last
    BY <1>1, Zenon DEF Format!Data
<1>4. \A q \in 1 .. last : b.before[q] \in Nat
    BY <1>2, <1>3, ElementOfSeq
<1>5. \A m \in 1 .. Len(b.data) : b.data[m] \in 0 .. 255
    BY <1>2, ElementOfSeq
<1>6. Len(b.data) \in Nat
    BY <1>2
<1>7. /\ b.before[1] = 0 /\ b.before[last] = Len(b.data)
      /\ \A q \in 1 .. last - 1 :
            /\ b.before[q + 1] = b.before[q] + Format!Octet(f.original, b.places[q])
            /\ \A m \in 1 .. Format!Octet(f.original, b.places[q]) :
                  b.data[b.before[q] + m] = Format!Octet(f.original, b.places[q] + m)
    BY <1>1, last = Len(b.places), Zenon DEF Format!Data
<1> QED BY ONLY <1>4, <1>5, <1>6, <1>7, Zenon

\* The bytes of one piece.
LEMMA PieceData ==
    ASSUME NEW f, Reading(f), NEW i \in DOMAIN f.parts, NEW b, b = f.parts[i],
           b.kind \in {"empty", "drawn"}, NEW q \in 1 .. Len(b.places) - 1
    PROVE  /\ b.before[q + 1] = b.before[q] + Format!Octet(f.original, b.places[q])
           /\ \A m \in 1 .. Format!Octet(f.original, b.places[q]) :
                 b.data[b.before[q] + m] = Format!Octet(f.original, b.places[q] + m)
<1>1. Format!Data(f.original, b)
    BY ImageFacts
<1> QED BY ONLY <1>1, q \in 1 .. Len(b.places) - 1 DEF Format!Data

\* The code that comes: its place, and its size.
LEMMA CodeFacts ==
    ASSUME NEW f, Reading(f), NEW i \in DOMAIN f.parts, NEW b, b = f.parts[i],
           b.kind \in {"empty", "drawn"}, NEW k \in DOMAIN b.codes,
           NEW e, e = b.codes[k]
    PROVE  /\ e.byte \in Nat \ {0} /\ e.bit \in 0 .. 7 /\ e.width \in 3 .. 12
           /\ e.code \in Nat /\ e.from \in Nat /\ e.since \in Nat
           /\ Format!LastByte(e) <= Len(b.data) /\ e.code = Format!Bits(b.data, e)
<1>1. PICK size, last : size = Format!Size(f.original, b) /\ last = Len(b.codes)
    OBVIOUS
<1>2. /\ e \in Format!Code
      /\ Format!WidthFor(e.width, size, Format!Entries(size, e.since))
      /\ Format!LastByte(e) <= Len(b.data) /\ e.code = Format!Bits(b.data, e)
    <2>1. /\ DOMAIN b.codes = 1 .. last
          /\ \A j \in 1 .. last :
                 /\ b.codes[j] \in Format!Code
                 /\ Format!WidthFor(b.codes[j].width, size,
                                    Format!Entries(size, b.codes[j].since))
                 /\ Format!LastByte(b.codes[j]) <= Len(b.data)
                 /\ b.codes[j].code = Format!Bits(b.data, b.codes[j])
        BY <1>1, CodesOf
    <2> QED BY <2>1
<1>3. size \in 2 .. 8
    BY <1>1, ImageFacts
<1>4. MaxBits \in 3 .. 12
    BY GifAssumption DEF GifAssumption
<1>5. Format!Widest(size) \in 3 .. 12
    BY <1>3, <1>4 DEF Format!Widest
<1>6. e.width \in size + 1 .. Format!Widest(size)
    BY <1>2, Zenon DEF Format!WidthFor
<1>7. e.width \in 3 .. 12
    BY <1>3, <1>5, <1>6
<1> QED BY <1>2, <1>7 DEF Format!Code

\* Of the bits that were taken the next byte is above them.
LEMMA GatheredNext ==
    ASSUME NEW data \in Seq(0 .. 255), NEW e, e.byte \in Nat \ {0}, e.bit \in 0 .. 7,
           NEW t \in Nat, t + 1 <= Len(data),
           NEW n \in 0 .. 11, n = 8 * t - 8 * (e.byte - 1) - e.bit
    PROVE  Format!Gathered(data, e, t + 1)
              = Format!Gathered(data, e, t) + data[t + 1] * Two(n)
<1>a. PICK byte \in Nat \ {0}, bit \in 0 .. 7 : byte = e.byte /\ bit = e.bit
    OBVIOUS
<1>b. n = 8 * t - 8 * (byte - 1) - bit
    BY <1>a, Zenon
<1>1. \/ t + 1 = byte /\ bit = 0 /\ n = 0
      \/ t = byte /\ n = 8 - bit
      \/ t = byte + 1 /\ n = 16 - bit
    BY ONLY byte \in Nat \ {0}, bit \in 0 .. 7, t \in Nat, n \in 0 .. 11,
            <1>b
<1>2. PICK len \in Nat : len = Len(data)
    OBVIOUS
<1>3. ASSUME NEW m \in 1 .. len PROVE data[m] \in 0 .. 255
    BY ONLY <1>2, data \in Seq(0 .. 255), m \in 1 .. len, ElementOfSeq
<1>4. t + 1 \in 1 .. len
    BY ONLY <1>2, t \in Nat, t + 1 <= Len(data)
<1>5. PICK d \in 0 .. 255 : d = data[t + 1]
    BY ONLY <1>3, <1>4
<1>6. PICK power \in Nat : power = Two(n)
    <2>1. n \in 0 .. 12
        BY ONLY n \in 0 .. 11
    <2> QED BY ONLY <2>1, TwoType
<1>7. PICK more \in Nat : more = d * power
    BY ONLY d \in 0 .. 255, power \in Nat
<1>8. CASE t + 1 = byte /\ bit = 0 /\ n = 0
    <2>1. /\ ~(t >= byte) /\ ~(t > byte) /\ ~(t > byte + 1)
          /\ t + 1 >= byte /\ ~(t + 1 > byte) /\ ~(t + 1 > byte + 1)
        BY ONLY <1>8, t \in Nat, byte \in Nat \ {0}
    <2>2. Format!Gathered(data, e, t) = 0 + 0 + 0
        BY ONLY <2>1, <1>a, Zenon DEF Format!Gathered
    <2>3. Format!Gathered(data, e, t + 1) = d \div Two(0) + 0 + 0
        BY ONLY <1>5, <1>8, <2>1, <1>a, Zenon DEF Format!Gathered
    <2>4. Two(0) = 1
        BY TwoValue
    <2>5. power = 1
        BY ONLY <1>6, <1>8, <2>4, Zenon
    <2>6. more = d /\ d \div 1 + 0 + 0 = 0 + 0 + 0 + more
        BY ONLY <1>7, <2>5, d \in 0 .. 255
    <2> QED BY ONLY <1>5, <1>6, <1>7, <2>2, <2>3, <2>4, <2>6, Zenon
<1>9. CASE t = byte /\ n = 8 - bit
    <2>1. /\ t >= byte /\ ~(t > byte) /\ ~(t > byte + 1)
          /\ t + 1 >= byte /\ t + 1 > byte /\ ~(t + 1 > byte + 1)
        BY ONLY <1>9, t \in Nat, byte \in Nat \ {0}
    <2>2. PICK x : x = data[byte] \div Two(bit)
        OBVIOUS
    <2>3. x \in Int
        <3>1. byte \in 1 .. len
            BY ONLY <1>4, <1>9, byte \in Nat \ {0}, len \in Nat
        <3>2. PICK y \in 0 .. 255 : y = data[byte]
            BY ONLY <1>3, <3>1
        <3>3. bit \in 0 .. 12
            BY ONLY bit \in 0 .. 7
        <3>4. PICK z \in Nat : z = Two(bit) /\ z >= 1
            BY ONLY <3>3, TwoType
        <3>5. y \div z \in Int
            BY ONLY <3>4, y \in 0 .. 255, z \in Nat
        <3> QED BY ONLY <2>2, <3>2, <3>4, <3>5, Zenon
    <2>4. Format!Gathered(data, e, t) = x + 0 + 0
        BY ONLY <2>1, <2>2, <1>a, Zenon DEF Format!Gathered
    <2>5. Format!Gathered(data, e, t + 1) = x + more + 0
        BY ONLY <1>5, <1>6, <1>7, <1>9, <2>1, <2>2, <1>a, Zenon
           DEF Format!Gathered
    <2>6. x + more + 0 = x + 0 + 0 + more
        BY ONLY <2>3, more \in Nat
    <2> QED BY ONLY <1>5, <1>6, <1>7, <2>4, <2>5, <2>6, Zenon
<1>10. CASE t = byte + 1 /\ n = 16 - bit
    <2>1. /\ t >= byte /\ t > byte /\ ~(t > byte + 1)
          /\ t + 1 >= byte /\ t + 1 > byte /\ t + 1 > byte + 1 /\ byte + 2 = t + 1
        BY ONLY <1>10, t \in Nat, byte \in Nat \ {0}
    <2>2. PICK x, z : x = data[byte] \div Two(bit) /\ z = data[byte + 1] * Two(8 - bit)
        OBVIOUS
    <2>3. x \in Int /\ z \in Int
        <3>1. byte \in 1 .. len /\ byte + 1 \in 1 .. len
            BY ONLY <1>4, <1>10, byte \in Nat \ {0}, len \in Nat
        <3>2. PICK y \in 0 .. 255, w \in 0 .. 255 : y = data[byte] /\ w = data[byte + 1]
            BY ONLY <1>3, <3>1
        <3>3. bit \in 0 .. 12 /\ 8 - bit \in 0 .. 12
            BY ONLY bit \in 0 .. 7
        <3>4. PICK p \in Nat, r \in Nat : p = Two(bit) /\ p >= 1 /\ r = Two(8 - bit)
            BY ONLY <3>3, TwoType
        <3>5. y \div p \in Int /\ w * r \in Int
            BY ONLY <3>4, y \in 0 .. 255, p \in Nat, w \in 0 .. 255, r \in Nat
        <3> QED BY ONLY <2>2, <3>2, <3>4, <3>5, Zenon
    <2>4. Format!Gathered(data, e, t) = x + z + 0
        BY ONLY <2>1, <2>2, <1>a, Zenon DEF Format!Gathered
    <2>5. Format!Gathered(data, e, t + 1) = x + z + more
        BY ONLY <1>5, <1>6, <1>7, <1>10, <2>1, <2>2, <1>a, Zenon
           DEF Format!Gathered
    <2>6. x + z + more = x + z + 0 + more
        BY ONLY <2>3, more \in Nat
    <2> QED BY ONLY <1>5, <1>6, <1>7, <2>4, <2>5, <2>6, Zenon
<1> QED BY ONLY <1>1, <1>8, <1>9, <1>10, Zenon

\* As long as bits of the code are missing, so is a byte; when none is, the last
\* byte was taken.
LEMMA BytesOfCode ==
    ASSUME NEW e, e.byte \in Nat \ {0}, e.bit \in 0 .. 7, e.width \in 3 .. 12,
           NEW t \in Nat, NEW n \in Nat, n = 8 * t - 8 * (e.byte - 1) - e.bit
    PROVE  /\ Format!LastByte(e) \in Nat
           /\ n < e.width => t + 1 <= Format!LastByte(e)
           /\ n >= e.width /\ n <= e.width + 7 => t = Format!LastByte(e)
           /\ n <= 7 => \/ n = 0 /\ t + 1 = e.byte /\ e.bit = 0
                        \/ n > 0 /\ t = e.byte /\ e.bit = 8 - n
<1>a. PICK byte \in Nat \ {0}, bit \in 0 .. 7, width \in 3 .. 12 :
         byte = e.byte /\ bit = e.bit /\ width = e.width
    OBVIOUS
<1>c. PICK end : end = Format!LastByte(e)
    OBVIOUS
<1>b. n = 8 * t - 8 * (byte - 1) - bit
    BY <1>a, Zenon
<1>1. end = IF width <= 8 - bit THEN byte
            ELSE IF width <= 16 - bit THEN byte + 1 ELSE byte + 2
    BY ONLY <1>a, <1>c, Zenon DEF Format!LastByte
<1>2. /\ end \in Nat
      /\ n < width => t + 1 <= end
      /\ n >= width /\ n <= width + 7 => t = end
      /\ n <= 7 => \/ n = 0 /\ t + 1 = byte /\ bit = 0
                   \/ n > 0 /\ t = byte /\ bit = 8 - n
    BY ONLY <1>1, <1>b, byte \in Nat \ {0}, bit \in 0 .. 7, width \in 3 .. 12,
            t \in Nat, n \in Nat
<1> QED BY ONLY <1>a, <1>c, <1>2, Zenon

(***************************************************************************)
(* Numbers.                                                                *)
(***************************************************************************)
\* Of numbers there is a least one.
LEMMA LeastOf ==
    ASSUME NEW T, T \subseteq Nat, T # {}
    PROVE  \E x \in T : \A y \in T : x <= y
<1>1. PICK x \in T : \A y \in T : <<y, x>> \notin OpToRel(<, Nat)
    BY NatLessThanWellFounded, WFMin, Zenon
<1>2. ASSUME NEW y \in T PROVE ~(y < x)
    BY <1>1, Zenon DEF OpToRel
<1>3. ASSUME NEW y \in T PROVE x <= y
    BY <1>2, <1>3
<1> QED BY <1>3

\* What the last of them has and each one has of the next, all have.
LEMMA FromTheLast ==
    ASSUME NEW last \in Nat, NEW S, S \subseteq 1 .. last, last \in S,
           \A q \in 1 .. last - 1 : q + 1 \in S => q \in S
    PROVE  \A q \in 1 .. last : q \in S
<1> SUFFICES ASSUME NEW p \in 1 .. last, p \notin S PROVE FALSE
    OBVIOUS
<1> DEFINE T == {d \in 0 .. last - 1 : last - d \notin S}
<1>1. last - p \in T
    BY last - (last - p) = p
<1>2. PICK d \in T : \A y \in T : d <= y
    <2>1. T \subseteq Nat
        OBVIOUS
    <2> HIDE DEF T
    <2> QED BY <1>1, <2>1, LeastOf
<1>3. last - d \notin S /\ d \in 0 .. last - 1
    BY <1>2
<1>4. d # 0
    BY <1>3
<1>5. last - d \in 1 .. last - 1 /\ last - d + 1 = last - (d - 1)
    BY <1>3, <1>4
<1>6. last - d + 1 \notin S
    BY <1>3, <1>5
<1>7. d - 1 \in T
    BY <1>3, <1>4, <1>5, <1>6
<1>8. d <= d - 1
    BY <1>2, <1>7
<1> QED BY <1>3, <1>8

\* All pieces but the one behind the last byte begin in front of the end of the data.
LEMMA DataLeft ==
    ASSUME NEW f, Reading(f), NEW i \in DOMAIN f.parts, NEW b, b = f.parts[i],
           b.kind \in {"empty", "drawn"}, NEW last, last = Len(b.places)
    PROVE  /\ last \in Nat \ {0}
           /\ \A q \in 1 .. last : b.before[q] <= Len(b.data)
           /\ \A q \in 1 .. last - 1 : b.before[q] < Len(b.data)
<1>1. PICK n \in Nat : n = Len(b.data)
    BY DataOf
<1>2. /\ last \in Nat \ {0} /\ b.before[last] = n
      /\ \A q \in 1 .. last : b.before[q] \in Nat
      /\ \A q \in 1 .. last - 1 :
            b.before[q + 1] = b.before[q] + Format!Octet(f.original, b.places[q])
      /\ \A q \in 1 .. last - 1 : Format!Octet(f.original, b.places[q]) > 0
    <2>1. last \in Nat \ {0}
          /\ \A q \in 1 .. last - 1 : Format!Octet(f.original, b.places[q]) > 0
        BY PiecesOf
    <2>2. /\ b.before[last] = n /\ \A q \in 1 .. last : b.before[q] \in Nat
          /\ \A q \in 1 .. last - 1 :
                b.before[q + 1] = b.before[q] + Format!Octet(f.original, b.places[q])
        <3>1. /\ b.before[last] = Len(b.data) /\ \A q \in 1 .. last : b.before[q] \in Nat
              /\ \A q \in 1 .. last - 1 :
                 /\ b.before[q + 1] = b.before[q] + Format!Octet(f.original, b.places[q])
                 /\ \A m \in 1 .. Format!Octet(f.original, b.places[q]) :
                       b.data[b.before[q] + m] = Format!Octet(f.original, b.places[q] + m)
            BY ONLY Reading(f), i \in DOMAIN f.parts, b = f.parts[i],
                    b.kind \in {"empty", "drawn"}, last = Len(b.places), DataOf, SMTT(60)
        <3> QED BY ONLY <1>1, <3>1, Zenon
    <2> QED BY ONLY <2>1, <2>2
<1>3. ASSUME NEW q \in 1 .. last - 1 PROVE b.before[q] < b.before[q + 1]
    <2>1. q \in 1 .. last /\ q + 1 \in 1 .. last
        BY <1>2
    <2>2. PICK x, y, z : /\ x \in Nat /\ x = b.before[q]
                         /\ y \in Nat /\ y = b.before[q + 1]
                         /\ z = Format!Octet(f.original, b.places[q])
        BY <1>2, <2>1
    <2>3. y = x + z /\ z > 0
        BY <1>2, <2>2, Zenon
    <2>4. b.places[q] \in Nat /\ b.places[q] < Len(f.original)
        BY <2>1, PiecesOf
    <2>5. z \in 0 .. 255
        <3>1. b.places[q] + 1 \in 1 .. Len(f.original)
            BY <2>4, LayoutOf
        <3>2. f.original \in Seq(0 .. 255)
            BY LayoutOf
        <3>3. f.original[b.places[q] + 1] \in 0 .. 255
            BY ONLY <3>1, <3>2, ElementOfSeq
        <3> QED BY <2>2, <3>3 DEF Format!Octet
    <2> QED BY ONLY <2>2, <2>3, <2>5
<1>4. \A q \in 1 .. last : b.before[q] <= n
    <2> DEFINE S == {q \in 1 .. last : b.before[q] <= n}
    <2>1. last \in S
        BY <1>2
    <2>2. ASSUME NEW q \in 1 .. last - 1, q + 1 \in S PROVE q \in S
        <3>1. q \in 1 .. last /\ q + 1 \in 1 .. last
            BY <1>2
        <3> QED BY <1>2, <1>3, <2>2, <3>1
    <2>3. \A q \in 1 .. last : q \in S
        <3> HIDE DEF S
        <3>1. S \subseteq 1 .. last
            BY DEF S
        <3> QED BY <1>2, <2>1, <2>2, <3>1, FromTheLast
    <2> QED BY <2>3
<1>5. ASSUME NEW q \in 1 .. last - 1 PROVE b.before[q] < n
    <2>1. q \in 1 .. last /\ q + 1 \in 1 .. last
        BY <1>2
    <2> QED BY <1>2, <1>3, <1>4, <2>1
<1> QED BY <1>1, <1>2, <1>4, <1>5

(***************************************************************************)
(* Bits and bytes.                                                         *)
(***************************************************************************)
\* Steps that leave the file, and what was decoded of it, alone.
LEMMA HidesSame ==
    ASSUME NEW f, NEW b, UNCHANGED <<source, control, picture>>
    PROVE  /\ Hides(b) => Hides(b)'
           /\ ImageIs(f, b) => ImageIs(f, b)'
           /\ FileColours' = FileColours /\ gif' = gif /\ filesize' = filesize
<1>1. FileColours' = FileColours
    BY DEF source, FileColours, HasTable, TableColours, global_flags, ByteAt, BytesRead,
           filesize, mem_alloc_size
<1> QED BY <1>1 DEF Hides, ImageIs, source, control, picture, filesize

\* The dictionary stands where its strings and codes do not change.
LEMMA TableKept ==
    ASSUME NEW b, NEW k, TableIs(b, k), UNCHANGED <<image, codes, phase>>
    PROVE  TableIs(b, k)'
    BY DEF TableIs, TableRoom, StringOf, newcodes, clear, codes

\* The lines stand where the line and the rows do not change.
LEMMA LinesKept ==
    ASSUME NEW f, NEW b, NEW k, LinesAre(f, b, k), UNCHANGED <<image, lines>>,
           at # "lines", at' # "lines"
    PROVE  LinesAre(f, b, k)'
    BY DEF LinesAre, RowsAre, Low, lines

\* Where the reader is in the data.
LEMMA TakenType ==
    ASSUME NEW f, Reading(f), NEW i \in DOMAIN f.parts, NEW b, b = f.parts[i],
           b.kind \in {"empty", "drawn"}, NEW k, NEW q \in DOMAIN b.places,
           ReaderIs(f, b, k, q)
    PROVE  /\ q \in 1 .. Len(b.places) /\ TakenOf(b, q) \in Nat /\ navail_bytes \in Nat
           /\ b.before[q] = TakenOf(b, q) + navail_bytes /\ b.before[q] \in Nat
           /\ q = 1 => navail_bytes = 0
<1>0. PICK last, t : last = Len(b.places) /\ t = TakenOf(b, q)
    OBVIOUS
<1>1. last \in Nat \ {0} /\ DOMAIN b.places = 1 .. last
    BY <1>0, PiecesOf
<1>2. q \in 1 .. last
    BY <1>1
<1>3. b.before[1] = 0 /\ \A p \in 1 .. last : b.before[p] \in Nat
    BY <1>0, DataOf
<1>4. PICK n \in Nat : n = b.before[q]
    BY <1>2, <1>3
<1>5. PICK navail : navail = navail_bytes
    OBVIOUS
<1>6. t = n - navail
    BY <1>0, <1>4, <1>5 DEF TakenOf
<1>7. CASE q = 1
    <2>1. navail \in 0 .. 0
        BY <1>5, <1>7 DEF ReaderIs
    <2>2. navail = 0
        BY ONLY <1>7, <2>1
    <2>3. t \in Nat /\ n = t + navail
        BY ONLY <1>6, <2>2, n \in Nat
    <2> QED BY ONLY <1>0, <1>1, <1>2, <1>4, <1>5, <2>2, <2>3, n \in Nat, 0 \in Nat
<1>8. CASE q # 1
    <2>1. q - 1 \in 1 .. last
        BY ONLY <1>1, <1>2, <1>8
    <2>2. PICK m \in Nat : m = b.before[q - 1]
        BY <1>3, <2>1
    <2>3. navail \in 0 .. n - m
        BY <1>4, <1>5, <1>8, <2>2, Zenon DEF ReaderIs
    <2>4. t \in Nat /\ navail \in Nat /\ n = t + navail
        BY ONLY <1>6, <2>3, n \in Nat, m \in Nat
    <2> QED BY ONLY <1>0, <1>1, <1>2, <1>4, <1>5, <1>8, <2>4, n \in Nat
<1> QED BY <1>7, <1>8

\* Bytes that were not taken are of the piece in front.
LEMMA PieceInFront ==
    ASSUME NEW f, Reading(f), NEW i \in DOMAIN f.parts, NEW b, b = f.parts[i],
           b.kind \in {"empty", "drawn"}, NEW k, NEW q \in DOMAIN b.places,
           ReaderIs(f, b, k, q), navail_bytes # 0
    PROVE  /\ q \in 2 .. Len(b.places) /\ b.before[q - 1] \in Nat
           /\ b.before[q - 1] <= TakenOf(b, q)
<1>0. PICK last, t : last = Len(b.places) /\ t = TakenOf(b, q)
    OBVIOUS
<1>1. last \in Nat \ {0} /\ DOMAIN b.places = 1 .. last
    BY <1>0, PiecesOf
<1>2. q \in 1 .. last /\ t \in Nat /\ q # 1
    <2>1. q = 1 => navail_bytes = 0
        BY TakenType
    <2>2. TakenOf(b, q) \in Nat
        BY TakenType
    <2> QED BY <1>0, <1>1, <2>1, <2>2
<1>3. q \in 2 .. last /\ q - 1 \in 1 .. last
    BY ONLY <1>1, <1>2
<1>4. \A p \in 1 .. last : b.before[p] \in Nat
    BY <1>0, DataOf
<1>5. PICK n \in Nat, m \in Nat : n = b.before[q] /\ m = b.before[q - 1]
    BY <1>2, <1>3, <1>4
<1>6. PICK navail : navail = navail_bytes
    OBVIOUS
<1>7. t = n - navail
    BY <1>0, <1>5, <1>6 DEF TakenOf
<1>8. navail \in 0 .. n - m
    BY <1>2, <1>5, <1>6, Zenon DEF ReaderIs
<1>9. m <= t
    BY ONLY <1>2, <1>7, <1>8, n \in Nat, m \in Nat
<1> QED BY <1>0, <1>3, <1>5, <1>9

\* A code starts with the bits of its first byte, if that was begun.
LEMMA TrackStart ==
    ASSUME NEW f, Reading(f), Input, Reader, AtHand,
           NEW i \in DOMAIN f.parts, NEW b, b = f.parts[i],
           NEW k, NEW q, InImage(f, b, k, q), StartCode
    PROVE  FrameTrack'
<1>1. /\ b.kind \in {"empty", "drawn"} /\ k \in DOMAIN b.codes /\ q \in DOMAIN b.places
      /\ Hides(b) /\ ImageIs(f, b) /\ ReaderIs(f, b, k, q) /\ TableIs(b, k)
      /\ LinesAre(f, b, k)
    BY DEF InImage
<1>2. PICK e, t : e = b.codes[k] /\ t = TakenOf(b, q)
    OBVIOUS
<1>3. PICK byte \in Nat \ {0}, bit \in 0 .. 7, width \in 3 .. 12 :
         byte = e.byte /\ bit = e.bit /\ width = e.width
    BY <1>1, <1>2, CodeFacts
<1>4. t \in Nat
    BY <1>1, <1>2, TakenType
<1>5. PICK n \in 0 .. 7 : n = nbits_left
    BY DEF Reader, StartCode
<1>6. n = 8 * t - 8 * (byte - 1) - bit
    BY <1>1, <1>2, <1>3, <1>5 DEF ReaderIs
<1>7. \/ n = 0 /\ t + 1 = byte /\ bit = 0
      \/ n > 0 /\ t = byte /\ bit = 8 - n
    <2>1. n \in Nat /\ n <= 7
        OBVIOUS
    <2>2. e.byte \in Nat \ {0} /\ e.bit \in 0 .. 7 /\ e.width \in 3 .. 12
        BY <1>3
    <2>3. n = 8 * t - 8 * (e.byte - 1) - e.bit
        BY <1>3, <1>6, Zenon
    <2>4. \/ n = 0 /\ t + 1 = e.byte /\ e.bit = 0
          \/ n > 0 /\ t = e.byte /\ e.bit = 8 - n
        BY ONLY <1>4, <2>1, <2>2, <2>3, BytesOfCode, ZenonT(30)
    <2> QED BY ONLY <1>3, <2>4, Zenon
<1>8. b1 \in 0 .. 255
    BY DEF Reader, AtHand
<1>9. /\ at = "code" /\ at' = "bits" /\ ret' = b1 \div Two(8 - n)
      /\ UNCHANGED <<source, control, picture, codes, phase, lines>>
      /\ UNCHANGED <<inputPos, navail_bytes, nbits_left, b1>>
    BY <1>5 DEF StartCode, BitsLeft, picture
<1>10. ret' = Format!Gathered(b.data, e, t)
    <2>1. CASE n = 0 /\ t + 1 = byte /\ bit = 0
        <3>1. ~(t >= byte) /\ ~(t > byte) /\ ~(t > byte + 1)
            BY ONLY <2>1, <1>4, byte \in Nat \ {0}
        <3>2. Format!Gathered(b.data, e, t) = 0 + 0 + 0
            BY ONLY <3>1, <1>3, Zenon DEF Format!Gathered
        <3>3. Two(8 - n) = 256
            <4>1. 8 - n = 8
                BY <2>1
            <4> QED BY ONLY <4>1, TwoValue
        <3>4. b1 \div 256 = 0 + 0 + 0
            BY ONLY <1>8
        <3> QED BY ONLY <1>9, <3>2, <3>3, <3>4, Zenon
    <2>2. CASE n > 0 /\ t = byte /\ bit = 8 - n
        <3>1. t >= byte /\ ~(t > byte) /\ ~(t > byte + 1)
            BY ONLY <2>2, <1>4, byte \in Nat \ {0}
        <3>2. Format!Gathered(b.data, e, t) = b.data[byte] \div Two(bit) + 0 + 0
            BY ONLY <3>1, <1>3, Zenon DEF Format!Gathered
        <3>3. t > 0
            BY ONLY <2>2, <1>4, byte \in Nat \ {0}
        <3>4. b1 = b.data[byte]
            BY <1>1, <1>2, <2>2, <3>3, Zenon DEF ReaderIs
        <3>5. PICK x : x = b1 \div Two(bit)
            OBVIOUS
        <3>6. x \in Int
            <4>1. bit \in 0 .. 12
                OBVIOUS
            <4>2. PICK p \in Nat : p = Two(bit) /\ p >= 1
                BY ONLY <4>1, TwoType
            <4> QED BY ONLY <1>8, <3>5, <4>2, p \in Nat
        <3>7. x = x + 0 + 0
            BY ONLY <3>6
        <3>8. ret' = x
            BY ONLY <1>9, <2>2, <3>5, Zenon
        <3> QED BY ONLY <3>2, <3>4, <3>5, <3>7, <3>8, Zenon
    <2> QED BY <1>7, <2>1, <2>2
<1>11. ReaderIs(f, b, k, q)'
    <2>1. TakenOf(b, q)' = t
        BY <1>2, <1>9 DEF TakenOf
    <2>2. Format!Gathered(b.data, e, t) = ret'
        BY <1>10
    <2> QED BY <1>1, <1>2, <1>9, <2>1, <2>2 DEF ReaderIs
<1>12. InImage(f, b, k, q)'
    <2>1. Hides(b)' /\ ImageIs(f, b)'
        BY <1>1, <1>9, HidesSame
    <2>2. image' = image
        BY <1>9 DEF picture
    <2>3. TableIs(b, k)'
        BY <1>1, <1>9, <2>2, TableKept
    <2>4. LinesAre(f, b, k)'
        BY <1>1, <1>9, <2>2, LinesKept
    <2> QED BY <1>1, <1>11, <2>1, <2>3, <2>4 DEF InImage
<1>13. gif' = gif
    BY <1>9 DEF source
<1> QED BY <1>1, <1>9, <1>12, <1>13, ToImage

\* Behind the cut, a code is begun with no piece to take it from.
LEMMA LostStart ==
    ASSUME NEW f, Reading(f), Lost, StartCode
    PROVE  FrameTrack'
<1>1. UNCHANGED <<gif, inputPos, navail_bytes, nbits_left>> /\ at' = "bits" /\ at = "code"
    BY DEF StartCode, source
<1>2. checked'
    <2>1. navail_bytes = 0
        BY <1>1 DEF Lost
    <2>2. WatchesBlock
        BY <2>1 DEF WatchesBlock
    <2>3. checked' = WatchesBlock
        BY Zenon DEF StartCode
    <2> QED BY <2>2, <2>3, Zenon
<1>3. filesize' = filesize
    BY <1>1 DEF filesize
<1>4. Lost'
    BY <1>1, <1>2, <1>3 DEF Lost
<1> QED BY <1>1, <1>4, ToLost

\* A byte of the data is taken.
LEMMA ByteTaken ==
    ASSUME NEW f, Reading(f), Input, Reader, NEW i \in DOMAIN f.parts, NEW b, b = f.parts[i],
           NEW k, NEW q, InImage(f, b, k, q), FetchByte,
           NEW p \in Nat, NEW n \in Nat \ {0}, TakeByte(p, n),
           NEW next \in DOMAIN b.places, next > 1, p + n = b.places[next],
           b.places[next] <= Len(f.bytes), b.before[next] \in Nat,
           b.before[next - 1] \in Nat, n <= b.before[next] - b.before[next - 1],
           TakenOf(b, q) = b.before[next] - n,
           ByteAt(p) = b.data[TakenOf(b, q) + 1]
    PROVE  FrameTrack'
<1>1. /\ b.kind \in {"empty", "drawn"} /\ k \in DOMAIN b.codes /\ q \in DOMAIN b.places
      /\ Hides(b) /\ ImageIs(f, b) /\ ReaderIs(f, b, k, q) /\ TableIs(b, k)
      /\ LinesAre(f, b, k)
    BY DEF InImage
<1>2. PICK e, t : e = b.codes[k] /\ t = TakenOf(b, q)
    OBVIOUS
<1>3. PICK byte \in Nat \ {0}, bit \in 0 .. 7, width \in 3 .. 12 :
         /\ byte = e.byte /\ bit = e.bit /\ width = e.width
         /\ Format!LastByte(e) <= Len(b.data)
    BY <1>1, <1>2, CodeFacts
<1>4. t \in Nat
    BY <1>1, <1>2, TakenType
<1>5. /\ at = "bits" /\ at' = "bits" /\ curr_size > nbits_left
      /\ UNCHANGED <<source, control, picture, codes, phase, lines>>
      /\ b1' = ByteAt(p) /\ ret' = ret + ByteAt(p) * Two(nbits_left)
      /\ nbits_left' = nbits_left + 8 /\ navail_bytes' = n - 1 /\ inputPos' = p + 1
    BY DEF FetchByte, TakeByte
<1>6. curr_size = width
    BY <1>1, <1>2, <1>3 DEF TableIs
<1>7. PICK left \in 0 .. 11 : left = nbits_left
    <2>1. nbits_left \in Nat /\ width > nbits_left
        BY <1>5, <1>6 DEF Reader
    <2>2. nbits_left \in 0 .. 11
        BY ONLY <2>1, width \in 3 .. 12
    <2> QED BY <2>2
<1>8. left = 8 * t - 8 * (byte - 1) - bit
    BY <1>1, <1>2, <1>3, <1>7 DEF ReaderIs
<1>a. /\ e.byte \in Nat \ {0} /\ e.bit \in 0 .. 7 /\ e.width \in 3 .. 12
      /\ left = 8 * t - 8 * (e.byte - 1) - e.bit
    <2>1. left = 8 * t - 8 * (e.byte - 1) - e.bit
        BY <1>3, <1>8, Zenon
    <2> QED BY <1>3, <2>1
<1>9. t + 1 <= Len(b.data) /\ b.data \in Seq(0 .. 255)
    <2>1. PICK end : end = Format!LastByte(e)
        OBVIOUS
    <2>2. left \in Nat /\ left < width
        BY <1>5, <1>6, <1>7
    <2>3. end \in Nat /\ t + 1 <= end
        <3>1. /\ Format!LastByte(e) \in Nat
              /\ left < e.width => t + 1 <= Format!LastByte(e)
            BY ONLY <1>4, <1>a, <2>2, BytesOfCode
        <3> QED BY ONLY <1>3, <2>1, <2>2, <3>1, Zenon
    <2>4. b.data \in Seq(0 .. 255)
        BY PartType
    <2>5. Len(b.data) \in Nat
        BY <2>4
    <2> QED BY ONLY <1>3, <1>4, <2>1, <2>3, <2>4, <2>5
<1>10. ret' = Format!Gathered(b.data, e, t + 1)
    <2>1. Format!Gathered(b.data, e, t + 1)
             = Format!Gathered(b.data, e, t) + b.data[t + 1] * Two(left)
        <3>1. PICK data \in Seq(0 .. 255) : data = b.data
            BY <1>9
        <3>2. t + 1 <= Len(data)
            BY ONLY <1>9, <3>1, Zenon
        <3>3. Format!Gathered(data, e, t + 1)
                 = Format!Gathered(data, e, t) + data[t + 1] * Two(left)
            BY ONLY <1>4, <1>a, <3>2, GatheredNext, left \in 0 .. 11, SMTT(30)
        <3> QED BY ONLY <3>1, <3>3, Zenon
    <2>2. ret = Format!Gathered(b.data, e, t)
        BY <1>1, <1>2, <1>5 DEF ReaderIs
    <2>3. ByteAt(p) = b.data[t + 1]
        BY <1>2
    <2> QED BY ONLY <1>5, <1>7, <2>1, <2>2, <2>3, Zenon
<1>11. PICK last \in Nat, before \in Nat :
          last = b.before[next] /\ before = b.before[next - 1]
    OBVIOUS
<1>12. t = last - n /\ n <= last - before
    BY <1>2, <1>11
<1>13. TakenOf(b, next)' = t + 1
    <2>1. TakenOf(b, next)' = last - (n - 1)
        BY <1>5, <1>11 DEF TakenOf
    <2> QED BY ONLY <1>12, <2>1, last \in Nat, n \in Nat \ {0}
<1>14. ReaderIs(f, b, k, next)'
    <2>1. navail_bytes' \in 0 .. last - before /\ next # 1
        BY <1>5, <1>12
    <2>2. inputPos' + navail_bytes' = b.places[next]
        <3>1. p + 1 + (n - 1) = p + n
            OBVIOUS
        <3> QED BY <1>5, <3>1
    <2>3. nbits_left' = 8 * (t + 1) - 8 * (byte - 1) - bit
        <3>1. left + 8 = 8 * (t + 1) - 8 * (byte - 1) - bit
            BY ONLY <1>4, <1>8, left \in 0 .. 11, byte \in Nat \ {0}, bit \in 0 .. 7
        <3> QED BY ONLY <1>5, <1>7, <3>1, Zenon
    <2>4. b1' = b.data[t + 1]
        BY <1>2, <1>5
    <2>5. nbits_left' = 8 * (t + 1) - 8 * (e.byte - 1) - e.bit
        BY <1>3, <2>3
    <2>6. navail_bytes' \in 0 .. (IF next = 1 THEN 0 ELSE b.before[next] - b.before[next - 1])
        BY <1>11, <2>1
    <2>7. b.places[next] <= Len(f.bytes)
        OBVIOUS
    <2> QED BY ONLY <1>2, <1>10, <1>13, <2>2, <2>4, <2>5, <2>6, <2>7, Zenon DEF ReaderIs
<1>15. InImage(f, b, k, next)'
    <2>1. Hides(b)' /\ ImageIs(f, b)'
        BY <1>1, <1>5, HidesSame
    <2>2. image' = image
        BY <1>5 DEF picture
    <2>3. TableIs(b, k)'
        BY <1>1, <1>5, <2>2, TableKept
    <2>4. LinesAre(f, b, k)'
        BY <1>1, <1>5, <2>2, LinesKept
    <2> QED BY <1>1, <1>14, <2>1, <2>3, <2>4 DEF InImage
<1>16. gif' = gif
    BY <1>5 DEF source
<1> QED BY <1>1, <1>5, <1>15, <1>16, ToImage

\* The next byte lies in the piece that was begun.
LEMMA TrackInside ==
    ASSUME NEW f, Reading(f), Input, Reader, NEW i \in DOMAIN f.parts, NEW b, b = f.parts[i],
           NEW k, NEW q, InImage(f, b, k, q), FetchByte,
           navail_bytes # 0, TakeByte(inputPos, navail_bytes)
    PROVE  FrameTrack'
<1>0. PICK size : size = Format!Octet(f.original, b.places[q - 1])
    OBVIOUS
<1>1. /\ b.kind \in {"empty", "drawn"} /\ q \in DOMAIN b.places /\ ReaderIs(f, b, k, q)
    BY DEF InImage
<1>2. /\ q \in 1 .. Len(b.places) /\ TakenOf(b, q) \in Nat /\ navail_bytes \in Nat
      /\ b.before[q] = TakenOf(b, q) + navail_bytes /\ b.before[q] \in Nat
    <2>1. TakenOf(b, q) \in Nat
        BY <1>1, TakenType
    <2>2. navail_bytes \in Nat
        BY <1>1, TakenType
    <2>3. b.before[q] = TakenOf(b, q) + navail_bytes
        BY ONLY <1>1, Reading(f), i \in DOMAIN f.parts, b = f.parts[i], TakenType, SMTT(30)
    <2>4. b.before[q] \in Nat
        BY <1>1, TakenType
    <2>5. q \in 1 .. Len(b.places)
        BY <1>1, TakenType
    <2> QED BY ONLY <2>1, <2>2, <2>3, <2>4, <2>5, Zenon
<1>4. /\ q \in 2 .. Len(b.places) /\ b.before[q - 1] \in Nat
      /\ b.before[q - 1] <= TakenOf(b, q)
    BY <1>1, PieceInFront
<1>3. PICK n \in Nat \ {0}, t \in Nat, p \in Nat :
         n = navail_bytes /\ t = TakenOf(b, q) /\ p = inputPos
    BY <1>2 DEF Input
<1>5. PICK before \in Nat : before = b.before[q - 1] /\ before <= t
    BY <1>2, <1>3, <1>4
<1>6. PICK last : last = Len(b.places)
    OBVIOUS
<1>7. /\ b.before[q] = before + size
      /\ \A m \in 1 .. size : b.data[before + m] = Format!Octet(f.original, b.places[q - 1] + m)
      /\ b.places[q] = b.places[q - 1] + 1 + size /\ b.places[q - 1] \in Nat
    <2>1. q - 1 \in 1 .. last - 1 /\ q - 1 + 1 = q
        <3>1. last \in Nat
            BY <1>1, <1>6, PiecesOf
        <3> QED BY ONLY <1>4, <1>6, <3>1
    <2>2. /\ b.before[q - 1 + 1] = b.before[q - 1] + Format!Octet(f.original, b.places[q - 1])
          /\ \A m \in 1 .. Format!Octet(f.original, b.places[q - 1]) :
                b.data[b.before[q - 1] + m] = Format!Octet(f.original, b.places[q - 1] + m)
        <3>1. PICK r \in 1 .. Len(b.places) - 1 : r = q - 1
            BY ONLY <1>6, <2>1
        <3>2. /\ b.before[r + 1] = b.before[r] + Format!Octet(f.original, b.places[r])
              /\ \A m \in 1 .. Format!Octet(f.original, b.places[r]) :
                    b.data[b.before[r] + m] = Format!Octet(f.original, b.places[r] + m)
            BY <1>1, PieceData
        <3> QED BY ONLY <3>1, <3>2
    <2>3. /\ b.places[q - 1 + 1] = b.places[q - 1] + 1 + Format!Octet(f.original, b.places[q - 1])
          /\ last \in Nat /\ \A r \in 1 .. last : b.places[r] \in Nat
        BY <1>1, <1>6, <2>1, PiecesOf, SMTT(30)
    <2>4. q - 1 \in 1 .. last
        BY <2>1, <2>3
    <2> QED BY ONLY <1>0, <1>5, <2>1, <2>2, <2>3, <2>4
<1>8. PICK place \in Nat : place = b.places[q - 1]
    BY <1>7
<1>9. size \in Nat /\ size + before = t + n
    <2>1. before + size = t + n
        BY <1>2, <1>3, <1>7
    <2>2. place < Len(f.original) /\ f.original \in Seq(0 .. 255)
        <3>1. last \in Nat
            BY <1>1, <1>6, PiecesOf
        <3>2. q - 1 \in 1 .. last
            BY ONLY <1>4, <1>6, <3>1
        <3> QED BY <1>1, <1>6, <1>8, <3>2, PiecesOf, LayoutOf
    <2>3. place + 1 \in 1 .. Len(f.original)
        BY <2>2
    <2>4. size \in 0 .. 255
        <3>1. f.original[place + 1] \in 0 .. 255
            BY ONLY <2>2, <2>3, ElementOfSeq
        <3> QED BY ONLY <1>0, <1>5, <1>8, <3>1 DEF Format!Octet
    <2> QED BY ONLY <2>1, <2>4, before \in Nat
<1>10. PICK m \in 1 .. size : before + m = t + 1 /\ size + 1 = m + n
    <2>1. size - n + 1 \in 1 .. size
        BY ONLY <1>0, <1>5, <1>9, n \in Nat \ {0}, t \in Nat, before \in Nat
    <2>2. before + (size - n + 1) = t + 1 /\ size + 1 = (size - n + 1) + n
        BY ONLY <1>9, n \in Nat \ {0}, t \in Nat, before \in Nat
    <2> QED BY <2>1, <2>2
<1>11. p + n = place + 1 + size
    BY <1>1, <1>3, <1>7, <1>8 DEF ReaderIs
<1>12. p = place + m
    BY ONLY <1>9, <1>10, <1>11, place \in Nat, p \in Nat, n \in Nat \ {0}
<1>13. ByteAt(p) = b.data[t + 1]
    <2>1. b.data[before + m] = Format!Octet(f.original, place + m)
        BY <1>7, <1>8, <1>10
    <2>2. p < Len(f.bytes)
        <3>1. p + n <= Len(f.bytes) /\ Len(f.bytes) \in Nat
            BY <1>1, <1>3, LayoutOf DEF ReaderIs
        <3> QED BY ONLY <3>1, p \in Nat, n \in Nat \ {0}
    <2>3. ByteAt(p) = Format!Octet(f.original, p)
        BY <2>2, ByteIs
    <2> QED BY ONLY <1>10, <1>12, <2>1, <2>3, Zenon
<1>14. /\ p + n = b.places[q] /\ b.places[q] <= Len(f.bytes)
       /\ TakeByte(p, n) /\ ByteAt(p) = b.data[TakenOf(b, q) + 1]
    BY <1>1, <1>3, <1>13 DEF ReaderIs
<1>15. n <= b.before[q] - b.before[q - 1] /\ TakenOf(b, q) = b.before[q] - n
    <2>1. PICK d \in Nat : d = b.before[q]
        BY <1>2
    <2>2. d = t + n
        BY <1>2, <1>3, <2>1
    <2>3. n <= d - before /\ t = d - n
        BY ONLY <1>0, <1>5, <2>2, n \in Nat \ {0}, t \in Nat, before \in Nat
    <2> QED BY ONLY <1>3, <1>0, <1>5, <2>1, <2>3, Zenon
<1>16. b.before[q] \in Nat /\ b.before[q - 1] \in Nat /\ q > 1
    BY <1>2, <1>4
<1> QED BY <1>1, <1>4, <1>14, <1>15, <1>16, ByteTaken

\* The next byte lies behind the piece that was read, or behind the end of the file.
LEMMA TrackPiece ==
    ASSUME NEW f, Reading(f), Input, Reader, NEW i \in DOMAIN f.parts, NEW b, b = f.parts[i],
           NEW k, NEW q, InImage(f, b, k, q), FetchByte, navail_bytes = 0,
           \/ /\ inputPos + 1 + ByteAt(inputPos) <= filesize
              /\ TakeByte(inputPos + 1, ByteAt(inputPos))
           \/ /\ inputPos + 1 + ByteAt(inputPos) > filesize
              /\ Return("error")
    PROVE  FrameTrack'
<1>1. /\ b.kind \in {"empty", "drawn"} /\ k \in DOMAIN b.codes /\ q \in DOMAIN b.places
      /\ ReaderIs(f, b, k, q) /\ TableIs(b, k)
    BY DEF InImage
<1>2. PICK e, t : e = b.codes[k] /\ t = TakenOf(b, q)
    OBVIOUS
<1>3. /\ e.byte \in Nat \ {0} /\ e.bit \in 0 .. 7 /\ e.width \in 3 .. 12
      /\ Format!LastByte(e) <= Len(b.data)
    BY <1>1, <1>2, CodeFacts
<1>4. t \in Nat
    BY <1>1, <1>2, TakenType
<1>5. b.before[q] = t
    <2>1. b.before[q] = TakenOf(b, q) + navail_bytes
        BY ONLY <1>1, Reading(f), i \in DOMAIN f.parts, b = f.parts[i], TakenType, ZenonT(30)
    <2>2. b.before[q] = t + 0
        BY <1>2, <2>1
    <2> QED BY ONLY <1>4, <2>2
<1>6. PICK left \in Nat : left = nbits_left /\ left < e.width
    <2>1. curr_size = e.width /\ curr_size > nbits_left
        BY <1>1, <1>2 DEF TableIs, FetchByte
    <2>2. nbits_left \in Nat /\ curr_size \in Nat
        BY DEF Reader
    <2>3. nbits_left < e.width
        BY <2>1, <2>2
    <2> QED BY <2>2, <2>3
<1>7. left = 8 * t - 8 * (e.byte - 1) - e.bit
    BY <1>1, <1>2, <1>6 DEF ReaderIs
<1>8. PICK last, len : last = Len(b.places) /\ len = Len(b.data) /\ len \in Nat
    BY <1>1, DataOf
<1>9. t < len
    <2>1. /\ Format!LastByte(e) \in Nat
          /\ left < e.width => t + 1 <= Format!LastByte(e)
        BY ONLY <1>3, <1>4, <1>6, <1>7, BytesOfCode
    <2>2. PICK end \in Nat : end = Format!LastByte(e)
        BY <2>1
    <2>3. t + 1 <= end /\ end <= len
        BY ONLY <1>3, <1>6, <1>8, <2>1, <2>2, Zenon
    <2> QED BY ONLY <1>4, <1>8, <2>3
<1>10. last \in Nat \ {0} /\ q \in 1 .. last - 1
    <2>1. last \in Nat \ {0} /\ DOMAIN b.places = 1 .. last
        BY <1>1, <1>8, PiecesOf
    <2>2. b.before[last] = len
        BY <1>1, <1>8, DataOf
    <2>3. q # last
        <3>1. ASSUME q = last PROVE FALSE
            <4>1. t = len
                BY <1>5, <2>2, <3>1
            <4> QED BY ONLY <1>8, <1>9, <4>1
        <3> QED BY <3>1
    <2> QED BY <1>1, <2>1, <2>3
<1>11. PICK n : n = Format!Octet(f.original, b.places[q])
    OBVIOUS
<1>12. /\ b.before[q + 1] = t + n
       /\ \A m \in 1 .. n : b.data[t + m] = Format!Octet(f.original, b.places[q] + m)
    <2>1. /\ b.before[q + 1] = b.before[q] + Format!Octet(f.original, b.places[q])
          /\ \A m \in 1 .. Format!Octet(f.original, b.places[q]) :
                b.data[b.before[q] + m] = Format!Octet(f.original, b.places[q] + m)
        <3>1. q \in 1 .. Len(b.places) - 1
            BY ONLY <1>8, <1>10
        <3> QED BY ONLY <1>1, <3>1, Reading(f), i \in DOMAIN f.parts, b = f.parts[i], PieceData
    <2> QED BY ONLY <1>5, <1>11, <2>1
<1>13. PICK place \in Nat : place = b.places[q] /\ place < Len(f.original)
    <2>1. q \in 1 .. last
        BY ONLY <1>10
    <2> QED BY <1>1, <1>8, <2>1, PiecesOf
<1>14. n > 0 /\ b.places[q + 1] = place + 1 + n
    <2>1. \A p \in 1 .. last - 1 :
             /\ Format!Octet(f.original, b.places[p]) > 0
             /\ b.places[p + 1] = b.places[p] + 1 + Format!Octet(f.original, b.places[p])
        BY <1>1, <1>8, PiecesOf
    <2> QED BY ONLY <1>10, <1>11, <1>13, <2>1
<1>15. q + 1 \in DOMAIN b.places /\ b.places[q + 1] < Len(f.original)
    <2>1. q + 1 \in 1 .. last
        BY ONLY <1>10
    <2>2. DOMAIN b.places = 1 .. last /\ b.places[q + 1] < Len(f.original)
        BY <1>1, <1>8, <2>1, PiecesOf
    <2> QED BY <2>1, <2>2
<1>16. n \in 0 .. 255
    <2>1. place + 1 \in 1 .. Len(f.original) /\ f.original \in Seq(0 .. 255)
        BY <1>13, LayoutOf
    <2>2. f.original[place + 1] \in 0 .. 255
        BY ONLY <2>1, ElementOfSeq
    <2> QED BY ONLY <1>11, <1>13, <2>2 DEF Format!Octet
<1>17. /\ inputPos = place /\ filesize \in Nat /\ filesize = Len(f.bytes)
       /\ place <= filesize /\ Len(f.original) \in Nat
    <2>1. inputPos + 0 = place /\ place <= Len(f.bytes)
        BY <1>1, <1>13 DEF ReaderIs
    <2> QED BY <2>1, LayoutOf DEF Input
<1>18. gif' = gif
    BY DEF FetchByte, source
<1>19. CASE place < filesize
    <2>1. ByteAt(inputPos) = n
        BY <1>11, <1>13, <1>17, <1>19, ByteIs
    <2>2. CASE /\ inputPos + 1 + ByteAt(inputPos) <= filesize
               /\ TakeByte(inputPos + 1, ByteAt(inputPos))
        <3>1. place + 1 + n <= filesize /\ TakeByte(place + 1, n)
            BY <1>17, <2>1, <2>2
        <3>2. place + 1 \in Nat /\ n \in Nat \ {0} /\ place + 1 + n = b.places[q + 1]
            BY ONLY <1>14, <1>16, place \in Nat
        <3>3. b.places[q + 1] <= Len(f.bytes)
            BY ONLY <1>17, <3>1, <3>2
        <3>4. ByteAt(place + 1) = b.data[t + 1]
            <4>1. place + 1 < Len(f.bytes)
                BY ONLY <1>14, <1>16, <1>17, <3>1, place \in Nat
            <4>2. ByteAt(place + 1) = Format!Octet(f.original, place + 1)
                BY <3>2, <4>1, ByteIs
            <4>3. 1 \in 1 .. n
                BY ONLY <1>14, <1>16
            <4> QED BY ONLY <1>12, <1>13, <4>2, <4>3
        <3>5. PICK next : next = q + 1 /\ next > 1 /\ next - 1 = q
            BY ONLY <1>10
        <3>6. /\ b.before[q + 1] \in Nat /\ b.before[q] \in Nat
              /\ n <= b.before[q + 1] - b.before[q] /\ t = b.before[q + 1] - n
            BY ONLY <1>4, <1>5, <1>12, <1>16
        <3>7. ByteAt(place + 1) = b.data[TakenOf(b, q) + 1]
            BY ONLY <1>2, <3>4, Zenon
        <3>8. TakenOf(b, q) = b.before[q + 1] - n
            BY ONLY <1>2, <3>6, Zenon
        <3>9. /\ next \in DOMAIN b.places /\ next > 1 /\ place + 1 + n = b.places[next]
              /\ b.places[next] <= Len(f.bytes) /\ b.before[next] \in Nat
              /\ b.before[next - 1] \in Nat /\ n <= b.before[next] - b.before[next - 1]
              /\ TakenOf(b, q) = b.before[next] - n
            BY ONLY <1>15, <3>2, <3>3, <3>5, <3>6, <3>8, Zenon
        <3>10. PICK p \in Nat : p = place + 1
            BY <3>2
        <3>11. TakeByte(p, n) /\ p + n = b.places[next] /\ ByteAt(p) = b.data[TakenOf(b, q) + 1]
            BY ONLY <3>1, <3>7, <3>9, <3>10, Zenon
        <3>12. n \in Nat \ {0}
            BY <3>2
        <3> QED BY <3>9, <3>11, <3>12, ByteTaken
    <2>3. CASE inputPos + 1 + ByteAt(inputPos) > filesize /\ Return("error")
        <3>1. ~gif.whole
            <4>1. PICK p \in Nat : p = place + 1 + n
                BY <1>16
            <4>2. p >= Len(f.bytes)
                BY ONLY <1>17, <2>1, <2>3, <4>1, p \in Nat
            <4>3. p < Len(f.original)
                BY <1>14, <1>15, <4>1
            <4> QED BY <4>2, <4>3, CutOff
        <3> QED BY <1>18, <2>3, <3>1, CutAnswer
    <2> QED BY <2>2, <2>3
<1>20. CASE ~(place < filesize)
    <2>1. place >= Len(f.bytes) /\ place >= filesize
        BY ONLY <1>17, <1>20, place \in Nat
    <2>2. ~gif.whole
        BY <1>13, <2>1, CutOff
    <2>3. ByteAt(inputPos) \in 0 .. 255
        BY <1>17, ByteIs
    <2>4. PICK byte \in 0 .. 255 : byte = ByteAt(inputPos)
        BY ONLY <2>3
    <2>5. ~(place + 1 + byte <= filesize)
        BY ONLY <1>17, <2>1, place \in Nat, byte \in 0 .. 255
    <2>6. ~(inputPos + 1 + ByteAt(inputPos) <= filesize)
        BY ONLY <1>17, <2>4, <2>5, Zenon
    <2>7. Return("error")
        BY <2>6
    <2> QED BY <1>18, <2>2, <2>7, CutAnswer
<1> QED BY <1>19, <1>20

\* A byte of a code comes from its piece, or from the next one.
LEMMA TrackFetch ==
    ASSUME NEW f, Reading(f), Input, Reader, NEW i \in DOMAIN f.parts, NEW b, b = f.parts[i],
           NEW k, NEW q, InImage(f, b, k, q), FetchByte
    PROVE  FrameTrack'
<1>1. CASE ~(checked /\ navail_bytes = 0) /\ TakeByte(inputPos, navail_bytes)
    <2>1. navail_bytes # 0
        <3>1. CASE checked
            BY <1>1, <3>1
        <3>2. CASE ~checked
            <4>1. /\ 8 * navail_bytes + nbits_left >= curr_size /\ curr_size > nbits_left
                  /\ nbits_left \in Nat /\ curr_size \in Nat /\ navail_bytes \in Int
                BY <3>2 DEF Reader, FetchByte
            <4> QED BY ONLY <4>1
        <3> QED BY <3>1, <3>2
    <2> QED BY <1>1, <2>1, TrackInside
<1>2. CASE /\ checked /\ navail_bytes = 0
           /\ \/ /\ inputPos + 1 + ByteAt(inputPos) <= filesize
                 /\ TakeByte(inputPos + 1, ByteAt(inputPos))
              \/ /\ inputPos + 1 + ByteAt(inputPos) > filesize
                 /\ Return("error")
    BY <1>2, TrackPiece
<1> QED BY <1>1, <1>2 DEF FetchByte

\* Behind the cut, the bytes of a code are missing.
LEMMA LostFetch ==
    ASSUME NEW f, Reading(f), Input, Lost, FetchByte
    PROVE  FrameTrack'
<1>1. ~gif.whole /\ gif' = gif /\ inputPos >= filesize /\ navail_bytes = 0 /\ checked
    BY DEF Lost, FetchByte, source
<1>2. PICK p \in Nat, n \in Nat : p = inputPos /\ n = filesize /\ p >= n
    <2>1. inputPos \in Nat
        BY DEF Input
    <2>2. filesize \in Nat
        BY LayoutOf
    <2> QED BY <1>1, <2>1, <2>2
<1>3. PICK byte \in 0 .. 255 : byte = ByteAt(p)
    BY ByteIs
<1>4. ~(p + 1 + byte <= n)
    BY <1>2
<1>5. Return("error")
    BY <1>1, <1>2, <1>3, <1>4 DEF FetchByte
<1> QED BY <1>1, <1>5, CutAnswer

(***************************************************************************)
(* Codes.                                                                  *)
(***************************************************************************)
\* A code that does not end the image is followed by another one.
LEMMA NextCode ==
    ASSUME NEW f, Reading(f), NEW i \in DOMAIN f.parts, NEW b, b = f.parts[i],
           b.kind \in {"empty", "drawn"}, NEW k \in DOMAIN b.codes,
           b.codes[k].code # Format!Ending(Format!Size(f.original, b))
    PROVE  /\ k \in Nat \ {0} /\ k + 1 \in DOMAIN b.codes
           /\ 8 * b.codes[k + 1].byte + b.codes[k + 1].bit
                 = 8 * b.codes[k].byte + b.codes[k].bit + b.codes[k].width
           /\ b.codes[k].code = Format!Clear(Format!Size(f.original, b))
                 => b.codes[k + 1].since = 0 /\ b.codes[k + 1].from = b.codes[k].from
           /\ b.codes[k].code # Format!Clear(Format!Size(f.original, b))
                 => /\ b.codes[k + 1].since = b.codes[k].since + 1
                    /\ Format!Stands(b, Format!Size(f.original, b), k)
<1>1. PICK size, last : size = Format!Size(f.original, b) /\ last = Len(b.codes)
    OBVIOUS
<1>a. Format!Coded(b, size)
    BY <1>1, ImagePart DEF Format!CodedImage
<1>2. last \in Nat \ {0} /\ DOMAIN b.codes = 1 .. last
    BY <1>1, CodesOf
<1>3. \A j \in 1 .. last - 1 :
         /\ 8 * b.codes[j + 1].byte + b.codes[j + 1].bit
               = 8 * b.codes[j].byte + b.codes[j].bit + b.codes[j].width
         /\ b.codes[j].code = Format!Clear(size)
               => b.codes[j + 1].since = 0 /\ b.codes[j + 1].from = b.codes[j].from
         /\ b.codes[j].code # Format!Clear(size)
               => b.codes[j + 1].since = b.codes[j].since + 1 /\ Format!Stands(b, size, j)
    BY ONLY <1>1, <1>a, Zenon DEF Format!Coded
<1>4. b.codes[last].code = Format!Ending(size)
    BY <1>1, CodesOf
<1>5. k # last
    BY <1>1, <1>4
<1>6. k \in 1 .. last - 1 /\ k \in Nat \ {0} /\ k + 1 \in DOMAIN b.codes
    <2>1. k \in 1 .. last
        BY <1>2
    <2> QED BY ONLY <1>2, <1>5, <2>1
<1> QED BY ONLY <1>1, <1>3, <1>6, Zenon

\* The code that ends the image is the last one.
LEMMA LastCode ==
    ASSUME NEW f, Reading(f), NEW i \in DOMAIN f.parts, NEW b, b = f.parts[i],
           b.kind \in {"empty", "drawn"}, NEW k \in DOMAIN b.codes,
           b.codes[k].code = Format!Ending(Format!Size(f.original, b))
    PROVE  /\ b.codes[k].from = Len(b.pixels)
           /\ Format!LastByte(b.codes[k]) = Len(b.data)
<1>1. PICK size, last : size = Format!Size(f.original, b) /\ last = Len(b.codes)
    OBVIOUS
<1>a. Format!Coded(b, size)
    BY <1>1, ImagePart DEF Format!CodedImage
<1>2. last \in Nat \ {0} /\ DOMAIN b.codes = 1 .. last
    BY <1>1, CodesOf
<1>3. \A j \in 1 .. last - 1 : b.codes[j].code # Format!Ending(size)
    BY ONLY <1>1, <1>a, Zenon DEF Format!Coded
<1>4. /\ b.codes[last].from = Len(b.pixels)
      /\ Format!LastByte(b.codes[last]) = Len(b.data)
    BY <1>1, CodesOf
<1>5. k \notin 1 .. last - 1
    BY <1>1, <1>3
<1>6. k = last
    <2>1. k \in 1 .. last
        BY <1>2
    <2> QED BY ONLY <1>2, <1>5, <2>1
<1> QED BY <1>4, <1>6

\* A complete code is the one that comes, and all its bytes were taken.
LEMMA CodeRead ==
    ASSUME NEW f, Reading(f), Input, Reader, NEW i \in DOMAIN f.parts, NEW b, b = f.parts[i],
           NEW k, NEW q, InImage(f, b, k, q), HasCode
    PROVE  /\ c = b.codes[k].code
           /\ TakenOf(b, q) = Format!LastByte(b.codes[k])
<1>1. /\ b.kind \in {"empty", "drawn"} /\ k \in DOMAIN b.codes /\ q \in DOMAIN b.places
      /\ ReaderIs(f, b, k, q) /\ TableIs(b, k)
    BY DEF InImage
<1>2. PICK e, t : e = b.codes[k] /\ t = TakenOf(b, q)
    OBVIOUS
<1>3. /\ e.byte \in Nat \ {0} /\ e.bit \in 0 .. 7 /\ e.width \in 3 .. 12
      /\ e.code = Format!Bits(b.data, e)
    <2>1. e.byte \in Nat \ {0} /\ e.bit \in 0 .. 7 /\ e.width \in 3 .. 12
        BY <1>1, <1>2, CodeFacts
    <2>2. e.code = Format!Bits(b.data, e)
        BY <1>1, <1>2, CodeFacts
    <2> QED BY <2>1, <2>2
<1>4. t \in Nat
    BY <1>1, <1>2, TakenType
<1>5. curr_size = e.width /\ at = "bits"
    BY <1>1, <1>2 DEF TableIs, HasCode
<1>6. PICK left \in Nat : left = nbits_left /\ left >= e.width /\ left <= e.width + 7
    <2>1. curr_size <= nbits_left /\ nbits_left \in Nat /\ nbits_left <= curr_size + 7
          /\ curr_size \in Nat
        BY <1>5 DEF Reader, HasCode
    <2>2. nbits_left >= curr_size
        BY ONLY <2>1
    <2> QED BY ONLY <1>5, <2>1, <2>2
<1>7. left = 8 * t - 8 * (e.byte - 1) - e.bit
    BY <1>1, <1>2, <1>6 DEF ReaderIs
<1>8. t = Format!LastByte(e)
    BY ONLY <1>3, <1>4, <1>6, <1>7, BytesOfCode
<1>9. ret = Format!Gathered(b.data, e, t)
    BY <1>1, <1>2, <1>5 DEF ReaderIs
<1>10. c = Format!Bits(b.data, e)
    BY ONLY <1>5, <1>8, <1>9, Zenon DEF c, Format!Bits
<1> QED BY ONLY <1>2, <1>3, <1>8, <1>10, Zenon

\* It leaves the bits that the next one begins with.
LEMMA ReaderUsed ==
    ASSUME NEW f, Reading(f), Input, Reader, NEW i \in DOMAIN f.parts, NEW b, b = f.parts[i],
           NEW k, NEW q, InImage(f, b, k, q), HasCode, at' # "bits",
           b.codes[k].code # Format!Ending(Format!Size(f.original, b))
    PROVE  ReaderIs(f, b, k + 1, q)'
<1>1. /\ b.kind \in {"empty", "drawn"} /\ k \in DOMAIN b.codes /\ q \in DOMAIN b.places
      /\ ReaderIs(f, b, k, q) /\ TableIs(b, k)
    BY DEF InImage
<1>2. PICK e, t, next : e = b.codes[k] /\ t = TakenOf(b, q) /\ next = b.codes[k + 1]
    OBVIOUS
<1>3. PICK byte \in Nat \ {0}, bit \in 0 .. 7, width \in 3 .. 12 :
         /\ byte = e.byte /\ bit = e.bit /\ width = e.width
    BY <1>1, <1>2, CodeFacts
<1>a. k + 1 \in DOMAIN b.codes
    BY <1>1, NextCode
<1>4. PICK byte2 \in Nat \ {0}, bit2 \in 0 .. 7 :
         /\ byte2 = next.byte /\ bit2 = next.bit
    BY <1>1, <1>2, <1>a, CodeFacts
<1>5. 8 * next.byte + next.bit = 8 * e.byte + e.bit + e.width
    BY <1>1, <1>2, NextCode
<1>6. 8 * byte2 + bit2 = 8 * byte + bit + width
    BY ONLY <1>3, <1>4, <1>5, Zenon
<1>7. t \in Nat
    BY <1>1, <1>2, TakenType
<1>8. PICK left \in Nat : left = nbits_left
    BY DEF Reader
<1>9. left = 8 * t - 8 * (e.byte - 1) - e.bit
    BY <1>1, <1>2, <1>8 DEF ReaderIs
<1>10. left = 8 * t - 8 * (byte - 1) - bit
    BY ONLY <1>3, <1>9, Zenon
<1>11. /\ nbits_left' = nbits_left - curr_size
       /\ UNCHANGED <<inputPos, navail_bytes, b1>>
    BY DEF HasCode
<1>12. curr_size = width
    BY <1>1, <1>2, <1>3 DEF TableIs
<1>13. nbits_left' = 8 * t - 8 * (next.byte - 1) - next.bit
    <2>1. left - width = 8 * t - 8 * (byte2 - 1) - bit2
        BY ONLY <1>6, <1>7, <1>10, left \in Nat, byte \in Nat \ {0}, bit \in 0 .. 7,
                width \in 3 .. 12, byte2 \in Nat \ {0}, bit2 \in 0 .. 7
    <2> QED BY ONLY <1>4, <1>8, <1>11, <1>12, <2>1, Zenon
<1>14. TakenOf(b, q)' = t
    BY <1>2, <1>11 DEF TakenOf
<1>15. /\ navail_bytes \in 0 .. (IF q = 1 THEN 0 ELSE b.before[q] - b.before[q - 1])
       /\ inputPos + navail_bytes = b.places[q] /\ b.places[q] <= Len(f.bytes)
       /\ t > 0 => b1 = b.data[t]
    BY <1>1, <1>2, Zenon DEF ReaderIs
<1> QED BY <1>2, <1>11, <1>13, <1>14, <1>15, Zenon DEF ReaderIs

\* What a code leaves alone.
LEMMA CodeSame ==
    ASSUME HasCode
    PROVE  /\ UNCHANGED <<source, control, picture>> /\ UNCHANGED lines
           /\ gif' = gif /\ image' = image /\ inputPos' = inputPos
           /\ at = "bits"
    BY DEF HasCode, source, picture
=============================================================================
