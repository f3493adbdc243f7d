----------------------------- MODULE GifPicture ------------------------------
(***************************************************************************)
(* What a GIF shows, as its format says and not as the library reads it:   *)
(* the codes in the data of an image, the pixels they stand for, the order *)
(* of the rows, and the picture that a viewer shows first.                 *)
(***************************************************************************)
EXTENDS GifFormat

CONSTANTS
    Two(_),     \* powers of two
    MaxBits     \* the greatest size of a code

\* The parts of a file up to the first image with pixels, or to the trailer
\* if there is none.  Besides the places of its pieces a part has the colour
\* that is hidden where it starts, or -1, and an image its data, how much of
\* it comes before each piece, its codes, its pixels in the order they are
\* coded, and the row that each line of them is.
Code == [code : Nat, width : Nat, byte : Nat \ {0}, bit : 0 .. 7, from : Nat,
         since : Nat]
Part == [kind : {"control", "text", "filler", "empty", "drawn", "trailer"},
         start : Nat, places : Seq(Nat), hidden : Int, before : Seq(Nat),
         data : Seq(0 .. 255), codes : Seq(Code), pixels : Seq(0 .. 255),
         rows : Seq(Nat)]

\* The data is the bytes of the pieces, one piece after the other.
Data(bytes, b) ==
    LET last == Len(b.places) IN
    /\ Len(b.before) = last /\ b.before[1] = 0 /\ b.before[last] = Len(b.data)
    /\ \A q \in 1 .. last - 1 :
          LET n == Octet(bytes, b.places[q]) IN
          /\ b.before[q + 1] = b.before[q] + n
          /\ \A m \in 1 .. n :
                b.data[b.before[q] + m] = Octet(bytes, b.places[q] + m)

(***************************************************************************)
(* Codes.  A code begins at a bit of a byte of the data; from pixels come  *)
(* before it, and since codes since the dictionary was cleared.            *)
(***************************************************************************)
Size(bytes, b) ==
    Octet(bytes, b.start + 10 + Table(Octet(bytes, b.start + 9)))
Clear(size) == Two(size)
Ending(size) == Two(size) + 1
FirstEntry(size) == Two(size) + 2
Widest(size) == IF MaxBits < size + 1 THEN size + 1 ELSE MaxBits

\* Each code but the first makes an entry of the dictionary, until it is full.
Entries(size, since) ==
    LET room == Two(Widest(size)) - FirstEntry(size) IN
    IF since <= 1 THEN 0 ELSE IF since - 1 < room THEN since - 1 ELSE room

\* A code has the fewest bits that hold every entry and the one to come.
WidthFor(width, size, entries) ==
    LET slots == FirstEntry(size) + entries IN
    /\ width \in size + 1 .. Widest(size)
    /\ width > size + 1 => Two(width - 1) <= slots
    /\ width < Widest(size) => slots < Two(width)

\* The last byte that has bits of the code.
LastByte(e) ==
    IF e.width <= 8 - e.bit THEN e.byte
    ELSE IF e.width <= 16 - e.bit THEN e.byte + 1 ELSE e.byte + 2

\* Of its bits those in the bytes up to last: of its first byte the upper
\* ones, and those of the next bytes above them.
Gathered(data, e, last) ==
    (IF last >= e.byte THEN data[e.byte] \div Two(e.bit) ELSE 0)
    + (IF last > e.byte THEN data[e.byte + 1] * Two(8 - e.bit) ELSE 0)
    + (IF last > e.byte + 1 THEN data[e.byte + 2] * Two(16 - e.bit) ELSE 0)

Bits(data, e) == Gathered(data, e, LastByte(e)) % Two(e.width)

\* Code k stands for the pixels up to the next code: a colour, or an entry,
\* which is what an earlier code q stood for and one pixel more.
Stands(b, size, k) ==
    LET e == b.codes[k]
        n == b.codes[k + 1].from - e.from
        q == k - e.since + (e.code - FirstEntry(size))
    IN /\ n > 0 /\ b.codes[k + 1].from <= Len(b.pixels)
       /\ \/ e.code < Clear(size) /\ n = 1 /\ b.pixels[e.from + 1] = e.code
          \/ /\ e.code >= FirstEntry(size)
             /\ e.code < FirstEntry(size) + Entries(size, e.since + 1)
             /\ n = b.codes[q + 1].from - b.codes[q].from + 1
             /\ \A m \in 1 .. n :
                   b.pixels[e.from + m] = b.pixels[b.codes[q].from + m]

Coded(b, size) ==
    LET last == Len(b.codes) IN
    /\ last > 0
    /\ b.codes[1].byte = 1 /\ b.codes[1].bit = 0
    /\ b.codes[1].from = 0 /\ b.codes[1].since = 0
    /\ \A k \in 1 .. last :
          LET e == b.codes[k] IN
          /\ e.since < k /\ WidthFor(e.width, size, Entries(size, e.since))
          /\ LastByte(e) <= Len(b.data) /\ e.code = Bits(b.data, e)
    /\ \A k \in 1 .. last - 1 :
          LET e == b.codes[k]
              next == b.codes[k + 1]
          IN /\ 8 * next.byte + next.bit = 8 * e.byte + e.bit + e.width
             /\ e.code # Ending(size)
             /\ e.code = Clear(size) => next.since = 0 /\ next.from = e.from
             /\ e.code # Clear(size) => /\ next.since = e.since + 1
                                        /\ Stands(b, size, k)
    /\ b.codes[last].code = Ending(size)
    /\ b.codes[last].from = Len(b.pixels)
    /\ LastByte(b.codes[last]) = Len(b.data)

(***************************************************************************)
(* Rows and colours                                                        *)
(***************************************************************************)
Width(bytes, b) == Word(bytes, b.start + 5)
Height(bytes, b) == Word(bytes, b.start + 7)
Interlaced(bytes, b) == (Octet(bytes, b.start + 9) \div 64) % 2 = 1

\* Interlaced, every eighth row comes first, then those between them, those
\* between these, and the rest.
Pass(r) == IF r % 8 = 0 THEN 1 ELSE IF r % 8 = 4 THEN 2
           ELSE IF r % 4 = 2 THEN 3 ELSE 4

Earlier(r, s) == Pass(r) < Pass(s) \/ (Pass(r) = Pass(s) /\ r < s)

Lines(bytes, b) ==
    LET w == Width(bytes, b)
        h == Height(bytes, b)
    IN /\ Len(b.rows) = h
       /\ \A i \in 1 .. h : b.rows[i] < h
       /\ \A r \in 0 .. h - 1 : \E i \in 1 .. h : b.rows[i] = r
       /\ \A i \in 1 .. h, l \in 1 .. h :
             i < l => IF Interlaced(bytes, b) THEN Earlier(b.rows[i], b.rows[l])
                                              ELSE b.rows[i] < b.rows[l]
       /\ Len(b.pixels) = h * w

\* Colours as RGB565 keeps them.
Black == <<0, 0, 0>>
Colour(bytes, p) ==
    <<Octet(bytes, p) \div 8, Octet(bytes, p + 1) \div 4, Octet(bytes, p + 2) \div 8>>

\* The colours of the image, or of the file.
OwnTable(bytes, b) == Octet(bytes, b.start + 9) >= 128
FirstColour(bytes, b) == IF OwnTable(bytes, b) THEN b.start + 10 ELSE 13
Colours(bytes, b) ==
    Table(Octet(bytes, IF OwnTable(bytes, b) THEN b.start + 9 ELSE 10))

Coloured(bytes, b, v) ==
    IF v = b.hidden THEN Black ELSE Colour(bytes, FirstColour(bytes, b) + 3 * v)

\* The colour behind the image, which the file's first block may hide.
Behind(bytes, parts) ==
    LET v == Octet(bytes, 11) IN
    IF parts[2].hidden = v THEN Black ELSE Colour(bytes, 13 + 3 * v)

(***************************************************************************)
(* Files                                                                   *)
(***************************************************************************)
Piecewise(bytes, b) == b.places \in Seq(Nat) /\ Chain(bytes, b.places)

CodedImage(bytes, b) ==
    /\ Piecewise(bytes, b) /\ Image(bytes, b)
    /\ Width(bytes, b) > 0 /\ Height(bytes, b) > 0
    /\ Data(bytes, b) /\ Coded(b, Size(bytes, b))

\* A part and the one behind it.  A control block hides a colour.
After(bytes, b, next) ==
    /\ b.kind \in {"control", "text", "filler", "empty"}
    /\ next.hidden = IF b.kind # "control" THEN b.hidden
                     ELSE IF Octet(bytes, b.start + 3) % 2 = 1
                     THEN Octet(bytes, b.start + 6) ELSE -1
    /\ b.kind = "filler" => /\ next.start = b.start + 1
                            /\ b.start < Len(bytes)
                            /\ Octet(bytes, b.start) \notin {33, 44, 59}
    /\ b.kind # "filler" => /\ next.start = b.places[Len(b.places)] + 1
                            /\ Piecewise(bytes, b)
    /\ b.kind = "control" => ControlBlock(bytes, b)
    /\ b.kind = "text" => Text(bytes, b)
    /\ b.kind = "empty" => /\ CodedImage(bytes, b) /\ b.pixels = <<>>
                           /\ ~OwnTable(bytes, b)

\* An image with pixels, each of a colour of its table.
Drawn(bytes, b) ==
    /\ CodedImage(bytes, b) /\ b.pixels # <<>> /\ Lines(bytes, b)
    /\ \A i \in DOMAIN b.pixels : 3 * b.pixels[i] < Colours(bytes, b)

\* The picture on a screen of w times h.  What it does not cover shows the
\* background, of a file whose first block says what is hidden.
Shows(bytes, parts, b, w, h, picture) ==
    /\ picture \in [(0 .. h - 1) \X (0 .. w - 1) -> (0 .. 31) \X (0 .. 63) \X (0 .. 31)]
    /\ \A i \in DOMAIN b.rows, j \in 1 .. Width(bytes, b) :
          b.rows[i] < h /\ j <= w =>
             picture[<<b.rows[i], j - 1>>]
                = Coloured(bytes, b, b.pixels[(i - 1) * Width(bytes, b) + j])
    /\ \A r \in 0 .. h - 1, k \in 0 .. w - 1 :
          r >= Height(bytes, b) \/ k >= Width(bytes, b) =>
             /\ parts[1].kind = "control" /\ Octet(bytes, 10) >= 128
             /\ 3 * Octet(bytes, 11) < Table(Octet(bytes, 10))
             /\ picture[<<r, k>>] = Behind(bytes, parts)

\* Whole, the file shows that picture on a screen of w times h, or nothing.
ShownGif(bytes, parts, w, h, shown, picture) ==
    LET last == Len(parts)
        b == parts[last]
    IN /\ parts \in Seq(Part) /\ last > 0 /\ 12 < Len(bytes)
       /\ 13 + Table(Octet(bytes, 10)) = parts[1].start /\ parts[1].hidden = -1
       /\ \A i \in 1 .. last - 1 : After(bytes, parts[i], parts[i + 1])
       /\ b.kind \in {"drawn", "trailer"}
       /\ b.kind = "trailer" => /\ ~shown /\ b.start < Len(bytes)
                                /\ Octet(bytes, b.start) = 59
       /\ b.kind = "drawn" => /\ shown /\ Drawn(bytes, b)
                              /\ Shows(bytes, parts, b, w, h, picture)
=============================================================================
