------------------------------ MODULE GifFormat -------------------------------
(***************************************************************************)
(* What a GIF is, as its format (GIF89a) says and not as the library reads *)
(* it: blocks behind each other, up to a trailer.  A block begins with a   *)
(* few bytes that say what it is and goes on in pieces: a length, that     *)
(* many bytes, the next length, until one is zero.                         *)
(***************************************************************************)
EXTENDS Integers, Sequences

\* The byte at p, and a number of two bytes there; the first byte is at 0.
Octet(bytes, p) == bytes[p + 1]
Word(bytes, p) == Octet(bytes, p) + 256 * Octet(bytes, p + 1)

\* The bytes of a table of colours, of which the flags give the number.
Table(flags) ==
    IF flags >= 128 THEN 3 * <<2, 4, 8, 16, 32, 64, 128, 256>>[(flags % 8) + 1]
                    ELSE 0

\* Where a block starts, where each of its lengths is, and how many images
\* come before it.
Block == [kind : {"control", "text", "image", "trailer"}, start : Nat,
          places : Seq(Nat), image : Nat]

\* The lengths of the pieces are at those places.
Chain(bytes, places) ==
    /\ places # <<>>
    /\ \A k \in DOMAIN places : places[k] < Len(bytes)
    /\ \A k \in 1 .. Len(places) - 1 :
          /\ Octet(bytes, places[k]) > 0
          /\ places[k + 1] = places[k] + 1 + Octet(bytes, places[k])
    /\ Octet(bytes, places[Len(places)]) = 0

\* Comments, texts and applications.
Text(bytes, b) ==
    /\ Octet(bytes, b.start) = 33 /\ Octet(bytes, b.start + 1) \in {1, 254, 255}
    /\ b.places[1] = b.start + 2

\* A control block has one piece of four bytes.
ControlBlock(bytes, b) ==
    /\ Octet(bytes, b.start) = 33 /\ Octet(bytes, b.start + 1) = 249
    /\ b.places[1] = b.start + 2
    /\ Len(b.places) = 2 /\ Octet(bytes, b.start + 2) = 4

\* An image has its size, flags, a table of colours and the size of the codes.
Image(bytes, b) ==
    LET table == Table(Octet(bytes, b.start + 9)) IN
    /\ b.start + 9 < Len(bytes) /\ Octet(bytes, b.start) = 44
    /\ b.places[1] = b.start + 11 + table
    /\ Octet(bytes, b.start + 10 + table) \in 2 .. 8

ImageSize(bytes, b) == <<Word(bytes, b.start + 5), Word(bytes, b.start + 7)>>

WellFormed(bytes, b) ==
    /\ b.kind # "trailer" /\ Chain(bytes, b.places)
    /\ b.kind = "text" => Text(bytes, b)
    /\ b.kind = "control" => ControlBlock(bytes, b)
    /\ b.kind = "image" => Image(bytes, b)

\* The next block.
Follows(b, next) ==
    /\ next.start = b.places[Len(b.places)] + 1
    /\ next.image = b.image + IF b.kind = "image" THEN 1 ELSE 0

\* What follows the colour table of a GIF with images of those sizes.
WholeGif(bytes, images, blocks) ==
    LET last == Len(blocks) IN
    /\ blocks \in Seq(Block) /\ blocks # <<>>
    /\ blocks[1].start = 0 /\ blocks[1].image = 0
    /\ \A i \in 1 .. last - 1 :
          /\ WellFormed(bytes, blocks[i]) /\ Follows(blocks[i], blocks[i + 1])
          /\ blocks[i].kind = "image" =>
                /\ blocks[i].image < Len(images)
                /\ images[blocks[i].image + 1] = ImageSize(bytes, blocks[i])
    /\ blocks[last].kind = "trailer"
    /\ blocks[last].start < Len(bytes) /\ Octet(bytes, blocks[last].start) = 59
    /\ blocks[last].image = Len(images)
=============================================================================
