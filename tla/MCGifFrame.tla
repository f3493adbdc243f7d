----------------------------- MODULE MCGifFrame ------------------------------
(***************************************************************************)
(* GIFs for checking GifFrame: pictures of all the kinds the code table    *)
(* can meet, coded by an encoder of their own, which follows the format    *)
(* and not the decoder.                                                    *)
(***************************************************************************)
EXTENDS GifFrame, SequencesExt

\* How a picture is coded: a clearing code first, and after every so many
\* codes; the longest strings of the table or always one colour; the length
\* of the blocks.
Style == [start : BOOLEAN, every : Nat, greedy : BOOLEAN, block : 1 .. 255]
Greedy == [start |-> TRUE, every |-> 100, greedy |-> TRUE, block |-> 255]

MaxWidth(size) == Greater(MaxBits, size + 1)

\* A code has the fewest bits that hold all slots the receiver can have after
\* n codes, of which the first gives none.
Width(size, n) ==
    LET slots == 2^size + 2 + Greater(n - 1, 0)
        enough == {w \in size + 1 .. MaxWidth(size) : slots < 2^w}
    IN IF enough = {} THEN MaxWidth(size)
       ELSE CHOOSE w \in enough : \A v \in enough : w <= v

\* The longest prefix of the pixels that is a colour or in the dictionary.
Longest(pixels, dict, greedy) ==
    LET known == {k \in 2 .. Len(pixels) :
                     greedy /\ SubSeq(pixels, 1, k) \in ToSet(dict)}
    IN IF known = {} THEN 1 ELSE CHOOSE k \in known : \A l \in known : l <= k

CodeOf(string, dict, size) ==
    IF Len(string) = 1 THEN string[1]
    ELSE 2^size + 1 + (CHOOSE i \in DOMAIN dict : dict[i] = string)

\* A code with its width: where it begins, how many pixels come before it, and
\* how many codes since the dictionary was cleared.
Placed(code, size, n, from, bit) ==
    [code |-> code, width |-> Width(size, n), byte |-> (bit \div 8) + 1,
     bit |-> bit % 8, from |-> from, since |-> n]

\* The codes of the pixels, when n codes came since the dictionary was cleared.
RECURSIVE Coded(_, _, _, _, _, _, _)
Coded(pixels, dict, n, from, bit, size, style) ==
    IF pixels = <<>> THEN <<Placed(2^size + 1, size, n, from, bit)>>
    ELSE IF n >= style.every
    THEN <<Placed(2^size, size, n, from, bit)>>
         \o Coded(pixels, <<>>, 0, from, bit + Width(size, n), size, style)
    ELSE LET k == Longest(pixels, dict, style.greedy)
             string == SubSeq(pixels, 1, k)
             rest == SubSeq(pixels, k + 1, Len(pixels))
             more == rest # <<>> /\ 2^size + 2 + Len(dict) < 2^MaxWidth(size)
         IN <<Placed(CodeOf(string, dict, size), size, n, from, bit)>>
            \o Coded(rest, IF more THEN Append(dict, SubSeq(pixels, 1, k + 1))
                                   ELSE dict,
                     n + 1, from + k, bit + Width(size, n), size, style)

Codes(pixels, size, style) ==
    IF style.start
    THEN <<Placed(2^size, size, 0, 0, 0)>>
         \o Coded(pixels, <<>>, 0, 0, size + 1, size, style)
    ELSE Coded(pixels, <<>>, 0, 0, 0, size, style)

\* The bits of the codes, lowest first, in bytes.
RECURSIVE Packed(_, _, _)
Packed(coded, rest, width) ==
    IF width >= 8 THEN <<rest % 256>> \o Packed(coded, rest \div 256, width - 8)
    ELSE IF coded # <<>>
    THEN Packed(Tail(coded), rest + coded[1].code * 2^width, width + coded[1].width)
    ELSE IF width > 0 THEN <<rest>> ELSE <<>>

RECURSIVE InBlocks(_, _)
InBlocks(bytes, n) ==
    IF bytes = <<>> THEN <<0>>
    ELSE LET k == Least(n, Len(bytes)) IN
         <<k>> \o SubSeq(bytes, 1, k) \o InBlocks(SubSeq(bytes, k + 1, Len(bytes)), n)

\* How many bytes are before each block, and before the end.
Before(data, n) ==
    [q \in 1 .. ((Len(data) + n - 1) \div n) + 1 |-> Least((q - 1) * n, Len(data))]

\* What a file is put together of: the bytes of a part, and the part as it is
\* at the start of a file that hides no colour.
Plain(kind, places) ==
    [kind |-> kind, start |-> 0, places |-> places, hidden |-> -1, before |-> <<>>,
     data |-> <<>>, codes |-> <<>>, pixels |-> <<>>, rows |-> <<>>]

-----------------------------------------------------------------------------
\* A picture is its size and the colour number of each place.
Drawn(w, h, Colour(_, _)) ==
    [w |-> w, h |-> h, at |-> [p \in (0 .. h - 1) \X (0 .. w - 1) |-> Colour(p[1], p[2])]]

Flat(w, h) == Drawn(w, h, LAMBDA r, k : 0)
Ramp(w, h) == Drawn(w, h, LAMBDA r, k : (r * w + k) % 4)
Mixed(w, h) == Drawn(w, h, LAMBDA r, k : ((r * r + 3 * r + k * k * k) \div 2) % 4)

\* The order of rows in an interlaced image: every eighth row, those between
\* them, those between these, and the rest.
InPass(h, first, step) ==
    SelectSeq([i \in 1 .. h |-> i - 1], LAMBDA r : r % step = first)
RowOrder(h, interlaced) ==
    IF interlaced
    THEN InPass(h, 0, 8) \o InPass(h, 4, 8) \o InPass(h, 2, 4) \o InPass(h, 1, 2)
    ELSE [i \in 1 .. h |-> i - 1]

PixelsOf(p, interlaced) ==
    [i \in 1 .. p.w * p.h |->
        p.at[RowOrder(p.h, interlaced)[((i - 1) \div p.w) + 1], (i - 1) % p.w]]

GlobalTable == <<255, 0, 0,  8, 252, 16,  40, 60, 80,  120, 140, 255>>
LocalTable == <<1, 2, 3,  7, 3, 7,  200, 100, 50,  90, 180, 11>>
ColourIn(rgb, n) == Rgb565(rgb[3 * n + 1], rgb[3 * n + 2], rgb[3 * n + 3])

Header(w, h, global) ==
    <<71, 73, 70, 56, 57, 97, w, 0, h, 0>>
    \o (IF global THEN <<129, 2, 0>> \o GlobalTable ELSE <<1, 0, 0>>)

Short(n) == <<n % 256, n \div 256>>
ImageOf(p, interlaced, local, size, style, pixels) ==
    LET codes0 == Codes(pixels, size, style)
        data == Packed(codes0, 0, 0)
        front == <<44, 0, 0, 0, 0>> \o Short(p.w) \o Short(p.h)
                 \o <<(IF interlaced THEN 64 ELSE 0) + (IF local THEN 129 ELSE 0)>>
                 \o (IF local THEN LocalTable ELSE <<>>) \o <<size>>
        before == Before(data, style.block)
    IN [bytes |-> front \o InBlocks(data, style.block),
        part |-> [Plain(IF pixels = <<>> THEN "empty" ELSE "drawn",
                        [q \in DOMAIN before |-> Len(front) + before[q] + q - 1])
                  EXCEPT !.before = before, !.data = data, !.codes = codes0,
                         !.pixels = pixels, !.rows = RowOrder(p.h, interlaced)]]

\* A control block that hides a colour, or with -1 none.
Control(hidden) ==
    [bytes |-> <<33, 249, 4, IF hidden >= 0 THEN 1 ELSE 0, 10, 0,
                 Greater(hidden, 0), 0>>,
     part |-> [Plain("control", <<2, 7>>) EXCEPT !.hidden = hidden]]
Comment(n) == [bytes |-> <<33, 254, n>> \o [i \in 1 .. n |-> 44] \o <<0>>,
               part |-> Plain("text", <<2, n + 3>>)]
Filler == [bytes |-> <<0>>, part |-> Plain("filler", <<>>)]
Trailer == [bytes |-> <<59>>, part |-> Plain("trailer", <<>>)]

Bytes(pieces) == FlattenSeq([i \in DOMAIN pieces |-> pieces[i].bytes])

\* The parts where they are in the file, behind n bytes.
Parts(n, pieces) ==
    [i \in DOMAIN pieces |->
        LET before == n + Len(Bytes(SubSeq(pieces, 1, i - 1)))
            controls == {j \in 1 .. i - 1 : pieces[j].part.kind = "control"}
        IN [pieces[i].part EXCEPT
              !.start = before, !.places = [q \in DOMAIN @ |-> @[q] + before],
              !.hidden = IF controls = {} THEN -1
                         ELSE pieces[Max(controls)].part.hidden]]

\* What a viewer shows of the picture on a screen of w times h.
Shown(p, rgb, hidden, w, h, background) ==
    [q \in (0 .. h - 1) \X (0 .. w - 1) |->
        IF q[1] >= p.h \/ q[2] >= p.w THEN background
        ELSE IF p.at[q] = hidden THEN Black ELSE ColourIn(rgb, p.at[q])]

\* A file with those parts up to the image that is shown, and a rest.
File(w, h, head, pieces, rest, shown, frame) ==
    LET bytes == head \o Bytes(pieces) \o Bytes(rest) IN
    [w |-> w, h |-> h, bytes |-> bytes, whole |-> TRUE, shown |-> shown,
     picture |-> frame, original |-> bytes, parts |-> Parts(Len(head), pieces)]

\* An image without a pixel, and one that nobody gets to.
Empty(w, h) == ImageOf(Flat(w, h), FALSE, FALSE, 2, Greedy, <<>>)
Another == <<Control(1), ImageOf(Flat(1, 1), FALSE, FALSE, 2, Greedy, <<0>>), Trailer>>

\* A GIF that shows p, hiding a colour or none.
GifOf(p, interlaced, local, size, style, front, hidden) ==
    File(p.w, p.h, Header(p.w, p.h, TRUE),
         Append(front, ImageOf(p, interlaced, local, size, style,
                               PixelsOf(p, interlaced))),
         Another, TRUE,
         Shown(p, IF local THEN LocalTable ELSE GlobalTable, hidden, p.w, p.h, Black))

\* Every way to code a picture.
StyledGifs ==
    {GifOf(p, FALSE, FALSE, size, style, <<>>, -1) :
        p \in {Flat(6, 4), Ramp(4, 3), Mixed(5, 5)}, size \in {2, 8},
        style \in [start : BOOLEAN, every : {3, 100}, greedy : BOOLEAN,
                   block : {1, 2, 3, 255}]}

\* Interlaced images of all heights up to twelve.
InterlacedGifs ==
    {GifOf(Mixed(3, h), interlaced, local, 2, Greedy, <<>>, -1) :
        h \in 1 .. 12, interlaced \in BOOLEAN, local \in BOOLEAN}

\* Hidden colours, and other blocks in front of the image.
HidingGifs ==
    {GifOf(Mixed(4, 5), FALSE, local, 2, Greedy, Append(front, Control(hidden)), hidden) :
        local \in BOOLEAN, hidden \in -1 .. 3,
        front \in {<<>>, <<Comment(3)>>, <<Filler, Comment(1), Comment(2)>>}}

\* An empty image gives the size of the frame, and another one is shown; the
\* colour behind it is the third one, unless the control block hides that.
EmptyFirstGifs ==
    {File(4, 3, Header(4, 3, TRUE),
          <<Control(hidden), Empty(4, 3),
            ImageOf(p, FALSE, FALSE, 2, Greedy, PixelsOf(p, FALSE))>>,
          <<Trailer>>, TRUE,
          Shown(p, GlobalTable, hidden, 4, 3,
                IF hidden = 2 THEN Black ELSE ColourIn(GlobalTable, 2))) :
        p \in {Ramp(4, 3), Mixed(2, 2), Mixed(6, 2), Ramp(5, 5)}, hidden \in -1 .. 3}
    \cup
    {File(4, 3, Header(4, 3, global), <<Empty(4, 3), Empty(2, 2), Trailer>>, <<>>,
          FALSE, <<>>) : global \in BOOLEAN}
    \cup
    {File(0, 3, Header(4, 3, TRUE), <<Empty(0, 3)>>, Another, FALSE, <<>>)}

\* Files that were shortened since the header parser read them.
CutGifs ==
    UNION {{[f EXCEPT !.whole = FALSE, !.bytes = SubSeq(@, 1, n)] :
              n \in 25 .. Len(f.bytes) - 1} :
           f \in {GifOf(Mixed(5, 5), FALSE, TRUE, 2, [Greedy EXCEPT !.block = 4],
                        <<Comment(3), Control(1)>>, 1),
                  GifOf(Ramp(3, 3), TRUE, FALSE, 8, Greedy, <<>>, -1)}}

\* Files longer than what is read of them.
LongGifs ==
    {GifOf(Mixed(4, 5), FALSE, FALSE, 2, Greedy, <<Comment(n)>>, -1) : n \in {95, 98, 120}}

SomeGifs == StyledGifs \cup InterlacedGifs \cup HidingGifs \cup EmptyFirstGifs
            \cup CutGifs \cup LongGifs

\* They are what the format says.
ASSUME AllShown

AnyByte == {0, 44, 59, 255}
=============================================================================
