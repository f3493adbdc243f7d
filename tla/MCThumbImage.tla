---------------------------- MODULE MCThumbImage ----------------------------
(***************************************************************************)
(* Originals for checking ThumbImage.  Large thumbnails are 8 x 6 and      *)
(* small ones 4 x 3, so that sizes below, at and above them are small too. *)
(***************************************************************************)
EXTENDS ThumbImage, MCImgHeader

Plain(type, w, h) ==
    [type |-> type, w |-> w, h |-> h, turns |-> 0, exif |-> NoExif,
     there |-> NoThumb,
     bytes |-> <<>>, images |-> <<>>, blocks |-> <<>>, whole |-> TRUE]

Jpeg(turns, exif) ==
    [Plain("jpeg", 12, 9) EXCEPT !.turns = turns, !.exif = exif]

\* ... with what earlier requests left at its hash path: the thumbnail of its
\* EXIF data, or one made from that or from the original.
Again(jpeg) ==
    {[jpeg EXCEPT !.there = thumb] :
        thumb \in {[w |-> jpeg.exif.w, h |-> jpeg.exif.h, raw |-> TRUE]}
                  \cup {[w |-> made[1], h |-> made[2], raw |-> FALSE] :
                          made \in {<<8, 6>>, <<6, 8>>, <<9, 3>>}}}

\* EXIF data without a thumbnail, and with one for each thumbnail type.
SomeExif ==
    {[thumb |-> FALSE, w |-> 0, h |-> 0, sized |-> TRUE]}
    \cup [thumb : {TRUE}, w : {4, 9}, h : {3}, sized : BOOLEAN]

\* Square, landscape, portrait, smaller than a thumbnail, a line, too big,
\* too big for an int, and nothing at all.
Shapes == {<<8, 8>>, <<12, 9>>, <<7, 11>>, <<3, 2>>, <<2, 3>>, <<20, 1>>,
           <<1, 20>>, <<30, 30>>, <<50, 50>>, <<0, 0>>}

\* A GIF of MCImgHeader, as an original.
ReadGif(g) ==
    [Plain("gif", g.w, g.h) EXCEPT
        !.bytes = g.bytes, !.images = g.images, !.blocks = g.blocks,
        !.whole = g.whole]

\* A GIF of one or two images of that size.
ShownGif(w, h, two) ==
    ReadGif(Gif(w, h,
                <<Picture(w, h, FALSE, <<1>>)>>
                \o (IF two THEN <<Picture(1, 1, FALSE, <<1>>)>> ELSE <<>>),
                IF two THEN <<<<w, h>>, <<1, 1>>>> ELSE <<<<w, h>>>>))

SomeFiles ==
    {Plain(type, shape[1], shape[2]) :
        type \in {"still", "wbmp", "video"}, shape \in Shapes}
    \cup {ShownGif(shape[1], shape[2], two) : shape \in Shapes, two \in BOOLEAN}
    \cup {ReadGif(g) : g \in SomeGifs}
    \cup {Jpeg(turns, exif) : turns \in 0 .. 3 \cup {Mirrored}, exif \in SomeExif}
    \cup UNION {Again(Jpeg(turns, exif)) :
                   turns \in 0 .. 3 \cup {Mirrored},
                   exif \in {e \in SomeExif : e.thumb /\ e.sized}}
    \cup {Jpeg(0, NoExif)}
    \cup {Plain("unknown", 8, 8), Plain("other", 8, 8)}

\* Every library call fails but those that leak.
SoundFails == Calls \ LeakingCalls

AnyBuffer == Permutations(Buffers)
=============================================================================
