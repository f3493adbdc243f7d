---------------------------- MODULE MCImgHeader -----------------------------
(***************************************************************************)
(* GIFs for checking ImgHeader, encoded block by block, with a buffer of   *)
(* 32 bytes.  A text in front moves what follows over the buffer's end.    *)
(***************************************************************************)
EXTENDS ImgHeader, SequencesExt

\* That many bytes; a byte of data looks like the start of an image.
Filling(n) == [i \in 1 .. n |-> ImageStart]
Pieces(lengths) ==
    FlattenSeq([i \in DOMAIN lengths |-> <<lengths[i]>> \o Filling(lengths[i])])

\* A block: what is in front of its pieces, and their lengths.
Text(lengths) ==
    [kind |-> "text", front |-> <<Extension, 254>>, lengths |-> lengths]

ControlBlock ==
    [kind |-> "control", front |-> <<Extension, Control>>, lengths |-> <<4>>]

\* An image of that size, with a colour table of two colours or none.
Picture(w, h, table, lengths) ==
    [kind |-> "image", lengths |-> lengths,
     front |-> <<ImageStart, 0, 0, 0, 0, w, 0, h, 0>>
               \o (IF table THEN <<128>> \o Filling(6) ELSE <<0>>) \o <<2>>]

Encoded(list) ==
    FlattenSeq([i \in DOMAIN list |->
                   list[i].front \o Pieces(list[i].lengths) \o <<0>>])
    \o <<Trailer>>

\* Where the blocks and their pieces are.
Laid(list) ==
    [i \in 1 .. Len(list) + 1 |->
        LET front == SubSeq(list, 1, i - 1)
            start == Len(Encoded(front)) - 1
            image == Len(SelectSeq(front, LAMBDA b : b.kind = "image"))
        IN IF i > Len(list)
           THEN [kind |-> "trailer", start |-> start, image |-> image,
                 places |-> <<>>]
           ELSE [kind |-> list[i].kind, start |-> start, image |-> image,
                 places |->
                    [k \in 1 .. Len(list[i].lengths) + 1 |->
                        start + Len(list[i].front)
                        + Len(Pieces(SubSeq(list[i].lengths, 1, k - 1)))]]]

Gif(w, h, list, images) ==
    [type |-> "gif", w |-> w, h |-> h, bytes |-> Encoded(list),
     images |-> images, blocks |-> Laid(list), whole |-> TRUE]

\* One or two images behind a text of each length.
TextThenImages(n, table, data, two) ==
    Gif(50, 50,
        <<Text(<<n>>), Picture(5, 4, table, data)>>
        \o (IF two THEN <<ControlBlock, Picture(3, 2, ~table, data)>> ELSE <<>>),
        IF two THEN <<<<5, 4>>, <<3, 2>>>> ELSE <<<<5, 4>>>>)

WholeGifs ==
    {TextThenImages(n, table, data, two) :
        n \in 1 .. 15, table \in BOOLEAN, two \in BOOLEAN,
        data \in {<<1>>, <<9, 40>>, <<15, 3>>}}
    \cup {Gif(50, 50, <<>>, <<>>)}

\* The same cut off after each byte.
CutGifs ==
    {[TextThenImages(7, TRUE, <<20>>, TRUE) EXCEPT
        !.bytes = SubSeq(@, 1, n), !.whole = FALSE] : n \in 1 .. 60}

\* Texts in two pieces, of which the first may end where the buffer does.
TextGifs ==
    {Gif(50, 50, <<Text(<<15, n, 2>>), Picture(5, 4, FALSE, <<1>>)>>,
         <<<<5, 4>>>>) : n \in 1 .. 15}

SomeGifs == WholeGifs \cup CutGifs \cup TextGifs

StackBytes == {0, 1}
=============================================================================
