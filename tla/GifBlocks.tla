------------------------------ MODULE GifBlocks ------------------------------
(***************************************************************************)
(* What the header parser promises of a GIF, without its buffer: the       *)
(* blocks behind the colour table, read from the file itself, byte after   *)
(* byte, until a second image, the trailer or the end.                     *)
(***************************************************************************)
EXTENDS Integers, Sequences

CONSTANTS
    Trailer, Extension, ImageStart, Control, Texts,  \* the bytes of the format
    TableSize(_)   \* bytes of a colour table

VARIABLES
    file,          \* the original
    at,            \* what is read next, or "done"
    pos,           \* bytes of it that have been passed
    imagecount, image_type, image_info

Has(n) == pos + n <= Len(file.bytes)

\* The byte n behind the position; behind the end it may be any.
ByteAt(n) == IF Has(n + 1) THEN {file.bytes[pos + n + 1]} ELSE 0 .. 255

Init == at = "block" /\ pos = 0 /\ imagecount = 0 /\ image_type = "none"

Pass(n, label) == at' = label /\ pos' = pos + n /\ UNCHANGED image_type

Stop(type) ==
    /\ at' = "done" /\ image_type' = type
    /\ UNCHANGED <<pos, imagecount>>

\* The file ends before that many bytes.
EndsBefore(n) == ~Has(n) /\ Stop("unknown")

\* A block that reaches over the end is noticed by the next.
Block ==
    /\ at = "block" /\ UNCHANGED <<imagecount, image_info>>
    /\ \/ pos > Len(file.bytes) /\ Stop("gif")
       \/ pos <= Len(file.bytes) /\ EndsBefore(1)
       \/ /\ Has(1)
          /\ \E b \in ByteAt(0) :
             \/ b = Trailer /\ Stop("gif")
             \/ /\ b # Trailer
                /\ Pass(1, CASE b = Extension -> "extension"
                             [] b = ImageStart -> "image"
                             [] OTHER -> "block")

ExtensionKind ==
    /\ at = "extension" /\ UNCHANGED <<imagecount, image_info>>
    /\ \/ EndsBefore(1)
       \/ /\ Has(1)
          /\ \E b \in ByteAt(0) :
                Pass(1, CASE b = Control -> "control"
                          [] b \in Texts -> "texts"
                          [] OTHER -> "block")

ControlData ==
    /\ at = "control" /\ UNCHANGED <<imagecount, image_info>>
    /\ \/ EndsBefore(6)
       \/ /\ Has(1)
          /\ \E b \in ByteAt(0) :
             \/ b # 4 /\ Stop("none")
             \/ b = 4 /\ Pass(6, "block")

FirstText ==
    /\ at = "texts" /\ UNCHANGED <<imagecount, image_info>>
    /\ EndsBefore(1) \/ (Has(1) /\ Pass(0, "length"))

\* The pieces of a text, up to one of no bytes.
TextPiece ==
    /\ at = "length" /\ UNCHANGED <<imagecount, image_info>>
    /\ Has(1)
    /\ \E n \in ByteAt(0) :
       \/ n = 0 /\ Pass(1, "block")
       \/ n > 0 /\ EndsBefore(1 + n)
       \/ n > 0 /\ Has(2) /\ Pass(1 + n, "length")

\* Only the first image gives its size.
ImageHead ==
    /\ at = "image" /\ UNCHANGED imagecount
    /\ \/ EndsBefore(9) /\ UNCHANGED image_info
       \/ /\ Has(1)
          /\ \E w0 \in ByteAt(4), w1 \in ByteAt(5),
                h0 \in ByteAt(6), h1 \in ByteAt(7), flags \in ByteAt(8) :
             /\ image_info' = IF imagecount = 0
                              THEN [width |-> w0 + 256 * w1,
                                    height |-> h0 + 256 * h1]
                              ELSE image_info
             /\ \/ EndsBefore(TableSize(flags) + 9)
                \/ Pass(TableSize(flags) + 9, "code_size")

CodeSize ==
    /\ at = "code_size" /\ UNCHANGED <<imagecount, image_info>>
    /\ \/ EndsBefore(1)
       \/ /\ Has(1)
          /\ \E b \in ByteAt(0) :
             \/ b \notin 2 .. 9 /\ Stop("unknown")
             \/ b \in 2 .. 9 /\ Pass(1, "data")

\* The pieces of an image's data, which nobody looks at; a second image shows
\* that the GIF is animated.
DataPiece ==
    /\ at = "data" /\ UNCHANGED image_info
    /\ \/ EndsBefore(1)
       \/ /\ Has(1)
          /\ \E n \in ByteAt(0) :
             \/ n > 0 /\ Pass(1 + n, "data") /\ UNCHANGED imagecount
             \/ /\ n = 0 /\ imagecount = 0
                /\ Pass(1, "block") /\ imagecount' = 1
             \/ n = 0 /\ imagecount = 1 /\ Stop("agif")

Next ==
    \/ Block \/ ExtensionKind \/ ControlData \/ FirstText \/ TextPiece
    \/ ImageHead \/ CodeSize \/ DataPiece
=============================================================================
