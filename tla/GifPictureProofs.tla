-------------------------- MODULE GifPictureProofs --------------------------
(***************************************************************************)
(* That the frame is the picture a viewer shows: the codes are those the   *)
(* format gives, the strings the pixels they stand for, the lines the rows *)
(* in their order, and the colours those of the tables.  Together with     *)
(* GifFileProofs it makes FrameTrack an invariant, and FrameRight follows. *)
(***************************************************************************)
EXTENDS GifFileProofs

\* The numbers of the image.
LEMMA ImageNumbers ==
    ASSUME NEW f, NEW b, ImageIs(f, b)
    PROVE  /\ image.size = Format!Size(f.original, b)
           /\ image.wdt = Format!Width(f.original, b)
           /\ image.hgt = Format!Height(f.original, b)
           /\ image.interlaced = Format!Interlaced(f.original, b)
           /\ clear = Format!Clear(image.size) /\ ending = Format!Ending(image.size)
           /\ newcodes = Format!FirstEntry(image.size)
<1>1. clear = Format!Clear(image.size)
    BY DEF clear, Format!Clear
<1>2. ending = Format!Ending(image.size)
    BY DEF ending, clear, Format!Ending
<1>3. newcodes = Format!FirstEntry(image.size)
    BY DEF newcodes, clear, Format!FirstEntry
<1> QED BY <1>1, <1>2, <1>3 DEF ImageIs

\* The lines of an image with pixels.
LEMMA LinesOf ==
    ASSUME NEW f, Reading(f), NEW i \in DOMAIN f.parts, NEW b, b = f.parts[i],
           b.kind = "drawn", ImageIs(f, b), Input
    PROVE  /\ image.wdt \in Nat \ {0} /\ image.hgt \in Nat \ {0}
           /\ Len(b.pixels) = image.hgt * image.wdt
<1>1. Format!Lines(f.original, b)
    BY ImagePart DEF Format!Drawn
<1>2. image.wdt = Format!Width(f.original, b) /\ image.hgt = Format!Height(f.original, b)
    BY ImageNumbers
<1>3. Format!Width(f.original, b) > 0 /\ Format!Height(f.original, b) > 0
    BY ImageFacts
<1>4. image.wdt \in Nat /\ image.hgt \in Nat
    BY DEF Input, ImageRecord
<1>5. image.wdt \in Nat \ {0} /\ image.hgt \in Nat \ {0}
    BY <1>2, <1>3, <1>4
<1>6. Len(b.pixels) = Format!Height(f.original, b) * Format!Width(f.original, b)
    BY <1>1, Zenon DEF Format!Lines
<1> QED BY <1>2, <1>5, <1>6

\* In front of the last line there are fewer pixels than the image has.
LEMMA LinesLeft ==
    ASSUME NEW w \in Nat, NEW h \in Nat, NEW done \in Nat, done < h,
           NEW filled \in Nat, filled < w
    PROVE  done * w + filled < h * w /\ done * w + filled \in Nat
<1>1. PICK rest \in Nat : h = done + 1 + rest
    <2>1. h - done - 1 \in Nat /\ h = done + 1 + (h - done - 1)
        OBVIOUS
    <2> QED BY <2>1
<1>2. (done + 1 + rest) * w = done * w + w + rest * w
    OBVIOUS
<1>3. PICK x \in Nat, y \in Nat : x = done * w /\ y = rest * w
    OBVIOUS
<1>4. h * w = x + w + y
    BY <1>1, <1>2, <1>3
<1> QED BY <1>3, <1>4

\* The end of an image is that of its data, and leads to what follows it.
LEMMA TrackEnding ==
    ASSUME NEW f, Reading(f), Input, Reader, Strings, Progress, Decoded,
           NEW i \in DOMAIN f.parts, NEW b, b = f.parts[i],
           NEW k, NEW q, InImage(f, b, k, q), UseEnding
    PROVE  FrameTrack'
<1>1. /\ b.kind \in {"empty", "drawn"} /\ k \in DOMAIN b.codes /\ q \in DOMAIN b.places
      /\ Hides(b) /\ ImageIs(f, b) /\ ReaderIs(f, b, k, q) /\ TableIs(b, k)
      /\ LinesAre(f, b, k)
    BY DEF InImage
<1>2. HasCode /\ c = ending /\ at = "bits"
    BY DEF UseEnding, HasCode
<1>3. c = b.codes[k].code /\ TakenOf(b, q) = Format!LastByte(b.codes[k])
    BY <1>2, CodeRead
<1>4. b.codes[k].code = Format!Ending(Format!Size(f.original, b))
    BY <1>1, <1>2, <1>3, ImageNumbers
<1>5. b.codes[k].from = Len(b.pixels) /\ TakenOf(b, q) = Len(b.data)
    BY <1>1, <1>3, <1>4, LastCode
<1>6. CASE b.kind = "empty"
    <2>1. PICK last, len : last = Len(b.places) /\ len = Len(b.data) /\ len \in Nat
        BY <1>1, DataOf
    <2>2. /\ last \in Nat \ {0}
          /\ \A p \in 1 .. last : b.before[p] <= len
          /\ \A p \in 1 .. last - 1 : b.before[p] < len
        BY <1>1, <2>1, DataLeft
    <2>3. q \in 1 .. last
        BY <1>1, <2>1, PiecesOf
    <2>4. PICK n \in Nat, navail \in Nat : n = b.before[q] /\ navail = navail_bytes
        <3>1. b.before[q] \in Nat
            BY <1>1, TakenType
        <3>2. navail_bytes \in Nat
            BY <1>1, TakenType
        <3> QED BY <3>1, <3>2
    <2>5. len = n - navail
        BY <1>5, <2>1, <2>4 DEF TakenOf
    <2>6. q = last
        <3>1. q \notin 1 .. last - 1
            <4>1. ASSUME q \in 1 .. last - 1 PROVE FALSE
                <5>1. n < len
                    BY <2>2, <2>4, <4>1
                <5> QED BY ONLY <2>1, <2>5, <5>1, n \in Nat, navail \in Nat
            <4> QED BY <4>1
        <3> QED BY ONLY <2>2, <2>3, <3>1
    <2>7. navail = 0
        <3>1. n <= len
            BY <2>2, <2>3, <2>4
        <3> QED BY ONLY <2>1, <2>5, <3>1, n \in Nat, navail \in Nat
    <2>8. inputPos = b.places[last] /\ inputPos <= Len(f.bytes)
        <3>1. inputPos + navail = b.places[last] /\ b.places[last] <= Len(f.bytes)
            BY <1>1, <2>4, <2>6 DEF ReaderIs
        <3>2. inputPos \in Nat
            BY DEF Input
        <3> QED BY ONLY <2>7, <3>1, <3>2
    <2>9. phase \in {"first", "first_clear"}
        BY <1>1, <1>6 DEF TableIs
    <2>10. at' = "block" /\ inputPos' = inputPos
        BY <1>2, <2>9, CodeSame DEF UseEnding
    <2>11. ~Format!OwnTable(f.original, b)
        BY <1>6, PartsOf, Zenon DEF Format!After
    <2>12. numcolors = FileColours
        BY <1>1, <2>11, Zenon DEF ImageIs
    <2>13. Hides(b)' /\ FileColours' = FileColours /\ numcolors' = numcolors
        BY <1>1, <1>2, CodeSame, HidesSame DEF picture
    <2>14. AtBlock(f, b)'
        BY <1>6, <2>1, <2>8, <2>10, <2>12, <2>13 DEF AtBlock
    <2>15. gif' = gif
        BY <1>2, CodeSame
    <2> QED BY <2>14, <2>15, ToBlock
<1>7. CASE b.kind = "drawn"
    <2>1. PICK w \in Nat \ {0}, h \in Nat \ {0} :
             w = image.wdt /\ h = image.hgt /\ Len(b.pixels) = h * w
        BY <1>1, <1>7, LinesOf
    <2>2. PICK done \in Nat, filled \in Nat : done = rowcount /\ filled = Len(line)
        BY DEF Decoded, Strings
    <2>3. filled < w
        BY <1>2, <2>1, <2>2 DEF Progress, Decoding
    <2>4. done < h /\ b.codes[k].from = done * w + filled
        BY <1>1, <1>2, <1>7, <2>1, <2>2, Zenon DEF LinesAre
    <2>5. done * w + filled < h * w /\ done * w + filled \in Nat
        BY <2>3, <2>4, LinesLeft
    <2>6. done * w + filled = h * w
        BY ONLY <1>5, <2>1, <2>4, Zenon
    <2> QED BY ONLY <2>5, <2>6
<1> QED BY <1>1, <1>6, <1>7

\* The size of a code, by how many codes came since a clearing one.
LEMMA WidthOf ==
    ASSUME NEW f, Reading(f), NEW i \in DOMAIN f.parts, NEW b, b = f.parts[i],
           b.kind \in {"empty", "drawn"}, NEW k \in DOMAIN b.codes
    PROVE  /\ Format!WidthFor(b.codes[k].width, Format!Size(f.original, b),
                              Format!Entries(Format!Size(f.original, b), b.codes[k].since))
           /\ Format!Size(f.original, b) \in 2 .. 8
<1>1. PICK size, last : size = Format!Size(f.original, b) /\ last = Len(b.codes)
    OBVIOUS
<1>2. Format!Coded(b, size)
    BY <1>1, ImagePart DEF Format!CodedImage
<1>3. DOMAIN b.codes = 1 .. last
    BY <1>1, CodesOf
<1>4. \A j \in 1 .. last :
         Format!WidthFor(b.codes[j].width, size, Format!Entries(size, b.codes[j].since))
    BY ONLY <1>1, <1>2, Zenon DEF Format!Coded
<1>5. size \in 2 .. 8
    BY <1>1, ImageFacts
<1>6. k \in 1 .. last
    BY <1>3
<1> QED BY ONLY <1>1, <1>4, <1>5, <1>6, Zenon

\* The pixels that a code stands for are pixels of the image.
LEMMA CodeStands ==
    ASSUME NEW f, Reading(f), NEW i \in DOMAIN f.parts, NEW b, b = f.parts[i],
           b.kind \in {"empty", "drawn"}, NEW k \in DOMAIN b.codes,
           b.codes[k].code # Format!Ending(Format!Size(f.original, b)),
           b.codes[k].code # Format!Clear(Format!Size(f.original, b))
    PROVE  /\ b.kind = "drawn"
           /\ b.codes[k].from \in Nat /\ b.codes[k + 1].from \in Nat
           /\ b.codes[k].from < b.codes[k + 1].from
           /\ b.codes[k + 1].from <= Len(b.pixels) /\ Len(b.pixels) \in Nat
           /\ \A m \in 1 .. Len(b.pixels) : b.pixels[m] \in 0 .. 255
<1>1. PICK size : size = Format!Size(f.original, b)
    OBVIOUS
<1>2. Format!Stands(b, size, k) /\ k + 1 \in DOMAIN b.codes
    BY <1>1, NextCode
<1>3. b.codes[k].from \in Nat
    <2>1. PICK e : e = b.codes[k]
        OBVIOUS
    <2>2. e.from \in Nat
        BY <2>1, CodeFacts
    <2> QED BY <2>1, <2>2
<1>4. b.codes[k + 1].from \in Nat
    <2>1. PICK e : e = b.codes[k + 1]
        OBVIOUS
    <2>2. e.from \in Nat
        BY <1>2, <2>1, CodeFacts
    <2> QED BY <2>1, <2>2
<1>5. /\ b.codes[k + 1].from - b.codes[k].from > 0
      /\ b.codes[k + 1].from <= Len(b.pixels)
    BY ONLY <1>2, Zenon DEF Format!Stands
<1>6. b.pixels \in Seq(0 .. 255)
    BY PartType
<1>7. Len(b.pixels) \in Nat /\ \A m \in 1 .. Len(b.pixels) : b.pixels[m] \in 0 .. 255
    BY ONLY <1>6, ElementOfSeq
<1>8. b.codes[k].from < b.codes[k + 1].from
    BY ONLY <1>3, <1>4, <1>5
<1>9. b.kind = "drawn"
    <2>1. ASSUME b.kind = "empty" PROVE FALSE
        <3>1. b.pixels = <<>>
            BY <2>1, ImagePart
        <3>2. Len(b.pixels) = 0
            BY <3>1
        <3> QED BY ONLY <1>3, <1>4, <1>5, <1>8, <3>2
    <2> QED BY <2>1
<1> QED BY <1>3, <1>4, <1>5, <1>7, <1>8, <1>9

\* A clearing code leaves the pixels as they are.
LEMMA TrackClear ==
    ASSUME NEW f, Reading(f), Input, Reader, NEW i \in DOMAIN f.parts, NEW b, b = f.parts[i],
           NEW k, NEW q, InImage(f, b, k, q), UseClear
    PROVE  FrameTrack'
<1>1. /\ b.kind \in {"empty", "drawn"} /\ k \in DOMAIN b.codes /\ q \in DOMAIN b.places
      /\ Hides(b) /\ ImageIs(f, b) /\ ReaderIs(f, b, k, q) /\ TableIs(b, k)
      /\ LinesAre(f, b, k)
    BY DEF InImage
<1>2. /\ HasCode /\ c = clear /\ at = "bits" /\ at' = "code"
      /\ curr_size' = image.size + 1 /\ table' = <<>>
      /\ phase' = IF phase \in {"first", "first_clear"} THEN "first_clear" ELSE "cleared"
    BY DEF UseClear, HasCode
<1>3. c = b.codes[k].code
    BY <1>2, CodeRead
<1>4. PICK size \in 2 .. 8 : size = Format!Size(f.original, b)
    BY <1>1, WidthOf
<1>5. image.size = size /\ image' = image
    BY <1>1, <1>2, <1>4, ImageNumbers, CodeSame
<1>6. b.codes[k].code = Format!Clear(size)
    BY <1>1, <1>2, <1>3, <1>5, ImageNumbers
<1>7. b.codes[k].code # Format!Ending(size)
    <2>1. size \in 0 .. 12
        OBVIOUS
    <2>2. PICK power \in Nat : power = Two(size)
        BY ONLY <2>1, TwoType
    <2>3. power # power + 1
        OBVIOUS
    <2> QED BY ONLY <1>6, <2>2, <2>3, Zenon DEF Format!Clear, Format!Ending
<1>8. k + 1 \in DOMAIN b.codes /\ b.codes[k + 1].since = 0
      /\ b.codes[k + 1].from = b.codes[k].from
    BY <1>1, <1>4, <1>6, <1>7, NextCode
<1>9. b.codes[k + 1].width = size + 1
    <2>1. Format!WidthFor(b.codes[k + 1].width, size, Format!Entries(size, b.codes[k + 1].since))
        BY <1>1, <1>4, <1>8, WidthOf
    <2>2. Format!Entries(size, b.codes[k + 1].since) = 0
        BY <1>8, EntriesFirst
    <2> QED BY <2>1, <2>2, WidthFirst
<1>10. ReaderIs(f, b, k + 1, q)'
    BY <1>1, <1>2, <1>4, <1>7, ReaderUsed
<1>11. TableIs(b, k + 1)'
    <2>1. Len(table') = 0 /\ Format!Entries(size, 0) = 0
        BY <1>2, EntriesFirst
    <2>2. phase' # "next" /\ (b.kind = "empty" => phase' \in {"first", "first_clear"})
        BY <1>1, <1>2 DEF TableIs
    <2>3. ~(b.codes[k + 1].since > 0)
        BY <1>8
    <2>4. curr_size' = b.codes[k + 1].width
        BY <1>2, <1>5, <1>9
    <2>5. Len(table') = Format!Entries(image'.size, b.codes[k + 1].since)
        BY <1>5, <1>8, <2>1
    <2>6. \A j \in 1 .. Len(table') : FALSE
        BY <2>1
    <2> QED BY ONLY <2>2, <2>3, <2>4, <2>5, <2>6, Zenon DEF TableIs
<1>12. LinesAre(f, b, k + 1)'
    <2>1. LinesAre(f, b, k)'
        BY <1>1, <1>2, <1>5, CodeSame, LinesKept
    <2> QED BY ONLY <1>2, <1>8, <2>1, Zenon DEF LinesAre
<1>13. Hides(b)' /\ ImageIs(f, b)' /\ gif' = gif
    BY <1>1, <1>2, CodeSame, HidesSame
<1>14. InImage(f, b, k + 1, q)'
    BY <1>1, <1>8, <1>10, <1>11, <1>12, <1>13, Zenon DEF InImage
<1> QED BY <1>1, <1>2, <1>8, <1>13, <1>14, ToImage

\* What the table is to be, part by part.
LEMMA TableBecomes ==
    ASSUME NEW b, NEW k, curr_size' = b.codes[k].width,
           phase' = "next" <=> b.codes[k].since > 0,
           b.kind = "empty" => phase' \in {"first", "first_clear"},
           Len(table') = Format!Entries(image'.size, b.codes[k].since),
           \A j \in 1 .. Len(table') :
              Spells(b, table'[j], b.codes[Entry(b, k, j)].from,
                     b.codes[Entry(b, k, j) + 1].from + 1),
           b.codes[k].since > 0 /\ Len(table') < TableRoom' =>
              /\ Spells(b, StringOf(oc)', b.codes[k - 1].from, b.codes[k].from)
              /\ fc' = b.pixels[b.codes[k - 1].from + 1]
    PROVE  TableIs(b, k)'
    BY DEF TableIs

\* The first code is a colour.
LEMMA TrackFirst ==
    ASSUME NEW f, Reading(f), Input, Reader, CodeTable, Decoded,
           NEW i \in DOMAIN f.parts, NEW b, b = f.parts[i],
           NEW k, NEW q, InImage(f, b, k, q), UseFirst
    PROVE  FrameTrack'
<1>1. /\ b.kind \in {"empty", "drawn"} /\ k \in DOMAIN b.codes /\ q \in DOMAIN b.places
      /\ Hides(b) /\ ImageIs(f, b) /\ ReaderIs(f, b, k, q) /\ TableIs(b, k)
      /\ LinesAre(f, b, k)
    BY DEF InImage
<1>2. /\ HasCode /\ c # clear /\ c # ending /\ at = "bits" /\ phase # "next"
      /\ phase' = "next" /\ curr_size' = curr_size /\ table' = table
      /\ at' = IF rowcount < image.hgt THEN "lines" ELSE "paint"
    BY DEF UseFirst, HasCode
<1>3. c = b.codes[k].code
    BY <1>2, CodeRead
<1>4. PICK size \in 2 .. 8 : size = Format!Size(f.original, b)
    BY <1>1, WidthOf
<1>5. image.size = size /\ image' = image
    BY <1>1, <1>2, <1>4, ImageNumbers, CodeSame
<1>6. clear = Format!Clear(size) /\ ending = Format!Ending(size)
      /\ newcodes = Format!FirstEntry(size)
    BY <1>1, <1>5, ImageNumbers
<1>7. b.codes[k].code # Format!Clear(size) /\ b.codes[k].code # Format!Ending(size)
    BY ONLY <1>2, <1>3, <1>6, Zenon
<1>8. /\ k + 1 \in DOMAIN b.codes /\ b.codes[k + 1].since = b.codes[k].since + 1
      /\ Format!Stands(b, size, k)
    BY <1>1, <1>4, <1>7, NextCode
<1>9. b.codes[k].since = 0 /\ b.codes[k + 1].since = 1
    <2>1. PICK since \in Nat : since = b.codes[k].since
        <3>1. PICK e : e = b.codes[k]
            OBVIOUS
        <3>2. e.since \in Nat
            BY <1>1, <3>1, CodeFacts
        <3> QED BY <3>1, <3>2
    <2>2. ~(since > 0)
        BY <1>1, <1>2, <2>1 DEF TableIs
    <2>3. since = 0
        BY ONLY <2>2, since \in Nat
    <2> QED BY <1>8, <2>1, <2>3
<1>10. /\ b.kind = "drawn" /\ b.codes[k].from \in Nat /\ b.codes[k + 1].from \in Nat
       /\ b.codes[k].from < b.codes[k + 1].from
       /\ b.codes[k + 1].from <= Len(b.pixels) /\ Len(b.pixels) \in Nat
       /\ \A m \in 1 .. Len(b.pixels) : b.pixels[m] \in 0 .. 255
    BY <1>1, <1>4, <1>7, CodeStands, ZenonT(30)
<1>11. PICK from \in Nat, to \in Nat, v \in Nat : /\ from = b.codes[k].from
                                                 /\ to = b.codes[k + 1].from
                                                 /\ v = b.codes[k].code
    BY <1>3, <1>10, CodeType
<1>12. to = from + 1 /\ b.pixels[from + 1] = v /\ v < Format!Clear(size)
    <2>1. Format!Entries(size, b.codes[k].since + 1) = 0
        <3>1. b.codes[k].since + 1 = 1
            BY <1>9
        <3> QED BY <3>1, EntriesFirst
    <2>2. PICK entry \in Nat : entry = Format!FirstEntry(size)
        <3>1. size \in 0 .. 12
            OBVIOUS
        <3>2. Two(size) \in Nat
            BY ONLY <3>1, TwoType
        <3> QED BY <3>2 DEF Format!FirstEntry
    <2>3. v \in Nat
        BY <1>3, <1>11, CodeType
    <2>4. ~(v >= entry /\ v < entry + 0)
        BY ONLY <2>3, entry \in Nat
    <2>5. to - from = 1 /\ b.pixels[from + 1] = v /\ v < Format!Clear(size)
        BY ONLY <1>8, <1>11, <2>1, <2>2, <2>4, Zenon DEF Format!Stands
    <2>6. to = from + 1
        BY ONLY <2>5, from \in Nat, to \in Nat
    <2> QED BY <2>5, <2>6
<1>13. PICK power \in Nat, len \in Nat : power = Two(size) /\ len = Len(table)
    <2>1. size \in 0 .. 12
        OBVIOUS
    <2>2. Two(size) \in Nat
        BY ONLY <2>1, TwoType
    <2>3. Len(table) \in Nat
        BY DEF CodeTable
    <2> QED BY <2>2, <2>3
<1>14. v \in Nat /\ v < power /\ newcodes = power + 2 /\ slot = newcodes + len
    <2>1. v \in Nat
        BY <1>3, <1>11, CodeType
    <2>2. newcodes = power + 2
        BY <1>6, <1>13 DEF Format!FirstEntry
    <2>3. v < power
        BY <1>12, <1>13 DEF Format!Clear
    <2> QED BY <1>13, <2>1, <2>2, <2>3 DEF slot
<1>15. ~(c >= slot) /\ c < newcodes
    <2>1. c = v
        BY <1>3, <1>11
    <2> QED BY ONLY <1>14, <2>1, power \in Nat, len \in Nat
<1>16. v \in 0 .. 255 /\ v % 256 = v
    <2>1. from + 1 \in 1 .. Len(b.pixels)
        BY ONLY <1>10, <1>11, <1>12, from \in Nat
    <2>2. v \in 0 .. 255
        BY ONLY <1>10, <1>12, <2>1
    <2> QED BY ONLY <2>2
<1>17. oc' = v /\ fc' = v /\ stack' = <<v>>
    <2>1. LET first == IF c >= slot THEN 0 ELSE c
          IN oc' = first /\ fc' = first /\ stack' = <<first % 256>>
        BY DEF UseFirst
    <2>2. oc' = c /\ fc' = c /\ stack' = <<c % 256>>
        BY ONLY <1>15, <2>1, Zenon
    <2>3. c = v
        BY <1>3, <1>11
    <2> QED BY ONLY <1>16, <2>2, <2>3, Zenon
<1>18. Spells(b, <<v>>, from, to)
    <2>1. <<v>> \in Seq(Nat) /\ Len(<<v>>) = 1
        BY <1>14
    <2>2. to - from = 1
        BY ONLY <1>12, from \in Nat
    <2>3. ASSUME NEW m \in 1 .. 1 PROVE <<v>>[m] = b.pixels[from + m]
        <3>1. m = 1
            BY ONLY m \in 1 .. 1
        <3> QED BY ONLY <1>12, <3>1
    <2> QED BY ONLY <2>1, <2>2, <2>3, Zenon DEF Spells
<1>19. rowcount < image.hgt /\ at' = "lines"
    BY <1>1, <1>2, <1>10, Zenon DEF LinesAre
<1>20. ReaderIs(f, b, k + 1, q)'
    BY <1>1, <1>2, <1>4, <1>7, <1>19, ReaderUsed
<1>21. TableIs(b, k + 1)'
    <2>1. Len(table) = 0 /\ curr_size = size + 1 /\ b.codes[k + 1].width = size + 1
        <3>1. Format!Entries(size, b.codes[k].since) = 0
              /\ Format!Entries(size, b.codes[k + 1].since) = 0
            BY <1>9, EntriesFirst
        <3>2. Format!WidthFor(b.codes[k + 1].width, size, 0)
            BY <1>1, <1>4, <1>8, <3>1, WidthOf
        <3>3. Format!WidthFor(b.codes[k].width, size, 0)
            BY <1>1, <1>4, <3>1, WidthOf
        <3>4. b.codes[k + 1].width = size + 1 /\ b.codes[k].width = size + 1
            BY ONLY <3>2, <3>3, WidthFirst, size \in 2 .. 8
        <3>5. /\ curr_size = b.codes[k].width
              /\ Len(table) = Format!Entries(image.size, b.codes[k].since)
            BY <1>1, Zenon DEF TableIs
        <3> QED BY <1>5, <3>1, <3>4, <3>5
    <2>2. Len(table') = Format!Entries(image'.size, b.codes[k + 1].since)
        BY <1>2, <1>5, <1>9, <2>1, EntriesFirst
    <2>3. \A j \in 1 .. Len(table') : FALSE
        BY <1>2, <2>1
    <2>4. b.codes[k + 1].since > 0
        BY <1>9
    <2>5. k \in Nat
        BY <1>1, <1>4, <1>7, NextCode
    <2>6. StringOf(oc)' = <<v>>
        <3>1. newcodes' = newcodes
            BY <1>5 DEF newcodes, clear
        <3>2. c = v
            BY <1>3, <1>11
        <3>3. oc' < newcodes'
            BY ONLY <1>15, <1>17, <3>1, <3>2, Zenon
        <3>4. StringOf(oc)' = <<oc' % 256>>
            BY ONLY <3>3, Zenon DEF StringOf
        <3> QED BY ONLY <1>16, <1>17, <3>4, Zenon
    <2>7. Spells(b, StringOf(oc)', from, to) /\ fc' = b.pixels[from + 1]
        BY ONLY <1>12, <1>17, <1>18, <2>6, Zenon
    <2>8. curr_size' = b.codes[k + 1].width
        BY <1>2, <2>1
    <2>9. b.kind # "empty"
        BY <1>10
    <2>10. phase' = "next" <=> b.codes[k + 1].since > 0
        BY <1>2, <2>4
    <2>11. \A j \in 1 .. Len(table') :
              Spells(b, table'[j], b.codes[Entry(b, k + 1, j)].from,
                     b.codes[Entry(b, k + 1, j) + 1].from + 1)
        BY ONLY <2>3, Zenon
    <2>12. b.kind = "empty" => phase' \in {"first", "first_clear"}
        BY <2>9
    <2>13. PICK x : x = k + 1
        OBVIOUS
    <2>14. /\ curr_size' = b.codes[x].width
           /\ phase' = "next" <=> b.codes[x].since > 0
           /\ b.kind = "empty" => phase' \in {"first", "first_clear"}
           /\ Len(table') = Format!Entries(image'.size, b.codes[x].since)
        BY ONLY <2>2, <2>8, <2>10, <2>12, <2>13, Zenon
    <2>15. \A j \in 1 .. Len(table') :
              Spells(b, table'[j], b.codes[Entry(b, x, j)].from,
                     b.codes[Entry(b, x, j) + 1].from + 1)
        BY ONLY <2>3, Zenon
    <2>16. b.codes[x].since > 0 /\ Len(table') < TableRoom' =>
              /\ Spells(b, StringOf(oc)', b.codes[x - 1].from, b.codes[x].from)
              /\ fc' = b.pixels[b.codes[x - 1].from + 1]
        <3>1. x - 1 = k
            BY ONLY <2>5, <2>13
        <3>2. b.codes[x - 1].from = from /\ b.codes[x].from = to
            BY ONLY <1>11, <2>13, <3>1, Zenon
        <3> QED BY ONLY <2>7, <3>2, Zenon
    <2>17. TableIs(b, x)'
        BY ONLY <2>14, <2>15, <2>16, TableBecomes, Zenon
    <2> QED BY ONLY <2>13, <2>17, Zenon
<1>22. LinesAre(f, b, k + 1)'
    <2>1. UNCHANGED <<line, rows, rowcount>>
        BY <1>2, CodeSame DEF lines
    <2>2. /\ Spells(b, line, rowcount * image.wdt, rowcount * image.wdt + Len(line))
          /\ b.codes[k].from = rowcount * image.wdt + Len(line) /\ RowsAre(f, b)
        BY <1>1, <1>2, <1>10, Zenon DEF LinesAre
    <2>3. RowsAre(f, b)'
        BY <1>5, <2>1, <2>2 DEF RowsAre, Low
    <2>4. rowcount <= image.hgt
        <3>1. rowcount \in Nat /\ image.hgt \in Nat
            BY DEF Decoded, Input, ImageRecord
        <3> QED BY ONLY <1>19, <3>1
    <2>5. Spells(b, stack', rowcount * image.wdt + Len(line), b.codes[k + 1].from)
        BY ONLY <1>11, <1>17, <1>18, <2>2, Zenon
    <2>6. b.kind = "drawn"
        BY <1>10
    <2> QED BY ONLY <1>5, <1>19, <2>1, <2>2, <2>3, <2>4, <2>5, <2>6, Zenon DEF LinesAre
<1>23. Hides(b)' /\ ImageIs(f, b)' /\ gif' = gif
    BY <1>1, <1>2, CodeSame, HidesSame
<1>24. InImage(f, b, k + 1, q)'
    BY <1>1, <1>8, <1>20, <1>21, <1>22, <1>23, Zenon DEF InImage
<1> QED BY <1>1, <1>8, <1>19, <1>23, <1>24, ToImage

(***************************************************************************)
(* The table grows as the dictionary does.                                 *)
(***************************************************************************)

\* The powers of two grow.
LEMMA TwoGrows ==
    ASSUME NEW m \in 0 .. 12, NEW n \in 0 .. 12, m <= n
    PROVE  Two(m) <= Two(n)
    BY TwoValue

\* The sizes that codes have, and the room that the dictionary has.
LEMMA RoomIs ==
    ASSUME NEW size \in 2 .. 8
    PROVE  /\ Format!Widest(size) \in size + 1 .. 12
           /\ Two(size) \in Nat /\ Format!FirstEntry(size) = Two(size) + 2
           /\ Format!FirstEntry(size) < Two(size + 1)
           /\ Two(Format!Widest(size)) \in Nat
           /\ Format!FirstEntry(size) < Two(Format!Widest(size))
<1>1. MaxBits \in 3 .. 12
    BY GifAssumption DEF GifAssumption
<1>2. PICK widest : widest = Format!Widest(size)
    OBVIOUS
<1>3. widest \in size + 1 .. 12
    BY <1>1, <1>2 DEF Format!Widest
<1>4. Two(size) + 2 < Two(size + 1) /\ Two(size) \in Nat
    BY TwoValue
<1>5. Two(size + 1) <= Two(widest) /\ Two(widest) \in Nat /\ Two(size + 1) \in Nat
    <2>1. size + 1 \in 0 .. 12 /\ widest \in 0 .. 12 /\ size + 1 <= widest
        BY ONLY <1>3, size \in 2 .. 8
    <2> QED BY ONLY <2>1, TwoGrows, TwoType
<1>6. Two(size) + 2 < Two(widest)
    BY ONLY <1>4, <1>5
<1> QED BY ONLY <1>2, <1>3, <1>4, <1>5, <1>6, Zenon DEF Format!FirstEntry

\* A code more is an entry more, until the dictionary is full.
LEMMA EntriesNext ==
    ASSUME NEW size \in 2 .. 8, NEW since \in Nat \ {0}
    PROVE  /\ RoomOf(size) \in Nat \ {0}
           /\ Format!Entries(size, since) \in Nat
           /\ Format!Entries(size, since) <= RoomOf(size)
           /\ Format!Entries(size, since) < RoomOf(size) =>
                 /\ Format!Entries(size, since) = since - 1
                 /\ Format!Entries(size, since + 1) = since
           /\ ~(Format!Entries(size, since) < RoomOf(size)) =>
                 Format!Entries(size, since + 1) = Format!Entries(size, since)
<1>1. PICK top \in Nat, first \in Nat :
         /\ top = Two(Format!Widest(size)) /\ first = Format!FirstEntry(size)
         /\ first < top
    BY RoomIs
<1>2. PICK room \in Nat \ {0} : room = RoomOf(size)
    <2>1. top - first \in Nat \ {0} /\ RoomOf(size) = top - first
        BY <1>1 DEF RoomOf
    <2> QED BY <2>1
<1>3. Format!Entries(size, since)
         = IF since <= 1 THEN 0 ELSE IF since - 1 < room THEN since - 1 ELSE room
    BY <1>2 DEF Format!Entries, RoomOf
<1>4. Format!Entries(size, since + 1)
         = IF since + 1 <= 1 THEN 0
           ELSE IF since + 1 - 1 < room THEN since + 1 - 1 ELSE room
    BY <1>2 DEF Format!Entries, RoomOf
<1> QED BY ONLY <1>2, <1>3, <1>4, since \in Nat \ {0}

\* There is one size that holds the entries.
LEMMA WidthUnique ==
    ASSUME NEW size \in 2 .. 8, NEW entries \in Nat, NEW x, NEW y,
           Format!WidthFor(x, size, entries), Format!WidthFor(y, size, entries), x < y
    PROVE  FALSE
<1>1. PICK widest \in 3 .. 12 : widest = Format!Widest(size)
    BY RoomIs
<1>2. PICK slots \in Nat : slots = Format!FirstEntry(size) + entries
    BY RoomIs
<1>3. /\ x \in size + 1 .. widest /\ y \in size + 1 .. widest
      /\ x < widest => slots < Two(x)
      /\ y > size + 1 => Two(y - 1) <= slots
    BY ONLY <1>1, <1>2, Format!WidthFor(x, size, entries),
            Format!WidthFor(y, size, entries), Zenon DEF Format!WidthFor
<1>4. x \in 0 .. 12 /\ y - 1 \in 0 .. 12 /\ x <= y - 1 /\ x < widest /\ y > size + 1
    BY ONLY <1>3, x < y, widest \in 3 .. 12, size \in 2 .. 8
<1>5. Two(x) <= Two(y - 1) /\ Two(x) \in Nat /\ Two(y - 1) \in Nat
    BY ONLY <1>4, TwoGrows, TwoType
<1> QED BY ONLY <1>3, <1>4, <1>5, slots \in Nat

\* While codes have a size, the table has as many slots as the dictionary has
\* room: there is one to come in both or in none.
LEMMA RoomLeft ==
    ASSUME NEW size \in 2 .. 8, NEW width, NEW entries \in Nat,
           entries <= RoomOf(size), Format!WidthFor(width, size, entries)
    PROVE  /\ width \in 3 .. 12
           /\ Format!FirstEntry(size) + entries < Two(width) <=> entries < RoomOf(size)
<1>0. PICK room : room = RoomOf(size)
    OBVIOUS
<1>1. PICK widest \in 3 .. 12 : widest = Format!Widest(size)
    BY RoomIs
<1>2. PICK first \in Nat, top \in Nat : first = Format!FirstEntry(size) /\ top = Two(widest)
    BY <1>1, RoomIs
<1>3. room = top - first
    BY <1>0, <1>1, <1>2 DEF RoomOf
<1>4. /\ width \in size + 1 .. widest
      /\ width < widest => first + entries < Two(width)
    BY ONLY <1>1, <1>2, Format!WidthFor(width, size, entries), Zenon DEF Format!WidthFor
<1>5. width \in 3 .. 12
    BY ONLY <1>1, <1>4, size \in 2 .. 8
<1>6. CASE width < widest
    <2>1. first + entries < Two(width)
        BY <1>4, <1>6
    <2>2. width \in 0 .. 12 /\ widest \in 0 .. 12 /\ width <= widest
        BY ONLY <1>1, <1>5, <1>6
    <2>3. Two(width) <= top /\ Two(width) \in Nat
        BY ONLY <1>2, <2>2, TwoGrows, TwoType
    <2>4. entries < room
        BY ONLY <1>2, <1>3, <2>1, <2>3, entries \in Nat
    <2> QED BY <1>0, <1>2, <1>5, <2>1, <2>4
<1>7. CASE width = widest
    <2>1. first + entries < top <=> entries < room
        BY ONLY <1>2, <1>3, entries \in Nat
    <2>2. Two(width) = top
        BY <1>2, <1>7
    <2> QED BY <1>0, <1>2, <1>5, <2>1, <2>2
<1> QED BY ONLY <1>1, <1>4, <1>6, <1>7, size \in 2 .. 8

\* The decoder and the encoder take greater codes at the same one.
LEMMA WidthNext ==
    ASSUME NEW size \in 2 .. 8, NEW width, NEW next, NEW entries \in Nat, NEW more \in Nat,
           entries <= more, more <= entries + 1,
           Format!WidthFor(width, size, entries), Format!WidthFor(next, size, more),
           Format!FirstEntry(size) + entries < Two(width) \/ more = entries
    PROVE  Grown(width, Format!FirstEntry(size) + more) = next
<1>1. PICK widest \in 3 .. 12 : widest = Format!Widest(size)
    BY RoomIs
<1>2. PICK first \in Nat, slots \in Nat : first = Format!FirstEntry(size) /\ slots = first + more
    BY RoomIs
<1>3. /\ width \in size + 1 .. widest
      /\ width > size + 1 => Two(width - 1) <= first + entries
      /\ width < widest => first + entries < Two(width)
    BY ONLY <1>1, <1>2, Format!WidthFor(width, size, entries), Zenon DEF Format!WidthFor
<1>5. PICK grown : grown = Grown(width, slots)
    OBVIOUS
<1>6. width \in 3 .. 12 /\ (width < MaxBits <=> width < widest)
    <2>1. MaxBits \in 3 .. 12
        BY GifAssumption DEF GifAssumption
    <2>2. widest = IF MaxBits < size + 1 THEN size + 1 ELSE MaxBits
        BY <1>1, Zenon DEF Format!Widest
    <2> QED BY ONLY <1>1, <1>3, <2>1, <2>2, size \in 2 .. 8
<1>7. grown = IF slots >= Two(width) /\ width < widest THEN width + 1 ELSE width
    BY ONLY <1>5, <1>6, Zenon DEF Grown
<1>8. PICK power \in Nat : power = Two(width)
    BY <1>6, TwoType
<1>9. Format!WidthFor(grown, size, more)
    <2>1. CASE slots >= power /\ width < widest
        <3>1. grown = width + 1 /\ grown - 1 = width /\ grown \in size + 1 .. widest
            BY ONLY <1>1, <1>3, <1>6, <1>7, <1>8, <2>1, size \in 2 .. 8
        <3>2. Two(grown - 1) <= slots
            BY ONLY <1>8, <2>1, <3>1, slots \in Nat
        <3>3. first + entries < power
            BY <1>3, <1>8, <2>1
        <3>4. slots <= power
            BY ONLY <1>2, <3>3, first \in Nat, entries \in Nat, more \in Nat, power \in Nat,
                    more <= entries + 1
        <3>5. grown < widest => slots < Two(grown)
            <4>1. ASSUME grown < widest PROVE slots < Two(grown)
                <5>1. width \in 0 .. 11
                    BY ONLY <1>1, <1>6, <2>1, <3>1, <4>1
                <5>2. Two(width + 1) = 2 * Two(width) /\ power >= 1
                    <6>1. width \in 0 .. 12
                        BY ONLY <5>1
                    <6> QED BY ONLY <1>8, <5>1, <6>1, TwoDoubles, TwoType
                <5>3. Two(grown) = 2 * power
                    BY ONLY <1>8, <3>1, <5>2, Zenon
                <5> QED BY ONLY <3>4, <5>2, <5>3, slots \in Nat, power \in Nat
            <4> QED BY <4>1
        <3> QED BY ONLY <1>1, <1>2, <3>1, <3>2, <3>5, Zenon DEF Format!WidthFor
    <2>2. CASE ~(slots >= power /\ width < widest)
        <3>1. grown = width
            BY ONLY <1>7, <1>8, <2>2, Zenon
        <3>2. width > size + 1 => Two(width - 1) <= slots
            <4>1. ASSUME width > size + 1 PROVE Two(width - 1) <= slots
                <5>1. width - 1 \in 0 .. 12
                    BY ONLY <1>6
                <5>2. Two(width - 1) \in Nat
                    BY ONLY <5>1, TwoType
                <5> QED BY ONLY <1>2, <1>3, <4>1, <5>2, first \in Nat, entries \in Nat,
                        more \in Nat, entries <= more
            <4> QED BY <4>1
        <3>3. width < widest => slots < Two(width)
            BY ONLY <1>1, <1>6, <1>8, <2>2, slots \in Nat, power \in Nat
        <3> QED BY ONLY <1>1, <1>2, <1>3, <3>1, <3>2, <3>3, Zenon DEF Format!WidthFor
    <2> QED BY <2>1, <2>2
<1>10. grown \in Nat /\ next \in Nat
    <2>1. grown \in size + 1 .. widest /\ next \in size + 1 .. widest
        BY ONLY <1>1, <1>9, Format!WidthFor(next, size, more), Zenon DEF Format!WidthFor
    <2> QED BY ONLY <1>1, <2>1, size \in 2 .. 8
<1>11. ~(grown < next) /\ ~(next < grown)
    BY ONLY <1>9, Format!WidthFor(next, size, more), WidthUnique, size \in 2 .. 8, more \in Nat
<1>12. grown = next
    BY ONLY <1>10, <1>11
<1> QED BY ONLY <1>2, <1>5, <1>12, Zenon

(***************************************************************************)
(* Strings of pixels.                                                      *)
(***************************************************************************)

\* A string spells the pixels it is equal to, one by one.
LEMMA SpellsIs ==
    ASSUME NEW b, NEW string, NEW from \in Nat, NEW to \in Nat,
           string \in Seq(Nat), Len(string) = to - from,
           \A m \in 1 .. Len(string) : string[m] = b.pixels[from + m]
    PROVE  Spells(b, string, from, to)
    BY DEF Spells

\* The same pixels at another place.
LEMMA SpellsMoved ==
    ASSUME NEW b, NEW string, NEW x \in Nat, NEW z \in Nat, Spells(b, string, x, z),
           NEW from \in Nat, NEW to \in Nat, to - from = z - x,
           \A m \in 1 .. to - from : b.pixels[from + m] = b.pixels[x + m]
    PROVE  Spells(b, string, from, to)
<1>1. /\ string \in Seq(Nat) /\ Len(string) = z - x
      /\ \A m \in 1 .. z - x : string[m] = b.pixels[x + m]
    BY ONLY Spells(b, string, x, z), Zenon DEF Spells
<1>2. Len(string) = to - from
    BY ONLY <1>1, to - from = z - x, Zenon
<1>3. \A m \in 1 .. Len(string) : string[m] = b.pixels[from + m]
    BY ONLY <1>1, <1>2, to - from = z - x,
            \A m \in 1 .. to - from : b.pixels[from + m] = b.pixels[x + m], Zenon
<1> QED BY ONLY <1>1, <1>2, <1>3, SpellsIs, from \in Nat, to \in Nat

\* A pixel more.
LEMMA SpellsMore ==
    ASSUME NEW b, NEW string, NEW from \in Nat, NEW to \in Nat,
           Spells(b, string, from, to), NEW v \in Nat, v = b.pixels[to + 1]
    PROVE  Spells(b, string \o <<v>>, from, to + 1)
<1>1. PICK n : n = to - from
    OBVIOUS
<1>2. /\ string \in Seq(Nat) /\ n = to - from /\ Len(string) = n
      /\ \A m \in 1 .. n : string[m] = b.pixels[from + m]
    BY ONLY <1>1, Spells(b, string, from, to), Zenon DEF Spells
<1>a. n \in Nat
    BY ONLY <1>2
<1>3. <<v>> \in Seq(Nat) /\ Len(<<v>>) = 1 /\ <<v>>[1] = v
    OBVIOUS
<1>4. PICK longer : longer = string \o <<v>>
    OBVIOUS
<1>5. /\ longer \in Seq(Nat) /\ Len(longer) = n + 1
      /\ \A m \in 1 .. n + 1 : longer[m] = IF m <= n THEN string[m] ELSE <<v>>[m - n]
    <2>1. /\ longer \in Seq(Nat) /\ Len(longer) = Len(string) + Len(<<v>>)
          /\ \A m \in 1 .. Len(string) + Len(<<v>>) :
                longer[m] = IF m <= Len(string) THEN string[m] ELSE <<v>>[m - Len(string)]
        BY ONLY <1>2, <1>3, <1>4, ConcatProperties, Zenon
    <2>2. Len(string) + Len(<<v>>) = n + 1
        BY ONLY <1>2, <1>3
    <2> QED BY ONLY <1>2, <2>1, <2>2, Zenon
<1>6. ASSUME NEW m \in 1 .. n + 1 PROVE longer[m] = b.pixels[from + m]
    <2>1. CASE m <= n
        <3>1. m \in 1 .. n
            BY ONLY <2>1, m \in 1 .. n + 1
        <3> QED BY ONLY <1>2, <1>5, <2>1, <3>1
    <2>2. CASE ~(m <= n)
        <3>1. m = n + 1 /\ m - n = 1 /\ from + m = to + 1
            BY ONLY <1>2, <2>2, m \in 1 .. n + 1, <1>a, from \in Nat, to \in Nat
        <3>2. longer[m] = <<v>>[m - n]
            BY ONLY <1>5, <2>2, m \in 1 .. n + 1
        <3> QED BY ONLY <1>3, <3>1, <3>2, v = b.pixels[to + 1], Zenon
    <2> QED BY <2>1, <2>2
<1>7. PICK next \in Nat : next = to + 1
    OBVIOUS
<1>8. n + 1 = next - from
    BY ONLY <1>2, <1>7, <1>a, from \in Nat, to \in Nat
<1>9. Spells(b, longer, from, next)
    BY ONLY <1>5, <1>6, <1>8, SpellsIs, from \in Nat, next \in Nat
<1> QED BY ONLY <1>4, <1>7, <1>9, Zenon

(***************************************************************************)
(* Codes behind the first one.                                             *)
(***************************************************************************)
\* Entries are made by codes since the last clearing one.
LEMMA EntriesBefore ==
    ASSUME NEW size \in 2 .. 8, NEW since \in Nat \ {0}
    PROVE  Format!Entries(size, since) <= since - 1
<1>1. PICK room \in Nat : room = RoomOf(size)
    BY EntriesNext
<1>2. Format!Entries(size, since)
         = IF since <= 1 THEN 0 ELSE IF since - 1 < room THEN since - 1 ELSE room
    BY ONLY <1>1, Zenon DEF Format!Entries, RoomOf
<1> QED BY ONLY <1>2, since \in Nat \ {0}, room \in Nat

\* What is known of a code that is not the first one.
LEMMA NextFacts ==
    ASSUME NEW f, Reading(f), Input, Reader, CodeTable,
           NEW i \in DOMAIN f.parts, NEW b, b = f.parts[i],
           NEW k, NEW q, InImage(f, b, k, q), HasCode, c # clear, c # ending,
           phase = "next"
    PROVE  /\ Format!Size(f.original, b) \in 2 .. 8 /\ image.size = Format!Size(f.original, b)
           /\ k \in Nat \ {0} /\ k + 1 \in DOMAIN b.codes
           /\ c \in Nat /\ c = b.codes[k].code
           /\ b.codes[k].since \in Nat \ {0} /\ b.codes[k].since < k
           /\ Format!Stands(b, Format!Size(f.original, b), k)
           /\ b.codes[k + 1].since = b.codes[k].since + 1
           /\ Len(table)
                 = Format!Entries(Format!Size(f.original, b), b.codes[k].since)
           /\ newcodes = Format!FirstEntry(Format!Size(f.original, b))
<1>0. PICK size : size = Format!Size(f.original, b)
    OBVIOUS
<1>1. /\ b.kind \in {"empty", "drawn"} /\ k \in DOMAIN b.codes /\ q \in DOMAIN b.places
      /\ ImageIs(f, b) /\ TableIs(b, k)
    BY DEF InImage
<1>2. c = b.codes[k].code /\ c \in Nat
    <2>1. c = b.codes[k].code
        BY CodeRead
    <2>2. c \in Nat
        BY CodeType
    <2> QED BY <2>1, <2>2
<1>3. size \in 2 .. 8
    BY <1>0, <1>1, WidthOf
<1>4. image.size = size
    BY <1>0, <1>1, ImageNumbers
<1>5. clear = Format!Clear(size) /\ ending = Format!Ending(size)
      /\ newcodes = Format!FirstEntry(size)
    BY <1>1, <1>4, ImageNumbers
<1>6. b.codes[k].code # Format!Clear(size) /\ b.codes[k].code # Format!Ending(size)
    BY ONLY c # clear, c # ending, <1>2, <1>5, Zenon
<1>7. k \in Nat \ {0} /\ k + 1 \in DOMAIN b.codes
    BY <1>0, <1>1, <1>6, NextCode
<1>8. b.codes[k + 1].since = b.codes[k].since + 1
    BY <1>0, <1>1, <1>6, NextCode
<1>9. Format!Stands(b, size, k)
    BY <1>0, <1>1, <1>6, NextCode
<1>10. PICK since \in Nat : since = b.codes[k].since
    <2>1. PICK e : e = b.codes[k]
        OBVIOUS
    <2>2. e.since \in Nat
        BY <1>1, <2>1, CodeFacts
    <2> QED BY <2>1, <2>2
<1>11. since < k
    <2>1. PICK last : last = Len(b.codes)
        OBVIOUS
    <2>2. DOMAIN b.codes = 1 .. last /\ \A l \in 1 .. last : b.codes[l].since < l
        BY <1>1, <2>1, CodesOf
    <2> QED BY <1>1, <1>10, <2>2, Zenon
<1>12. since > 0 /\ Len(table) = Format!Entries(size, since)
    BY <1>1, <1>4, <1>10, phase = "next", Zenon DEF TableIs
<1>13. since \in Nat \ {0}
    BY ONLY <1>12, since \in Nat
<1> QED BY ONLY <1>0, <1>2, <1>3, <1>4, <1>5, <1>7, <1>8, <1>9, <1>10, <1>11, <1>12, <1>13, Zenon

\* A code stands for the pixels that come next.
LEMMA NextString ==
    ASSUME NEW f, Reading(f), Input, Reader, CodeTable,
           NEW i \in DOMAIN f.parts, NEW b, b = f.parts[i],
           NEW k, NEW q, InImage(f, b, k, q), HasCode, c # clear, c # ending,
           phase = "next"
    PROVE  /\ c <= slot
           /\ Spells(b, CodeString(c), b.codes[k].from, b.codes[k + 1].from)
           /\ c >= slot => fc = b.pixels[b.codes[k].from + 1] /\ fc \in 0 .. 255
<1>1. /\ b.kind \in {"empty", "drawn"} /\ k \in DOMAIN b.codes /\ q \in DOMAIN b.places
      /\ ImageIs(f, b) /\ TableIs(b, k)
    BY DEF InImage
<1>2. PICK size : size = Format!Size(f.original, b)
    OBVIOUS
<1>3. /\ size \in 2 .. 8 /\ image.size = size
      /\ k \in Nat \ {0} /\ k + 1 \in DOMAIN b.codes
      /\ c \in Nat /\ c = b.codes[k].code
      /\ b.codes[k].since \in Nat \ {0} /\ b.codes[k].since < k
      /\ Format!Stands(b, size, k)
      /\ Len(table) = Format!Entries(size, b.codes[k].since)
      /\ newcodes = Format!FirstEntry(size)
    <2>1. size \in 2 .. 8
        BY <1>2, NextFacts
    <2>2. image.size = size
        BY <1>1, <1>2, ImageNumbers
    <2>3. k \in Nat \ {0}
        BY <1>2, NextFacts
    <2>4. k + 1 \in DOMAIN b.codes
        BY <1>2, NextFacts
    <2>5. c \in Nat
        BY <1>2, NextFacts
    <2>6. c = b.codes[k].code
        BY CodeRead
    <2>7. b.codes[k].since \in Nat \ {0}
        BY <1>2, NextFacts
    <2>8. b.codes[k].since < k
        BY <1>2, NextFacts
    <2>9. Format!Stands(b, size, k)
        BY <1>2, NextFacts
    <2>10. Len(table) = Format!Entries(size, b.codes[k].since)
        BY ONLY <1>1, <2>2, Zenon DEF TableIs
    <2>11. newcodes = Format!FirstEntry(size)
        BY ONLY <2>2, Zenon DEF newcodes, clear, Format!FirstEntry
    <2> QED BY ONLY <2>1, <2>2, <2>3, <2>4, <2>5, <2>6, <2>7, <2>8, <2>9, <2>10, <2>11
<1>4. PICK since \in Nat \ {0}, v \in Nat : since = b.codes[k].since /\ v = c
    BY <1>3
<1>5. PICK room \in Nat \ {0} : room = RoomOf(size)
    BY <1>3, <1>4, EntriesNext
<1>6. PICK entries \in Nat, more \in Nat : /\ entries = Format!Entries(size, since)
                                           /\ more = Format!Entries(size, since + 1)
    <2>1. since + 1 \in Nat \ {0}
        OBVIOUS
    <2> QED BY <1>3, <2>1, EntriesNext
<1>7. /\ entries <= room /\ entries <= since - 1
      /\ entries < room => entries = since - 1 /\ more = since
      /\ ~(entries < room) => more = entries
    <2>1. entries <= room /\ entries <= since - 1
        BY <1>3, <1>5, <1>6, EntriesNext, EntriesBefore
    <2>2. entries < room => entries = since - 1 /\ more = since
        BY <1>3, <1>5, <1>6, EntriesNext
    <2>3. ~(entries < room) => more = entries
        BY <1>3, <1>5, <1>6, EntriesNext
    <2> QED BY <2>1, <2>2, <2>3
<1>8. PICK power \in Nat, first \in Nat :
         /\ power = Two(size) /\ first = Format!FirstEntry(size) /\ first = power + 2
    <2>1. Two(size) \in Nat /\ Format!FirstEntry(size) = Two(size) + 2
        BY <1>3, RoomIs
    <2> QED BY <2>1
<1>9. newcodes = first /\ slot = first + entries /\ entries = Len(table)
    BY <1>3, <1>4, <1>6, <1>8 DEF slot
<1>10. /\ b.codes[k].code # Format!Ending(size) /\ b.codes[k].code # Format!Clear(size)
    <2>1. clear = Format!Clear(size) /\ ending = Format!Ending(size)
        BY <1>1, <1>3, ImageNumbers
    <2> QED BY ONLY <1>3, <2>1, c # clear, c # ending, Zenon
<1>11. /\ b.kind = "drawn" /\ b.codes[k].from \in Nat /\ b.codes[k + 1].from \in Nat
       /\ b.codes[k].from < b.codes[k + 1].from
       /\ b.codes[k + 1].from <= Len(b.pixels) /\ Len(b.pixels) \in Nat
       /\ \A m \in 1 .. Len(b.pixels) : b.pixels[m] \in 0 .. 255
    BY <1>1, <1>2, <1>10, CodeStands, ZenonT(30)
<1>12. PICK from \in Nat, to \in Nat, len \in Nat :
          from = b.codes[k].from /\ to = b.codes[k + 1].from /\ len = Len(b.pixels)
    BY <1>11
<1>13. from < to /\ to <= len
    BY <1>11, <1>12
<1>14. PICK p : p = k - since + (v - first)
    OBVIOUS
<1>15. \/ v < power /\ to - from = 1 /\ b.pixels[from + 1] = v
       \/ /\ v >= first /\ v < first + more
          /\ to - from = b.codes[p + 1].from - b.codes[p].from + 1
          /\ \A m \in 1 .. to - from : b.pixels[from + m] = b.pixels[b.codes[p].from + m]
    BY ONLY <1>3, <1>4, <1>6, <1>8, <1>12, <1>14, Zenon DEF Format!Stands, Format!Clear
<1>16. CASE v < power /\ to - from = 1 /\ b.pixels[from + 1] = v
    <2>1. v < first /\ v < slot /\ ~(c >= slot) /\ c <= slot
        BY ONLY <1>4, <1>8, <1>9, <1>16, v \in Nat, power \in Nat, entries \in Nat, SMTT(30)
    <2>2. to = from + 1 /\ from + 1 \in 1 .. len
        BY ONLY <1>13, <1>16, from \in Nat, to \in Nat, len \in Nat
    <2>3. v \in 0 .. 255
        BY ONLY <1>11, <1>12, <1>16, <2>2
    <2>4. v % 256 = v
        BY ONLY <2>3
    <2>5. CodeString(c) = <<v>>
        <3>1. c < newcodes
            BY ONLY <1>4, <1>9, <2>1, Zenon
        <3>2. CodeString(c) = <<c % 256>>
            BY ONLY <2>1, <3>1, Zenon DEF CodeString, StringOf
        <3> QED BY ONLY <1>4, <2>4, <3>2, Zenon
    <2>6. Spells(b, <<v>>, from, to)
        <3>1. <<v>> \in Seq(Nat) /\ Len(<<v>>) = 1
            OBVIOUS
        <3>2. ASSUME NEW m \in 1 .. 1 PROVE <<v>>[m] = b.pixels[from + m]
            <4>1. m = 1
                BY ONLY m \in 1 .. 1
            <4> QED BY ONLY <1>16, <4>1
        <3> QED BY ONLY <1>16, <3>1, <3>2, Zenon DEF Spells
    <2> QED BY ONLY <1>12, <2>1, <2>5, <2>6, Zenon
<1>17. CASE /\ v >= first /\ v < first + more
            /\ to - from = b.codes[p + 1].from - b.codes[p].from + 1
            /\ \A m \in 1 .. to - from : b.pixels[from + m] = b.pixels[b.codes[p].from + m]
    <2>1. v - first \in 0 .. entries /\ (v - first = entries => entries < room)
        BY ONLY <1>7, <1>17, v \in Nat, first \in Nat, more \in Nat, entries \in Nat,
                room \in Nat \ {0}, since \in Nat \ {0}
    <2>2. /\ p \in 1 .. k - 1 /\ p + 1 \in 1 .. k
          /\ v - first = entries => p = k - 1
        <3>1. PICK d \in Nat : d = v - first /\ d <= since - 1
                                /\ (d = entries => d = since - 1)
            BY ONLY <1>7, <2>1, entries \in Nat, since \in Nat \ {0}
        <3>2. since < k /\ k \in Nat \ {0} /\ p = k - since + d
            BY ONLY <1>3, <1>4, <1>14, <3>1, Zenon
        <3> QED BY ONLY <3>1, <3>2, since \in Nat \ {0}
    <2>3. p \in DOMAIN b.codes /\ p + 1 \in DOMAIN b.codes
        <3>1. PICK last : last = Len(b.codes)
            OBVIOUS
        <3>2. DOMAIN b.codes = 1 .. last /\ last \in Nat
            BY <1>1, <3>1, CodesOf
        <3> QED BY ONLY <1>1, <1>3, <2>2, <3>2
    <2>4. PICK x \in Nat, y \in Nat : x = b.codes[p].from /\ y = b.codes[p + 1].from
        <3>1. PICK e, e2 : e = b.codes[p] /\ e2 = b.codes[p + 1]
            OBVIOUS
        <3>2. e.from \in Nat
            BY <1>1, <2>3, <3>1, CodeFacts
        <3>3. e2.from \in Nat
            BY <1>1, <2>3, <3>1, CodeFacts
        <3> QED BY <3>1, <3>2, <3>3
    <2>5. /\ to - from = y - x + 1
          /\ \A m \in 1 .. to - from : b.pixels[from + m] = b.pixels[x + m]
        BY ONLY <1>17, <2>4, Zenon
    <2>6. c <= slot /\ ~(c < newcodes)
        BY ONLY <1>4, <1>9, <1>17, <2>1, v \in Nat, first \in Nat, entries \in Nat
    <2>7. PICK z \in Nat : z = y + 1
        OBVIOUS
    <2>8. to - from = z - x
        BY ONLY <2>5, <2>7, x \in Nat, y \in Nat
    <2>9. CASE v - first # entries
        <3>1. PICK j \in 1 .. entries : j = v - first + 1
            BY ONLY <2>1, <2>9, entries \in Nat
        <3>2. ~(c >= slot)
            BY ONLY <1>4, <1>9, <2>1, <2>9, v \in Nat, first \in Nat, entries \in Nat
        <3>3. CodeString(c) = table[j]
            <4>1. CodeString(c) = table[c - newcodes + 1]
                BY ONLY <2>6, <3>2, Zenon DEF CodeString, StringOf
            <4> QED BY ONLY <1>4, <1>9, <3>1, <4>1, Zenon
        <3>4. Entry(b, k, j) = p
            <4>1. k - since + (v - first) = k - since + j - 1
                BY ONLY <1>3, <3>1, v \in Nat, first \in Nat, since \in Nat \ {0}
            <4> QED BY ONLY <1>4, <1>14, <4>1, Zenon DEF Entry
        <3>5. Spells(b, table[j], b.codes[Entry(b, k, j)].from,
                     b.codes[Entry(b, k, j) + 1].from + 1)
            <4>1. \A l \in 1 .. Len(table) :
                     Spells(b, table[l], b.codes[Entry(b, k, l)].from,
                            b.codes[Entry(b, k, l) + 1].from + 1)
                BY ONLY <1>1, Zenon DEF TableIs
            <4> QED BY ONLY <1>9, <4>1, Zenon
        <3>6. Spells(b, table[j], x, z)
            BY ONLY <2>4, <2>7, <3>4, <3>5, Zenon
        <3>7. Spells(b, table[j], from, to)
            BY ONLY <2>5, <2>8, <3>6, SpellsMoved, x \in Nat, z \in Nat, from \in Nat, to \in Nat
        <3> QED BY ONLY <1>12, <2>6, <3>2, <3>3, <3>7, Zenon
    <2>10. CASE v - first = entries
        <3>1. c >= slot
            BY ONLY <1>4, <1>9, <2>10, v \in Nat, first \in Nat, entries \in Nat
        <3>2. p = k - 1 /\ p + 1 = k /\ entries < room /\ y = from
            <4>1. p = k - 1 /\ p + 1 = k /\ entries < room
                BY ONLY <1>3, <2>1, <2>2, <2>10
            <4> QED BY ONLY <1>12, <2>4, <4>1, Zenon
        <3>3. Spells(b, StringOf(oc), x, from) /\ fc = b.pixels[x + 1]
            <4>1. TableRoom = room
                BY ONLY <1>3, <1>5, Zenon DEF TableRoom
            <4>2. since > 0
                BY ONLY since \in Nat \ {0}
            <4>3. /\ Spells(b, StringOf(oc), b.codes[k - 1].from, b.codes[k].from)
                  /\ fc = b.pixels[b.codes[k - 1].from + 1]
                BY ONLY <1>1, <1>4, <1>9, <3>2, <4>1, <4>2, Zenon DEF TableIs
            <4> QED BY ONLY <1>12, <2>4, <3>2, <4>3, Zenon
        <3>4. 1 \in 1 .. to - from /\ x + 1 \in 1 .. len
            BY ONLY <1>13, <2>5, <3>2, x \in Nat, from \in Nat, to \in Nat, len \in Nat
        <3>5. fc = b.pixels[from + 1]
            BY ONLY <2>5, <3>3, <3>4, Zenon
        <3>6. fc \in 0 .. 255
            BY ONLY <1>11, <1>12, <3>3, <3>4
        <3>7. PICK colour \in Nat : colour = fc /\ fc % 256 = colour
            BY ONLY <3>6
        <3>8. CodeString(c) = StringOf(oc) \o <<colour>>
            BY ONLY <3>1, <3>7, Zenon DEF CodeString
        <3>9. PICK string : string = StringOf(oc) \o <<colour>>
            OBVIOUS
        <3>10. Spells(b, string, x, from + 1)
            BY ONLY <3>3, <3>5, <3>7, <3>9, SpellsMore, x \in Nat, from \in Nat, colour \in Nat
        <3>11. z = from + 1
            BY ONLY <2>7, <3>2
        <3>12. Spells(b, string, x, z)
            BY ONLY <3>10, <3>11, Zenon
        <3>13. Spells(b, string, from, to)
            BY ONLY <2>5, <2>8, <3>12, SpellsMoved, x \in Nat, z \in Nat, from \in Nat, to \in Nat
        <3> QED BY ONLY <1>12, <2>6, <3>5, <3>6, <3>8, <3>9, <3>13, Zenon
    <2> QED BY <2>9, <2>10
<1> QED BY ONLY <1>15, <1>16, <1>17

\* The table of the decoder and the dictionary of the encoder get the same entry.
LEMMA NextTable ==
    ASSUME NEW f, Reading(f), Input, Reader, CodeTable,
           NEW i \in DOMAIN f.parts, NEW b, b = f.parts[i],
           NEW k, NEW q, InImage(f, b, k, q), UseNext
    PROVE  TableIs(b, k + 1)'
<1>1. /\ b.kind \in {"empty", "drawn"} /\ k \in DOMAIN b.codes /\ q \in DOMAIN b.places
      /\ ImageIs(f, b) /\ TableIs(b, k)
    BY DEF InImage
<1>2. /\ HasCode /\ c # clear /\ c # ending /\ phase = "next" /\ phase' = "next"
      /\ \/ /\ slot < top_slot
            /\ table' = Append(table, StringOf(oc) \o <<CodeString(c)[1]>>)
            /\ fc' = CodeString(c)[1] /\ oc' = c
            /\ curr_size' = Grown(curr_size, slot + 1)
         \/ /\ slot >= top_slot
            /\ curr_size' = Grown(curr_size, slot)
            /\ UNCHANGED <<table, fc, oc>>
    BY DEF UseNext
<1>3. PICK size : size = Format!Size(f.original, b)
    OBVIOUS
<1>4. /\ size \in 2 .. 8 /\ image.size = size
      /\ k \in Nat \ {0} /\ k + 1 \in DOMAIN b.codes
      /\ b.codes[k].since \in Nat \ {0} /\ b.codes[k].since < k
      /\ b.codes[k + 1].since = b.codes[k].since + 1
      /\ Len(table) = Format!Entries(size, b.codes[k].since)
      /\ newcodes = Format!FirstEntry(size)
    <2>1. size \in 2 .. 8
        BY <1>2, <1>3, NextFacts
    <2>2. image.size = size
        BY <1>1, <1>3, ImageNumbers
    <2>3. k \in Nat \ {0}
        BY <1>2, <1>3, NextFacts
    <2>4. k + 1 \in DOMAIN b.codes
        BY <1>2, <1>3, NextFacts
    <2>5. b.codes[k].since \in Nat \ {0}
        BY <1>2, <1>3, NextFacts
    <2>6. b.codes[k].since < k
        BY <1>2, <1>3, NextFacts
    <2>7. b.codes[k + 1].since = b.codes[k].since + 1
        <3>1. PICK n, old, new : /\ n = k + 1 /\ old = b.codes[k].since
                                 /\ new = b.codes[n].since
            OBVIOUS
        <3>2. clear = Format!Clear(size) /\ ending = Format!Ending(size)
            BY <1>1, <1>3, <2>2, ImageNumbers
        <3>3. c = b.codes[k].code
            BY <1>2, CodeRead
        <3>4. b.codes[k].code # Format!Clear(size) /\ b.codes[k].code # Format!Ending(size)
            BY ONLY <1>2, <3>2, <3>3, Zenon
        <3> QED BY <1>1, <1>3, <3>4, NextCode
    <2>8. Len(table) = Format!Entries(size, b.codes[k].since)
        BY ONLY <1>1, <2>2, Zenon DEF TableIs
    <2>9. newcodes = Format!FirstEntry(size)
        BY ONLY <2>2, Zenon DEF newcodes, clear, Format!FirstEntry
    <2> QED BY ONLY <2>1, <2>2, <2>3, <2>4, <2>5, <2>6, <2>7, <2>8, <2>9
<1>5. PICK code \in Nat : code = c /\ code = b.codes[k].code
    <2>1. c = b.codes[k].code
        BY <1>2, CodeRead
    <2>2. c \in Nat
        BY CodeType
    <2> QED BY <2>1, <2>2
<1>6. PICK since \in Nat \ {0} : since = b.codes[k].since
    BY <1>4
<1>7. PICK room \in Nat \ {0} : room = RoomOf(size) /\ room = TableRoom
    <2>1. RoomOf(size) \in Nat \ {0}
        BY <1>4, <1>6, EntriesNext
    <2>2. TableRoom = RoomOf(size)
        BY ONLY <1>4, Zenon DEF TableRoom
    <2> QED BY <2>1, <2>2
<1>8. PICK entries \in Nat, more \in Nat : /\ entries = Format!Entries(size, since)
                                           /\ more = Format!Entries(size, since + 1)
    <2>1. since + 1 \in Nat \ {0}
        OBVIOUS
    <2> QED BY <1>4, <2>1, EntriesNext
<1>9. /\ entries <= room
      /\ entries < room => entries = since - 1 /\ more = since
      /\ ~(entries < room) => more = entries
    <2>1. entries <= room
        BY <1>4, <1>7, <1>8, EntriesNext, ZenonT(30)
    <2>2. entries < room => entries = since - 1 /\ more = since
        BY <1>4, <1>7, <1>8, EntriesNext
    <2>3. ~(entries < room) => more = entries
        BY <1>4, <1>7, <1>8, EntriesNext, ZenonT(30)
    <2> QED BY <2>1, <2>2, <2>3
<1>10. PICK first \in Nat : first = Format!FirstEntry(size)
    <2>1. Two(size) \in Nat /\ Format!FirstEntry(size) = Two(size) + 2
        BY <1>4, RoomIs
    <2> QED BY <2>1
<1>11. newcodes = first /\ slot = first + entries /\ entries = Len(table)
    BY <1>4, <1>6, <1>8, <1>10 DEF slot
<1>12. PICK width, next : width = b.codes[k].width /\ next = b.codes[k + 1].width
    OBVIOUS
<1>13. Format!WidthFor(width, size, entries) /\ Format!WidthFor(next, size, more)
    <2>1. Format!WidthFor(width, size, entries)
        BY <1>1, <1>3, <1>6, <1>8, <1>12, WidthOf
    <2>2. Format!WidthFor(next, size, Format!Entries(size, b.codes[k + 1].since))
        BY <1>1, <1>3, <1>4, <1>12, WidthOf
    <2> QED BY ONLY <1>4, <1>6, <1>8, <2>1, <2>2, Zenon
<1>14. curr_size = width /\ top_slot = Two(width)
    <2>1. curr_size = width
        BY ONLY <1>1, <1>12, Zenon DEF TableIs
    <2> QED BY <2>1 DEF top_slot
<1>15. PICK top \in Nat : top = top_slot /\ (first + entries < top <=> entries < room)
    <2>1. width \in 3 .. 12
        BY <1>4, <1>7, <1>9, <1>13, RoomLeft
    <2>2. Format!FirstEntry(size) + entries < Two(width) <=> entries < RoomOf(size)
        BY <1>4, <1>7, <1>9, <1>13, RoomLeft
    <2>3. Two(width) \in Nat
        <3>1. width \in 0 .. 12
            BY ONLY <2>1
        <3> QED BY ONLY <3>1, TwoType
    <2> QED BY ONLY <1>7, <1>10, <1>14, <2>2, <2>3, Zenon
<1>16. Grown(curr_size, first + more) = next
    <2>1. entries <= more /\ more <= entries + 1
        BY ONLY <1>9, entries \in Nat, since \in Nat \ {0}, room \in Nat \ {0}
    <2>2. first + entries < Two(width) \/ more = entries
        BY ONLY <1>9, <1>14, <1>15, Zenon
    <2>3. Grown(width, Format!FirstEntry(size) + more) = next
        BY ONLY <1>4, <1>10, <1>13, <2>1, <2>2, WidthNext, entries \in Nat, more \in Nat
    <2> QED BY ONLY <1>10, <1>14, <2>3, Zenon
<1>17. PICK x : x = k + 1
    OBVIOUS
<1>18. /\ x - 1 = k /\ x \in Nat \ {0}
    BY ONLY <1>4, <1>17
<1>19. image' = image /\ newcodes' = newcodes /\ TableRoom' = TableRoom
    <2>1. image' = image
        BY <1>2, CodeSame
    <2> QED BY <2>1 DEF newcodes, clear, TableRoom
<1>20. b.kind # "empty"
    <2>1. ASSUME b.kind = "empty" PROVE FALSE
        <3>1. phase \in {"first", "first_clear"}
            BY <1>1, <2>1 DEF TableIs
        <3> QED BY <1>2, <3>1
    <2> QED BY <2>1
<1>21. Len(table') = more => Len(table') = Format!Entries(image'.size, b.codes[x].since)
    BY ONLY <1>4, <1>6, <1>8, <1>17, <1>19, Zenon
<1>22. b.codes[x].since > 0
    <2>1. since + 1 > 0
        OBVIOUS
    <2> QED BY ONLY <1>4, <1>6, <1>17, <2>1, Zenon
<1>23. \A j \in Nat : Entry(b, x, j) = Entry(b, k, j) /\ Entry(b, k, j) = k - since + j - 1
    <2>0. since + 1 \in Nat
        OBVIOUS
    <2>a. PICK new \in Nat : new = since + 1 /\ b.codes[x].since = new
        BY ONLY <1>4, <1>6, <1>17, <2>0, Zenon
    <2>1. \A j \in Nat : x - new + j - 1 = k - since + j - 1
        BY ONLY <1>4, <1>17, <2>a, since \in Nat \ {0}
    <2>2. \A j \in Nat : Entry(b, x, j) = x - new + j - 1
        BY ONLY <2>a, Zenon DEF Entry
    <2>3. \A j \in Nat : Entry(b, k, j) = k - since + j - 1
        BY ONLY <1>6, Zenon DEF Entry
    <2> QED BY ONLY <2>1, <2>2, <2>3, Zenon
<1>24. \A j \in 1 .. entries :
          Spells(b, table[j], b.codes[Entry(b, k, j)].from,
                 b.codes[Entry(b, k, j) + 1].from + 1)
    BY ONLY <1>1, <1>11, Zenon DEF TableIs
<1>25. CASE /\ slot < top_slot
            /\ table' = Append(table, StringOf(oc) \o <<CodeString(c)[1]>>)
            /\ fc' = CodeString(c)[1] /\ oc' = c
            /\ curr_size' = Grown(curr_size, slot + 1)
    <2>1. entries < room /\ more = entries + 1 /\ since = entries + 1
        BY ONLY <1>9, <1>11, <1>15, <1>25, since \in Nat \ {0}
    <2>2. b.kind = "drawn"
        BY <1>1, <1>20
    <2>3. /\ b.codes[k].code # Format!Ending(size) /\ b.codes[k].code # Format!Clear(size)
        <3>1. clear = Format!Clear(size) /\ ending = Format!Ending(size)
            BY <1>1, <1>4, ImageNumbers
        <3> QED BY ONLY <1>2, <1>5, <3>1, Zenon
    <2>4. PICK from \in Nat, to \in Nat : /\ from = b.codes[k].from /\ to = b.codes[k + 1].from
                                          /\ from < to /\ to <= Len(b.pixels)
        BY <1>1, <1>3, <2>3, CodeStands, SMTT(30)
    <2>5. /\ code <= slot /\ Spells(b, CodeString(c), from, to)
          /\ code >= slot => fc = b.pixels[from + 1] /\ fc \in 0 .. 255
        <3>1. c <= slot
            BY <1>2, NextString
        <3>2. Spells(b, CodeString(c), b.codes[k].from, b.codes[k + 1].from)
            BY <1>2, NextString
        <3>3. c >= slot => fc = b.pixels[b.codes[k].from + 1] /\ fc \in 0 .. 255
            BY <1>2, NextString
        <3> QED BY ONLY <1>5, <2>4, <3>1, <3>2, <3>3, Zenon
    <2>6. PICK v \in Nat : v = CodeString(c)[1] /\ v = b.pixels[from + 1]
        <3>1. /\ CodeString(c) \in Seq(Nat) /\ Len(CodeString(c)) = to - from
              /\ \A m \in 1 .. to - from : CodeString(c)[m] = b.pixels[from + m]
            BY ONLY <2>5, Zenon DEF Spells
        <3>2. 1 \in 1 .. to - from
            BY ONLY <2>4, from \in Nat, to \in Nat
        <3>3. CodeString(c)[1] \in Nat
            BY ONLY <3>1, <3>2, ElementOfSeq
        <3> QED BY ONLY <3>1, <3>2, <3>3
    <2>7. PICK y \in Nat : y = b.codes[k - 1].from
        <3>1. k - 1 \in DOMAIN b.codes
            <4>1. PICK last : last = Len(b.codes)
                OBVIOUS
            <4>2. DOMAIN b.codes = 1 .. last /\ last \in Nat
                BY <1>1, <4>1, CodesOf
            <4> QED BY ONLY <1>1, <1>4, <1>6, <4>2, since \in Nat \ {0}
        <3>2. PICK e : e = b.codes[k - 1]
            OBVIOUS
        <3>3. e.from \in Nat
            BY <1>1, <3>1, <3>2, CodeFacts
        <3> QED BY <3>2, <3>3
    <2>8. Spells(b, StringOf(oc), y, from)
        <3>1. since > 0
            OBVIOUS
        <3> QED BY ONLY <1>1, <1>6, <1>7, <1>11, <2>1, <2>4, <2>7, <3>1, Zenon DEF TableIs
    <2>9. PICK string : string = StringOf(oc) \o <<v>>
        OBVIOUS
    <2>10. Spells(b, string, y, from + 1)
        BY ONLY <2>6, <2>8, <2>9, SpellsMore, y \in Nat, from \in Nat, v \in Nat
    <2>11. /\ Len(table') = entries + 1
           /\ \A j \in 1 .. entries : table'[j] = table[j]
           /\ table'[entries + 1] = string
        <3>1. table' = Append(table, string)
            BY ONLY <1>25, <2>6, <2>9, Zenon
        <3>2. table \in Seq(Seq(Nat))
            BY DEF CodeTable
        <3>3. string \in Seq(Nat)
            BY ONLY <2>10, Zenon DEF Spells
        <3> QED BY ONLY <1>11, <3>1, <3>2, <3>3
    <2>12. \A j \in 1 .. Len(table') :
              Spells(b, table'[j], b.codes[Entry(b, x, j)].from,
                     b.codes[Entry(b, x, j) + 1].from + 1)
        <3>1. ASSUME NEW j \in 1 .. entries + 1
              PROVE  Spells(b, table'[j], b.codes[Entry(b, x, j)].from,
                            b.codes[Entry(b, x, j) + 1].from + 1)
            <4>1. j \in Nat /\ Entry(b, x, j) = Entry(b, k, j)
                  /\ Entry(b, k, j) = k - since + j - 1
                <5>1. j \in Nat
                    OBVIOUS
                <5> QED BY ONLY <1>23, <5>1, Zenon
            <4>2. CASE j \in 1 .. entries
                BY ONLY <1>24, <2>11, <4>1, <4>2, Zenon
            <4>3. CASE j = entries + 1
                <5>1. Entry(b, x, j) = k - 1 /\ Entry(b, x, j) + 1 = k
                    BY ONLY <1>4, <2>1, <4>1, <4>3, entries \in Nat
                <5> QED BY ONLY <2>4, <2>7, <2>10, <2>11, <4>3, <5>1, Zenon
            <4> QED BY ONLY <4>2, <4>3, j \in 1 .. entries + 1, entries \in Nat
        <3> QED BY ONLY <2>11, <3>1, Zenon
    <2>13. StringOf(oc)' = CodeString(c)
        <3>1. StringOf(oc)' = IF c < newcodes THEN <<c % 256>> ELSE table'[c - newcodes + 1]
            BY ONLY <1>19, <1>25, Zenon DEF StringOf
        <3>2. CASE code < first
            <4>1. ~(c >= slot)
                BY ONLY <1>5, <1>11, <3>2, code \in Nat, first \in Nat, entries \in Nat
            <4>2. CodeString(c) = <<c % 256>>
                BY ONLY <1>5, <1>11, <3>2, <4>1, Zenon DEF CodeString, StringOf
            <4> QED BY ONLY <1>5, <1>11, <3>1, <3>2, <4>2, Zenon
        <3>3. CASE ~(code < first) /\ code # slot
            <4>1. ~(c >= slot) /\ code - first + 1 \in 1 .. entries
                <5>1. code <= slot
                    BY <2>5
                <5>2. code < first + entries /\ code >= first
                    BY ONLY <1>11, <3>3, <5>1, code \in Nat, first \in Nat, entries \in Nat
                <5> QED BY ONLY <1>5, <1>11, <5>2, code \in Nat, first \in Nat, entries \in Nat
            <4>2. CodeString(c) = table[c - newcodes + 1]
                BY ONLY <1>5, <1>11, <3>3, <4>1, Zenon DEF CodeString, StringOf
            <4> QED BY ONLY <1>5, <1>11, <2>11, <3>1, <3>3, <4>1, <4>2, Zenon
        <3>4. CASE code = slot
            <4>1. ~(code < first) /\ code - first + 1 = entries + 1 /\ code >= slot
                BY ONLY <1>11, <3>4, code \in Nat, first \in Nat, entries \in Nat
            <4>2. fc = v /\ fc % 256 = fc
                <5>1. fc \in 0 .. 255 /\ fc = v
                    BY ONLY <2>5, <2>6, <4>1, Zenon
                <5> QED BY ONLY <5>1
            <4>3. CodeString(c) = StringOf(oc) \o <<v>>
                BY ONLY <1>5, <4>1, <4>2, Zenon DEF CodeString
            <4> QED BY ONLY <1>5, <1>11, <2>9, <2>11, <3>1, <4>1, <4>3, Zenon
        <3> QED BY <3>2, <3>3, <3>4
    <2>14. curr_size' = b.codes[x].width
        <3>1. slot + 1 = first + more
            BY ONLY <1>11, <2>1, first \in Nat, entries \in Nat
        <3> QED BY ONLY <1>12, <1>16, <1>17, <1>25, <3>1, Zenon
    <2>15. /\ Spells(b, StringOf(oc)', b.codes[x - 1].from, b.codes[x].from)
           /\ fc' = b.pixels[b.codes[x - 1].from + 1]
        BY ONLY <1>17, <1>18, <1>25, <2>4, <2>5, <2>6, <2>13, Zenon
    <2>16. Len(table') = Format!Entries(image'.size, b.codes[x].since)
        BY ONLY <1>21, <2>1, <2>11, Zenon
    <2>17. phase' = "next" <=> b.codes[x].since > 0
        BY ONLY <1>2, <1>22, Zenon
    <2>18. b.kind = "empty" => phase' \in {"first", "first_clear"}
        BY ONLY <1>20, Zenon
    <2>19. TableIs(b, x)'
        BY ONLY <2>12, <2>14, <2>15, <2>16, <2>17, <2>18, TableBecomes, Zenon
    <2> QED BY ONLY <1>17, <2>19, Zenon
<1>26. CASE slot >= top_slot /\ curr_size' = Grown(curr_size, slot)
            /\ UNCHANGED <<table, fc, oc>>
    <2>1. ~(entries < room) /\ more = entries
        BY ONLY <1>9, <1>11, <1>15, <1>26, first \in Nat, entries \in Nat, top \in Nat
    <2>2. table' = table /\ Len(table') = more /\ entries = Len(table')
        BY ONLY <1>11, <1>26, <2>1, Zenon
    <2>3. \A j \in 1 .. Len(table') :
              Spells(b, table'[j], b.codes[Entry(b, x, j)].from,
                     b.codes[Entry(b, x, j) + 1].from + 1)
        <3>1. ASSUME NEW j \in 1 .. entries
              PROVE  Spells(b, table'[j], b.codes[Entry(b, x, j)].from,
                            b.codes[Entry(b, x, j) + 1].from + 1)
            <4>1. j \in Nat
                OBVIOUS
            <4> QED BY ONLY <1>23, <1>24, <2>2, <4>1, j \in 1 .. entries, Zenon
        <3> QED BY ONLY <2>2, <3>1, Zenon
    <2>4. ~(Len(table') < TableRoom')
        BY ONLY <1>7, <1>19, <2>1, <2>2, Zenon
    <2>5. curr_size' = b.codes[x].width
        BY ONLY <1>11, <1>12, <1>16, <1>17, <1>26, <2>1, Zenon
    <2>6. Len(table') = Format!Entries(image'.size, b.codes[x].since)
        BY ONLY <1>21, <2>2, Zenon
    <2>7. phase' = "next" <=> b.codes[x].since > 0
        BY ONLY <1>2, <1>22, Zenon
    <2>8. b.kind = "empty" => phase' \in {"first", "first_clear"}
        BY ONLY <1>20, Zenon
    <2>9. TableIs(b, x)'
        BY ONLY <2>3, <2>4, <2>5, <2>6, <2>7, <2>8, TableBecomes, Zenon
    <2> QED BY ONLY <1>17, <2>9, Zenon
<1> QED BY ONLY <1>2, <1>25, <1>26

\* Codes behind the first one: what they stand for is put on dstack.
LEMMA TrackNext ==
    ASSUME NEW f, Reading(f), Input, Reader, CodeTable, Decoded,
           NEW i \in DOMAIN f.parts, NEW b, b = f.parts[i],
           NEW k, NEW q, InImage(f, b, k, q), UseNext
    PROVE  FrameTrack'
<1>1. /\ b.kind \in {"empty", "drawn"} /\ k \in DOMAIN b.codes /\ q \in DOMAIN b.places
      /\ Hides(b) /\ ImageIs(f, b) /\ ReaderIs(f, b, k, q) /\ TableIs(b, k)
      /\ LinesAre(f, b, k)
    BY DEF InImage
<1>2. /\ HasCode /\ c # clear /\ c # ending /\ at = "bits" /\ phase = "next"
      /\ stack' = CodeString(c)
      /\ at' = IF rowcount < image.hgt THEN "lines" ELSE "paint"
    BY DEF UseNext, HasCode
<1>3. PICK size : size = Format!Size(f.original, b)
    OBVIOUS
<1>4. b.codes[k].code # Format!Clear(size) /\ b.codes[k].code # Format!Ending(size)
    <2>1. image.size = size
        BY <1>1, <1>3, ImageNumbers
    <2>2. clear = Format!Clear(size) /\ ending = Format!Ending(size)
        BY <1>1, <1>3, <2>1, ImageNumbers
    <2>3. c = b.codes[k].code
        BY <1>2, CodeRead
    <2> QED BY ONLY <1>2, <2>2, <2>3, Zenon
<1>5. k + 1 \in DOMAIN b.codes
    BY <1>1, <1>3, <1>4, NextCode
<1>6. b.kind = "drawn"
    BY <1>1, <1>3, <1>4, CodeStands
<1>7. image' = image
    BY <1>2, CodeSame
<1>8. rowcount < image.hgt /\ at' = "lines"
    BY <1>1, <1>2, <1>6, Zenon DEF LinesAre
<1>9. ReaderIs(f, b, k + 1, q)'
    BY <1>1, <1>2, <1>3, <1>4, <1>8, ReaderUsed
<1>10. TableIs(b, k + 1)'
    BY NextTable
<1>11. LinesAre(f, b, k + 1)'
    <2>1. UNCHANGED <<line, rows, rowcount>>
        BY <1>2, CodeSame DEF lines
    <2>2. /\ Spells(b, line, rowcount * image.wdt, rowcount * image.wdt + Len(line))
          /\ b.codes[k].from = rowcount * image.wdt + Len(line) /\ RowsAre(f, b)
        BY <1>1, <1>2, <1>6, Zenon DEF LinesAre
    <2>3. RowsAre(f, b)'
        BY <1>7, <2>1, <2>2 DEF RowsAre, Low
    <2>4. rowcount <= image.hgt
        <3>1. rowcount \in Nat /\ image.hgt \in Nat
            BY DEF Decoded, Input, ImageRecord
        <3> QED BY ONLY <1>8, <3>1
    <2>5. Spells(b, stack', rowcount * image.wdt + Len(line), b.codes[k + 1].from)
        <3>1. Spells(b, CodeString(c), b.codes[k].from, b.codes[k + 1].from)
            BY <1>2, NextString
        <3> QED BY ONLY <1>2, <2>2, <3>1, Zenon
    <2> QED BY ONLY <1>6, <1>7, <1>8, <2>1, <2>2, <2>3, <2>4, <2>5, Zenon DEF LinesAre
<1>12. Hides(b)' /\ ImageIs(f, b)' /\ gif' = gif
    BY <1>1, <1>2, CodeSame, HidesSame
<1>13. InImage(f, b, k + 1, q)'
    BY <1>1, <1>5, <1>9, <1>10, <1>11, <1>12, Zenon DEF InImage
<1> QED BY <1>1, <1>5, <1>8, <1>12, <1>13, ToImage

\* No code is out of reach.
LEMMA TrackDamaged ==
    ASSUME NEW f, Reading(f), Input, Reader, CodeTable,
           NEW i \in DOMAIN f.parts, NEW b, b = f.parts[i],
           NEW k, NEW q, InImage(f, b, k, q), Damaged
    PROVE  FALSE
<1>1. HasCode /\ c # clear /\ c # ending /\ phase = "next" /\ c > slot
    BY DEF Damaged
<1>2. c <= slot
    BY <1>1, NextString
<1>3. c \in Nat /\ slot \in Nat
    <2>1. c \in Nat
        BY CodeType
    <2>2. table \in Seq(Seq(Nat))
        BY DEF CodeTable
    <2> QED BY <2>1, <2>2, SlotType
<1> QED BY ONLY <1>1, <1>2, <1>3

\* Behind the end of a file no code is complete.
LEMMA LostCode ==
    ASSUME Input, Reader, Lost, HasCode
    PROVE  FALSE
<1>1. nbits_left = 0 /\ curr_size <= nbits_left
    BY DEF Lost, HasCode
<1>2. curr_size \in 3 .. 12
    BY CodeSizes
<1> QED BY ONLY <1>1, <1>2

(***************************************************************************)
(* Lines and rows.                                                         *)
(***************************************************************************)
\* No code begins behind the last pixel.
LEMMA FromBounded ==
    ASSUME NEW f, Reading(f), NEW i \in DOMAIN f.parts, NEW b, b = f.parts[i],
           b.kind \in {"empty", "drawn"}, NEW k \in DOMAIN b.codes
    PROVE  b.codes[k].from \in Nat /\ b.codes[k].from <= Len(b.pixels)
<1>1. PICK size, last, len :
         /\ size = Format!Size(f.original, b) /\ last = Len(b.codes) /\ len = Len(b.pixels)
    OBVIOUS
<1>2. last \in Nat \ {0} /\ DOMAIN b.codes = 1 .. last
    BY <1>1, CodesOf
<1>3. b.codes[last].from = len
    BY <1>1, CodesOf
<1>4. len \in Nat
    <2>1. b.pixels \in Seq(0 .. 255)
        BY PartType
    <2> QED BY ONLY <1>1, <2>1
<1>5. \A j \in 1 .. last : b.codes[j].from \in Nat
    <2>1. ASSUME NEW j \in 1 .. last PROVE b.codes[j].from \in Nat
        <3>1. j \in DOMAIN b.codes
            BY <1>2
        <3>2. PICK e : e = b.codes[j]
            OBVIOUS
        <3>3. e.from \in Nat
            BY <3>1, <3>2, CodeFacts
        <3> QED BY <3>2, <3>3
    <2> QED BY <2>1
<1> DEFINE S == {j \in 1 .. last : b.codes[j].from <= len}
<1>6. last \in S
    BY ONLY <1>2, <1>3, <1>4
<1>7. ASSUME NEW j \in 1 .. last - 1, j + 1 \in S PROVE j \in S
    <2>1. j \in DOMAIN b.codes /\ j \in 1 .. last /\ j + 1 \in 1 .. last
        BY ONLY <1>2, j \in 1 .. last - 1
    <2>2. PICK x \in Nat, y \in Nat : x = b.codes[j].from /\ y = b.codes[j + 1].from
        BY <1>5, <2>1
    <2>3. y <= len
        BY <1>7, <2>2
    <2>4. x <= len
        <3>1. CASE b.codes[j].code = Format!Ending(size)
            <4>1. b.codes[j].from = len
                BY <1>1, <2>1, <3>1, LastCode
            <4> QED BY ONLY <1>4, <2>2, <4>1
        <3>2. CASE b.codes[j].code # Format!Ending(size) /\ b.codes[j].code = Format!Clear(size)
            <4>1. b.codes[j + 1].from = b.codes[j].from
                BY <1>1, <2>1, <3>2, NextCode
            <4> QED BY ONLY <2>2, <2>3, <4>1
        <3>3. CASE b.codes[j].code # Format!Ending(size) /\ b.codes[j].code # Format!Clear(size)
            <4>1. b.codes[j].from < b.codes[j + 1].from
                BY <1>1, <2>1, <3>3, CodeStands
            <4> QED BY ONLY <1>4, <2>2, <2>3, <4>1
        <3> QED BY <3>1, <3>2, <3>3
    <2> QED BY <2>1, <2>2, <2>4
<1>8. \A j \in 1 .. last : j \in S
    <2>1. S \subseteq 1 .. last /\ last \in Nat
        BY ONLY <1>2
    <2> HIDE DEF S
    <2> QED BY ONLY <1>6, <1>7, <2>1, FromTheLast
<1>9. k \in 1 .. last
    BY <1>2
<1> QED BY <1>1, <1>5, <1>8, <1>9

(***************************************************************************)
(* Where the parts are.                                                    *)
(***************************************************************************)

\* What a file holds at a place is a byte.
LEMMA OctetType ==
    ASSUME NEW f, Reading(f), NEW p \in Nat, p < Len(f.original)
    PROVE  Format!Octet(f.original, p) \in 0 .. 255
<1>1. f.original \in Seq(0 .. 255)
    BY LayoutOf
<1>2. p + 1 \in 1 .. Len(f.original)
    <2>1. Len(f.original) \in Nat
        BY ONLY <1>1
    <2> QED BY <2>1
<1>3. f.original[p + 1] \in 0 .. 255
    BY ONLY <1>1, <1>2, ElementOfSeq
<1> QED BY <1>3 DEF Format!Octet

\* The first length of a part comes first.
LEMMA FirstPlace ==
    ASSUME NEW f, Reading(f), NEW i \in DOMAIN f.parts, NEW b, b = f.parts[i],
           b.kind \in {"control", "text", "empty", "drawn"},
           NEW q \in 1 .. Len(b.places)
    PROVE  b.places[1] \in Nat /\ b.places[q] \in Nat /\ b.places[1] <= b.places[q]
<1>1. PICK last : last = Len(b.places)
    OBVIOUS
<1>2. /\ last \in Nat \ {0}
      /\ \A p \in 1 .. last : b.places[p] \in Nat /\ b.places[p] < Len(f.original)
      /\ \A p \in 1 .. last - 1 :
            /\ Format!Octet(f.original, b.places[p]) > 0
            /\ b.places[p + 1] = b.places[p] + 1 + Format!Octet(f.original, b.places[p])
    BY <1>1, PiecesOf
<1>3. q \in 1 .. last /\ q \in Nat
    BY <1>1, <1>2
<1>4. PICK place \in Nat : place = b.places[q]
    BY <1>2, <1>3
<1> DEFINE S == {p \in 1 .. q : b.places[p] <= place}
<1>5. q \in S
    BY ONLY <1>3, <1>4
<1>6. ASSUME NEW p \in 1 .. q - 1, p + 1 \in S PROVE p \in S
    <2>1. p \in 1 .. last - 1 /\ p \in 1 .. last /\ p + 1 \in 1 .. last /\ p \in 1 .. q
        BY ONLY <1>2, <1>3, p \in 1 .. q - 1
    <2>2. PICK x, y, z : /\ x \in Nat /\ x = b.places[p]
                         /\ y \in Nat /\ y = b.places[p + 1]
                         /\ z = Format!Octet(f.original, b.places[p])
        BY <1>2, <2>1
    <2>3. z \in 0 .. 255
        <3>1. x < Len(f.original)
            BY <1>2, <2>1, <2>2
        <3> QED BY <2>2, <3>1, OctetType
    <2>4. y = x + 1 + z
        BY <1>2, <2>1, <2>2, Zenon
    <2>5. y <= place
        BY <1>6, <2>2
    <2>6. x <= place
        <3>1. x \in Nat /\ y \in Nat
            BY <2>2
        <3> QED BY ONLY <3>1, <2>3, <2>4, <2>5, place \in Nat
    <2> QED BY <2>1, <2>2, <2>6
<1>7. \A p \in 1 .. q : p \in S
    <2>1. S \subseteq 1 .. q
        OBVIOUS
    <2> HIDE DEF S
    <2> QED BY ONLY <1>3, <1>5, <1>6, <2>1, FromTheLast
<1>8. 1 \in 1 .. q /\ 1 \in 1 .. last
    BY ONLY <1>2, <1>3
<1> QED BY <1>2, <1>4, <1>7, <1>8

\* A part begins in front of its lengths.
LEMMA StartInFront ==
    ASSUME NEW f, Reading(f), NEW i \in DOMAIN f.parts, NEW b, b = f.parts[i],
           b.kind \in {"control", "text", "empty", "drawn"},
           NEW q \in 1 .. Len(b.places)
    PROVE  b.start < b.places[q]
<1>1. PICK s \in Nat : s = b.start
    BY PartType
<1>2. PICK x \in Nat, y \in Nat : x = b.places[1] /\ y = b.places[q] /\ x <= y
    BY FirstPlace
<1>3. s < x
    <2>1. CASE b.kind \in {"control", "text"}
        <3>1. x = s + 2
            BY <1>1, <1>2, <2>1, PartInFile
        <3> QED BY ONLY <3>1, s \in Nat
    <2>2. CASE b.kind \in {"empty", "drawn"}
        <3>1. PICK t : t = Format!Table(Format!Octet(f.original, s + 9))
            OBVIOUS
        <3>2. /\ s \in Nat /\ s + 9 < Len(f.original) /\ t \in Nat
              /\ s + 10 + t < Len(f.original)
              /\ b.places[1] = s + 11 + t
            BY <1>1, <2>2, <3>1, ImageFacts, SMTT(30)
        <3> QED BY ONLY <1>2, <3>2, s \in Nat
    <2> QED BY <2>1, <2>2
<1> QED BY ONLY <1>1, <1>2, <1>3, s \in Nat

\* The parts are in order.
LEMMA StartsBefore ==
    ASSUME NEW f, Reading(f), NEW i \in DOMAIN f.parts, NEW b, b = f.parts[i]
    PROVE  /\ i \in Nat /\ 1 \in 1 .. i /\ b.start \in Nat
           /\ \A p \in 1 .. i : f.parts[p].start \in Nat /\ f.parts[p].start <= b.start
<1>1. /\ Len(f.parts) \in Nat /\ DOMAIN f.parts = 1 .. Len(f.parts) /\ 1 \in DOMAIN f.parts
    BY PartsOf
<1>2. i \in Nat /\ i \in 1 .. i /\ 1 \in 1 .. i
    BY <1>1
<1>3. \A p \in DOMAIN f.parts : f.parts[p].start \in Nat
    BY PartType
<1>4. PICK start \in Nat : start = f.parts[i].start
    BY <1>3
<1> DEFINE S == {p \in 1 .. i : f.parts[p].start <= start}
<1>5. i \in S
    BY ONLY <1>2, <1>4
<1>6. ASSUME NEW p \in 1 .. i - 1, p + 1 \in S PROVE p \in S
    <2>1. p \in DOMAIN f.parts /\ p + 1 \in DOMAIN f.parts /\ p \in 1 .. i /\ p # Len(f.parts)
        BY ONLY <1>1, p \in 1 .. i - 1, i \in DOMAIN f.parts
    <2>2. PICK d, next : d = f.parts[p] /\ next = f.parts[p + 1]
        OBVIOUS
    <2>3. PICK x \in Nat, y \in Nat : x = d.start /\ y = next.start
        BY <1>3, <2>1, <2>2
    <2>4. d.kind \in {"control", "text", "filler", "empty"}
          /\ Format!After(f.original, d, next)
        <3>1. d.kind \in {"control", "text", "filler", "empty", "drawn", "trailer"}
            BY <2>1, <2>2, PartType
        <3>2. d.kind \notin {"drawn", "trailer"}
            BY <2>1, <2>2, PartsOf
        <3>3. d.kind \in {"control", "text", "filler", "empty"}
            BY <3>1, <3>2
        <3> QED BY <2>1, <2>2, <3>3, PartsOf
    <2>5. x < y
        <3>1. CASE d.kind = "filler"
            <4>1. y = x + 1
                BY <2>3, <2>4, <3>1 DEF Format!After
            <4> QED BY <4>1
        <3>2. CASE d.kind # "filler"
            <4>1. y = d.places[Len(d.places)] + 1
                BY <2>3, <2>4, <3>2 DEF Format!After
            <4>2. PICK last : last = Len(d.places)
                OBVIOUS
            <4>3. last \in 1 .. last
                BY <2>1, <2>2, <2>4, <3>2, <4>2, PiecesOf
            <4>4. d.places[last] \in Nat /\ x < d.places[last]
                <5>1. d.kind \in {"control", "text", "empty", "drawn"}
                    BY <2>4, <3>2
                <5>2. d.places[last] \in Nat
                    BY <2>1, <2>2, <4>2, <4>3, <5>1, FirstPlace
                <5>3. x < d.places[last]
                    BY <2>1, <2>2, <2>3, <4>2, <4>3, <5>1, StartInFront
                <5> QED BY <5>2, <5>3
            <4> QED BY ONLY <4>1, <4>2, <4>4, x \in Nat
        <3> QED BY <3>1, <3>2
    <2>6. y <= start
        BY <1>6, <2>2, <2>3
    <2>7. x <= start
        BY ONLY <2>5, <2>6, x \in Nat, y \in Nat, start \in Nat
    <2> QED BY <2>1, <2>2, <2>3, <2>7
<1>7. \A p \in 1 .. i : p \in S
    <2>1. S \subseteq 1 .. i
        OBVIOUS
    <2> HIDE DEF S
    <2> QED BY ONLY <1>2, <1>5, <1>6, <2>1, FromTheLast
<1>8. \A p \in 1 .. i : f.parts[p].start \in Nat
    BY <1>1, <1>3
<1> QED BY <1>2, <1>4, <1>7, <1>8

(***************************************************************************)
(* Colours.                                                                *)
(***************************************************************************)

\* The three bytes of a colour are read as the format has them.
LEMMA ColourIs ==
    ASSUME NEW f, Reading(f), Input, NEW p \in Nat, p + 2 < Len(f.bytes)
    PROVE  ColourAt(p) = Format!Colour(f.original, p)
<1>1. Len(f.bytes) \in Nat
    BY LayoutOf
<1>2. /\ p \in Nat /\ p + 1 \in Nat /\ p + 2 \in Nat
      /\ p < Len(f.bytes) /\ p + 1 < Len(f.bytes) /\ p + 2 < Len(f.bytes)
    BY <1>1
<1>3. ByteAt(p) = Format!Octet(f.original, p)
    BY <1>2, ByteIs
<1>4. ByteAt(p + 1) = Format!Octet(f.original, p + 1)
    BY <1>2, ByteIs
<1>5. ByteAt(p + 2) = Format!Octet(f.original, p + 2)
    BY <1>2, ByteIs
<1> QED BY <1>3, <1>4, <1>5, Zenon DEF ColourAt, Rgb565, Format!Colour

\* The mask of a pixel keeps all colours of a table.
LEMMA ColoursKept ==
    ASSUME NEW flags \in 0 .. 255, NEW v \in Nat, 3 * v < Format!Table(flags)
    PROVE  /\ HasTable(flags) /\ TableColours(flags) \in Nat /\ v < TableColours(flags)
           /\ v % Rounded(TableColours(flags)) = v
           /\ Format!Table(flags) = 3 * TableColours(flags)
<1>1. HasTable(flags)
    BY DEF HasTable, Format!Table
<1>2. PICK n \in {2, 4, 8, 16, 32, 64, 128, 256} :
         n = TableColours(flags) /\ Format!Table(flags) = 3 * n
    BY <1>1, TableLength
<1>3. v < n /\ n \in Nat
    BY <1>2
<1>4. PICK m \in Nat : m = Rounded(n) /\ n <= m /\ m > 0
    BY <1>2 DEF Rounded
<1>5. v % m = v
    <2>1. v \in 0 .. m - 1
        BY ONLY <1>3, <1>4, v \in Nat, m \in Nat
    <2> QED BY ONLY <2>1, v \in Nat, m \in Nat, m > 0
<1> QED BY <1>1, <1>2, <1>3, <1>4, <1>5

\* A pixel is put into a row as the colour of its table, or left out.
LEMMA PixelIs ==
    ASSUME NEW f, Reading(f), Input, NEW i \in DOMAIN f.parts, NEW b, b = f.parts[i],
           b.kind = "drawn", Hides(b), ImageIs(f, b), b.places[1] <= Len(f.bytes),
           NEW v \in Nat, 3 * v < Format!Colours(f.original, b)
    PROVE  Pixel(v) = Shade(f, b, v)
<1>1. PICK n \in Nat : n = Len(f.bytes)
    BY LayoutOf
<1>2. PICK s, table0 : s = b.start /\ table0 = Format!Table(Format!Octet(f.original, s + 9))
    OBVIOUS
<1>3. /\ s \in Nat /\ s + 9 < Len(f.original) /\ table0 \in Nat
      /\ s + 10 + table0 < Len(f.original)
      /\ b.places[1] = s + 11 + table0
    BY <1>2, ImageFacts
<1>4. s + 11 + table0 <= n
    BY <1>1, <1>3
<1>5. PICK flags \in 0 .. 255 : flags = Format!Octet(f.original, s + 9)
    <2>1. s + 9 \in Nat /\ s + 9 < Len(f.original)
        BY <1>3
    <2> QED BY <2>1, OctetType
<1>6. /\ image.dac = IF flags >= 128 THEN s + 10 ELSE 0
      /\ image.colours = IF flags >= 128 THEN TableColours(flags) ELSE 0
      /\ numcolors = IF flags >= 128 THEN Rounded(TableColours(flags)) ELSE FileColours
    BY <1>2, <1>5 DEF ImageIs, Format!OwnTable
<1>7. /\ v % numcolors = v
      /\ Dac(v) = Format!Colour(f.original, Format!FirstColour(f.original, b) + 3 * v)
    <2>1. CASE flags >= 128
        <3>1. Format!Colours(f.original, b) = Format!Table(flags)
              /\ Format!FirstColour(f.original, b) = s + 10
            BY <1>2, <1>5, <2>1 DEF Format!Colours, Format!FirstColour, Format!OwnTable
        <3>2. 3 * v < Format!Table(flags)
            BY <3>1
        <3>3. /\ v < TableColours(flags) /\ v % Rounded(TableColours(flags)) = v
              /\ Format!Table(flags) = 3 * TableColours(flags) /\ TableColours(flags) \in Nat
            BY <3>2, ColoursKept
        <3>4. PICK count \in Nat : count = TableColours(flags) /\ table0 = 3 * count
            BY <1>2, <1>5, <3>3
        <3>5. s + 10 + 3 * v \in Nat /\ s + 10 + 3 * v + 2 < n /\ v < count /\ s + 10 > 0
            <4>1. v < count
                BY <3>3, <3>4
            <4> QED BY ONLY <1>3, <1>4, <3>4, <4>1, v \in Nat, n \in Nat, count \in Nat
        <3>6. image.dac = s + 10 /\ image.colours = count
            BY <1>6, <2>1, <3>4
        <3>7. Dac(v) = ColourAt(s + 10 + 3 * v)
            BY ONLY <3>5, <3>6, Zenon DEF Dac
        <3>8. ColourAt(s + 10 + 3 * v) = Format!Colour(f.original, s + 10 + 3 * v)
            BY <1>1, <3>5, ColourIs
        <3>9. v % numcolors = v
            BY <1>6, <2>1, <3>3
        <3> QED BY ONLY <3>1, <3>7, <3>8, <3>9, Zenon
    <2>2. CASE ~(flags >= 128)
        <3>1. Format!Colours(f.original, b) = Format!Table(Format!Octet(f.original, 10))
              /\ Format!FirstColour(f.original, b) = 13
            BY <1>2, <1>5, <2>2 DEF Format!Colours, Format!FirstColour, Format!OwnTable
        <3>2. PICK first \in Nat : first = f.parts[1].start /\ first <= s
            BY <1>2, StartsBefore
        <3>3. first = 13 + Format!Table(Format!Octet(f.original, 10))
            BY <3>2, PartsOf
        <3>4. PICK flags0 \in 0 .. 255 : flags0 = Format!Octet(f.original, 10)
            <4>1. 10 \in Nat /\ 10 < Len(f.original)
                BY LayoutOf DEF Format!ShownGif
            <4> QED BY <4>1, OctetType
        <3>5. 3 * v < Format!Table(flags0)
            BY <3>1, <3>4
        <3>6. /\ v < TableColours(flags0) /\ v % Rounded(TableColours(flags0)) = v
              /\ Format!Table(flags0) = 3 * TableColours(flags0)
              /\ TableColours(flags0) \in Nat /\ HasTable(flags0)
            BY <3>5, ColoursKept
        <3>7. PICK count \in Nat : count = TableColours(flags0) /\ first = 13 + 3 * count
            BY <3>3, <3>4, <3>6
        <3>8. 13 + 3 * v \in Nat /\ 13 + 3 * v + 2 < n /\ v < count /\ 10 < n
            <4>1. v < count
                BY <3>6, <3>7
            <4> QED BY ONLY <1>3, <1>4, <3>2, <3>7, <4>1, v \in Nat, n \in Nat, count \in Nat,
                           first \in Nat
        <3>9. global_flags = flags0
            BY <1>1, <3>4, <3>8, ColoursOf
        <3>10. image.dac = 0 /\ ~(image.dac > 0)
            BY <1>6, <2>2
        <3>11. Dac(v) = ColourAt(13 + 3 * v)
            BY ONLY <3>6, <3>7, <3>8, <3>9, <3>10, Zenon DEF Dac
        <3>12. ColourAt(13 + 3 * v) = Format!Colour(f.original, 13 + 3 * v)
            BY <1>1, <3>8, ColourIs
        <3>13. v % numcolors = v
            <4>1. FileColours = Rounded(TableColours(flags0))
                BY ONLY <3>6, <3>9, Zenon DEF FileColours
            <4> QED BY <1>6, <2>2, <3>6, <4>1
        <3> QED BY ONLY <3>1, <3>11, <3>12, <3>13, Zenon
    <2> QED BY <2>1, <2>2
<1>8. (transparent /\ v = transIndex) <=> v = b.hidden
    BY DEF Hides
<1> QED BY ONLY <1>7, <1>8, Zenon DEF Pixel, Shade

(***************************************************************************)
(* The order of the rows.                                                  *)
(***************************************************************************)
\* If the rows in front of one are those that are done, it is the next one.
LEMMA RowNext ==
    ASSUME NEW seq, NEW h \in Nat, NEW n \in Nat, n < h, NEW row \in 0 .. h - 1,
           row \notin {seq[i] : i \in 1 .. n},
           \A r \in 0 .. h - 1 : \E i \in 1 .. h : seq[i] = r,
           \A i \in 1 .. h, l \in 1 .. h : i < l => seq[i] # seq[l],
           \A i \in 1 .. h, l \in 1 .. h :
              i < l /\ seq[l] = row => seq[i] \in {seq[m] : m \in 1 .. n} \cup {row}
    PROVE  seq[n + 1] = row
<1>1. PICK l \in 1 .. h : seq[l] = row
    OBVIOUS
<1>2. l \notin 1 .. n
    BY <1>1
<1>3. PICK x \in 1 .. h : x = n + 1
    OBVIOUS
<1>4. l = x \/ x < l
    BY ONLY <1>2, <1>3, l \in 1 .. h, x \in 1 .. h, n \in Nat, h \in Nat
<1>5. ASSUME x < l PROVE FALSE
    <2>1. seq[x] \in {seq[m] : m \in 1 .. n} \cup {row}
        BY <1>1, <1>5
    <2>2. seq[x] # row
        BY <1>1, <1>5
    <2>3. PICK m \in 1 .. n : seq[x] = seq[m]
        BY <2>1, <2>2
    <2>4. m \in 1 .. h /\ m < x
        BY ONLY <1>3, n < h, n \in Nat, h \in Nat, m \in 1 .. n
    <2> QED BY <2>3, <2>4
<1> QED BY <1>1, <1>3, <1>4, <1>5

\* What comes in front of a row that was passed was passed.
LEMMA PassedBefore ==
    ASSUME NEW step \in 1 .. 4, NEW start \in Int, NEW r \in Nat, NEW s \in Nat,
           PassedRow(step, start, s), Format!Earlier(r, s)
    PROVE  PassedRow(step, start, r)
<1>1. CASE step = 1
    BY <1>1 DEF PassedRow, Format!Earlier, Format!Pass
<1>2. CASE step = 2
    BY <1>2 DEF PassedRow, Format!Earlier, Format!Pass
<1>3. CASE step = 3
    BY <1>3 DEF PassedRow, Format!Earlier, Format!Pass
<1>4. CASE step = 4
    BY <1>4 DEF PassedRow, Format!Earlier, Format!Pass
<1> QED BY <1>1, <1>2, <1>3, <1>4

\* A line is put into the row that comes next.
LEMMA RowIs ==
    ASSUME NEW f, Reading(f), Input, Sized, Decoded,
           NEW i \in DOMAIN f.parts, NEW b, b = f.parts[i],
           b.kind = "drawn", ImageIs(f, b), ~Low, PutLine, rowcount < image.hgt,
           RowsAre(f, b)
    PROVE  /\ b.rows[rowcount + 1] = IF image.interlaced THEN startloc' ELSE rowcount
           /\ b.rows[rowcount + 1] \notin DOMAIN rows
<1>0. PICK row : row = IF image.interlaced THEN startloc' ELSE rowcount
    OBVIOUS
<1>1. PICK h \in Nat, n \in Nat, seq \in Seq(Nat) :
         h = image.hgt /\ n = rowcount /\ seq = b.rows /\ n < h
    BY PartType DEF Decoded, Sized, ImageRecord
<1>2. /\ image' = image /\ rowcount' = n + 1 /\ (Low' <=> Low)
      /\ DOMAIN rows' = DOMAIN rows \cup {row}
    BY <1>0, <1>1 DEF PutLine, picture, Low
<1>3. n + 1 <= h /\ n <= h
    BY ONLY <1>1, h \in Nat, n \in Nat
<1>4. /\ IsFiniteSet(DOMAIN rows) /\ Cardinality(DOMAIN rows) = n
    BY <1>1, <1>3 DEF Decoded
<1>5. /\ Cardinality(DOMAIN rows') = n + 1
      /\ image.interlaced => InterlacedRows'
      /\ ~image.interlaced => DOMAIN rows' = 0 .. n + 1 - 1
    <2>1. Decoded'
        BY DecodedLine
    <2>2. ~Low' /\ rowcount' <= image'.hgt
        BY <1>1, <1>2, <1>3
    <2>3. /\ Cardinality(DOMAIN rows') = rowcount'
          /\ image'.interlaced => InterlacedRows'
          /\ ~image'.interlaced => DOMAIN rows' = 0 .. rowcount' - 1
        BY ONLY <2>1, <2>2, Zenon DEF Decoded
    <2> QED BY <1>2, <2>3
<1>6. row \notin DOMAIN rows
    <2>1. ASSUME row \in DOMAIN rows PROVE FALSE
        <3>1. DOMAIN rows' = DOMAIN rows
            BY <1>2, <2>1
        <3>2. n = n + 1
            BY ONLY <1>4, <1>5, <3>1, Zenon
        <3> QED BY ONLY <3>2, n \in Nat
    <2> QED BY <2>1
<1>7. row \in DOMAIN rows'
    BY <1>2
<1>8. row \in 0 .. h - 1
    <2>1. CASE image.interlaced
        <3>1. DOMAIN rows' \subseteq 0 .. image'.hgt - 1
            BY <1>5, <2>1 DEF InterlacedRows
        <3> QED BY <1>1, <1>2, <1>7, <3>1
    <2>2. CASE ~image.interlaced
        <3>1. row \in 0 .. n + 1 - 1
            BY <1>5, <1>7, <2>2
        <3> QED BY ONLY <1>3, <3>1, h \in Nat, n \in Nat
    <2> QED BY <2>1, <2>2
<1>9. /\ \A l \in 1 .. h : seq[l] \in Nat /\ seq[l] < h
      /\ \A r \in 0 .. h - 1 : \E l \in 1 .. h : seq[l] = r
      /\ \A m \in 1 .. h, l \in 1 .. h :
            m < l => IF image.interlaced THEN Format!Earlier(seq[m], seq[l])
                                         ELSE seq[m] < seq[l]
    <2>1. Format!Lines(f.original, b)
        BY ImagePart DEF Format!Drawn
    <2>2. h = Format!Height(f.original, b)
          /\ image.interlaced = Format!Interlaced(f.original, b)
        BY <1>1, ImageNumbers
    <2>3. /\ Len(seq) = h
          /\ \A l \in 1 .. h : seq[l] < h
          /\ \A r \in 0 .. h - 1 : \E l \in 1 .. h : seq[l] = r
          /\ \A m \in 1 .. h, l \in 1 .. h :
                m < l => IF image.interlaced THEN Format!Earlier(seq[m], seq[l])
                                             ELSE seq[m] < seq[l]
        BY ONLY <1>1, <2>1, <2>2, Zenon DEF Format!Lines
    <2>4. seq \in Seq(Nat)
        BY <1>1, PartType
    <2>5. \A l \in 1 .. h : seq[l] \in Nat
        BY ONLY <2>3, <2>4, ElementOfSeq
    <2> QED BY ONLY <2>3, <2>5, Zenon
<1>10. \A m \in 1 .. h, l \in 1 .. h : m < l => seq[m] # seq[l]
    <2>1. ASSUME NEW m \in 1 .. h, NEW l \in 1 .. h, m < l, seq[m] = seq[l] PROVE FALSE
        <3>1. PICK r \in Nat : r = seq[m]
            BY <1>9
        <3>2. Format!Earlier(r, r) \/ r < r
            BY <1>9, <2>1, <3>1
        <3> QED BY ONLY <3>2, r \in Nat DEF Format!Earlier, Format!Pass
    <2> QED BY <2>1
<1>11. ASSUME NEW m \in 1 .. h, NEW l \in 1 .. h, m < l, seq[l] = row
       PROVE  seq[m] \in DOMAIN rows'
    <2>1. PICK r \in Nat : r = seq[m] /\ r < h
        BY <1>9
    <2>2. CASE image.interlaced
        <3>1. Format!Earlier(r, row)
            BY <1>9, <1>11, <2>1, <2>2
        <3>2. PICK step \in 1 .. 4, start \in Int : step = inter_step' /\ start = startloc'
            BY <1>5, <2>2 DEF InterlacedRows
        <3>3. DOMAIN rows' = {s \in 0 .. h - 1 : PassedRow(step, start, s)}
            BY <1>1, <1>2, <1>5, <2>2, <3>2 DEF InterlacedRows
        <3>4. PassedRow(step, start, row) /\ row \in Nat
            BY <1>7, <1>8, <3>3
        <3>5. PassedRow(step, start, r)
            BY <3>1, <3>4, PassedBefore
        <3> QED BY <2>1, <3>3, <3>5
    <2>3. CASE ~image.interlaced
        <3>1. r < row
            BY <1>9, <1>11, <2>1, <2>3
        <3>2. row \in 0 .. n + 1 - 1
            BY <1>5, <1>7, <2>3
        <3>3. r \in 0 .. n + 1 - 1
            BY ONLY <3>1, <3>2, r \in Nat, n \in Nat
        <3> QED BY <1>5, <2>1, <2>3, <3>3
    <2> QED BY <2>2, <2>3
<1>12. DOMAIN rows = {seq[m] : m \in 1 .. n}
    BY ONLY <1>1, ~Low, RowsAre(f, b), Zenon DEF RowsAre
<1>13. row \notin {seq[m] : m \in 1 .. n}
    BY <1>6, <1>12
<1>14. \A m \in 1 .. h, l \in 1 .. h :
          m < l /\ seq[l] = row => seq[m] \in {seq[x] : x \in 1 .. n} \cup {row}
    BY <1>2, <1>11, <1>12
<1>15. seq[n + 1] = row
    <2>1. n < h /\ \A r \in 0 .. h - 1 : \E l \in 1 .. h : seq[l] = r
        BY <1>1, <1>9
    <2> QED BY ONLY <1>8, <1>10, <1>13, <1>14, <2>1, RowNext, h \in Nat, n \in Nat, Zenon
<1> QED BY ONLY <1>0, <1>1, <1>6, <1>15, Zenon

(***************************************************************************)
(* Strings and lines.                                                      *)
(***************************************************************************)
\* One string behind the other.
LEMMA SpellsJoined ==
    ASSUME NEW b, NEW front, NEW rest, NEW from \in Nat, NEW mid \in Nat, NEW to \in Nat,
           Spells(b, front, from, mid), Spells(b, rest, mid, to)
    PROVE  Spells(b, front \o rest, from, to)
<1>1. PICK n, m : n = mid - from /\ m = to - mid
    OBVIOUS
<1>2. /\ front \in Seq(Nat) /\ Len(front) = n /\ rest \in Seq(Nat) /\ Len(rest) = m
      /\ \A j \in 1 .. n : front[j] = b.pixels[from + j]
      /\ \A j \in 1 .. m : rest[j] = b.pixels[mid + j]
    BY ONLY <1>1, Spells(b, front, from, mid), Spells(b, rest, mid, to), Zenon DEF Spells
<1>3. n \in Nat /\ m \in Nat
    <2>1. Len(front) \in Nat /\ Len(rest) \in Nat
        BY ONLY <1>2
    <2> QED BY ONLY <1>2, <2>1, Zenon
<1>4. PICK whole : whole = front \o rest
    OBVIOUS
<1>5. /\ whole \in Seq(Nat) /\ Len(whole) = n + m
      /\ \A j \in 1 .. n + m : whole[j] = IF j <= n THEN front[j] ELSE rest[j - n]
    <2>1. /\ whole \in Seq(Nat) /\ Len(whole) = Len(front) + Len(rest)
          /\ \A j \in 1 .. Len(front) + Len(rest) :
                whole[j] = IF j <= Len(front) THEN front[j] ELSE rest[j - Len(front)]
        BY ONLY <1>2, <1>4, ConcatProperties, Zenon
    <2> QED BY ONLY <1>2, <2>1, Zenon
<1>6. n + m = to - from
    BY ONLY <1>1, from \in Nat, mid \in Nat, to \in Nat
<1>7. ASSUME NEW j \in 1 .. n + m PROVE whole[j] = b.pixels[from + j]
    <2>1. CASE j <= n
        <3>1. j \in 1 .. n
            BY ONLY <2>1, <1>3, j \in 1 .. n + m
        <3> QED BY ONLY <1>2, <1>5, <2>1, <3>1, j \in 1 .. n + m
    <2>2. CASE ~(j <= n)
        <3>1. j - n \in 1 .. m /\ mid + (j - n) = from + j
            BY ONLY <2>2, <1>1, <1>3, j \in 1 .. n + m, from \in Nat, mid \in Nat
        <3>2. whole[j] = rest[j - n]
            BY ONLY <1>5, <2>2, j \in 1 .. n + m
        <3>3. rest[j - n] = b.pixels[mid + (j - n)]
            BY ONLY <1>2, <3>1, Zenon
        <3> QED BY ONLY <3>1, <3>2, <3>3, Zenon
    <2> QED BY <2>1, <2>2
<1>8. \A j \in 1 .. Len(whole) : whole[j] = b.pixels[from + j]
    BY ONLY <1>5, <1>7, Zenon
<1>9. Len(whole) = to - from
    BY ONLY <1>5, <1>6
<1> QED BY ONLY <1>4, <1>5, <1>8, <1>9, SpellsIs, from \in Nat, to \in Nat, Zenon

\* A string in two parts.
LEMMA SpellsParted ==
    ASSUME NEW b, NEW string, NEW from \in Nat, NEW mid \in Nat, NEW to \in Nat,
           Spells(b, string, from, to), NEW n \in Nat, mid = from + n, mid <= to
    PROVE  /\ Spells(b, SubSeq(string, 1, n), from, mid)
           /\ Spells(b, SubSeq(string, n + 1, Len(string)), mid, to)
<1>1. PICK len : len = to - from
    OBVIOUS
<1>2. /\ string \in Seq(Nat) /\ Len(string) = len
      /\ \A j \in 1 .. len : string[j] = b.pixels[from + j]
    BY ONLY <1>1, Spells(b, string, from, to), Zenon DEF Spells
<1>3. len \in Nat /\ n <= len /\ mid - from = n /\ to - mid = len - n
    BY ONLY <1>1, mid = from + n, mid <= to, from \in Nat, mid \in Nat, to \in Nat, n \in Nat
<1>4. \A j \in 1 .. len : string[j] \in Nat
    BY ONLY <1>2, ElementOfSeq
<1>5. PICK front, rest : /\ front = SubSeq(string, 1, n)
                         /\ rest = SubSeq(string, n + 1, Len(string))
    OBVIOUS
<1>6. /\ front \in Seq(Nat) /\ Len(front) = n
      /\ \A j \in 1 .. n : front[j] = string[j]
    BY ONLY <1>2, <1>3, <1>4, <1>5, n \in Nat
<1>7. /\ rest \in Seq(Nat) /\ Len(rest) = len - n
      /\ \A j \in 1 .. len - n : rest[j] = string[n + j]
    BY ONLY <1>2, <1>3, <1>4, <1>5, n \in Nat
<1>8. Spells(b, front, from, mid)
    <2>1. \A j \in 1 .. Len(front) : front[j] = b.pixels[from + j]
        <3>1. ASSUME NEW j \in 1 .. n PROVE front[j] = b.pixels[from + j]
            <4>1. j \in 1 .. len
                BY ONLY <1>3, j \in 1 .. n, n \in Nat
            <4> QED BY ONLY <1>2, <1>6, <4>1, j \in 1 .. n, Zenon
        <3> QED BY ONLY <1>6, <3>1, Zenon
    <2>2. Len(front) = mid - from
        BY ONLY <1>3, <1>6
    <2> QED BY ONLY <1>6, <2>1, <2>2, SpellsIs, from \in Nat, mid \in Nat
<1>9. Spells(b, rest, mid, to)
    <2>1. \A j \in 1 .. Len(rest) : rest[j] = b.pixels[mid + j]
        <3>1. ASSUME NEW j \in 1 .. len - n PROVE rest[j] = b.pixels[mid + j]
            <4>1. n + j \in 1 .. len /\ mid + j = from + (n + j)
                BY ONLY <1>3, j \in 1 .. len - n, n \in Nat, mid = from + n, from \in Nat
            <4>2. string[n + j] = b.pixels[from + (n + j)]
                BY ONLY <1>2, <4>1, Zenon
            <4> QED BY ONLY <1>7, <4>1, <4>2, j \in 1 .. len - n, Zenon
        <3> QED BY ONLY <1>7, <3>1, Zenon
    <2>2. Len(rest) = to - mid
        BY ONLY <1>3, <1>7
    <2> QED BY ONLY <1>7, <2>1, <2>2, SpellsIs, mid \in Nat, to \in Nat
<1> QED BY ONLY <1>5, <1>8, <1>9, Zenon

\* What the steps that fill lines leave alone.
LEMMA LineSame ==
    ASSUME NEW f, NEW b, PutLine \/ PopRest
    PROVE  /\ gif' = gif /\ image' = image /\ inputPos' = inputPos
           /\ UNCHANGED <<source, control, picture>> /\ UNCHANGED <<image, codes, phase>>
           /\ UNCHANGED bits /\ (Low' <=> Low) /\ at = "lines"
    BY DEF PutLine, PopRest, source, picture, Low

\* The reader stays where it is.
LEMMA ReaderKept ==
    ASSUME NEW f, NEW b, NEW k, NEW q, ReaderIs(f, b, k, q), UNCHANGED bits,
           inputPos' = inputPos, at' # "bits"
    PROVE  ReaderIs(f, b, k, q)'
    BY DEF ReaderIs, TakenOf, bits

\* A line that is full goes into the row that comes next.
LEMMA TrackLine ==
    ASSUME NEW f, Reading(f), Input, Reader, Strings, Sized, Decoded, Progress,
           NEW i \in DOMAIN f.parts, NEW b, b = f.parts[i],
           NEW k, NEW q, InImage(f, b, k, q), PutLine
    PROVE  FrameTrack'
<1>1. /\ b.kind \in {"empty", "drawn"} /\ k \in DOMAIN b.codes /\ q \in DOMAIN b.places
      /\ Hides(b) /\ ImageIs(f, b) /\ ReaderIs(f, b, k, q) /\ TableIs(b, k)
      /\ LinesAre(f, b, k)
    BY DEF InImage
<1>2. /\ gif' = gif /\ image' = image /\ inputPos' = inputPos
      /\ UNCHANGED <<source, control, picture>> /\ UNCHANGED <<image, codes, phase>>
      /\ UNCHANGED bits /\ (Low' <=> Low) /\ at = "lines" /\ at' = "lines"
      /\ rowcount' = rowcount + 1 /\ line' = <<>> /\ Len(stack) >= Room
      /\ stack' = SubSeq(stack, Room + 1, Len(stack))
    BY LineSame DEF PutLine
<1>3. b.kind = "drawn"
    BY <1>1, <1>2 DEF LinesAre
<1>4. PICK w \in Nat \ {0}, h \in Nat \ {0} :
         w = image.wdt /\ h = image.hgt /\ Len(b.pixels) = h * w
    BY <1>1, <1>3, LinesOf
<1>5. PICK n \in Nat, filled \in Nat, base \in Nat, mid \in Nat, top \in Nat :
         /\ n = rowcount /\ filled = Len(line) /\ base = n * w /\ mid = base + filled
         /\ top = base + w
    <2>1. PICK n \in Nat, filled \in Nat : n = rowcount /\ filled = Len(line)
        BY DEF Decoded, Strings
    <2>2. PICK base \in Nat : base = n * w
        OBVIOUS
    <2>3. base + filled \in Nat /\ base + w \in Nat
        OBVIOUS
    <2> QED BY <2>1, <2>2, <2>3
<1>6. filled < w
    BY <1>2, <1>4, <1>5 DEF Progress, Decoding
<1>7. PICK room \in Nat : room = w - filled /\ room = Room /\ top = mid + room
    <2>1. w - filled \in Nat /\ top = mid + (w - filled)
        BY ONLY <1>5, <1>6, w \in Nat \ {0}, filled \in Nat, base \in Nat
    <2>2. Room = w - filled
        BY <1>4, <1>5 DEF Room
    <2> QED BY <2>1, <2>2
<1>8. PICK to \in Nat : to = b.codes[k].from /\ to <= h * w
    BY <1>1, <1>4, FromBounded
<1>9. /\ Spells(b, line, base, mid) /\ Spells(b, stack, mid, to) /\ n <= h
      /\ RowsAre(f, b)
    BY ONLY <1>1, <1>2, <1>3, <1>4, <1>5, <1>8, Zenon DEF LinesAre
<1>10. PICK m \in Nat : m = Len(stack) /\ m >= room
    BY <1>2, <1>7 DEF Strings
<1>11. top <= to
    <2>1. m = to - mid
        BY ONLY <1>9, <1>10, Zenon DEF Spells
    <2> QED BY ONLY <1>7, <1>10, <2>1, mid \in Nat, to \in Nat
<1>12. n < h /\ n \in 0 .. h - 1
    <2>1. ASSUME n = h PROVE FALSE
        <3>1. base = h * w
            BY ONLY <1>5, <2>1, Zenon
        <3> QED BY ONLY <1>5, <1>8, <1>11, <3>1, base \in Nat, to \in Nat, w \in Nat \ {0}
    <2> QED BY ONLY <1>9, <2>1, n \in Nat, h \in Nat \ {0}
<1>13. PICK full, part : part = SubSeq(stack, 1, room) /\ full = line \o part
    OBVIOUS
<1>14. Spells(b, part, mid, top) /\ Spells(b, stack', top, to)
    <2>1. /\ Spells(b, SubSeq(stack, 1, room), mid, top)
          /\ Spells(b, SubSeq(stack, room + 1, Len(stack)), top, to)
        BY ONLY <1>7, <1>9, <1>11, SpellsParted, mid \in Nat, top \in Nat, to \in Nat, room \in Nat
    <2>2. stack' = SubSeq(stack, room + 1, Len(stack))
        BY ONLY <1>2, <1>7, Zenon
    <2> QED BY ONLY <1>13, <2>1, <2>2, Zenon
<1>15. Spells(b, full, base, top)
    <2>1. Spells(b, line \o part, base, top)
        BY ONLY <1>9, <1>14, SpellsJoined, base \in Nat, mid \in Nat, top \in Nat, Zenon
    <2> QED BY ONLY <1>13, <2>1, Zenon
<1>16. \A j \in 1 .. w : full[j] = b.pixels[base + j]
    <2>1. top - base = w
        BY ONLY <1>5, base \in Nat, w \in Nat \ {0}
    <2> QED BY ONLY <1>15, <2>1, Zenon DEF Spells
<1>17. ASSUME NEW j \in 1 .. w PROVE Pixel(full[j]) = Shade(f, b, b.pixels[base + j])
    <2>1. base + j \in 1 .. Len(b.pixels)
        <3>1. base + j >= 1 /\ base + j <= top
            BY ONLY <1>5, base \in Nat, w \in Nat \ {0}, j \in 1 .. w
        <3>2. PICK len \in Nat : len = Len(b.pixels) /\ to <= len
            BY <1>4, <1>8, PartType
        <3> QED BY ONLY <1>11, <3>1, <3>2, base \in Nat, j \in 1 .. w, to \in Nat, top \in Nat
    <2>2. PICK v : v = b.pixels[base + j]
        OBVIOUS
    <2>3. v \in Nat
        <3>1. b.pixels \in Seq(0 .. 255)
            BY PartType
        <3>2. v \in 0 .. 255
            BY ONLY <2>1, <2>2, <3>1, ElementOfSeq
        <3> QED BY ONLY <3>2
    <2>4. 3 * v < Format!Colours(f.original, b)
        <3>1. Format!Drawn(f.original, b)
            BY <1>3, ImagePart
        <3>2. base + j \in DOMAIN b.pixels
            <4>1. b.pixels \in Seq(0 .. 255)
                BY PartType
            <4> QED BY ONLY <2>1, <4>1
        <3> QED BY ONLY <2>2, <3>1, <3>2, Zenon DEF Format!Drawn
    <2>5. b.places[1] <= Len(f.bytes)
        <3>1. PICK p : p = Len(b.places)
            OBVIOUS
        <3>2. q \in 1 .. p
            BY <1>1, <3>1, PiecesOf
        <3>3. PICK x \in Nat, y \in Nat : x = b.places[1] /\ y = b.places[q] /\ x <= y
            BY <1>1, <3>1, <3>2, FirstPlace
        <3>4. PICK size \in Nat : size = Len(f.bytes)
            BY LayoutOf
        <3>5. y <= size
            BY <1>1, <3>3, <3>4, Zenon DEF ReaderIs
        <3> QED BY ONLY <3>3, <3>4, <3>5, x \in Nat, y \in Nat, size \in Nat
    <2>6. Pixel(v) = Shade(f, b, v)
        BY <1>1, <1>3, <2>3, <2>4, <2>5, PixelIs
    <2> QED BY ONLY <1>16, <2>2, <2>6, j \in 1 .. w, Zenon
<1>18. RowsAre(f, b)'
    <2> SUFFICES ASSUME ~Low' PROVE /\ DOMAIN rows' = {b.rows[l] : l \in 1 .. rowcount'}
                                    /\ \A l \in 1 .. rowcount' :
                                          rows'[b.rows[l]]
                                             = [j \in 1 .. image'.wdt |->
                                                  Shade(f, b, b.pixels[(l - 1) * image'.wdt + j])]
        BY DEF RowsAre
    <2>1. /\ ~Low /\ DOMAIN rows = {b.rows[l] : l \in 1 .. n}
          /\ \A l \in 1 .. n :
                rows[b.rows[l]] = [j \in 1 .. w |-> Shade(f, b, b.pixels[(l - 1) * w + j])]
        BY ONLY <1>2, <1>4, <1>5, <1>9, ~Low', Zenon DEF RowsAre
    <2>2. PICK row : row = IF image.interlaced THEN startloc' ELSE rowcount
        OBVIOUS
    <2>3. b.rows[n + 1] = row /\ row \notin DOMAIN rows
        <3>1. rowcount < image.hgt
            BY ONLY <1>4, <1>5, <1>12, Zenon
        <3>2. /\ b.rows[rowcount + 1] = IF image.interlaced THEN startloc' ELSE rowcount
              /\ b.rows[rowcount + 1] \notin DOMAIN rows
            BY <1>1, <1>3, <1>9, <2>1, <3>1, RowIs
        <3> QED BY ONLY <1>5, <2>2, <3>2, Zenon
    <2>4. rows' = [r \in DOMAIN rows \cup {row} |->
                      IF r = row THEN [j \in 1 .. w |-> Pixel(full[j])] ELSE rows[r]]
        <3>1. rows' = [r \in DOMAIN rows \cup {IF image.interlaced THEN startloc' ELSE rowcount} |->
                          IF r = (IF image.interlaced THEN startloc' ELSE rowcount)
                          THEN [j \in 1 .. image.wdt |-> Pixel((line \o SubSeq(stack, 1, Room))[j])]
                          ELSE rows[r]]
            BY DEF PutLine
        <3>2. full = line \o SubSeq(stack, 1, Room) /\ w = image.wdt
            BY ONLY <1>4, <1>7, <1>13, Zenon
        <3> QED BY ONLY <2>2, <3>1, <3>2, Zenon
    <2>5. DOMAIN rows' = DOMAIN rows \cup {row}
        BY <2>4
    <2>6. DOMAIN rows' = {b.rows[l] : l \in 1 .. n + 1}
        <3>1. 1 .. n + 1 = 1 .. n \cup {n + 1}
            OBVIOUS
        <3> QED BY ONLY <2>1, <2>3, <2>5, <3>1
    <2>7. ASSUME NEW l \in 1 .. n + 1
          PROVE  rows'[b.rows[l]] = [j \in 1 .. w |-> Shade(f, b, b.pixels[(l - 1) * w + j])]
        <3>1. CASE l \in 1 .. n
            <4>1. b.rows[l] \in DOMAIN rows
                BY ONLY <2>1, <3>1
            <4>2. rows'[b.rows[l]] = rows[b.rows[l]]
                BY ONLY <2>3, <2>4, <4>1, Zenon
            <4> QED BY ONLY <2>1, <3>1, <4>2, Zenon
        <3>2. CASE l = n + 1
            <4>1. rows'[row] = [j \in 1 .. w |-> Pixel(full[j])]
                BY ONLY <2>4, Zenon
            <4>2. (l - 1) * w = base
                <5>1. l - 1 = n
                    BY ONLY <3>2, n \in Nat
                <5> QED BY ONLY <1>5, <5>1, Zenon
            <4>3. [j \in 1 .. w |-> Pixel(full[j])]
                     = [j \in 1 .. w |-> Shade(f, b, b.pixels[base + j])]
                BY ONLY <1>17, Zenon
            <4>4. b.rows[l] = row
                BY ONLY <2>3, <3>2, Zenon
            <4> QED BY ONLY <4>1, <4>2, <4>3, <4>4, Zenon
        <3> QED BY ONLY <3>1, <3>2, l \in 1 .. n + 1, n \in Nat
    <2>8. rowcount' = n + 1 /\ image'.wdt = w
        BY <1>2, <1>4, <1>5
    <2> QED BY ONLY <2>6, <2>7, <2>8, Zenon
<1>19. LinesAre(f, b, k)'
    <2>1. PICK next \in Nat : next = n + 1
        OBVIOUS
    <2>2. next * w = top /\ next <= h
        <3>1. (n + 1) * w = n * w + w
            BY ONLY n \in Nat, w \in Nat \ {0}
        <3>2. next <= h
            BY ONLY <1>12, <2>1, n \in Nat, h \in Nat \ {0}
        <3> QED BY ONLY <1>5, <2>1, <3>1, <3>2, Zenon
    <2>3. Spells(b, <<>>, top, top) /\ top + Len(<<>>) = top
        <3>1. <<>> \in Seq(Nat) /\ Len(<<>>) = 0
            OBVIOUS
        <3>2. top - top = 0 /\ top + 0 = top /\ \A j \in 1 .. 0 : FALSE
            BY ONLY top \in Nat
        <3> QED BY ONLY <3>1, <3>2, Zenon DEF Spells
    <2>4. rowcount' * image'.wdt = top /\ rowcount' <= image'.hgt
        BY ONLY <1>2, <1>4, <1>5, <2>1, <2>2, Zenon
    <2> QED BY ONLY <1>2, <1>3, <1>8, <1>14, <1>18, <2>3, <2>4, Zenon DEF LinesAre
<1>20. Hides(b)' /\ ImageIs(f, b)'
    BY <1>1, <1>2, HidesSame
<1>21. ReaderIs(f, b, k, q)'
    <2>1. at' # "bits"
        BY <1>2
    <2> QED BY <1>1, <1>2, <2>1, ReaderKept
<1>22. TableIs(b, k)'
    BY <1>1, <1>2, TableKept
<1>23. InImage(f, b, k, q)'
    BY ONLY <1>1, <1>19, <1>20, <1>21, <1>22, Zenon DEF InImage
<1> QED BY <1>1, <1>2, <1>23, ToImage

\* The rest of a string begins the next line, or the image is complete.
LEMMA TrackRest ==
    ASSUME NEW f, Reading(f), Input, Reader, Strings, Sized, Decoded,
           NEW i \in DOMAIN f.parts, NEW b, b = f.parts[i],
           NEW k, NEW q, InImage(f, b, k, q), PopRest
    PROVE  FrameTrack'
<1>1. /\ b.kind \in {"empty", "drawn"} /\ k \in DOMAIN b.codes /\ q \in DOMAIN b.places
      /\ Hides(b) /\ ImageIs(f, b) /\ ReaderIs(f, b, k, q) /\ TableIs(b, k)
      /\ LinesAre(f, b, k)
    BY DEF InImage
<1>2. /\ gif' = gif /\ image' = image /\ inputPos' = inputPos
      /\ UNCHANGED <<source, control, picture>> /\ UNCHANGED <<image, codes, phase>>
      /\ UNCHANGED bits /\ (Low' <=> Low) /\ at = "lines"
      /\ UNCHANGED <<rows, rowcount>> /\ line' = line \o stack
      /\ at' = IF rowcount = image.hgt THEN "paint" ELSE "code"
    BY LineSame DEF PopRest
<1>3. b.kind = "drawn"
    BY <1>1, <1>2 DEF LinesAre
<1>4. PICK w \in Nat, h \in Nat, n \in Nat : w = image.wdt /\ h = image.hgt /\ n = rowcount
    BY DEF Decoded, Sized, ImageRecord
<1>5. PICK filled \in Nat, base \in Nat, mid \in Nat :
         filled = Len(line) /\ base = n * w /\ mid = base + filled
    <2>1. PICK filled \in Nat, base \in Nat : filled = Len(line) /\ base = n * w
        BY DEF Strings
    <2>2. base + filled \in Nat
        OBVIOUS
    <2> QED BY <2>1, <2>2
<1>6. PICK to \in Nat : to = b.codes[k].from
    BY <1>1, FromBounded
<1>7. /\ Spells(b, line, base, mid) /\ Spells(b, stack, mid, to) /\ n <= h
      /\ RowsAre(f, b)
    BY ONLY <1>1, <1>2, <1>3, <1>4, <1>5, <1>6, Zenon DEF LinesAre
<1>8. Spells(b, line', base, to)
    <2>1. Spells(b, line \o stack, base, to)
        BY ONLY <1>7, SpellsJoined, base \in Nat, mid \in Nat, to \in Nat, Zenon
    <2> QED BY ONLY <1>2, <2>1, Zenon
<1>9. RowsAre(f, b)'
    BY <1>2, <1>7 DEF RowsAre
<1>10. Hides(b)' /\ ImageIs(f, b)'
    BY <1>1, <1>2, HidesSame
<1>11. CASE n = h
    <2>1. inputPos <= Len(f.bytes) /\ b.places[1] <= Len(f.bytes)
        <3>1. PICK place \in Nat : place = b.places[q]
            <4>1. b.places \in Seq(Nat)
                BY PartType
            <4> QED BY <1>1, <4>1
        <3>2. PICK navail \in Nat : navail = navail_bytes
            BY <1>1, TakenType
        <3>3. inputPos + navail = place /\ place <= Len(f.bytes)
            BY <1>1, <3>1, <3>2, Zenon DEF ReaderIs
        <3>4. inputPos \in Nat /\ Len(f.bytes) \in Nat
            BY LayoutOf DEF Input
        <3>5. PICK last : last = Len(b.places)
            OBVIOUS
        <3>6. q \in 1 .. last
            BY <1>1, <3>5, PiecesOf
        <3>7. b.places[1] \in Nat /\ b.places[1] <= place
            BY <1>1, <3>1, <3>5, <3>6, FirstPlace
        <3> QED BY ONLY <3>3, <3>4, <3>7, place \in Nat, navail \in Nat
    <2>2. at' = "paint" /\ rowcount' = image'.hgt
        BY <1>2, <1>4, <1>11
    <2>3. Ready(f, b)'
        BY ONLY <1>2, <1>3, <1>9, <1>10, <2>1, <2>2, Zenon DEF Ready
    <2> QED BY <1>2, <2>3, ToPaint
<1>12. CASE n # h
    <2>1. at' = "code" /\ n < h
        <3>1. n < h
            BY ONLY <1>7, <1>12, n \in Nat, h \in Nat
        <3>2. at' = "code"
            BY ONLY <1>2, <1>4, <1>12, Zenon
        <3> QED BY <3>1, <3>2
    <2>2. PICK len \in Nat : len = Len(line') /\ len = to - base
        <3>1. line' \in Seq(Nat) /\ Len(line') = to - base
            BY ONLY <1>8, Zenon DEF Spells
        <3> QED BY <3>1
    <2>3. base + len = to
        BY ONLY <2>2, base \in Nat, to \in Nat
    <2>4. LinesAre(f, b, k)'
        <3>1. rowcount' * image'.wdt + Len(line') = to /\ rowcount' * image'.wdt = base
            BY ONLY <1>2, <1>4, <1>5, <2>2, <2>3, Zenon
        <3>2. rowcount' < image'.hgt
            BY ONLY <1>2, <1>4, <2>1, Zenon
        <3>3. at' # "lines"
            BY <2>1
        <3> QED BY ONLY <1>6, <1>8, <1>9, <3>1, <3>2, <3>3, Zenon DEF LinesAre
    <2>5. ReaderIs(f, b, k, q)'
        <3>1. at' # "bits"
            BY <2>1
        <3> QED BY <1>1, <1>2, <3>1, ReaderKept
    <2>6. TableIs(b, k)'
        BY <1>1, <1>2, TableKept
    <2>7. InImage(f, b, k, q)'
        BY ONLY <1>1, <1>10, <2>4, <2>5, <2>6, Zenon DEF InImage
    <2> QED BY <1>1, <1>2, <2>1, <2>7, ToImage
<1> QED BY <1>11, <1>12

(***************************************************************************)
(* The picture.                                                            *)
(***************************************************************************)
\* What an image does not cover shows the background.
LEMMA BackgroundIs ==
    ASSUME NEW f, Reading(f), Input, NEW i \in DOMAIN f.parts, NEW b, b = f.parts[i],
           b.kind = "drawn", b.places[1] <= Len(f.bytes),
           f.parts[1].kind = "control", Format!Octet(f.original, 10) >= 128,
           3 * Format!Octet(f.original, 11) < Format!Table(Format!Octet(f.original, 10))
    PROVE  Background = Format!Behind(f.original, f.parts)
<1>1. PICK n \in Nat : n = Len(f.bytes) /\ n <= Len(f.original)
    BY LayoutOf
<1>2. PICK start \in Nat, s \in Nat : start = f.parts[1].start /\ s = b.start
    BY StartsBefore
<1>3. PICK d, next : d = f.parts[1] /\ next = f.parts[2]
    OBVIOUS
<1>4. i # 1 /\ 1 \in DOMAIN f.parts /\ 1 \in 1 .. i /\ 2 \in 1 .. i /\ 2 \in DOMAIN f.parts
    <2>1. i # 1
        <3>1. "control" # "drawn"
            OBVIOUS
        <3> QED BY <3>1
    <2>2. DOMAIN f.parts = 1 .. Len(f.parts) /\ Len(f.parts) \in Nat
        BY PartsOf
    <2> QED BY <2>1, <2>2
<1>5. Format!After(f.original, d, next) /\ d.kind = "control"
    <2>1. 1 + 1 = 2
        OBVIOUS
    <2>2. 1 \in DOMAIN f.parts
        BY <1>4
    <2> QED BY <1>3, <2>1, <2>2, PartsOf
<1>6. /\ Format!Octet(f.original, start + 1) = 249 /\ d.places[1] = start + 2
      /\ Len(d.places) = 2 /\ Format!Octet(f.original, start + 2) = 4
      /\ next.start = d.places[2] + 1
      /\ next.hidden = IF Format!Octet(f.original, start + 3) % 2 = 1
                       THEN Format!Octet(f.original, start + 6) ELSE -1
    <2>1. Format!ControlBlock(f.original, d)
        BY <1>5, Zenon DEF Format!After
    <2>2. d.start = start /\ d.kind # "filler"
        BY <1>2, <1>3, <1>5
    <2>3. next.start = d.places[Len(d.places)] + 1
        BY <1>5, <2>2, Zenon DEF Format!After
    <2>4. next.hidden = IF Format!Octet(f.original, start + 3) % 2 = 1
                        THEN Format!Octet(f.original, start + 6) ELSE -1
        BY <1>5, <2>2, Zenon DEF Format!After
    <2>5. /\ Format!Octet(f.original, start + 1) = 249 /\ d.places[1] = start + 2
          /\ Len(d.places) = 2 /\ Format!Octet(f.original, start + 2) = 4
        BY <2>1, <2>2, Zenon DEF Format!ControlBlock
    <2> QED BY ONLY <2>3, <2>4, <2>5, Zenon
<1>7. d.places[2] = start + 7
    <2>1. 2 = Len(d.places)
        BY <1>6
    <2>2. 1 \in 1 .. 2 - 1 /\ 1 + 1 = 2
        OBVIOUS
    <2>3. d.places[1 + 1] = d.places[1] + 1 + Format!Octet(f.original, d.places[1])
        <3>1. PICK last : last = Len(d.places) /\ last = 2
            BY <2>1
        <3>2. /\ last \in Nat \ {0}
              /\ \A q \in 1 .. last - 1 :
                    /\ Format!Octet(f.original, d.places[q]) > 0
                    /\ d.places[q + 1] = d.places[q] + 1
                                         + Format!Octet(f.original, d.places[q])
            <4>1. d.kind \in {"control", "text", "empty", "drawn"}
                BY <1>5
            <4>2. PICK p : p = 1
                OBVIOUS
            <4>3. p \in DOMAIN f.parts /\ d = f.parts[p] /\ last = Len(d.places)
                BY ONLY <1>3, <1>4, <3>1, <4>2, Zenon
            <4> QED BY ONLY Reading(f), <4>1, <4>3, PiecesOf
        <3>3. 1 \in 1 .. last - 1
            BY <3>1
        <3> QED BY ONLY <3>2, <3>3
    <2>4. d.places[2] = start + 2 + 1 + 4
        BY ONLY <1>6, <2>2, <2>3, Zenon
    <2> QED BY ONLY <2>4, start \in Nat
<1>8. start + 8 <= s
    <2>1. next.start = start + 8
        BY ONLY <1>6, <1>7, start \in Nat
    <2>2. next.start <= s
        BY <1>2, <1>3, <1>4, StartsBefore
    <2> QED BY ONLY <2>1, <2>2, Zenon
<1>9. s < n
    <2>1. PICK last : last = Len(b.places)
        OBVIOUS
    <2>2. 1 \in 1 .. last
        BY <2>1, PiecesOf
    <2>3. s < b.places[1] /\ b.places[1] \in Nat
        <3>1. s < b.places[1]
            BY <1>2, <2>1, <2>2, StartInFront
        <3>2. b.places[1] \in Nat
            BY <2>1, <2>2, FirstPlace
        <3> QED BY <3>1, <3>2
    <2> QED BY <1>1, <2>3
<1>10. PICK flags \in 0 .. 255, v \in 0 .. 255 :
          flags = Format!Octet(f.original, 10) /\ v = Format!Octet(f.original, 11)
    <2>1. 12 < Len(f.original)
        BY LayoutOf, Zenon DEF Format!ShownGif
    <2>2. 10 \in Nat /\ 11 \in Nat /\ 10 < Len(f.original) /\ 11 < Len(f.original)
        <3>1. Len(f.original) \in Nat
            BY LayoutOf
        <3> QED BY ONLY <2>1, <3>1
    <2>3. Format!Octet(f.original, 10) \in 0 .. 255
        BY <2>2, OctetType
    <2>4. Format!Octet(f.original, 11) \in 0 .. 255
        BY <2>2, OctetType
    <2> QED BY <2>3, <2>4
<1>11. /\ HasTable(flags) /\ TableColours(flags) \in Nat /\ v < TableColours(flags)
       /\ Format!Table(flags) = 3 * TableColours(flags)
    <2>1. 3 * v < Format!Table(flags)
        BY ONLY <1>10, 3 * Format!Octet(f.original, 11)
                          < Format!Table(Format!Octet(f.original, 10)), Zenon
    <2>2. v \in Nat /\ flags \in 0 .. 255
        OBVIOUS
    <2> QED BY ONLY <2>1, <2>2, ColoursKept
<1>12. PICK count \in Nat : count = TableColours(flags) /\ v < count /\ start = 13 + 3 * count
    <2>1. start = 13 + Format!Table(flags)
        BY <1>2, <1>10, PartsOf
    <2> QED BY <1>11, <2>1
<1>13. /\ start >= 13 /\ 13 + 3 * v + 2 < n /\ 13 + 3 * v \in Nat /\ 10 < n /\ 11 < n
       /\ start + 1 < n /\ start + 3 < n /\ start + 6 < n
    BY ONLY <1>8, <1>9, <1>12, start \in Nat, s \in Nat, n \in Nat, count \in Nat, v \in 0 .. 255
<1>14. \A m \in Nat : m < n => ByteAt(m) = Format!Octet(f.original, m)
    BY <1>1, BytesAre
<1>15. global_flags = flags /\ 14 + header_temp = start + 1
    <2>1. global_flags = flags
        BY <1>1, <1>10, <1>13, ColoursOf
    <2>2. f.parts[1].start = 13 + header_temp /\ header_temp \in Nat
        BY <1>1, <1>13, ColoursOf
    <2> QED BY <1>2, <2>1, <2>2
<1>16. PICK from \in Nat : from = start + 1
    OBVIOUS
<1>17. ControlAt = from /\ from > 0
    <2>1. ByteAt(from) = 249
        BY <1>6, <1>13, <1>14, <1>16
    <2>2. from > 0
        BY <1>16
    <2> QED BY ONLY <1>15, <1>16, <2>1, <2>2, Zenon DEF ControlAt
<1>18. ByteAt(from + 2) = Format!Octet(f.original, start + 3)
       /\ ByteAt(from + 5) = Format!Octet(f.original, start + 6)
       /\ ByteAt(11) = v
    <2>1. from + 2 = start + 3 /\ from + 5 = start + 6
        BY <1>16
    <2>2. ByteAt(start + 3) = Format!Octet(f.original, start + 3)
        BY <1>13, <1>14
    <2>3. ByteAt(start + 6) = Format!Octet(f.original, start + 6)
        BY <1>13, <1>14
    <2>4. ByteAt(11) = v
        BY <1>10, <1>13, <1>14
    <2> QED BY ONLY <2>1, <2>2, <2>3, <2>4, Zenon
<1>19. ColourAt(13 + 3 * v) = Format!Colour(f.original, 13 + 3 * v)
    BY <1>1, <1>13, ColourIs
<1>20. next.hidden = v <=> ByteAt(from + 2) % 2 = 1 /\ ByteAt(from + 5) = v
    <2>1. v # -1
        BY ONLY v \in 0 .. 255
    <2> QED BY ONLY <1>6, <1>18, <2>1, ZenonT(30)
<1>21. ControlAt # 0
    BY <1>17
<1>22. Format!Behind(f.original, f.parts)
          = IF next.hidden = v THEN Black ELSE Format!Colour(f.original, 13 + 3 * v)
    BY ONLY <1>3, <1>10, Zenon DEF Format!Behind, Format!Black, Black
<1>23. Background = IF next.hidden = v THEN Black ELSE ColourAt(13 + 3 * v)
    BY ONLY <1>17, <1>18, <1>20, <1>21, Zenon DEF Background
<1> QED BY ONLY <1>19, <1>22, <1>23, Zenon

\* A pixel that is not hidden has a colour.
LEMMA ShadeLeaves ==
    ASSUME NEW f, NEW b, NEW v
    PROVE  /\ (Shade(f, b, v) = Leave) <=> v = b.hidden
           /\ (IF Shade(f, b, v) = Leave THEN Black ELSE Shade(f, b, v))
                 = Format!Coloured(f.original, b, v)
<1>1. PICK colour : colour = Format!Colour(f.original, Format!FirstColour(f.original, b) + 3 * v)
    OBVIOUS
<1>2. colour # Leave
    BY <1>1 DEF Format!Colour, Leave
<1> QED BY ONLY <1>1, <1>2, Zenon DEF Shade, Format!Coloured, Black, Format!Black

\* The frame is what a viewer shows.
LEMMA TrackPaint ==
    ASSUME NEW f, Reading(f), Input, Sized, Decoded,
           NEW i \in DOMAIN f.parts, NEW b, b = f.parts[i],
           Ready(f, b), Paint
    PROVE  FrameTrack'
<1>1. /\ b.kind = "drawn" /\ inputPos <= Len(f.bytes) /\ b.places[1] <= Len(f.bytes)
      /\ ImageIs(f, b) /\ RowsAre(f, b) /\ rowcount = image.hgt
    BY DEF Ready
<1>2. /\ gif' = gif /\ image' = image /\ inputPos' = inputPos /\ (Low' <=> Low)
      /\ at' = "returned" /\ result' = "frame" /\ filesize' = filesize
      /\ out' = [p \in Canvas |-> Painted(p[1], p[2])]
    BY DEF Paint, Return, source, picture, Low, filesize
<1>3. Format!Shows(f.original, f.parts, b, f.w, f.h, f.picture) /\ f.shown
      /\ Format!Drawn(f.original, b)
    BY <1>1, ImagePart
<1>4. PICK w \in Nat, h \in Nat, hgt \in Nat, wdt \in Nat :
         /\ w = f.w /\ h = f.h /\ hgt = image.hgt /\ wdt = image.wdt
         /\ hgt = Format!Height(f.original, b) /\ wdt = Format!Width(f.original, b)
    <2>1. f.w \in Nat /\ f.h \in Nat
        BY LayoutOf
    <2>2. image.hgt \in Nat /\ image.wdt \in Nat
        BY DEF Sized, ImageRecord
    <2>3. image.hgt = Format!Height(f.original, b) /\ image.wdt = Format!Width(f.original, b)
        BY <1>1, ImageNumbers
    <2> QED BY <2>1, <2>2, <2>3
<1>5. PICK picture0, bytes : picture0 = f.picture /\ bytes = f.original
    OBVIOUS
<1>6. picture0 \in [(0 .. h - 1) \X (0 .. w - 1) -> (0 .. 31) \X (0 .. 63) \X (0 .. 31)]
    BY ONLY <1>3, <1>4, <1>5, Zenon DEF Format!Shows
<1>7. \A l \in DOMAIN b.rows, j \in 1 .. wdt :
         b.rows[l] < h /\ j <= w =>
            picture0[<<b.rows[l], j - 1>>]
               = Format!Coloured(bytes, b, b.pixels[(l - 1) * wdt + j])
    BY ONLY <1>3, <1>4, <1>5, Zenon DEF Format!Shows
<1>8. \A r \in 0 .. h - 1, k \in 0 .. w - 1 :
         r >= hgt \/ k >= wdt =>
            /\ f.parts[1].kind = "control" /\ Format!Octet(bytes, 10) >= 128
            /\ 3 * Format!Octet(bytes, 11) < Format!Table(Format!Octet(bytes, 10))
            /\ picture0[<<r, k>>] = Format!Behind(bytes, f.parts)
    BY ONLY <1>3, <1>4, <1>5, Zenon DEF Format!Shows
<1>9. ASSUME ~Low PROVE out' = picture0
    <2>1. /\ DOMAIN rows = {b.rows[l] : l \in 1 .. hgt}
          /\ \A l \in 1 .. hgt :
                rows[b.rows[l]] = [j \in 1 .. wdt |->
                                      Shade(f, b, b.pixels[(l - 1) * wdt + j])]
        BY ONLY <1>1, <1>4, <1>9, Zenon DEF RowsAre
    <2>2. /\ Len(b.rows) = hgt
          /\ \A r \in 0 .. hgt - 1 : \E l \in 1 .. hgt : b.rows[l] = r
        <3>1. Format!Lines(f.original, b)
            BY <1>3 DEF Format!Drawn
        <3> QED BY ONLY <1>4, <3>1, Zenon DEF Format!Lines
    <2>3. DOMAIN b.rows = 1 .. hgt
        <3>1. b.rows \in Seq(Nat)
            BY PartType
        <3> QED BY ONLY <2>2, <3>1
    <2>4. ASSUME NEW r \in 0 .. h - 1, NEW k \in 0 .. w - 1
          PROVE  Painted(r, k) = picture0[<<r, k>>]
        <3>1. CASE r >= hgt \/ k >= wdt
            <4>1. /\ f.parts[1].kind = "control" /\ Format!Octet(bytes, 10) >= 128
                  /\ 3 * Format!Octet(bytes, 11) < Format!Table(Format!Octet(bytes, 10))
                  /\ picture0[<<r, k>>] = Format!Behind(bytes, f.parts)
                BY ONLY <1>8, <3>1, r \in 0 .. h - 1, k \in 0 .. w - 1, Zenon
            <4>2. Background = Format!Behind(f.original, f.parts)
                BY <1>1, <1>5, <4>1, BackgroundIs
            <4> QED BY ONLY <1>4, <1>5, <3>1, <4>1, <4>2, Zenon DEF Painted
        <3>2. CASE ~(r >= hgt \/ k >= wdt)
            <4>1. r \in 0 .. hgt - 1
                BY ONLY <3>2, r \in 0 .. h - 1, hgt \in Nat
            <4>2. PICK l \in 1 .. hgt : b.rows[l] = r
                BY ONLY <2>2, <4>1, Zenon
            <4>3. PICK j \in 1 .. wdt : j = k + 1 /\ j - 1 = k /\ j <= w
                <5>1. k + 1 \in 1 .. wdt /\ k + 1 - 1 = k /\ k + 1 <= w
                    BY ONLY <3>2, k \in 0 .. w - 1, w \in Nat, wdt \in Nat
                <5> QED BY ONLY <5>1
            <4>4. PICK v : v = b.pixels[(l - 1) * wdt + j]
                OBVIOUS
            <4>5. r < h
                BY ONLY r \in 0 .. h - 1, h \in Nat
            <4>6. picture0[<<r, k>>] = Format!Coloured(bytes, b, v)
                BY ONLY <1>7, <2>3, <4>2, <4>3, <4>4, <4>5, Zenon
            <4>7. rows[r][j] = Shade(f, b, v) /\ r \in DOMAIN rows
                BY ONLY <2>1, <4>2, <4>3, <4>4, Zenon
            <4>8. (IF Shade(f, b, v) = Leave THEN Black ELSE Shade(f, b, v))
                     = Format!Coloured(f.original, b, v)
                BY ShadeLeaves
            <4> QED BY ONLY <1>4, <1>5, <3>2, <4>3, <4>6, <4>7, <4>8, Zenon DEF Painted
        <3> QED BY ONLY <3>1, <3>2
    <2>5. Canvas = (0 .. h - 1) \X (0 .. w - 1)
        BY <1>4 DEF Canvas, Reading
    <2>6. ASSUME NEW p \in Canvas PROVE Painted(p[1], p[2]) = picture0[p]
        <3>1. p[1] \in 0 .. h - 1 /\ p[2] \in 0 .. w - 1 /\ p = <<p[1], p[2]>>
            BY ONLY <2>5, p \in Canvas
        <3> QED BY ONLY <2>4, <3>1, Zenon
    <2>7. picture0 = [p \in Canvas |-> picture0[p]]
        BY ONLY <1>6, <2>5
    <2> QED BY ONLY <1>2, <2>6, <2>7, Zenon
<1>10. gif.picture = picture0 /\ gif.shown /\ inputPos <= filesize
    BY <1>1, <1>3, <1>5, LayoutOf DEF Reading
<1>11. Answered'
    BY ONLY <1>2, <1>9, <1>10, Zenon DEF Answered
<1> QED BY <1>11, ToAnswer

(***************************************************************************)
(* All steps.                                                              *)
(***************************************************************************)

\* A step that changes nothing keeps the place.
LEMMA TrackStutter ==
    ASSUME FrameTrack, UNCHANGED gifVars
    PROVE  FrameTrack'
<1>1. /\ UNCHANGED <<source, at, inputPos, result, out, control, picture, noMemory>>
      /\ UNCHANGED <<codes, stack, bits, phase>> /\ UNCHANGED lines
    BY DEF gifVars, blocks
<1>2. /\ UNCHANGED <<gif, memory, at, inputPos, result, out, noMemory>>
      /\ UNCHANGED <<transparent, transIndex, image, numcolors, phase>>
      /\ UNCHANGED <<navail_bytes, nbits_left, b1, ret, checked>>
      /\ UNCHANGED <<line, rows, rowcount, stack>>
    BY <1>1 DEF source, control, picture, bits, lines
<1>3. filesize' = filesize /\ (Fits' <=> Fits) /\ (Low' <=> Low)
      /\ (Answered' <=> Answered) /\ (Lost' <=> Lost)
    BY <1>2 DEF filesize, Fits, mem_alloc_size, Low, Answered, Lost
<1>4. ASSUME NEW f, NEW b PROVE /\ Hides(b) => Hides(b)'
                                /\ ImageIs(f, b) => ImageIs(f, b)'
                                /\ FileColours' = FileColours
    BY <1>1, HidesSame
<1>5. ASSUME NEW f, NEW b, AtBlock(f, b) PROVE AtBlock(f, b)'
    BY <1>2, <1>4, <1>5 DEF AtBlock
<1>6. ASSUME NEW f, NEW b, Ready(f, b) PROVE Ready(f, b)'
    BY <1>2, <1>3, <1>4, <1>6 DEF Ready, RowsAre
<1>7. ASSUME NEW f, NEW b, NEW k, NEW q, InImage(f, b, k, q) PROVE InImage(f, b, k, q)'
    <2>1. ReaderIs(f, b, k, q) => ReaderIs(f, b, k, q)'
        BY <1>2 DEF ReaderIs, TakenOf
    <2>2. TableIs(b, k) => TableIs(b, k)'
        BY <1>1, <1>2, TableKept
    <2>3. LinesAre(f, b, k) => LinesAre(f, b, k)'
        BY <1>2, <1>3 DEF LinesAre, RowsAre
    <2> QED BY <1>2, <1>4, <1>7, <2>1, <2>2, <2>3 DEF InImage
<1>8. ASSUME OnTrack(gif) PROVE OnTrack(gif)'
    <2>1. PICK i \in DOMAIN gif.parts :
             LET b == gif.parts[i] IN
             \/ AtBlock(gif, b)
             \/ at \in {"code", "bits", "lines"}
                /\ \E k \in DOMAIN b.codes, q \in DOMAIN b.places : InImage(gif, b, k, q)
             \/ Ready(gif, b)
        BY <1>8 DEF OnTrack
    <2>2. PICK f : f = gif
        OBVIOUS
    <2>3. gif' = f
        BY <1>2, <2>2
    <2> QED BY <1>2, <1>5, <1>6, <1>7, <2>1, <2>2, <2>3 DEF OnTrack
<1> QED BY <1>2, <1>3, <1>8 DEF FrameTrack

\* No step changes the file.
LEMMA GifSame ==
    ASSUME [GifNext]_gifVars
    PROVE  gif' = gif /\ (Fits' <=> Fits)
<1>1. gif' = gif
    BY DEF GifNext, gifVars, source, blockless, Create, ReadHeader, NextBlock, ReadExtension,
           ReadText, ReadImage, StartCode, FetchByte, UseEnding, UseClear, UseFirst, UseNext,
           Damaged, HasCode, PutLine, PopRest, Paint, Destroy
<1> QED BY <1>1 DEF Fits, filesize, mem_alloc_size

\* Every step leads from where the decoder is in a file to where it is then.
LEMMA TrackStep ==
    ASSUME AllShown, Input, Input', Reader, AtHand, CodeTable, Strings, Sized, Decoded,
           Progress, FrameTrack, [GifNext]_gifVars
    PROVE  FrameTrack'
<1>1. gif' = gif /\ (Fits' <=> Fits)
    BY GifSame
<1>2. CASE UNCHANGED gifVars
    BY <1>2, TrackStutter
<1>3. CASE ~Fits
    BY <1>1, <1>3 DEF FrameTrack
<1>4. CASE Fits /\ GifNext
    <2>1. PICK f : f = gif
        OBVIOUS
    <2>2. f \in GifFiles /\ gif = f
        BY <2>1 DEF Input
    <2>3. CASE at \in {"create", "header"} /\ inputPos = 0 /\ ~transparent /\ result = "running"
        <3>1. Create \/ ReadHeader
            BY <1>4, <2>3 DEF GifNext, NextBlock, ReadExtension,
               ReadText, ReadImage, StartCode, FetchByte, UseEnding, UseClear, UseFirst, UseNext,
               Damaged, HasCode, PutLine, PopRest, Paint, Destroy
        <3>2. CASE Create
            <4>1. /\ at' = "header" \/ (at' = "done" /\ noMemory')
                  /\ inputPos' = 0 /\ ~transparent' /\ result' = "running"
                BY <2>3, <3>2 DEF Create, control
            <4>2. filesize' \in Nat
                BY <1>1, <2>2, GifAssumption DEF filesize, GifAssumption
            <4> QED BY ONLY <4>1, <4>2 DEF FrameTrack, Answered
        <3>3. CASE ReadHeader
            BY <1>4, <2>2, <2>3, <3>3, TrackHeader
        <3> QED BY <3>1, <3>2, <3>3
    <2>4. CASE Answered
        <3>1. Destroy
            BY <1>4, <2>4 DEF Answered, GifNext, Create, ReadHeader, NextBlock, ReadExtension,
               ReadText, ReadImage, StartCode, FetchByte, UseEnding, UseClear, UseFirst, UseNext,
               Damaged, HasCode, PutLine, PopRest, Paint
        <3>2. /\ at' = "done" /\ (Low' <=> Low) /\ filesize' = filesize
              /\ UNCHANGED <<gif, inputPos, result, out, noMemory>>
            BY <3>1 DEF Destroy, source, picture, Low, filesize
        <3>3. Answered'
            BY <2>4, <3>2 DEF Answered
        <3> QED BY <3>3, ToAnswer
    <2>5. CASE gif.w # 0 /\ gif.h # 0 /\ Lost
        <3>1. Reading(f)
            BY <1>4, <2>2, <2>5 DEF Reading
        <3>2. at \in {"block", "extension", "image", "text", "code", "bits"} /\ Lost
            BY <2>5 DEF Lost
        <3>3. \/ NextBlock \/ ReadExtension \/ ReadText \/ ReadImage \/ StartCode \/ FetchByte
              \/ HasCode
            BY <1>4, <3>2 DEF GifNext, Create, ReadHeader, UseEnding, UseClear, UseFirst, UseNext,
               Damaged, PutLine, PopRest, Paint, Destroy
        <3>4. CASE NextBlock
            <4>1. at = "block"
                BY <3>4 DEF NextBlock
            <4> QED BY <3>1, <3>2, <3>4, <4>1, LostBlock
        <3>5. CASE ReadExtension
            BY <3>1, <3>2, <3>5, LostExtension
        <3>6. CASE ReadText
            BY <3>1, <3>2, <3>6, LostText
        <3>7. CASE ReadImage
            BY <3>1, <3>2, <3>7, LostImage
        <3>8. CASE StartCode
            BY <3>1, <3>2, <3>8, LostStart
        <3>9. CASE FetchByte
            BY <3>1, <3>2, <3>9, LostFetch
        <3>10. CASE HasCode
            BY <3>2, <3>10, LostCode
        <3> QED BY <3>3, <3>4, <3>5, <3>6, <3>7, <3>8, <3>9, <3>10
    <2>6. CASE gif.w # 0 /\ gif.h # 0 /\ OnTrack(gif)
        <3>1. Reading(f)
            BY <1>4, <2>2, <2>6 DEF Reading
        <3>2. PICK i, b :
                 /\ i \in DOMAIN f.parts /\ b = f.parts[i]
                 /\ \/ AtBlock(f, f.parts[i])
                    \/ at \in {"code", "bits", "lines"}
                       /\ \E k \in DOMAIN b.codes, q \in DOMAIN b.places : InImage(f, b, k, q)
                    \/ Ready(f, b)
            BY <2>2, <2>6 DEF OnTrack
        <3>3. CASE AtBlock(f, f.parts[i])
            <4>1. at \in {"block", "extension", "image", "text"}
                BY <3>3 DEF AtBlock
            <4>2. NextBlock \/ ReadExtension \/ ReadText \/ ReadImage
                BY <1>4, <4>1 DEF GifNext, Create, ReadHeader, StartCode, FetchByte, UseEnding,
                   UseClear, UseFirst, UseNext, Damaged, HasCode, PutLine, PopRest, Paint, Destroy
            <4>3. CASE NextBlock
                BY <3>1, <3>2, <3>3, <4>3, TrackBlock
            <4>4. CASE ReadExtension
                BY <3>1, <3>2, <3>3, <4>4, TrackExtension
            <4>5. CASE ReadText
                BY <3>1, <3>2, <3>3, <4>5, TrackText
            <4>6. CASE ReadImage
                BY <3>1, <3>2, <3>3, <4>6, TrackImage
            <4> QED BY <4>2, <4>3, <4>4, <4>5, <4>6
        <3>4. CASE /\ at \in {"code", "bits", "lines"}
                   /\ \E k \in DOMAIN b.codes, q \in DOMAIN b.places : InImage(f, b, k, q)
            <4>1. PICK k, q : InImage(f, b, k, q)
                BY <3>4
            <4>2. \/ StartCode \/ FetchByte \/ UseEnding \/ UseClear \/ UseFirst \/ UseNext
                  \/ Damaged \/ PutLine \/ PopRest
                BY <1>4, <3>4 DEF GifNext, Create, ReadHeader, NextBlock, ReadExtension, ReadText,
                   ReadImage, Paint, Destroy
            <4>3. CASE StartCode
                BY <3>1, <3>2, <4>1, <4>3, TrackStart
            <4>4. CASE FetchByte
                BY <3>1, <3>2, <4>1, <4>4, TrackFetch
            <4>5. CASE UseEnding
                BY <3>1, <3>2, <4>1, <4>5, TrackEnding
            <4>6. CASE UseClear
                BY <3>1, <3>2, <4>1, <4>6, TrackClear
            <4>7. CASE UseFirst
                BY <3>1, <3>2, <4>1, <4>7, TrackFirst
            <4>8. CASE UseNext
                BY <3>1, <3>2, <4>1, <4>8, TrackNext
            <4>9. CASE Damaged
                BY <3>1, <3>2, <4>1, <4>9, TrackDamaged
            <4>10. CASE PutLine
                BY <3>1, <3>2, <4>1, <4>10, TrackLine
            <4>11. CASE PopRest
                BY <3>1, <3>2, <4>1, <4>11, TrackRest
            <4> QED BY <4>2, <4>3, <4>4, <4>5, <4>6, <4>7, <4>8, <4>9, <4>10, <4>11
        <3>5. CASE Ready(f, b)
            <4>1. Paint
                BY <1>4, <3>5 DEF Ready, GifNext, Create, ReadHeader, NextBlock, ReadExtension,
                   ReadText, ReadImage, StartCode, FetchByte, UseEnding, UseClear, UseFirst,
                   UseNext, Damaged, HasCode, PutLine, PopRest, Destroy
            <4> QED BY <3>1, <3>2, <3>5, <4>1, TrackPaint
        <3> QED BY <3>2, <3>3, <3>4, <3>5
    <2> QED BY <1>4, <2>3, <2>4, <2>5, <2>6 DEF FrameTrack
<1> QED BY <1>2, <1>3, <1>4

\* What the decoder calls a frame is what a viewer of the file shows first,
\* and a whole file that shows something is decoded: for all files that follow
\* the format, of any size, with codes of up to twelve bits, and for whatever
\* lies in memory behind them.
THEOREM GifFrameRight ==
    ASSUME AllShown
    PROVE  GifSpec => []FrameRight
<1>1. GifInit => FrameTrack
    BY DEF GifInit, FrameTrack
<1>2. Input /\ Input' /\ Reader /\ AtHand /\ CodeTable /\ Strings /\ Sized /\ Decoded
      /\ Progress /\ FrameTrack /\ [GifNext]_gifVars => FrameTrack'
    BY TrackStep
<1>3. FrameTrack => FrameRight
    BY DEF FrameTrack, FrameRight, Answered, Lost, OnTrack, AtBlock, Ready
<1> QED BY <1>1, <1>2, <1>3, InputHolds, ReaderHolds, HandHolds, TableHolds, StringsHolds,
           LinesHold, ProgressHolds, PTL DEF GifSpec
=============================================================================
