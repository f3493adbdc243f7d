--------------------------- MODULE GifFrameProofs ----------------------------
(***************************************************************************)
(* What GifFrame promises for every file, damaged ones included, and every *)
(* content of the memory behind it: the limits of the code table, the      *)
(* reader that does not look for the end of a block, and the blocks of     *)
(* memory.                                                                 *)
(***************************************************************************)
EXTENDS GifFrame, SequenceTheorems, FiniteSetTheorems, TLAPS

(***************************************************************************)
(* Shifts and bytes                                                        *)
(***************************************************************************)
\* Every power of two of the table.
LEMMA TwoValue ==
    \A n \in 0 .. 12 :
       Two(n) = IF n = 0 THEN 1 ELSE IF n = 1 THEN 2 ELSE IF n = 2 THEN 4
                ELSE IF n = 3 THEN 8 ELSE IF n = 4 THEN 16 ELSE IF n = 5 THEN 32
                ELSE IF n = 6 THEN 64 ELSE IF n = 7 THEN 128
                ELSE IF n = 8 THEN 256 ELSE IF n = 9 THEN 512
                ELSE IF n = 10 THEN 1024 ELSE IF n = 11 THEN 2048 ELSE 4096
    BY DEF Two, Powers

\* They are numbers.
LEMMA TwoType ==
    \A n \in 0 .. 12 : /\ Two(n) \in Nat /\ Two(n) >= 1
                       /\ n >= 2 => Two(n) >= 4
    BY TwoValue

\* A shift by one bit more doubles.
LEMMA TwoDoubles == \A n \in 0 .. 11 : Two(n + 1) = 2 * Two(n)
    BY TwoValue

\* Bytes of the file and behind it are bytes.
LEMMA ByteType ==
    ASSUME gif \in GifFiles, memory \in Memory, NEW p \in Nat
    PROVE  ByteAt(p) \in 0 .. 255
<1>1. gif.bytes \in Seq(0 .. 255) /\ memory \in 0 .. 255
    BY GifAssumption DEF GifAssumption
<1>2. gif.w \in Nat /\ gif.h \in Nat /\ MAX_GIF_HEADER_SIZE \in Nat
    BY GifAssumption DEF GifAssumption
<1>3. CASE p < BytesRead
    <2>1. Len(gif.bytes) \in Nat
        BY <1>1
    <2>2. gif.w * gif.h \in Nat
        BY <1>2
    <2>3. BytesRead \in Nat /\ BytesRead <= Len(gif.bytes)
        BY <2>1, <2>2, <1>2 DEF BytesRead, Least, filesize, mem_alloc_size
    <2>4. p + 1 \in 1 .. Len(gif.bytes)
        BY <1>3, <2>1, <2>3
    <2>5. gif.bytes[p + 1] \in 0 .. 255
        BY <1>1, <2>4, ElementOfSeq
    <2> QED BY <1>3, <2>5 DEF ByteAt
<1>4. CASE ~(p < BytesRead)
    BY <1>1, <1>4 DEF ByteAt
<1> QED BY <1>3, <1>4

\* A colour table has a number of bytes.
LEMMA TableBytesType ==
    ASSUME NEW flags \in 0 .. 255
    PROVE  TableColours(flags) \in Nat /\ TableBytes(flags) \in Nat
<1>1. PICK n \in 0 .. 12 : n = (flags % 8) + 1
    OBVIOUS
<1>2. Two(n) \in Nat
    BY TwoType
<1>3. TableColours(flags) \in Nat
    BY <1>1, <1>2 DEF TableColours
<1> QED BY <1>3 DEF TableBytes

(***************************************************************************)
(* The file and the position in it.                                        *)
(***************************************************************************)
ImageRecord == [wdt : Nat, hgt : Nat, interlaced : BOOLEAN, dac : Nat,
                colours : Nat, size : 2 .. 9]

Input ==
    /\ gif \in GifFiles /\ memory \in Memory
    /\ at \in Labels /\ inputPos \in Nat
    /\ image \in ImageRecord

\* What the description of an image is, whose code size is accepted.
LEMMA DescribedType ==
    ASSUME Input, Described.size \in 2 .. 9
    PROVE  Described \in ImageRecord
<1>1. \A p \in Nat : ByteAt(p) \in 0 .. 255
    BY ByteType DEF Input
<1>2. inputPos \in Nat
    BY DEF Input
<1>3. ASSUME NEW p \in Nat
      PROVE  ShortAt(p) \in Nat
    <2>1. PICK low \in 0 .. 255 : ByteAt(p) = low
        BY <1>1
    <2>2. PICK high \in 0 .. 255 : ByteAt(p + 1) = high
        BY <1>1
    <2> QED BY <2>1, <2>2 DEF ShortAt
<1>4. ShortAt(inputPos + 4) \in Nat /\ ShortAt(inputPos + 6) \in Nat
    BY <1>2, <1>3
<1>5. ByteAt(inputPos + 8) \in 0 .. 255
    BY <1>1, <1>2
<1>6. TableColours(ByteAt(inputPos + 8)) \in Nat
    BY ONLY <1>5, TableBytesType
<1> QED BY <1>2, <1>4, <1>6 DEF Described, ImageRecord

\* Every step leaves the position in the file a position.
LEMMA InputStep ==
    ASSUME Input, [GifNext]_gifVars
    PROVE  Input'
<1>1. \A p \in Nat : ByteAt(p) \in 0 .. 255
    BY ByteType DEF Input
<1>2. header_temp \in Nat
    <2>1. ByteAt(10) \in 0 .. 255
        BY <1>1
    <2>2. TableBytes(ByteAt(10)) \in Nat
        BY ONLY <2>1, TableBytesType
    <2> QED BY <2>2 DEF header_temp, global_flags
<1> USE DEF Input
<1>3. CASE Create
    BY <1>3 DEF Create, source, picture, Labels
<1>4. CASE ReadHeader
    BY <1>2, <1>4 DEF ReadHeader, Return, source, picture, blockless, Labels
<1>5. CASE NextBlock
    BY <1>2, <1>5 DEF NextBlock, AtTrailer, Return, source, picture, blockless,
                      Labels
<1>6. CASE ReadExtension
    BY <1>6 DEF ReadExtension, Return, source, picture, blockless, Labels
<1>7. CASE ReadText
    BY <1>1, <1>7 DEF ReadText, Return, source, picture, blockless, Labels
<1>8. CASE ReadImage
    <2>1. image' \in ImageRecord
        BY <1>8, DescribedType DEF ReadImage, picture
    <2>2. ByteAt(inputPos + 8) \in 0 .. 255
        BY <1>1
    <2>3. TableBytes(ByteAt(inputPos + 8)) \in Nat
        BY ONLY <2>2, TableBytesType
    <2>4. inputPos' \in Nat
        BY <1>8, <2>3 DEF ReadImage
    <2>5. at' \in Labels
        BY <1>8 DEF ReadImage, Return, Labels
    <2> QED BY <1>8, <2>1, <2>4, <2>5 DEF ReadImage, source
<1>9. CASE StartCode
    BY <1>9 DEF StartCode, source, picture, Labels
<1>10. CASE FetchByte
    BY <1>10 DEF FetchByte, TakeByte, Return, source, picture, Labels
<1>11. CASE UseEnding \/ UseClear \/ UseFirst \/ UseNext \/ Damaged
    BY <1>11 DEF UseEnding, UseClear, UseFirst, UseNext, Damaged, HasCode,
                 source, picture, Labels
<1>12. CASE PutLine \/ PopRest
    BY <1>12 DEF PutLine, PopRest, source, picture, Labels
<1>13. CASE Paint \/ Destroy
    BY <1>13 DEF Paint, Destroy, Return, source, picture, Labels
<1>14. CASE UNCHANGED gifVars
    BY <1>14 DEF gifVars, source, picture
<1> QED BY <1>3, <1>4, <1>5, <1>6, <1>7, <1>8, <1>9, <1>10, <1>11, <1>12, <1>13,
           <1>14 DEF GifNext

LEMMA InputInit == GifInit => Input
    BY DEF GifInit, Input, Labels, NoImage, ImageRecord

LEMMA InputHolds == GifSpec => []Input
    BY InputInit, InputStep, PTL DEF GifSpec
(***************************************************************************)
(* The bit reader.  A code begins with at most seven bits left; where its  *)
(* end of the block is not looked for, the block and these bits hold it.   *)
(***************************************************************************)
Reader ==
    /\ curr_size \in Nat
    /\ image.size + 1 <= curr_size
    /\ curr_size <= Greater(MaxBits, image.size + 1)
    /\ b1 \in Nat /\ ret \in Nat
    /\ nbits_left \in Nat /\ nbits_left <= 20
    /\ navail_bytes \in Int
    /\ at \in {"code", "lines"} => nbits_left <= 7
    /\ at = "bits" => nbits_left <= curr_size + 7
    /\ at = "bits" /\ ~checked => 8 * navail_bytes + nbits_left >= curr_size

\* Codes have at most twelve bits.
LEMMA CodeSizes ==
    ASSUME Input, Reader
    PROVE  /\ curr_size \in 3 .. 12
           /\ image.size \in 2 .. 9
<1>1. MaxBits \in 3 .. 12
    BY GifAssumption DEF GifAssumption
<1>2. image.size \in 2 .. 9
    BY DEF Input, ImageRecord
<1> QED BY <1>1, <1>2 DEF Reader, Greater

\* A code is a number.
LEMMA CodeType ==
    ASSUME Input, Reader
    PROVE  c \in Nat
<1>1. PICK width \in 3 .. 12 : width = curr_size
    BY CodeSizes
<1>2. width \in 0 .. 12
    OBVIOUS
<1>3. PICK power \in Nat : power = Two(width) /\ power >= 1
    BY ONLY <1>2, TwoType
<1>4. ret \in Nat
    BY DEF Reader
<1>5. ret % power \in Nat
    BY <1>3, <1>4
<1> QED BY <1>1, <1>3, <1>5 DEF c

\* Starting a code, and the bytes it takes.
LEMMA ReaderStart ==
    ASSUME Input, Reader, StartCode
    PROVE  Reader'
<1>1. curr_size \in 3 .. 12
    BY CodeSizes
<1>2. nbits_left \in 0 .. 7
    BY DEF Reader, StartCode
<1>3. ret' \in Nat
    <2>1. PICK n \in 0 .. 12 : n = 8 - nbits_left
        BY <1>2
    <2>2. PICK power \in Nat : power = Two(n) /\ power >= 1
        BY TwoType
    <2>3. b1 \in Nat
        BY DEF Reader
    <2>4. b1 \div power \in Nat
        BY <2>2, <2>3
    <2> QED BY <2>1, <2>2, <2>4 DEF StartCode, BitsLeft
<1>4. UNCHANGED <<curr_size, image, navail_bytes, nbits_left, b1>>
    BY DEF StartCode, codes, picture
<1>5. at' = "bits" /\ (~checked' => navail_bytes >= 2)
    <2>1. navail_bytes \in Int
        BY DEF Reader
    <2>2. CASE navail_bytes < 2
        <3>1. checked'
            BY <2>2, Zenon DEF StartCode, WatchesBlock
        <3> QED BY <3>1 DEF StartCode
    <2>3. CASE navail_bytes >= 2
        BY <2>3 DEF StartCode
    <2> QED BY <2>1, <2>2, <2>3
<1> QED BY <1>1, <1>2, <1>3, <1>4, <1>5 DEF Reader

LEMMA ReaderFetch ==
    ASSUME Input, Reader, FetchByte
    PROVE  Reader'
<1>1. curr_size \in 3 .. 12
    BY CodeSizes
<1>2. UNCHANGED <<curr_size, image, checked>>
    BY DEF FetchByte, codes, picture
<1>3. nbits_left \in 0 .. 11
    BY <1>1 DEF FetchByte, Reader
<1>4. ASSUME NEW p \in Nat, NEW n \in Int, TakeByte(p, n),
             ~checked => n = navail_bytes
      PROVE  Reader'
    <2>1. PICK byte \in 0 .. 255 : byte = ByteAt(p)
        BY ByteType DEF Input
    <2>2. PICK power \in Nat : power = Two(nbits_left)
        BY <1>3, TwoType
    <2>3. byte * power \in Nat
        BY <2>1, <2>2
    <2>4. ret' \in Nat /\ b1' \in Nat
        <3>1. ret' = ret + byte * power /\ b1' = byte
            BY <1>4, <2>1, <2>2, Zenon DEF TakeByte
        <3>2. ret \in Nat
            BY DEF Reader
        <3>3. PICK shifted \in Nat : shifted = byte * power
            BY <2>3
        <3>4. ret' = ret + shifted
            BY <3>1, <3>3, Zenon
        <3> QED BY ONLY <3>1, <3>2, <3>4, byte \in 0 .. 255, shifted \in Nat
    <2>5. nbits_left' = nbits_left + 8 /\ navail_bytes' = n - 1 /\ at' = "bits"
        BY <1>4 DEF TakeByte, FetchByte
    <2> QED BY <1>1, <1>2, <1>3, <1>4, <2>4, <2>5 DEF Reader, FetchByte
<1>5. CASE TakeByte(inputPos, navail_bytes)
    <2>1. inputPos \in Nat /\ navail_bytes \in Int
        BY DEF Input, Reader
    <2> QED BY <1>4, <1>5, <2>1
<1>6. CASE checked /\ TakeByte(inputPos + 1, ByteAt(inputPos))
    <2>1. inputPos \in Nat /\ inputPos + 1 \in Nat
        BY DEF Input
    <2>2. PICK byte \in 0 .. 255 : byte = ByteAt(inputPos)
        BY <2>1, ByteType DEF Input
    <2> QED BY <1>4, <1>6, <2>1, <2>2
<1>7. CASE Return("error") /\ UNCHANGED <<navail_bytes, nbits_left, b1, ret>>
    BY <1>2, <1>7 DEF Return, Reader
<1> QED BY <1>5, <1>6, <1>7 DEF FetchByte

\* Using a code leaves the bits behind it.
LEMMA ReaderUse ==
    ASSUME Input, Reader, UseEnding \/ UseClear \/ UseFirst \/ UseNext \/ Damaged
    PROVE  Reader'
<1>1. curr_size \in 3 .. 12 /\ image.size \in 2 .. 9
    BY CodeSizes
<1>2. /\ UNCHANGED <<image, navail_bytes, b1, ret, checked>>
      /\ nbits_left' = nbits_left - curr_size
      /\ curr_size <= nbits_left /\ nbits_left <= curr_size + 7
    BY DEF UseEnding, UseClear, UseFirst, UseNext, Damaged, HasCode, picture, Reader
<1>3. at' # "bits"
    BY DEF UseEnding, UseClear, UseFirst, UseNext, Damaged
<1>4. /\ curr_size' \in Nat /\ image.size + 1 <= curr_size'
      /\ curr_size' <= Greater(MaxBits, image.size + 1)
    <2>1. MaxBits \in 3 .. 12
        BY GifAssumption DEF GifAssumption
    <2>2. CASE curr_size' = curr_size
        BY <1>1, <2>2 DEF Reader
    <2>3. CASE curr_size' = image.size + 1
        BY <1>1, <2>1, <2>3 DEF Greater
    <2>4. CASE curr_size' = curr_size + 1 /\ curr_size < MaxBits
        BY <1>1, <2>1, <2>4 DEF Greater, Reader
    <2> QED BY <2>2, <2>3, <2>4 DEF UseEnding, UseClear, UseFirst, UseNext,
                                    Damaged, Grown, codes
<1>5. nbits_left' \in 0 .. 7
    BY <1>1, <1>2 DEF Reader
<1>6. /\ image' = image /\ navail_bytes' = navail_bytes
      /\ b1' = b1 /\ ret' = ret
    BY <1>2, Zenon
<1>7. navail_bytes \in Int /\ b1 \in Nat /\ ret \in Nat
    BY DEF Reader
<1>8. (curr_size <= Greater(MaxBits, image.size + 1))'
    BY <1>4, <1>6, Zenon
<1>9. (image.size + 1 <= curr_size /\ curr_size \in Nat)'
    BY <1>4, <1>6, Zenon
<1>10. nbits_left' \in Nat /\ nbits_left' <= 20 /\ nbits_left' <= 7
    BY <1>5
<1> QED BY ONLY <1>3, <1>6, <1>7, <1>8, <1>9, <1>10 DEF Reader

LEMMA ReaderStep ==
    ASSUME Input, Input', Reader, [GifNext]_gifVars
    PROVE  Reader'
<1>1. CASE Create \/ ReadHeader \/ NextBlock \/ ReadExtension \/ ReadText
    <2>1. UNCHANGED <<curr_size, image.size, navail_bytes, nbits_left, b1, ret>>
        BY <1>1 DEF Create, ReadHeader, NextBlock, ReadExtension, ReadText,
                    codes, bits, picture, blockless
    <2>2. at' \notin {"bits", "code", "lines"}
        BY <1>1 DEF Create, ReadHeader, NextBlock, ReadExtension, ReadText,
                    AtTrailer, Return
    <2> QED BY <2>1, <2>2 DEF Reader
<1>2. CASE ReadImage
    <2>1. CASE UNCHANGED <<picture, codes, bits>> /\ at' = "returned"
        BY <2>1 DEF Reader, picture, codes, bits
    <2>2. CASE /\ at' = "code"
               /\ image' = Described /\ curr_size' = Described.size + 1
               /\ navail_bytes' = 0 /\ nbits_left' = 0
               /\ UNCHANGED <<b1, ret>>
        <3>1. image'.size \in 2 .. 9 /\ curr_size' = image'.size + 1
            BY <2>2 DEF Input, ImageRecord
        <3>2. MaxBits \in 3 .. 12
            BY GifAssumption DEF GifAssumption
        <3> QED BY <2>2, <3>1, <3>2 DEF Reader, Greater
    <2> QED BY <1>2, <2>1, <2>2 DEF ReadImage, Return
<1>3. CASE StartCode
    BY <1>3, ReaderStart
<1>4. CASE FetchByte
    BY <1>4, ReaderFetch
<1>5. CASE UseEnding \/ UseClear \/ UseFirst \/ UseNext \/ Damaged
    BY <1>5, ReaderUse
<1>6. CASE PutLine \/ PopRest \/ Paint \/ Destroy
    <2>1. UNCHANGED <<curr_size, image, navail_bytes, nbits_left, b1, ret>>
        BY <1>6 DEF PutLine, PopRest, Paint, Destroy, codes, bits, picture
    <2>2. /\ at' # "bits"
          /\ at' \in {"code", "lines"} => at = "lines"
        BY <1>6 DEF PutLine, PopRest, Paint, Destroy, Return
    <2> QED BY <2>1, <2>2 DEF Reader
<1>7. CASE UNCHANGED gifVars
    BY <1>7 DEF gifVars, codes, bits, picture, Reader
<1> QED BY <1>1, <1>2, <1>3, <1>4, <1>5, <1>6, <1>7 DEF GifNext

LEMMA ReaderInit == GifInit => Reader
<1>1. MaxBits \in 3 .. 12
    BY GifAssumption DEF GifAssumption
<1> QED BY <1>1 DEF GifInit, Reader, NoImage, Greater

LEMMA ReaderHolds == GifSpec => []Reader
    BY ReaderInit, ReaderStep, InputHolds, PTL DEF GifSpec

\* For every file, damaged ones included: a byte that is read without looking
\* for the end of the block is a byte of the block.
THEOREM GifReadsInside == GifSpec => []ReadsInside
<1>1. Reader => ReadsInside
    BY DEF Reader, ReadsInside
<1> QED BY <1>1, ReaderHolds, PTL

(***************************************************************************)
(* The bits between two codes.                                             *)
(***************************************************************************)
\* Two shifts are one by the sum.
LEMMA TwoTimes ==
    ASSUME NEW i \in 0 .. 12, NEW j \in 0 .. 8, i + j <= 12
    PROVE  Two(i) * Two(j) = Two(i + j)
<1>1. PICK base \in Nat : base = Two(i)
    BY TwoType
<1>2. ASSUME NEW k \in 0 .. 7, i + k + 1 <= 12, base * Two(k) = Two(i + k)
      PROVE  base * Two(k + 1) = Two(i + k + 1)
    <2>1. PICK power \in Nat : power = Two(k)
        BY TwoType
    <2>2. Two(k + 1) = 2 * power /\ Two(i + k + 1) = 2 * Two(i + k)
        BY <1>2, <2>1, TwoDoubles
    <2>3. base * (2 * power) = 2 * (base * power)
        OBVIOUS
    <2> QED BY <1>2, <2>1, <2>2, <2>3, Zenon
<1>3. base * Two(0) = Two(i + 0)
    BY <1>1, TwoValue
<1> QED BY <1>1, <1>2, <1>3

\* What a division finds, and two divisions, which are one by the product.
LEMMA DivWhole ==
    ASSUME NEW d \in Nat \ {0}, NEW y \in Nat, NEW t \in 0 .. d - 1,
           NEW sum, sum = y * d + t
    PROVE  sum \div d = y
    OBVIOUS

LEMMA DivTwice ==
    ASSUME NEW a \in Nat, NEW p \in Nat \ {0}, NEW q \in Nat \ {0}
    PROVE  (a \div p) \div q = a \div (p * q)
<1>1. PICK x \in Nat, r \in 0 .. p - 1 : x = a \div p /\ a = x * p + r
    <2>1. a = (a \div p) * p + (a % p) /\ a \div p \in Nat /\ a % p \in 0 .. p - 1
        OBVIOUS
    <2> QED BY <2>1
<1>2. PICK y \in Nat, s \in 0 .. q - 1 : y = x \div q /\ x = y * q + s
    <2>1. x = (x \div q) * q + (x % q) /\ x \div q \in Nat /\ x % q \in 0 .. q - 1
        OBVIOUS
    <2> QED BY <2>1
<1>3. a = y * (p * q) + (s * p + r)
    <2>1. (y * q + s) * p = y * (p * q) + s * p
        OBVIOUS
    <2>2. a = (y * q + s) * p + r
        BY <1>1, <1>2, Zenon
    <2>3. y * (p * q) \in Int /\ s * p \in Int /\ r \in Int
        OBVIOUS
    <2>4. PICK left \in Int, right \in Int :
             left = y * (p * q) /\ right = s * p
        BY <2>3
    <2>5. a = (left + right) + r
        BY <2>1, <2>2, <2>4, Zenon
    <2>6. a = left + (right + r)
        BY <2>5
    <2> QED BY <2>4, <2>6, Zenon
<1>4. s * p + r \in Nat /\ s * p + r < p * q
    BY <1>1, <1>2
<1>5. p * q \in Nat \ {0}
    OBVIOUS
<1>6. a \div (p * q) = y
    <2>1. PICK d \in Nat \ {0}, t \in Nat : d = p * q /\ t = s * p + r
        BY <1>4, <1>5
    <2>2. t \in 0 .. d - 1
        BY <1>4, <2>1
    <2>3. a = y * d + t
        BY <1>3, <2>1, Zenon
    <2> QED BY <2>1, <2>2, <2>3, DivWhole, Zenon
<1> QED BY <1>1, <1>2, <1>6, Zenon

\* The bits at hand: of a byte that was begun those that are left, and once
\* another byte was taken, that one at the upper end.
AtHand ==
    /\ b1 <= 255
    /\ at = "bits" /\ nbits_left <= 7 => ret = BitsLeft
    /\ at = "bits" /\ nbits_left >= 8 => ret \div Two(nbits_left - 8) = b1

\* What is at hand fits into the bits there are.
LEMMA HandBounded ==
    ASSUME Input, Reader, AtHand, at = "bits", nbits_left <= 11
    PROVE  ret < Two(nbits_left)
<1>1. b1 \in 0 .. 255 /\ ret \in Nat /\ nbits_left \in 0 .. 11
    BY DEF Reader, AtHand
<1>2. CASE nbits_left <= 7
    <2>1. \A n \in 0 .. 7, b \in 0 .. 255 : b \div Two(8 - n) < Two(n)
        BY TwoValue
    <2>2. nbits_left \in 0 .. 7 /\ ret = b1 \div Two(8 - nbits_left)
        BY <1>1, <1>2 DEF AtHand, BitsLeft
    <2> QED BY <1>1, <2>1, <2>2
<1>3. CASE nbits_left >= 8
    <2>1. PICK n \in 0 .. 3 : n = nbits_left - 8
        BY <1>1, <1>3
    <2>2. PICK power \in Nat : power = Two(n) /\ power >= 1
        BY TwoType
    <2>3. Two(nbits_left) = 256 * power
        <3>1. Two(n + 8) = 256 * Two(n)
            BY TwoValue
        <3>2. nbits_left = n + 8
            BY <1>1, <2>1
        <3> QED BY <2>2, <3>1, <3>2, Zenon
    <2>4. ret \div power <= 255
        BY <1>1, <1>3, <2>1, <2>2 DEF AtHand
    <2>5. ret < 256 * power
        <3>1. ret = (ret \div power) * power + (ret % power)
              /\ ret % power < power /\ ret \div power \in Nat
            BY <1>1, <2>2
        <3>2. (ret \div power) * power <= 255 * power
            BY <2>2, <2>4, <3>1
        <3> QED BY <1>1, <2>2, <3>1, <3>2
    <2> QED BY <2>3, <2>5
<1> QED BY <1>1, <1>2, <1>3

\* A byte that is taken comes above the bits at hand.
LEMMA HandFetch ==
    ASSUME Input, Reader, AtHand, FetchByte
    PROVE  AtHand'
<1>1. curr_size \in 3 .. 12
    BY CodeSizes
<1>2. nbits_left \in 0 .. 11 /\ ret \in Nat /\ at = "bits"
    BY <1>1 DEF FetchByte, Reader
<1>3. PICK power \in Nat \ {0} : power = Two(nbits_left)
    <2>1. \A n \in 0 .. 11 : Two(n) \in Nat \ {0}
        BY TwoType
    <2> QED BY <1>2, <2>1
<1>4. ret < power
    <2>1. nbits_left <= 11
        BY <1>2
    <2> QED BY <1>2, <1>3, <2>1, HandBounded
<1>5. ASSUME NEW p \in Nat, NEW n, TakeByte(p, n)
      PROVE  AtHand'
    <2>1. PICK byte \in 0 .. 255 : byte = ByteAt(p)
        BY ByteType DEF Input
    <2>2. b1' = byte /\ ret' = ret + byte * power /\ nbits_left' = nbits_left + 8
        BY <1>3, <1>5, <2>1, Zenon DEF TakeByte
    <2>3. (ret + byte * power) \div power = byte
        <3>1. ret \in 0 .. power - 1
            BY <1>2, <1>3, <1>4
        <3>2. ret + byte * power = byte * power + ret
            BY <1>2
        <3>3. byte \in Nat
            OBVIOUS
        <3> QED BY <3>1, <3>2, <3>3, DivWhole
    <2>4. nbits_left' >= 8 /\ nbits_left' - 8 = nbits_left
        BY <1>2, <2>2
    <2>5. (ret \div Two(nbits_left - 8))' = b1'
        BY <1>3, <2>2, <2>3, <2>4, Zenon DEF Two
    <2>6. b1' <= 255
        BY <2>1, <2>2
    <2>7. ~(nbits_left' <= 7)
        BY <1>2, <2>2
    <2> QED BY <2>5, <2>6, <2>7 DEF AtHand
<1>6. CASE TakeByte(inputPos, navail_bytes)
    <2>1. inputPos \in Nat
        BY DEF Input
    <2> QED BY <1>5, <1>6, <2>1
<1>7. CASE TakeByte(inputPos + 1, ByteAt(inputPos))
    <2>1. inputPos + 1 \in Nat
        BY DEF Input
    <2> QED BY <1>5, <1>7, <2>1
<1>8. CASE Return("error") /\ b1' = b1
    BY <1>8 DEF Return, AtHand
<1> QED BY <1>6, <1>7, <1>8 DEF FetchByte

\* No other step takes a byte.
LEMMA HandStep ==
    ASSUME Input, Reader, AtHand, [GifNext]_gifVars
    PROVE  AtHand'
<1>1. CASE Create \/ ReadHeader \/ NextBlock \/ ReadExtension \/ ReadText
    <2>1. b1' = b1
        BY <1>1 DEF Create, ReadHeader, NextBlock, ReadExtension, ReadText,
                    bits, blockless
    <2>2. at' # "bits"
        BY <1>1 DEF Create, ReadHeader, NextBlock, ReadExtension, ReadText,
                    AtTrailer, Return
    <2> QED BY <2>1, <2>2 DEF AtHand
<1>2. CASE ReadImage
    <2>1. b1' = b1 /\ at' # "bits"
        BY <1>2 DEF ReadImage, Return, bits
    <2> QED BY <2>1 DEF AtHand
<1>3. CASE StartCode
    <2>1. nbits_left \in 0 .. 7 /\ nbits_left' = nbits_left /\ b1' = b1
        BY <1>3 DEF StartCode, Reader
    <2>2. ret' = BitsLeft'
        BY <1>3, <2>1 DEF StartCode, BitsLeft
    <2>3. ~(nbits_left' >= 8)
        BY <2>1
    <2> QED BY <2>1, <2>2, <2>3 DEF AtHand
<1>4. CASE FetchByte
    BY <1>4, HandFetch
<1>5. CASE UseEnding \/ UseClear \/ UseFirst \/ UseNext \/ Damaged
    BY <1>5 DEF UseEnding, UseClear, UseFirst, UseNext, Damaged, HasCode, AtHand
<1>6. CASE PutLine \/ PopRest \/ Paint \/ Destroy
    BY <1>6 DEF PutLine, PopRest, Paint, Destroy, Return, bits, AtHand
<1>7. CASE UNCHANGED gifVars
    BY <1>7 DEF gifVars, bits, AtHand, BitsLeft
<1> QED BY <1>1, <1>2, <1>3, <1>4, <1>5, <1>6, <1>7 DEF GifNext

\* A complete code leaves the upper bits of the last byte.
LEMMA HandKept ==
    ASSUME Input, Reader, AtHand
    PROVE  BitsKept
<1> SUFFICES ASSUME at = "bits", curr_size <= nbits_left
             PROVE  ret \div Two(curr_size)
                       = b1 \div Two(8 - (nbits_left - curr_size))
    BY DEF BitsKept
<1>1. curr_size \in 3 .. 12
    BY CodeSizes
<1>2. PICK left \in 0 .. 7 : left = nbits_left - curr_size
    BY <1>1 DEF Reader
<1>3. b1 \in Nat /\ ret \in Nat /\ nbits_left \in Nat
    BY DEF Reader
<1>4. \A n \in 0 .. 12 : Two(n) \in Nat \ {0}
    BY TwoType
<1>5. CASE nbits_left <= 7
    <2>1. PICK i \in 1 .. 5 : i = 8 - nbits_left
        BY <1>1, <1>2, <1>3, <1>5
    <2>2. 8 - left = i + curr_size /\ i + curr_size <= 12
        BY <1>1, <1>2, <1>3, <2>1
    <2>3. Two(i) * Two(curr_size) = Two(i + curr_size)
        <3>1. curr_size \in 0 .. 8 /\ i \in 0 .. 12
            BY <1>1, <1>2, <1>3, <1>5, <2>1
        <3> QED BY <2>2, <3>1, TwoTimes
    <2>4. ret = b1 \div Two(i)
        BY <1>5, <2>1 DEF AtHand, BitsLeft
    <2>5. Two(i) \in Nat \ {0} /\ Two(curr_size) \in Nat \ {0}
        BY <1>1, <1>4, <2>1
    <2>6. (b1 \div Two(i)) \div Two(curr_size) = b1 \div (Two(i) * Two(curr_size))
        BY <1>3, <2>5, DivTwice
    <2> QED BY <1>2, <2>2, <2>3, <2>4, <2>6, Zenon
<1>6. CASE nbits_left >= 8
    <2>1. PICK i \in 0 .. 11 : i = nbits_left - 8
        BY <1>1, <1>2, <1>3, <1>6
    <2>2. PICK j \in 1 .. 8 : j = 8 - left
        BY <1>2
    <2>3. curr_size = i + j /\ i + j <= 12
        BY <1>1, <1>2, <1>3, <2>1, <2>2
    <2>4. Two(i) * Two(j) = Two(curr_size)
        <3>1. i \in 0 .. 12 /\ j \in 0 .. 8
            BY <2>1, <2>2
        <3> QED BY <2>3, <3>1, TwoTimes
    <2>5. ret \div Two(i) = b1
        BY <1>6, <2>1 DEF AtHand
    <2>6. Two(i) \in Nat \ {0} /\ Two(j) \in Nat \ {0}
        BY <1>4, <2>1, <2>2
    <2>7. (ret \div Two(i)) \div Two(j) = ret \div (Two(i) * Two(j))
        BY <1>3, <2>6, DivTwice
    <2> QED BY <1>2, <2>2, <2>4, <2>5, <2>7, Zenon
<1> QED BY <1>3, <1>5, <1>6

LEMMA HandInit == GifInit => AtHand
    BY DEF GifInit, AtHand

LEMMA HandHolds == GifSpec => []AtHand
    BY HandInit, HandStep, InputHolds, ReaderHolds, PTL DEF GifSpec

\* For every file, damaged ones included, and codes of every size: no bit is
\* lost or used twice between two codes.
THEOREM GifBitsKept == GifSpec => []BitsKept
    BY HandKept, HandHolds, InputHolds, ReaderHolds, PTL

(***************************************************************************)
(* The code table: the string of a slot is at most as long as the number   *)
(* of slots in front of it allows, and no slot lies behind the table.      *)
(***************************************************************************)
CodeTable ==
    /\ table \in Seq(Seq(Nat))
    /\ \A i \in 1 .. Len(table) : Len(table[i]) \in 1 .. i + 1
    /\ slot <= top_slot
    /\ oc \in Nat /\ fc \in Nat
    /\ phase = "next" => oc < slot

\* What slots are numbers of.
LEMMA SlotType ==
    ASSUME Input, Reader, table \in Seq(Seq(Nat))
    PROVE  /\ Len(table) \in Nat /\ newcodes \in Nat
           /\ slot = newcodes + Len(table) /\ slot \in Nat
           /\ top_slot \in Nat /\ top_slot <= MAX_CODES
<1>1. PICK size \in 0 .. 12 : size = image.size
    BY CodeSizes
<1>2. PICK width \in 3 .. 12 : width = curr_size
    BY CodeSizes
<1>3. Two(size) \in Nat
    BY TwoType
<1>4. Two(width) \in Nat /\ Two(width) <= 4096
    BY TwoValue
<1>5. Len(table) \in Nat
    BY LenProperties
<1>6. newcodes \in Nat
    BY <1>1, <1>3 DEF newcodes, clear
<1>7. top_slot = Two(width)
    BY <1>2 DEF top_slot
<1>8. slot = newcodes + Len(table)
    BY DEF slot
<1> QED BY ONLY <1>4, <1>5, <1>6, <1>7, <1>8 DEF MAX_CODES

\* A string of the table, or a colour.
LEMMA StringOfType ==
    ASSUME Input, Reader, CodeTable, NEW code \in Nat, code < slot
    PROVE  /\ StringOf(code) \in Seq(Nat)
           /\ Len(StringOf(code)) \in 1 .. Len(table) + 1
<1>1. table \in Seq(Seq(Nat))
    BY DEF CodeTable
<1>2. Len(table) \in Nat /\ newcodes \in Nat /\ slot = newcodes + Len(table)
    BY <1>1, SlotType
<1>3. CASE code < newcodes
    <2>1. StringOf(code) = <<code % 256>>
        BY <1>3 DEF StringOf
    <2>2. code % 256 \in Nat
        OBVIOUS
    <2>3. <<code % 256>> \in Seq(Nat) /\ Len(<<code % 256>>) = 1
        BY <2>2
    <2> QED BY <1>2, <2>1, <2>3
<1>4. CASE ~(code < newcodes)
    <2>1. PICK i \in 1 .. Len(table) : i = code - newcodes + 1
        BY <1>2, <1>4
    <2>2. StringOf(code) = table[i]
        BY <1>4, <2>1 DEF StringOf
    <2>3. table[i] \in Seq(Nat)
        BY <1>1, <2>1, ElementOfSeq
    <2>4. Len(table[i]) \in 1 .. i + 1
        BY <2>1 DEF CodeTable
    <2> QED BY <1>2, <2>1, <2>2, <2>3, <2>4
<1> QED BY <1>3, <1>4

\* What a code stands for, the next slot's code too.
LEMMA CodeStringType ==
    ASSUME Input, Reader, CodeTable, phase = "next", NEW code \in Nat
    PROVE  /\ CodeString(code) \in Seq(Nat)
           /\ Len(CodeString(code)) \in 1 .. Len(table) + 2
           /\ CodeString(code)[1] \in Nat
<1>1. table \in Seq(Seq(Nat)) /\ oc \in Nat /\ oc < slot /\ fc \in Nat
    BY DEF CodeTable
<1>2. Len(table) \in Nat /\ slot \in Nat
    BY <1>1, SlotType
<1>3. /\ CodeString(code) \in Seq(Nat)
      /\ Len(CodeString(code)) \in 1 .. Len(table) + 2
    <2>1. CASE code < slot
        <3>1. CodeString(code) = StringOf(code)
            BY <1>2, <2>1 DEF CodeString
        <3>2. /\ StringOf(code) \in Seq(Nat)
              /\ Len(StringOf(code)) \in 1 .. Len(table) + 1
            BY <2>1, StringOfType
        <3> QED BY ONLY <1>2, <3>1, <3>2
    <2>2. CASE code >= slot
        <3>1. CodeString(code) = StringOf(oc) \o <<fc % 256>>
            BY <2>2 DEF CodeString
        <3>2. PICK front \in Seq(Nat) :
                 front = StringOf(oc) /\ Len(front) \in 1 .. Len(table) + 1
            BY <1>1, StringOfType
        <3>3. fc % 256 \in Nat
            BY <1>1
        <3>4. <<fc % 256>> \in Seq(Nat) /\ Len(<<fc % 256>>) = 1
            BY <3>3
        <3>5. /\ front \o <<fc % 256>> \in Seq(Nat)
              /\ Len(front \o <<fc % 256>>) = Len(front) + 1
            BY <3>2, <3>4, ConcatProperties
        <3> QED BY <1>2, <3>1, <3>2, <3>5
    <2> QED BY <1>2, <2>1, <2>2
<1>4. 1 \in 1 .. Len(CodeString(code))
    BY <1>2, <1>3
<1> QED BY ONLY <1>3, <1>4, ElementOfSeq

\* An empty table.
LEMMA TableEmpty ==
    ASSUME table' = <<>>, image'.size \in 2 .. 9, curr_size' = image'.size + 1,
           oc' \in Nat, fc' \in Nat, phase' # "next"
    PROVE  CodeTable'
<1>1. PICK size \in 2 .. 9 : size = image'.size
    OBVIOUS
<1>2. size \in 0 .. 12 /\ size + 1 \in 0 .. 12
    OBVIOUS
<1>3. PICK n \in Nat : n = Two(size) /\ n >= 4
    <2>1. size \in 0 .. 12 /\ size >= 2
        OBVIOUS
    <2>2. Two(size) \in Nat /\ Two(size) >= 4
        BY ONLY <2>1, TwoType
    <2> QED BY <2>2, Zenon
<1>4. Two(size + 1) = n + n
    <2>1. size \in 0 .. 11
        OBVIOUS
    <2>2. Two(size + 1) = 2 * Two(size)
        BY ONLY <2>1, TwoDoubles
    <2> QED BY ONLY <1>3, <2>2, n \in Nat
<1>5. slot' = n + 2
    <2>1. newcodes' = n + 2
        BY <1>1, <1>3 DEF newcodes, clear
    <2>2. Len(table') = 0
        OBVIOUS
    <2> QED BY <1>3, <2>1, <2>2 DEF slot
<1>6. top_slot' = n + n
    BY <1>1, <1>4 DEF top_slot
<1>7. table' \in Seq(Seq(Nat))
    OBVIOUS
<1>8. slot' <= top_slot'
    BY <1>3, <1>5, <1>6
<1> QED BY <1>7, <1>8 DEF CodeTable

\* A step that leaves the table alone.
LEMMA TableSame ==
    ASSUME CodeTable, UNCHANGED <<image, codes>>,
           phase' = "next" => phase = "next" \/ oc < slot
    PROVE  CodeTable'
<1>1. table' = table /\ curr_size' = curr_size /\ oc' = oc /\ fc' = fc
    BY DEF codes
<1>2. image' = image
    OBVIOUS
<1>3. slot' = slot
    <2>1. newcodes' = newcodes
        BY <1>2 DEF newcodes, clear
    <2> QED BY <1>1, <2>1, Zenon DEF slot
<1>4. top_slot' = top_slot
    BY <1>1, Zenon DEF top_slot
<1> QED BY <1>1, <1>3, <1>4 DEF CodeTable

\* Greater codes have room for more slots.
LEMMA GrownType ==
    ASSUME NEW size \in 3 .. 12, NEW next \in Nat
    PROVE  Two(size) <= Two(Grown(size, next))
<1>1. MaxBits \in 3 .. 12
    BY GifAssumption DEF GifAssumption
<1>2. CASE Grown(size, next) = size
    <2>1. Two(size) \in Nat
        BY TwoType
    <2> QED BY <1>2, <2>1
<1>3. CASE Grown(size, next) = size + 1 /\ size < MaxBits
    <2>1. size \in 0 .. 11
        BY <1>1, <1>3
    <2>2. Two(size + 1) = 2 * Two(size)
        BY <2>1, TwoDoubles
    <2>3. Two(size) \in Nat
        BY <2>1, TwoType
    <2> QED BY <1>3, <2>2, <2>3
<1> QED BY <1>2, <1>3 DEF Grown

\* The code in front was a slot, and a new one is behind all of them.
LEMMA TableNext ==
    ASSUME Input, Reader, CodeTable, UseNext
    PROVE  CodeTable'
<1>1. /\ table \in Seq(Seq(Nat)) /\ oc \in Nat /\ oc < slot /\ fc \in Nat
      /\ phase = "next" /\ phase' = "next" /\ image' = image
      /\ \A i \in 1 .. Len(table) : Len(table[i]) \in 1 .. i + 1
    BY DEF CodeTable, UseNext, HasCode, picture
<1>2. Len(table) \in Nat /\ newcodes \in Nat /\ slot = newcodes + Len(table)
    BY <1>1, SlotType
<1>3. top_slot \in Nat /\ slot <= top_slot
    BY <1>1, SlotType DEF CodeTable
<1>4. PICK code \in Nat : code = c
    BY CodeType
<1>5. code <= slot
    BY <1>4 DEF UseNext
<1>6. newcodes' = newcodes
    BY <1>1 DEF newcodes, clear
<1>7. CASE slot < top_slot /\ table' = Append(table, StringOf(oc) \o <<CodeString(c)[1]>>)
           /\ fc' = CodeString(c)[1] /\ oc' = c
           /\ curr_size' = Grown(curr_size, slot + 1)
    <2>1. PICK colour \in Nat : colour = CodeString(c)[1]
        BY <1>1, <1>4, CodeStringType
    <2>2. PICK front \in Seq(Nat) : front = StringOf(oc) /\ Len(front) \in 1 .. Len(table) + 1
        BY <1>1, StringOfType
    <2>3. <<colour>> \in Seq(Nat) /\ Len(<<colour>>) = 1
        OBVIOUS
    <2>4. PICK string \in Seq(Nat) : string = front \o <<colour>> /\ Len(string) = Len(front) + 1
        <3>1. /\ front \o <<colour>> \in Seq(Nat)
              /\ Len(front \o <<colour>>) = Len(front) + 1
            BY ONLY <2>3, front \in Seq(Nat), ConcatProperties
        <3> QED BY <3>1, Zenon
    <2>5. table' = Append(table, string)
        BY <1>7, <2>1, <2>2, <2>4, Zenon
    <2>6. /\ table' \in Seq(Seq(Nat)) /\ Len(table') = Len(table) + 1
          /\ \A i \in 1 .. Len(table) : table'[i] = table[i]
          /\ table'[Len(table) + 1] = string
        BY <1>1, <2>5
    <2>7. \A i \in 1 .. Len(table') : Len(table'[i]) \in 1 .. i + 1
        <3>1. Len(string) \in 1 .. Len(table) + 2
            BY <1>2, <2>2, <2>4
        <3>2. ASSUME NEW i \in 1 .. Len(table')
              PROVE  Len(table'[i]) \in 1 .. i + 1
            <4>1. CASE i = Len(table) + 1
                <5>1. table'[i] = string
                    BY <2>6, <4>1, Zenon
                <5>2. Len(string) \in 1 .. i + 1
                    BY ONLY <1>2, <3>1, <4>1
                <5> QED BY <5>1, <5>2, Zenon
            <4>2. CASE i \in 1 .. Len(table)
                <5>1. table'[i] = table[i]
                    BY <2>6, <4>2, Zenon
                <5>2. Len(table[i]) \in 1 .. i + 1
                    BY <1>1, <4>2, Zenon
                <5> QED BY <5>1, <5>2, Zenon
            <4> QED BY ONLY <1>2, <2>6, <4>1, <4>2, i \in 1 .. Len(table')
        <3> QED BY <3>2
    <2>8. slot' = slot + 1
        BY <1>2, <1>6, <2>6 DEF slot
    <2>9. slot' <= top_slot'
        <3>1. top_slot' = Two(Grown(curr_size, slot + 1))
            BY <1>7 DEF top_slot
        <3>2. curr_size \in 3 .. 12 /\ slot + 1 \in Nat
            BY <1>2, CodeSizes
        <3>3. PICK room \in Nat : room = Two(Grown(curr_size, slot + 1))
            <4>1. Grown(curr_size, slot + 1) \in 0 .. 12
                BY <3>2, GifAssumption DEF Grown, GifAssumption
            <4> QED BY <4>1, TwoType
        <3>4. top_slot <= room
            BY <3>2, <3>3, GrownType DEF top_slot
        <3> QED BY <1>2, <1>3, <1>7, <2>8, <3>1, <3>3, <3>4
    <2>10. oc' \in Nat /\ oc' < slot' /\ fc' \in Nat
        BY <1>2, <1>4, <1>5, <1>7, <2>1, <2>8
    <2> QED BY <2>6, <2>7, <2>9, <2>10 DEF CodeTable
<1>8. CASE slot >= top_slot /\ curr_size' = Grown(curr_size, slot)
           /\ UNCHANGED <<table, fc, oc>>
    <2>1. slot' = slot
        BY <1>6, <1>8 DEF slot
    <2>2. slot' <= top_slot'
        <3>1. top_slot' = Two(Grown(curr_size, slot))
            BY <1>8 DEF top_slot
        <3>2. curr_size \in 3 .. 12 /\ slot \in Nat
            BY <1>2, CodeSizes
        <3>3. PICK room \in Nat : room = Two(Grown(curr_size, slot))
            <4>1. Grown(curr_size, slot) \in 0 .. 12
                BY <3>2, GifAssumption DEF Grown, GifAssumption
            <4> QED BY <4>1, TwoType
        <3>4. top_slot <= room
            BY <3>2, <3>3, GrownType DEF top_slot
        <3> QED BY <1>2, <1>3, <2>1, <3>1, <3>3, <3>4
    <2> QED BY <1>1, <1>8, <2>1, <2>2 DEF CodeTable
<1> QED BY <1>7, <1>8 DEF UseNext

LEMMA TableStep ==
    ASSUME Input, Input', Reader, CodeTable, [GifNext]_gifVars
    PROVE  CodeTable'
<1>1. CASE UNCHANGED <<image, codes, phase>>
    BY <1>1, TableSame
<1>2. CASE UNCHANGED gifVars
    BY <1>2, TableSame DEF gifVars, picture
<1>3. CASE Create \/ ReadHeader \/ NextBlock \/ ReadExtension \/ ReadText
    <2>1. UNCHANGED <<image, codes, phase>>
        BY <1>3 DEF Create, ReadHeader, NextBlock, ReadExtension, ReadText,
                    picture, blockless
    <2> QED BY <2>1, <1>1
<1>4. CASE ReadImage
    <2>1. CASE UNCHANGED <<picture, codes, phase>>
        BY <2>1, <1>1 DEF picture
    <2>2. CASE /\ image' = Described /\ Described.size \in 2 .. 9
               /\ curr_size' = Described.size + 1 /\ table' = <<>>
               /\ oc' = 0 /\ fc' = 0 /\ phase' = "first"
        <3>1. image'.size \in 2 .. 9 /\ curr_size' = image'.size + 1
            BY <2>2
        <3> QED BY <2>2, <3>1, TableEmpty
    <2> QED BY <1>4, <2>1, <2>2 DEF ReadImage
<1>5. CASE StartCode \/ FetchByte \/ PutLine \/ PopRest \/ Paint \/ Destroy
    <2>1. UNCHANGED <<image, codes, phase>>
        BY <1>5 DEF StartCode, FetchByte, PutLine, PopRest, Paint, Destroy, picture
    <2> QED BY <2>1, <1>1
<1>6. CASE UseEnding \/ Damaged
    <2>1. UNCHANGED <<image, codes, phase>>
        BY <1>6 DEF UseEnding, Damaged, HasCode, picture
    <2> QED BY <2>1, <1>1
<1>7. CASE UseClear
    <2>1. /\ table' = <<>> /\ curr_size' = image.size + 1 /\ image' = image
          /\ oc' = oc /\ fc' = fc /\ phase' # "next"
        BY <1>7 DEF UseClear, HasCode, picture
    <2>2. image'.size \in 2 .. 9 /\ curr_size' = image'.size + 1
        BY <2>1, CodeSizes
    <2>3. oc' \in Nat /\ fc' \in Nat
        BY <2>1 DEF CodeTable
    <2> QED BY <2>1, <2>2, <2>3, TableEmpty
<1>8. CASE UseFirst
    <2>1. /\ image' = image /\ table' = table /\ curr_size' = curr_size
          /\ oc' = IF c >= slot THEN 0 ELSE c
          /\ fc' = IF c >= slot THEN 0 ELSE c
        BY <1>8 DEF UseFirst, HasCode, picture
    <2>2. PICK code \in Nat : code = c
        BY CodeType
    <2>3. newcodes' = newcodes
        BY <2>1 DEF newcodes, clear
    <2>4. slot' = slot /\ top_slot' = top_slot
        BY <2>1, <2>3, Zenon DEF slot, top_slot
    <2>5. slot \in Nat /\ slot > 0
        <3>1. PICK size \in 0 .. 12 : size = image.size
            BY CodeSizes
        <3>2. Two(size) \in Nat
            BY TwoType
        <3>3. Len(table) \in Nat
            BY LenProperties DEF CodeTable
        <3> QED BY <3>1, <3>2, <3>3 DEF slot, newcodes, clear
    <2>6. oc' \in Nat /\ fc' \in Nat /\ oc' < slot
        BY <2>1, <2>2, <2>5
    <2> QED BY <2>1, <2>4, <2>6 DEF CodeTable
<1>9. CASE UseNext
    BY <1>9, TableNext
<1> QED BY <1>2, <1>3, <1>4, <1>5, <1>6, <1>7, <1>8, <1>9 DEF GifNext

LEMMA TableInit == GifInit => CodeTable
<1> SUFFICES ASSUME GifInit PROVE CodeTable
    OBVIOUS
<1>1. /\ image.size = 2 /\ curr_size = 3 /\ table = <<>>
      /\ oc = 0 /\ fc = 0 /\ phase = "first"
    BY DEF GifInit, NoImage
<1>2. Two(2) = 4 /\ Two(3) = 8
    BY TwoValue
<1>3. newcodes = 6
    BY <1>1, <1>2 DEF newcodes, clear
<1>4. Len(table) = 0 /\ table \in Seq(Seq(Nat))
    BY <1>1
<1>5. slot = 6 /\ top_slot = 8
    BY <1>1, <1>2, <1>3, <1>4 DEF slot, top_slot
<1> QED BY <1>1, <1>4, <1>5 DEF CodeTable

LEMMA TableHolds == GifSpec => []CodeTable
    BY TableInit, TableStep, InputHolds, ReaderHolds, PTL DEF GifSpec

(***************************************************************************)
(* The string on dstack, and the line it goes to.                          *)
(***************************************************************************)
Strings ==
    /\ stack \in Seq(Nat) /\ Len(stack) <= MAX_CODES + 1
    /\ line \in Seq(Nat) /\ Len(line) <= image.wdt
    /\ phase \in {"first", "first_clear", "cleared", "next"}

\* No code's string is longer than dstack.
LEMMA StackNext ==
    ASSUME Input, Reader, CodeTable, UseNext
    PROVE  stack' \in Seq(Nat) /\ Len(stack') <= MAX_CODES + 1
<1>1. table \in Seq(Seq(Nat)) /\ slot <= top_slot /\ phase = "next"
    BY DEF CodeTable, UseNext
<1>2. PICK code \in Nat : code = c
    BY CodeType
<1>3. /\ CodeString(code) \in Seq(Nat)
      /\ Len(CodeString(code)) \in 1 .. Len(table) + 2
    BY <1>1, CodeStringType
<1>4. stack' = CodeString(code)
    BY <1>2 DEF UseNext
<1>5. Len(table) + 2 <= MAX_CODES
    <2>1. PICK size \in 0 .. 12 : size = image.size
        BY CodeSizes
    <2>2. Two(size) \in Nat
        BY TwoType
    <2>3. newcodes \in Nat /\ newcodes >= 2
        BY <2>1, <2>2 DEF newcodes, clear
    <2>4. /\ slot = newcodes + Len(table) /\ Len(table) \in Nat
          /\ top_slot \in Nat /\ top_slot <= MAX_CODES
        BY <1>1, SlotType
    <2> QED BY <1>1, <2>3, <2>4 DEF MAX_CODES
<1> QED BY <1>3, <1>4, <1>5, SlotType, <1>1 DEF MAX_CODES

LEMMA StringsStep ==
    ASSUME Input, Input', Reader, CodeTable, Strings, [GifNext]_gifVars
    PROVE  Strings'
<1> USE DEF Strings
<1>1. CASE UNCHANGED <<stack, line, image, phase>>
    BY <1>1
<1>2. CASE UNCHANGED gifVars
    BY <1>2 DEF gifVars, lines, picture
<1>3. CASE Create \/ ReadHeader \/ NextBlock \/ ReadExtension \/ ReadText
    <2>1. UNCHANGED <<stack, line, image, phase>>
        BY <1>3 DEF Create, ReadHeader, NextBlock, ReadExtension, ReadText,
                    picture, blockless, lines
    <2> QED BY <2>1
<1>4. CASE ReadImage
    <2>1. CASE UNCHANGED <<picture, stack, phase, lines>>
        BY <2>1 DEF picture, lines
    <2>2. CASE stack' = <<>> /\ line' = <<>> /\ phase' = "first"
        BY <2>2 DEF Input, ImageRecord, MAX_CODES
    <2> QED BY <1>4, <2>1, <2>2 DEF ReadImage
<1>5. CASE StartCode \/ FetchByte \/ Paint \/ Destroy
    <2>1. UNCHANGED <<stack, line, image, phase>>
        BY <1>5 DEF StartCode, FetchByte, Paint, Destroy, picture, lines
    <2> QED BY <2>1
<1>6. CASE UseEnding \/ UseClear \/ Damaged
    BY <1>6 DEF UseEnding, UseClear, Damaged, HasCode, picture, lines
<1>7. CASE UseFirst
    <2>1. PICK code \in Nat : code = c
        BY CodeType
    <2>2. PICK colour \in Nat : stack' = <<colour>>
        BY <1>7, <2>1 DEF UseFirst
    <2>3. UNCHANGED <<line, image>> /\ phase' = "next"
        BY <1>7 DEF UseFirst, HasCode, picture, lines
    <2> QED BY <2>2, <2>3 DEF MAX_CODES
<1>8. CASE UseNext
    <2>1. UNCHANGED <<line, image, phase>>
        BY <1>8 DEF UseNext, HasCode, picture, lines
    <2> QED BY <1>8, <2>1, StackNext
<1>9. CASE PutLine
    <2>1. Room \in Nat
        BY DEF Room, Input, ImageRecord
    <2>2. PICK room \in Nat : room = Room
        BY <2>1
    <2>3. stack' = SubSeq(stack, room + 1, Len(stack))
        BY <1>9, <2>2, Zenon DEF PutLine
    <2>4. /\ SubSeq(stack, room + 1, Len(stack)) \in Seq(Nat)
          /\ Len(SubSeq(stack, room + 1, Len(stack))) <= Len(stack)
        <3>1. Len(stack) \in Nat /\ room + 1 \in Int
            BY LenProperties
        <3>2. ASSUME NEW i \in room + 1 .. Len(stack)
              PROVE  stack[i] \in Nat
            <4>1. i \in 1 .. Len(stack)
                BY <3>1
            <4> QED BY ONLY <4>1, stack \in Seq(Nat), ElementOfSeq
        <3>3. /\ SubSeq(stack, room + 1, Len(stack)) \in Seq(Nat)
              /\ Len(SubSeq(stack, room + 1, Len(stack)))
                   = IF room + 1 <= Len(stack)
                     THEN Len(stack) - (room + 1) + 1 ELSE 0
            BY ONLY <3>1, <3>2, Len(stack) \in Int, SubSeqProperties
        <3> QED BY <3>1, <3>3
    <2>5. line' = <<>> /\ image' = image /\ phase' = phase
        BY <1>9 DEF PutLine, picture
    <2> QED BY <2>3, <2>4, <2>5 DEF Input, ImageRecord, MAX_CODES
<1>10. CASE PopRest
    <2>1. Len(line) \in Nat /\ Len(stack) \in Nat
        BY LenProperties
    <2>2. /\ line' = line \o stack /\ stack' = <<>>
          /\ image' = image /\ phase' = phase
        BY <1>10 DEF PopRest, picture
    <2>3. Len(stack) < image.wdt - Len(line)
        BY <1>10 DEF PopRest, Room
    <2>4. line \o stack \in Seq(Nat) /\ Len(line \o stack) = Len(line) + Len(stack)
        BY ConcatProperties
    <2>5. Len(line') <= image.wdt
        BY <2>1, <2>2, <2>3, <2>4 DEF Input, ImageRecord
    <2> QED BY <2>2, <2>4, <2>5 DEF MAX_CODES
<1> QED BY <1>2, <1>3, <1>4, <1>5, <1>6, <1>7, <1>8, <1>9, <1>10 DEF GifNext

LEMMA StringsInit == GifInit => Strings
    BY DEF GifInit, NoImage, Strings, MAX_CODES

LEMMA StringsHolds == GifSpec => []Strings
    BY StringsInit, StringsStep, InputHolds, ReaderHolds, TableHolds, PTL DEF GifSpec

(***************************************************************************)
(* The blocks.  While the decoder runs there is one of each of the frame,  *)
(* and at most one of each of the image.                                   *)
(***************************************************************************)
OfFrame == {FrameBlocks[i] : i \in 1 .. 8}

Owned ==
    /\ held \in [Blocks -> Nat] /\ noMemory \in BOOLEAN
    /\ result \in {"running", "frame", "nothing", "error"}
    /\ at = "create" => result = "running" /\ \A b \in Blocks : held[b] = 0
    /\ at \notin {"create", "done"} =>
          /\ \A b \in OfFrame : held[b] = 1
          /\ \A b \in ImageBlocks : held[b] <= 1
    /\ at = "returned" => \A b \in ImageBlocks : held[b] = 0
    /\ BlocksFreed

\* The frame's blocks are not the image's.
LEMMA BlockKinds ==
    /\ Blocks = OfFrame \cup ImageBlocks /\ OfFrame \cap ImageBlocks = {}
    /\ "encoded" \in OfFrame
<1>1. OfFrame = {"encoded", "frame", "prev_img", "out_bits", "global_table",
                 "prefix", "dstack", "suffix"}
    BY DEF OfFrame, FrameBlocks
<1>2. Blocks = OfFrame \cup ImageBlocks
    BY DEF Blocks, OfFrame
<1> QED BY <1>1, <1>2 DEF ImageBlocks

\* Steps that only move on leave the blocks alone.
LEMMA OwnedSame ==
    ASSUME Owned, UNCHANGED <<held, noMemory, result>>,
           at \notin {"create", "done", "returned"},
           at' \notin {"create", "done", "returned"}
    PROVE  Owned'
    BY DEF Owned, BlocksFreed

\* The decoder returns, whatever it returns.
LEMMA OwnedReturn ==
    ASSUME Owned, at \notin {"create", "done", "returned"}, noMemory' \in BOOLEAN,
           NEW r \in {"frame", "nothing", "error"}, Return(r)
    PROVE  Owned'
<1>1. held' \in [Blocks -> Nat]
    BY DEF Owned, Return, Freed
<1>2. \A b \in OfFrame : held'[b] = 1
    BY BlockKinds DEF Owned, Return, Freed
<1>3. \A b \in ImageBlocks : held'[b] = 0
    BY BlockKinds DEF Owned, Return, Freed
<1>4. at' = "returned" /\ result' = r
    BY DEF Return
<1> QED BY <1>1, <1>2, <1>3, <1>4 DEF Owned, BlocksFreed

LEMMA OwnedCreate ==
    ASSUME Owned, Create
    PROVE  Owned'
<1>1. at = "create" /\ result = "running" /\ result' = result
      /\ held \in [Blocks -> Nat] /\ \A b \in Blocks : held[b] = 0
    BY DEF Owned, Create
<1>2. CASE at' = "header" /\ held' = Taken(held, OfFrame) /\ UNCHANGED noMemory
    <2>1. held' \in [Blocks -> Nat]
        BY <1>1, <1>2 DEF Taken
    <2>2. \A b \in OfFrame : held'[b] = 1
        BY <1>1, <1>2, BlockKinds DEF Taken
    <2>3. \A b \in ImageBlocks : held'[b] = 0
        BY <1>1, <1>2, BlockKinds DEF Taken
    <2> QED BY <1>1, <1>2, <2>1, <2>2, <2>3 DEF Owned, BlocksFreed
<1>3. CASE /\ at' = "done" /\ noMemory' = TRUE
           /\ held' = held \/ held' = Taken(held, {"encoded"})
    <2>1. held' \in [Blocks -> Nat]
        BY <1>1, <1>3 DEF Taken
    <2>2. ASSUME NEW b \in Blocks
          PROVE  held'[b] = 0 \/ (b = "encoded" /\ held'[b] = 1)
        BY <1>1, <1>3 DEF Taken
    <2> QED BY <1>1, <1>3, <2>1, <2>2 DEF Owned, BlocksFreed
<1> QED BY <1>2, <1>3 DEF Create, OfFrame

LEMMA OwnedImage ==
    ASSUME Owned, ReadImage
    PROVE  Owned'
<1>1. at = "image"
    BY DEF ReadImage
<1>2. CASE (Return("nothing") \/ Return("error")) /\ noMemory' \in BOOLEAN
    BY <1>1, <1>2, OwnedReturn
<1>3. CASE at' = "code" /\ held' = Renewed /\ UNCHANGED <<noMemory, result>>
    <2>1. held' \in [Blocks -> Nat]
        BY <1>3 DEF Owned, Renewed, Freed, Taken
    <2>2. \A b \in OfFrame : held'[b] = 1
        BY <1>1, <1>3, BlockKinds DEF Owned, Renewed, Freed, Taken
    <2>3. \A b \in ImageBlocks : held'[b] = 1
        BY <1>1, <1>3, BlockKinds DEF Owned, Renewed, Freed, Taken
    <2> QED BY <1>3, <2>1, <2>2, <2>3 DEF Owned, BlocksFreed
<1>4. noMemory \in BOOLEAN
    BY DEF Owned
<1> QED BY <1>2, <1>3, <1>4 DEF ReadImage

LEMMA OwnedStep ==
    ASSUME Owned, [GifNext]_gifVars
    PROVE  Owned'
<1>1. noMemory \in BOOLEAN
    BY DEF Owned
<1>2. CASE Create
    BY <1>2, OwnedCreate
<1>3. CASE ReadHeader \/ NextBlock \/ ReadExtension \/ ReadText \/ FetchByte
    <2>1. at \in {"header", "block", "extension", "text", "bits"}
        BY <1>3 DEF ReadHeader, NextBlock, ReadExtension, ReadText, FetchByte
    <2>2. noMemory' = noMemory
        BY <1>3 DEF ReadHeader, NextBlock, ReadExtension, ReadText, FetchByte,
                    blockless
    <2>3. CASE Return("nothing") \/ Return("error")
        BY <1>1, <2>1, <2>2, <2>3, OwnedReturn
    <2>4. CASE /\ UNCHANGED <<held, result>>
               /\ at' \in {"block", "extension", "text", "image", "bits"}
        BY <2>1, <2>2, <2>4, OwnedSame
    <2> QED BY <1>3, <2>3, <2>4 DEF ReadHeader, NextBlock, AtTrailer, ReadExtension,
                                    ReadText, FetchByte, TakeByte
<1>4. CASE ReadImage
    BY <1>4, OwnedImage
<1>5. CASE StartCode \/ PutLine \/ PopRest \/ UseEnding \/ UseClear
           \/ UseFirst \/ UseNext \/ Damaged
    <2>1. at \in {"code", "lines", "bits"}
        BY <1>5 DEF StartCode, PutLine, PopRest, UseEnding, UseClear,
                    UseFirst, UseNext, Damaged, HasCode
    <2>2. UNCHANGED <<held, noMemory, result>>
        BY <1>5 DEF StartCode, PutLine, PopRest, UseEnding, UseClear,
                    UseFirst, UseNext, Damaged, HasCode, blocks
    <2>3. at' \in {"code", "lines", "bits", "block", "paint", "astray"}
        BY <1>5 DEF StartCode, PutLine, PopRest, UseEnding, UseClear,
                    UseFirst, UseNext, Damaged, HasCode
    <2> QED BY <2>1, <2>2, <2>3, OwnedSame
<1>6. CASE Paint
    <2>1. at = "paint" /\ Return("frame") /\ noMemory' = noMemory
        BY <1>6 DEF Paint
    <2> QED BY <1>1, <2>1, OwnedReturn
<1>7. CASE Destroy
    <2>1. /\ at = "returned" /\ at' = "done"
          /\ held' = Freed(held, OfFrame) /\ UNCHANGED <<result, noMemory>>
        BY <1>7 DEF Destroy, OfFrame
    <2>2. held' \in [Blocks -> Nat]
        BY <2>1 DEF Owned, Freed
    <2>3. \A b \in Blocks : held'[b] = 0
        BY <2>1, BlockKinds DEF Owned, Freed
    <2> QED BY <2>1, <2>2, <2>3 DEF Owned, BlocksFreed
<1>8. CASE UNCHANGED gifVars
    BY <1>8 DEF gifVars, blocks, Owned, BlocksFreed
<1> QED BY <1>2, <1>3, <1>4, <1>5, <1>6, <1>7, <1>8 DEF GifNext

LEMMA OwnedInit == GifInit => Owned
<1> SUFFICES ASSUME GifInit PROVE Owned
    OBVIOUS
<1>1. /\ at = "create" /\ result = "running" /\ noMemory = FALSE
      /\ held = [b \in Blocks |-> 0]
    BY DEF GifInit
<1>2. held \in [Blocks -> Nat] /\ \A b \in Blocks : held[b] = 0
    BY <1>1
<1> QED BY <1>1, <1>2 DEF Owned, BlocksFreed

LEMMA OwnedHolds == GifSpec => []Owned
    BY OwnedInit, OwnedStep, PTL DEF GifSpec

\* Whatever fails and however often an image is empty: only when a block
\* cannot be allocated at the start do the bytes of the file stay.
THEOREM GifBlocksFreed == GifSpec => []BlocksFreed
<1>1. Owned => BlocksFreed
    BY DEF Owned
<1> QED BY <1>1, OwnedHolds, PTL

(***************************************************************************)
(* Lines.  Each pass of an interlaced image decodes every eighth, fourth   *)
(* or second row, up to the one where it is; the passes in front of it are *)
(* complete.                                                               *)
(***************************************************************************)
\* The pass that has reached row start has decoded row r, or one before has.
PassedRow(step, start, r) ==
    \/ step = 1 /\ r % 8 = 0 /\ r <= start
    \/ step = 2 /\ (r % 8 = 0 \/ (r % 8 = 4 /\ r <= start))
    \/ step = 3 /\ (r % 4 = 0 \/ (r % 4 = 2 /\ r <= start))
    \/ step = 4 /\ (r % 2 = 0 \/ (r % 2 = 1 /\ r <= start))

\* Where each pass can be.
OnPass(step, start) ==
    \/ step = 1 /\ start % 8 = 0
    \/ step = 2 /\ start % 8 = 4
    \/ step = 3 /\ start % 4 = 2
    \/ step = 4 /\ start % 2 = 1

InterlacedRows ==
    /\ image.hgt > 0
    /\ inter_step \in 1 .. 4 /\ startloc \in Int
    /\ startloc >= -8 /\ startloc < image.hgt
    /\ inter_step > 1 => startloc >= 1
    /\ OnPass(inter_step, startloc)
    /\ DOMAIN rows = {r \in 0 .. image.hgt - 1 : PassedRow(inter_step, startloc, r)}

\* The rows decoded are as many as were counted, and are those in front of
\* where the decoder is.
Decoded ==
    /\ rowcount \in Nat
    /\ ~Low /\ rowcount <= image.hgt =>
          /\ IsFiniteSet(DOMAIN rows) /\ Cardinality(DOMAIN rows) = rowcount
          /\ image.interlaced => InterlacedRows
          /\ ~image.interlaced => DOMAIN rows = 0 .. rowcount - 1

\* An image has lines.
Sized ==
    /\ image \in ImageRecord
    /\ image.interlaced \/ at \in {"code", "bits", "lines"} => image.hgt > 0

\* The row that follows in a pass is the only one that is new.
LEMMA PassGoesOn ==
    ASSUME NEW step \in 1 .. 4, NEW start \in Int, start >= -8, step > 1 => start >= 1,
           OnPass(step, start), NEW r \in Nat,
           NEW inc \in Int, inc = IF step \in {1, 2} THEN 8 ELSE IF step = 3 THEN 4 ELSE 2
    PROVE  /\ OnPass(step, start + inc)
           /\ ~PassedRow(step, start, start + inc)
           /\ PassedRow(step, start + inc, r)
                <=> (PassedRow(step, start, r) \/ r = start + inc)
           /\ start + inc >= 0
<1>1. CASE step = 1
    BY <1>1 DEF OnPass, PassedRow
<1>2. CASE step = 2
    BY <1>2 DEF OnPass, PassedRow
<1>3. CASE step = 3
    BY <1>3 DEF OnPass, PassedRow
<1>4. CASE step = 4
    BY <1>4 DEF OnPass, PassedRow
<1> QED BY <1>1, <1>2, <1>3, <1>4

\* A pass that has reached the last rows has decoded all of its own, and the
\* first row of the next one is new.
LEMMA PassEnds ==
    ASSUME NEW step \in 1 .. 3, NEW start \in Int, start >= -8, step > 1 => start >= 1,
           OnPass(step, start), NEW hgt \in Nat, start < hgt, hgt >= 5,
           NEW first \in Int,
           first = IF step = 1 THEN 4 ELSE IF step = 2 THEN 2 ELSE 1,
           start + (IF step \in {1, 2} THEN 8 ELSE 4) >= hgt
    PROVE  /\ OnPass(step + 1, first)
           /\ ~PassedRow(step, start, first)
           /\ \A r \in 0 .. hgt - 1 :
                 PassedRow(step + 1, first, r)
                    <=> (PassedRow(step, start, r) \/ r = first)
<1>1. CASE step = 1
    BY <1>1 DEF OnPass, PassedRow
<1>2. CASE step = 2
    BY <1>2 DEF OnPass, PassedRow
<1>3. CASE step = 3
    BY <1>3 DEF OnPass, PassedRow
<1> QED BY <1>1, <1>2, <1>3

\* Nothing is left behind the fourth pass, nor of a single row.
LEMMA PassLast ==
    ASSUME NEW step \in 1 .. 4, NEW start \in Int,
           OnPass(step, start), NEW hgt \in Nat, hgt > 0, start < hgt,
           \/ step = 4 /\ start + 2 >= hgt
           \/ hgt = 1 /\ step = 1 /\ start >= 0
    PROVE  \A r \in 0 .. hgt - 1 : PassedRow(step, start, r)
<1>1. CASE step = 1
    BY <1>1 DEF OnPass, PassedRow
<1>2. CASE step = 4
    BY <1>2 DEF OnPass, PassedRow
<1> QED BY <1>1, <1>2

LEMMA SizedStep ==
    ASSUME Sized, image' \in ImageRecord, [GifNext]_gifVars
    PROVE  Sized'
<1>1. CASE ReadImage
    <2>1. CASE UNCHANGED picture /\ at' = "returned"
        BY <2>1 DEF Sized, picture
    <2>2. CASE image' = Described /\ ~NoPixels
        <3>1. image'.hgt \in Nat /\ image'.hgt # 0
            BY <2>2 DEF ImageRecord, NoPixels
        <3> QED BY <3>1 DEF Sized
    <2> QED BY <1>1, <2>1, <2>2 DEF ReadImage, Return
<1>2. CASE Create \/ ReadHeader \/ NextBlock \/ ReadExtension \/ ReadText \/ Destroy
    <2>1. image' = image
        BY <1>2 DEF Create, ReadHeader, NextBlock, ReadExtension, ReadText, Destroy,
                    picture, blockless
    <2>2. at' \notin {"code", "bits", "lines"}
        BY <1>2 DEF Create, ReadHeader, NextBlock, ReadExtension, ReadText, Destroy,
                    AtTrailer, Return
    <2> QED BY <2>1, <2>2 DEF Sized
<1>3. CASE StartCode \/ FetchByte \/ UseEnding \/ UseClear \/ UseFirst
           \/ UseNext \/ Damaged \/ PutLine \/ PopRest \/ Paint
    <2>1. image' = image
        BY <1>3 DEF StartCode, FetchByte, UseEnding, UseClear, UseFirst, UseNext,
                    Damaged, HasCode, PutLine, PopRest, Paint, picture
    <2>2. at \in {"code", "bits", "lines"} \/ at' = "returned"
        BY <1>3 DEF StartCode, FetchByte, UseEnding, UseClear, UseFirst, UseNext,
                    Damaged, HasCode, PutLine, PopRest, Paint, Return
    <2> QED BY <2>1, <2>2 DEF Sized
<1>4. CASE UNCHANGED gifVars
    BY <1>4 DEF gifVars, picture, Sized
<1> QED BY <1>1, <1>2, <1>3, <1>4 DEF GifNext

\* A row that is new is counted.
LEMMA RowCounted ==
    ASSUME NEW row, IsFiniteSet(DOMAIN rows), row \notin DOMAIN rows,
           DOMAIN rows' = DOMAIN rows \cup {row},
           Cardinality(DOMAIN rows) = rowcount, rowcount' = rowcount + 1
    PROVE  IsFiniteSet(DOMAIN rows') /\ Cardinality(DOMAIN rows') = rowcount'
    BY FS_AddElement, Zenon

\* Rows that fill the image are as many as it has.
LEMMA RowsAll ==
    ASSUME NEW hgt \in Nat, DOMAIN rows = 0 .. hgt - 1,
           Cardinality(DOMAIN rows) = rowcount
    PROVE  rowcount = hgt
<1>1. Cardinality(0 .. hgt - 1) = hgt
    BY FS_Interval
<1> QED BY <1>1

\* The line of an interlaced image.
LEMMA InterlacedLine ==
    ASSUME Sized, image.interlaced, ~Low, InterlacedRows, PutLine,
           IsFiniteSet(DOMAIN rows), Cardinality(DOMAIN rows) = rowcount,
           rowcount \in Nat, rowcount' <= image.hgt
    PROVE  /\ InterlacedRows'
           /\ IsFiniteSet(DOMAIN rows') /\ Cardinality(DOMAIN rows') = rowcount'
<1> DEFINE hgt == image.hgt
           passed == NextStart >= hgt
<1>1. /\ image' = image /\ rowcount' = rowcount + 1
      /\ inter_step' = IF passed THEN inter_step + 1 ELSE inter_step
      /\ startloc' = IF passed THEN PassStart(inter_step + 1, NextStart)
                               ELSE NextStart
    BY DEF PutLine, picture
<1>2. DOMAIN rows' = DOMAIN rows \cup {startloc'}
    BY DEF PutLine
<1>3. /\ hgt \in Nat /\ hgt > 0 /\ (hgt = 1 \/ hgt >= 5)
    BY DEF Sized, ImageRecord, Low
<1>4. /\ inter_step \in 1 .. 4 /\ startloc \in Int /\ startloc >= -8
      /\ startloc < hgt /\ (inter_step > 1 => startloc >= 1)
      /\ OnPass(inter_step, startloc)
      /\ DOMAIN rows = {r \in 0 .. hgt - 1 : PassedRow(inter_step, startloc, r)}
    BY DEF InterlacedRows
<1>5. NextStart = startloc + (IF inter_step \in {1, 2} THEN 8
                              ELSE IF inter_step = 3 THEN 4 ELSE 2)
    <2>1. inter_step = 1 \/ inter_step = 2 \/ inter_step = 3 \/ inter_step = 4
        BY <1>4
    <2> QED BY <2>1 DEF NextStart
<1>6. NextStart \in Int
    BY <1>4, <1>5
<1>7. CASE ~passed
    <2>1. inter_step' = inter_step /\ startloc' = NextStart
        BY <1>1, <1>7
    <2>2. /\ OnPass(inter_step, NextStart) /\ NextStart >= 0
          /\ ~PassedRow(inter_step, startloc, NextStart)
          /\ \A r \in Nat : PassedRow(inter_step, NextStart, r)
                <=> (PassedRow(inter_step, startloc, r) \/ r = NextStart)
        BY <1>4, <1>5, PassGoesOn
    <2>3. NextStart < hgt /\ NextStart \in 0 .. hgt - 1
        BY <1>3, <1>6, <1>7, <2>2
    <2>4. NextStart \notin DOMAIN rows
        BY <1>4, <2>2
    <2>5. DOMAIN rows' = {r \in 0 .. hgt - 1 : PassedRow(inter_step, NextStart, r)}
        <3>1. ASSUME NEW r \in 0 .. hgt - 1
              PROVE  PassedRow(inter_step, NextStart, r)
                        <=> (PassedRow(inter_step, startloc, r) \/ r = NextStart)
            BY <1>3, <2>2
        <3> HIDE DEF hgt
        <3> QED BY <1>2, <1>4, <2>1, <2>3, <3>1
    <2>6. IsFiniteSet(DOMAIN rows') /\ Cardinality(DOMAIN rows') = rowcount'
        BY <1>1, <1>2, <2>1, <2>4, RowCounted
    <2>7. inter_step > 1 => NextStart >= 1
        BY <1>4, <1>5
    <2> QED BY <1>1, <1>3, <1>4, <1>6, <2>1, <2>2, <2>3, <2>5, <2>6, <2>7
            DEF InterlacedRows
<1>8. CASE passed /\ (inter_step = 4 \/ hgt = 1)
    <2>1. hgt = 1 => inter_step = 1
        BY <1>4
    <2>2. \/ inter_step = 4 /\ startloc + 2 >= hgt
          \/ hgt = 1 /\ inter_step = 1 /\ startloc >= 0
        <3>1. CASE inter_step = 4
            BY <1>5, <1>8, <3>1
        <3>2. CASE hgt = 1 /\ inter_step = 1
            <4>1. startloc + 8 >= 1
                BY <1>5, <1>8, <3>2
            <4>2. startloc % 8 = 0
                BY <1>4, <3>2 DEF OnPass
            <4>3. startloc >= 0
                BY ONLY <1>4, <4>1, <4>2
            <4> QED BY <3>2, <4>3
        <3> QED BY <1>8, <2>1, <3>1, <3>2
    <2>3. \A r \in 0 .. hgt - 1 : PassedRow(inter_step, startloc, r)
        <3> HIDE DEF hgt
        <3> QED BY <1>3, <1>4, <2>2, PassLast
    <2>4. DOMAIN rows = 0 .. hgt - 1
        BY <1>4, <2>3
    <2>5. rowcount = hgt
        BY <1>3, <2>4, RowsAll
    <2> QED BY <1>1, <1>3, <2>5
<1>9. CASE passed /\ inter_step # 4 /\ hgt # 1
    <2>1. PICK step \in 1 .. 3 : step = inter_step
        BY <1>4, <1>9
    <2>2. PICK first \in Int :
             first = IF step = 1 THEN 4 ELSE IF step = 2 THEN 2 ELSE 1
        OBVIOUS
    <2>3. inter_step' = step + 1 /\ startloc' = first
        <3>1. PassStart(step + 1, NextStart) = first
            <4>1. step = 1 \/ step = 2 \/ step = 3
                OBVIOUS
            <4> QED BY <2>2, <4>1 DEF PassStart
        <3> QED BY <1>1, <1>9, <2>1, <3>1
    <2>4. startloc + (IF step \in {1, 2} THEN 8 ELSE 4) >= hgt /\ hgt >= 5
        BY <1>3, <1>5, <1>9, <2>1
    <2>5. /\ OnPass(step + 1, first)
          /\ ~PassedRow(step, startloc, first)
          /\ \A r \in 0 .. hgt - 1 :
                PassedRow(step + 1, first, r)
                   <=> (PassedRow(step, startloc, r) \/ r = first)
        <3> HIDE DEF hgt
        <3> QED BY <1>3, <1>4, <2>1, <2>2, <2>4, PassEnds
    <2>6. first \in 0 .. hgt - 1 /\ first >= 1
        BY <1>3, <2>2, <2>4
    <2>7. first \notin DOMAIN rows
        BY <1>4, <2>1, <2>5
    <2>8. DOMAIN rows' = {r \in 0 .. hgt - 1 : PassedRow(step + 1, first, r)}
        <3> HIDE DEF hgt
        <3> QED BY <1>2, <1>4, <2>1, <2>3, <2>5, <2>6
    <2>9. IsFiniteSet(DOMAIN rows') /\ Cardinality(DOMAIN rows') = rowcount'
        BY <1>1, <1>2, <2>3, <2>7, RowCounted
    <2> QED BY <1>1, <1>3, <2>3, <2>5, <2>6, <2>8, <2>9 DEF InterlacedRows
<1> QED BY <1>7, <1>8, <1>9

\* A line is put into a row that is new, whatever the order of the rows.
LEMMA DecodedLine ==
    ASSUME Sized, Decoded, PutLine
    PROVE  Decoded'
<1>1. /\ image' = image /\ rowcount' = rowcount + 1 /\ rowcount \in Nat
      /\ image.hgt \in Nat
    BY DEF PutLine, picture, Decoded, Sized, ImageRecord
<1>2. Low' <=> Low
    BY <1>1 DEF Low
<1>3. CASE Low \/ rowcount' > image.hgt
    BY <1>1, <1>2, <1>3 DEF Decoded
<1>4. CASE ~Low /\ rowcount' <= image.hgt
    <2>1. /\ IsFiniteSet(DOMAIN rows) /\ Cardinality(DOMAIN rows) = rowcount
          /\ image.interlaced => InterlacedRows
          /\ ~image.interlaced => DOMAIN rows = 0 .. rowcount - 1
        BY <1>1, <1>4 DEF Decoded
    <2>2. CASE image.interlaced
        BY <1>1, <1>4, <2>1, <2>2, InterlacedLine DEF Decoded
    <2>3. CASE ~image.interlaced
        <3>1. DOMAIN rows' = DOMAIN rows \cup {rowcount}
            BY <2>3 DEF PutLine
        <3>2. rowcount \notin DOMAIN rows /\ DOMAIN rows' = 0 .. rowcount' - 1
            BY <1>1, <2>1, <2>3, <3>1
        <3>3. IsFiniteSet(DOMAIN rows') /\ Cardinality(DOMAIN rows') = rowcount'
            BY <1>1, <2>1, <3>1, <3>2, RowCounted
        <3> QED BY <1>1, <2>3, <3>2, <3>3 DEF Decoded
    <2> QED BY <2>2, <2>3
<1> QED BY <1>1, <1>3, <1>4

\* An image begins without rows.
LEMMA DecodedNone ==
    ASSUME rows' = <<>>, rowcount' = 0, Sized',
           image'.interlaced => startloc' = -8 /\ inter_step' = 1
    PROVE  Decoded'
<1>1. DOMAIN rows' = {}
    OBVIOUS
<1>2. IsFiniteSet(DOMAIN rows') /\ Cardinality(DOMAIN rows') = 0
    BY <1>1, FS_EmptySet
<1>3. ~image'.interlaced => DOMAIN rows' = 0 .. rowcount' - 1
    BY <1>1
<1>4. image'.interlaced => InterlacedRows'
    <2> SUFFICES ASSUME image'.interlaced PROVE InterlacedRows'
        OBVIOUS
    <2>1. image'.hgt > 0 /\ image'.hgt \in Nat
        BY DEF Sized, ImageRecord
    <2>2. \A r \in 0 .. image'.hgt - 1 : ~PassedRow(1, -8, r)
        BY <2>1 DEF PassedRow
    <2>3. OnPass(1, -8)
        BY DEF OnPass
    <2> QED BY <1>1, <2>1, <2>2, <2>3 DEF InterlacedRows
<1> QED BY <1>2, <1>3, <1>4 DEF Decoded

LEMMA DecodedSame ==
    ASSUME Decoded, image' = image, UNCHANGED <<rows, rowcount, startloc, inter_step>>
    PROVE  Decoded'
    BY DEF Decoded, InterlacedRows, Low

LEMMA DecodedStep ==
    ASSUME Sized, Sized', Decoded, [GifNext]_gifVars
    PROVE  Decoded'
<1>1. CASE ReadImage
    <2>1. CASE UNCHANGED <<picture, lines>>
        BY <2>1, DecodedSame DEF picture, lines
    <2>2. CASE /\ rows' = <<>> /\ rowcount' = 0 /\ image' = Described
               /\ startloc' = IF Described.interlaced THEN -8 ELSE startloc
               /\ inter_step' = 1
        BY <2>2, DecodedNone
    <2> QED BY <1>1, <2>1, <2>2 DEF ReadImage
<1>2. CASE PutLine
    BY <1>2, DecodedLine
<1>3. CASE Create \/ ReadHeader \/ NextBlock \/ ReadExtension \/ ReadText \/ Destroy
           \/ StartCode \/ FetchByte \/ UseEnding \/ UseClear \/ UseFirst
           \/ UseNext \/ Damaged \/ PopRest \/ Paint
    <2>1. image' = image /\ UNCHANGED <<rows, rowcount, startloc, inter_step>>
        BY <1>3 DEF Create, ReadHeader, NextBlock, ReadExtension, ReadText, Destroy,
                    StartCode, FetchByte, UseEnding, UseClear, UseFirst, UseNext,
                    Damaged, HasCode, PopRest, Paint, picture, lines, blockless
    <2> QED BY <2>1, DecodedSame
<1>4. CASE UNCHANGED gifVars
    BY <1>4, DecodedSame DEF gifVars, picture, lines
<1> QED BY <1>1, <1>2, <1>3, <1>4 DEF GifNext

LEMMA LinesDecoded ==
    ASSUME Sized, Decoded, rowcount <= image.hgt
    PROVE  LinesInFrame
<1> SUFFICES ASSUME ~Low
             PROVE  /\ \A r \in DOMAIN rows : r \in 0 .. image.hgt - 1
                    /\ rowcount = image.hgt => DOMAIN rows = 0 .. image.hgt - 1
    BY DEF LinesInFrame
<1>1. rowcount \in Nat /\ image.hgt \in Nat
    BY DEF Sized, ImageRecord, Decoded
<1>2. /\ IsFiniteSet(DOMAIN rows) /\ Cardinality(DOMAIN rows) = rowcount
      /\ DOMAIN rows \subseteq 0 .. image.hgt - 1
    BY <1>1 DEF Decoded, InterlacedRows
<1>3. /\ IsFiniteSet(0 .. image.hgt - 1)
      /\ Cardinality(0 .. image.hgt - 1) = image.hgt
    <2>1. PICK hgt \in Nat : hgt = image.hgt
        BY <1>1
    <2>2. IsFiniteSet(0 .. hgt - 1) /\ Cardinality(0 .. hgt - 1) = hgt
        BY FS_Interval
    <2> QED BY <2>1, <2>2
<1>4. Cardinality(0 .. image.hgt - 1) = Cardinality(DOMAIN rows)
         => 0 .. image.hgt - 1 = DOMAIN rows
    BY <1>2, <1>3, FS_Subset
<1> QED BY <1>2, <1>3, <1>4

LEMMA LineInit == GifInit => Sized /\ Decoded
<1> SUFFICES ASSUME GifInit PROVE Sized /\ Decoded
    OBVIOUS
<1>1. image = NoImage /\ at = "create" /\ rows = <<>> /\ rowcount = 0
    BY DEF GifInit
<1>2. Sized
    BY <1>1 DEF Sized, NoImage, ImageRecord
<1>3. DOMAIN rows = {} /\ ~image.interlaced
    BY <1>1 DEF NoImage
<1>4. IsFiniteSet(DOMAIN rows) /\ Cardinality(DOMAIN rows) = 0
    BY <1>3, FS_EmptySet
<1>5. DOMAIN rows = 0 .. rowcount - 1
    BY <1>1, <1>3
<1> QED BY <1>1, <1>2, <1>3, <1>4, <1>5 DEF Decoded

LEMMA LinesHold == GifSpec => [](Sized /\ Decoded)
<1>1. Input => image \in ImageRecord
    BY DEF Input
<1>2. Sized /\ Decoded /\ Input' /\ [GifNext]_gifVars => (Sized /\ Decoded)'
    <2>1. Input' => image' \in ImageRecord
        BY DEF Input
    <2> QED BY <2>1, SizedStep, DecodedStep
<1> QED BY <1>2, LineInit, InputHolds, PTL DEF GifSpec

\* For every file and every height, interlaced or not: as long as the data has
\* no more lines than the image has, a row lies in the image, none is decoded
\* over another one, and when all were decoded none is missing.
THEOREM GifLinesInFrame == GifSpec => [](rowcount <= image.hgt => LinesInFrame)
<1>1. Sized /\ Decoded => (rowcount <= image.hgt => LinesInFrame)
    BY LinesDecoded
<1> QED BY <1>1, LinesHold, PTL

\* Damaged files too stay within the code table and within dstack.
THEOREM GifFrameOK == GifSpec => []FrameOK
<1>1. Input /\ Reader /\ CodeTable /\ Strings /\ Owned => FrameOK
    <2> SUFFICES ASSUME Input, Reader, CodeTable, Strings, Owned
                 PROVE  FrameOK
        OBVIOUS
    <2>1. curr_size \in image.size + 1 .. Greater(MaxBits, image.size + 1)
        <3>1. image.size \in 2 .. 9 /\ MaxBits \in 3 .. 12
            BY CodeSizes, GifAssumption DEF GifAssumption
        <3> QED BY <3>1 DEF Reader, Greater
    <2>2. image.size \in 2 .. 9 /\ {image.wdt, image.hgt} \subseteq Nat
        BY DEF Input, ImageRecord
    <2>3. nbits_left \in 0 .. 20
        BY DEF Reader
    <2>4. slot <= top_slot
        BY DEF CodeTable
    <2> QED BY <2>1, <2>2, <2>3, <2>4 DEF FrameOK, Input, Reader, Strings, Owned
<1> QED BY <1>1, InputHolds, ReaderHolds, TableHolds, StringsHolds, OwnedHolds, PTL

(***************************************************************************)
(* Each step reads on or leaves less to do.                                *)
(***************************************************************************)
Decoding == {"code", "bits", "lines"}

\* A line that is being filled has room.
Progress ==
    /\ at \in {"create", "header"} => inputPos = 0
    /\ at \in Decoding => Len(line) < image.wdt

LEMMA StageValue ==
    /\ Stage["create"] = 5 /\ Stage["header"] = 4 /\ Stage["block"] = 3
    /\ Stage["extension"] = 3 /\ Stage["text"] = 3 /\ Stage["image"] = 3
    /\ Stage["code"] = 4 /\ Stage["bits"] = 3 /\ Stage["lines"] = 5
    /\ Stage["paint"] = 2 /\ Stage["returned"] = 1 /\ Stage["astray"] = 0
    /\ Stage["done"] = 0
    BY DEF Stage

LEMMA ProgressStep ==
    ASSUME Input, Input', Strings, Progress, [GifNext]_gifVars
    PROVE  Progress'
<1> USE DEF Progress, Decoding
<1>1. CASE Create
    BY <1>1 DEF Create
<1>2. CASE ReadHeader \/ NextBlock \/ ReadExtension \/ ReadText \/ Destroy \/ Paint
    <2>1. at' \notin Decoding \cup {"create", "header"}
        BY <1>2 DEF ReadHeader, NextBlock, ReadExtension, ReadText, Destroy, Paint,
                    AtTrailer, Return
    <2> QED BY <2>1
<1>3. CASE ReadImage
    <2>1. CASE Return("nothing") \/ Return("error")
        BY <2>1 DEF Return
    <2>2. CASE ~NoPixels /\ image' = Described /\ line' = <<>> /\ at' = "code"
        <3>1. image'.wdt # 0 /\ image'.wdt \in Nat
            BY <2>2 DEF NoPixels, Input, ImageRecord
        <3> QED BY <2>2, <3>1
    <2> QED BY <1>3, <2>1, <2>2 DEF ReadImage
<1>4. CASE StartCode \/ FetchByte \/ UseEnding \/ UseClear \/ UseFirst
           \/ UseNext \/ Damaged
    <2>1. at \in Decoding /\ UNCHANGED <<line, image>>
        BY <1>4 DEF StartCode, FetchByte, UseEnding, UseClear, UseFirst, UseNext,
                    Damaged, HasCode, lines, picture
    <2>2. at' \notin {"create", "header"}
        BY <1>4 DEF StartCode, FetchByte, UseEnding, UseClear, UseFirst, UseNext,
                    Damaged, HasCode, TakeByte, Return
    <2> QED BY <2>1, <2>2
<1>5. CASE PutLine
    <2>1. at' = "lines" /\ line' = <<>> /\ image' = image /\ at = "lines"
        BY <1>5 DEF PutLine, picture
    <2>2. Len(line) \in Nat /\ image.wdt \in Nat
        BY DEF Strings, Input, ImageRecord
    <2> QED BY <2>1, <2>2
<1>6. CASE PopRest
    <2>1. /\ at = "lines" /\ Len(stack) < Room /\ line' = line \o stack
          /\ image' = image /\ at' \in {"paint", "code"}
        BY <1>6 DEF PopRest, picture
    <2>2. /\ Len(line) \in Nat /\ Len(stack) \in Nat /\ image.wdt \in Nat
          /\ Len(line \o stack) = Len(line) + Len(stack)
        BY DEF Strings, Input, ImageRecord
    <2> QED BY <2>1, <2>2 DEF Room
<1>7. CASE UNCHANGED gifVars
    BY <1>7 DEF gifVars, lines, picture
<1> QED BY <1>1, <1>2, <1>3, <1>4, <1>5, <1>6, <1>7 DEF GifNext

LEMMA ProgressHolds == GifSpec => []Progress
<1>1. GifInit => Progress
    BY DEF GifInit, Progress, Decoding
<1> QED BY <1>1, ProgressStep, InputHolds, StringsHolds, PTL DEF GifSpec

Advances == inputPos' > inputPos \/ (inputPos' = inputPos /\ Work' < Work)

\* Outside an image there is only the stage.
LEMMA WorkOutside ==
    ASSUME at \in Labels \ Decoding
    PROVE  Work = Stage[at] /\ Work \in 0 .. 5
<1>1. Stage[at] \in 0 .. 5
    BY StageValue DEF Labels, Decoding
<1> QED BY <1>1 DEF Work, Decoding

\* In it are bits and colours too.
LEMMA WorkInside ==
    ASSUME at \in Decoding, nbits_left \in Nat, stack \in Seq(Nat)
    PROVE  /\ Work = Stage[at] + 4096 * nbits_left + Len(stack)
           /\ Work \in Nat /\ Len(stack) \in Nat /\ Work >= 3
<1>1. Stage[at] \in 3 .. 5
    BY StageValue DEF Decoding
<1>2. Len(stack) \in Nat
    OBVIOUS
<1> QED BY <1>1, <1>2 DEF Work, Decoding, MAX_CODES

LEMMA AdvancesBlocks ==
    ASSUME Input, Input', Progress,
           ReadHeader \/ NextBlock \/ ReadExtension \/ ReadText \/ ReadImage
    PROVE  Advances
<1>1. inputPos \in Nat /\ inputPos' \in Nat /\ \A p \in Nat : ByteAt(p) \in 0 .. 255
    BY ByteType DEF Input
<1>2. at \in {"header", "block", "extension", "text", "image"}
    BY DEF ReadHeader, NextBlock, ReadExtension, ReadText, ReadImage
<1>3. CASE at' = "returned" /\ inputPos' = inputPos
    <2>1. Work >= 3
        BY <1>2, WorkOutside, StageValue DEF Labels, Decoding
    <2>2. Work' = 1
        BY <1>3, StageValue DEF Work
    <2>3. Work \in Int
        BY <1>2, WorkOutside DEF Labels, Decoding
    <2> QED BY <1>3, <2>1, <2>2, <2>3 DEF Advances
<1>4. CASE inputPos' > inputPos
    BY <1>4 DEF Advances
<1>5. CASE ReadHeader /\ at' # "returned"
    <2>1. ByteAt(10) \in 0 .. 255
        BY <1>1
    <2>2. TableBytes(ByteAt(10)) \in Nat
        BY ONLY <2>1, TableBytesType
    <2>3. inputPos' = 13 + TableBytes(ByteAt(10)) /\ inputPos = 0
        BY <1>5 DEF ReadHeader, Return, header_temp, global_flags, Progress
    <2> QED BY <1>4, <2>2, <2>3
<1>6. CASE ReadText /\ at' # "returned"
    <2>1. PICK n \in 0 .. 255 : n = ByteAt(inputPos)
        BY <1>1
    <2>2. inputPos' = inputPos + 1 + n
        BY <1>6, <2>1 DEF ReadText, Return
    <2> QED BY <1>1, <1>4, <2>2
<1>7. CASE ReadImage /\ at' # "returned"
    <2>1. ByteAt(inputPos + 8) \in 0 .. 255
        BY <1>1
    <2>2. TableBytes(ByteAt(inputPos + 8)) \in Nat
        BY ONLY <2>1, TableBytesType
    <2>3. inputPos' = inputPos + 10 + TableBytes(ByteAt(inputPos + 8))
        BY <1>7 DEF ReadImage, Return
    <2> QED BY <1>1, <1>4, <2>2, <2>3
<1>8. CASE NextBlock \/ (ReadExtension /\ at' # "returned")
    <2>1. \/ at' = "returned" /\ inputPos' = inputPos
          \/ inputPos' = inputPos + 1 \/ inputPos' = inputPos + 7
        BY <1>8 DEF NextBlock, ReadExtension, AtTrailer, Return
    <2> QED BY <1>1, <1>3, <1>4, <2>1
<1>9. CASE (ReadHeader \/ ReadExtension \/ ReadText \/ ReadImage) /\ at' = "returned"
    <2>1. inputPos' = inputPos
        BY <1>9 DEF ReadHeader, ReadExtension, ReadText, ReadImage, Return
    <2> QED BY <1>3, <1>9, <2>1
<1> QED BY <1>5, <1>6, <1>7, <1>8, <1>9

LEMMA AdvancesBits ==
    ASSUME Input, Input', Reader, Strings, StartCode \/ FetchByte
    PROVE  Advances
<1>1. inputPos \in Nat /\ nbits_left \in Nat /\ stack \in Seq(Nat)
    BY DEF Input, Reader, Strings
<1>2. CASE StartCode
    <2>1. /\ at = "code" /\ at' = "bits"
          /\ UNCHANGED <<inputPos, nbits_left, stack>>
        BY <1>2 DEF StartCode
    <2>2. Work = 4 + 4096 * nbits_left + Len(stack)
        BY <1>1, <2>1, WorkInside, StageValue DEF Decoding
    <2>3. Work' = 3 + (4096 * nbits_left + Len(stack))
        BY <2>1, StageValue DEF Work, MAX_CODES
    <2>4. Len(stack) \in Nat
        BY <1>1
    <2> QED BY <1>1, <2>1, <2>2, <2>3, <2>4 DEF Advances
<1>3. CASE FetchByte
    <2>1. \/ inputPos' = inputPos + 1 \/ inputPos' = inputPos + 2
          \/ at' = "returned" /\ inputPos' = inputPos
        BY <1>1, <1>3 DEF FetchByte, TakeByte, Return
    <2>2. CASE at' = "returned" /\ inputPos' = inputPos
        <3>1. Work' = 1
            BY <2>2, StageValue DEF Work
        <3>2. Work \in Nat /\ Work >= 3
            BY <1>1, <1>3, WorkInside DEF FetchByte, Decoding
        <3> QED BY <2>2, <3>1, <3>2 DEF Advances
    <2> QED BY <1>1, <2>1, <2>2 DEF Advances
<1> QED BY <1>2, <1>3

LEMMA AdvancesCodes ==
    ASSUME Input, Input', Reader, CodeTable, Strings, Strings',
           UseEnding \/ UseClear \/ UseFirst \/ UseNext \/ Damaged
    PROVE  Advances
<1>1. /\ inputPos' = inputPos /\ at = "bits"
      /\ nbits_left' = nbits_left - curr_size /\ curr_size <= nbits_left
    BY DEF UseEnding, UseClear, UseFirst, UseNext, Damaged, HasCode
<1>2. curr_size \in 3 .. 12 /\ nbits_left \in Nat
    BY CodeSizes DEF Reader
<1>3. stack \in Seq(Nat) /\ stack' \in Seq(Nat)
    BY DEF Strings
<1>4. Len(stack) \in Nat /\ Len(stack') \in Nat /\ Len(stack') <= 4097
    BY <1>3 DEF Strings, MAX_CODES
<1>5. Work = 3 + 4096 * nbits_left + Len(stack)
    BY <1>1, <1>2, <1>3, WorkInside, StageValue DEF Decoding
<1>6. CASE at' \in {"block", "paint", "astray"}
    <2>1. Work' <= 3 /\ Work' \in Nat
        BY <1>6, StageValue DEF Work
    <2> QED BY <1>1, <1>2, <1>4, <1>5, <2>1 DEF Advances
<1>7. CASE at' \in {"code", "lines"}
    <2>1. Work' = Stage[at'] + (4096 * nbits_left' + Len(stack'))
        BY <1>7 DEF Work, MAX_CODES
    <2>2. Stage[at'] <= 5 /\ Stage[at'] \in Nat
        BY <1>7, StageValue
    <2> QED BY <1>1, <1>2, <1>4, <1>5, <2>1, <2>2 DEF Advances
<1> QED BY <1>6, <1>7 DEF UseEnding, UseClear, UseFirst, UseNext, Damaged

LEMMA AdvancesLines ==
    ASSUME Input, Input', Reader, Strings, Strings', Progress, PutLine \/ PopRest
    PROVE  Advances
<1>1. /\ inputPos' = inputPos /\ at = "lines" /\ nbits_left' = nbits_left
    BY DEF PutLine, PopRest, bits
<1>2. /\ inputPos \in Nat /\ nbits_left \in Nat /\ stack \in Seq(Nat)
      /\ line \in Seq(Nat) /\ Len(line) < image.wdt /\ image.wdt \in Nat
    BY <1>1 DEF Input, Reader, Strings, Progress, Decoding, ImageRecord
<1>3. Len(stack) \in Nat /\ Len(line) \in Nat
    BY <1>2
<1>4. Work = 5 + 4096 * nbits_left + Len(stack)
    BY <1>1, <1>2, WorkInside, StageValue DEF Decoding
<1>5. CASE PutLine
    <2>1. PICK room \in Nat : room = Room /\ room >= 1
        BY <1>2, <1>3 DEF Room
    <2>2. at' = "lines" /\ stack' = SubSeq(stack, room + 1, Len(stack))
          /\ Len(stack) >= room
        BY <1>5, <2>1 DEF PutLine
    <2>3. Len(stack') = Len(stack) - room
        BY <1>2, <1>3, <2>1, <2>2
    <2>4. Work' = 5 + (4096 * nbits_left + Len(stack'))
        BY <1>1, <2>2, StageValue DEF Work, MAX_CODES
    <2> QED BY <1>1, <1>2, <1>3, <1>4, <2>1, <2>3, <2>4 DEF Advances
<1>6. CASE PopRest
    <2>1. at' \in {"paint", "code"} /\ stack' = <<>>
        BY <1>6 DEF PopRest
    <2>2. Len(stack') = 0
        BY <2>1
    <2>3. CASE at' = "paint"
        <3>1. Work' = 2
            BY <2>3, StageValue DEF Work
        <3> QED BY <1>1, <1>2, <1>3, <1>4, <3>1 DEF Advances
    <2>4. CASE at' = "code"
        <3>1. Work' = 4 + (4096 * nbits_left + 0)
            BY <1>1, <2>2, <2>4, StageValue DEF Work, MAX_CODES
        <3> QED BY <1>1, <1>2, <1>3, <1>4, <3>1 DEF Advances
    <2> QED BY <2>1, <2>3, <2>4
<1> QED BY <1>5, <1>6

LEMMA AdvancesEnds ==
    ASSUME Input, Create \/ Paint \/ Destroy
    PROVE  Advances
<1>1. /\ inputPos' = inputPos /\ inputPos \in Nat
      /\ \/ at = "create" /\ at' \in {"header", "done"}
         \/ at = "paint" /\ at' = "returned"
         \/ at = "returned" /\ at' = "done"
    BY DEF Create, Paint, Destroy, Return, Input
<1>2. Work = Stage[at] + 0 /\ Work' = Stage[at'] + 0
    BY <1>1 DEF Work
<1> QED BY <1>1, <1>2, StageValue DEF Advances

\* For every file, damaged ones included: nothing is read twice, and each step
\* that reads nothing leaves less to do before the next byte is read, so that
\* no loop of the decoder goes on without coming to the end of the file.
THEOREM GifFrameAdvances == GifSpec => FrameAdvances
<1>1. /\ Input /\ Input' /\ Reader /\ CodeTable /\ Strings /\ Strings' /\ Progress
      /\ [GifNext]_gifVars
      => [Advances]_gifVars
    <2> SUFFICES ASSUME Input, Input', Reader, CodeTable, Strings, Strings',
                        Progress, GifNext
                 PROVE  Advances
        OBVIOUS
    <2> QED BY AdvancesBlocks, AdvancesBits, AdvancesCodes, AdvancesLines,
               AdvancesEnds DEF GifNext
<1>2. [][Advances]_gifVars <=> FrameAdvances
    BY PTL DEF Advances, FrameAdvances
<1> QED BY <1>1, <1>2, InputHolds, ReaderHolds, TableHolds, StringsHolds,
           ProgressHolds, PTL DEF GifSpec
=============================================================================
